-------------------------- MODULE MemoryBudgetProofs --------------------------
(***************************************************************************)
(* The books of src/memory_budget.c balance for every number of regions,   *)
(* slots and callers, every unit and every width of the counters.          *)
(***************************************************************************)
EXTENDS MemoryBudget, FiniteSetTheorems, WellFoundedInduction, TLAPS

Words == 0..(WordSize - 1)

LEMMA Numbers ==
  /\ WordSize \in Nat /\ WordSize >= 1 /\ Unit \in Nat /\ Unit >= 1 /\ Unit <= WordSize
  /\ SWAP_SLOT_MAX \in Nat /\ SWAP_SLOT_MAX >= 1
  /\ Sizes \subseteq Words /\ Limits \subseteq Words
  /\ MaxUsed \in Nat /\ MaxUsed < WordSize
  /\ SwapRegion \in Regions
BY BudgetAssumption DEF Words

LEMMA QuotientSmall ==
  ASSUME NEW a \in Nat, NEW u \in Nat, u >= 1
  PROVE  a \div u \in 0..a
<1>1. a \div u \in Int /\ a = u * (a \div u) + (a % u) /\ a % u \in 0..(u - 1)
  OBVIOUS
<1>2. a \div u >= 0
  <2>1. SUFFICES ASSUME a \div u <= -1 PROVE FALSE
    BY <1>1
  <2>2. u * (a \div u) <= -u
    BY <1>1, <2>1
  <2>3. QED
    BY <1>1, <2>2
<1>3. u * (a \div u) >= a \div u
  BY <1>1, <1>2
<1>4. QED
  BY <1>1, <1>2, <1>3

LEMMA KbRange ==
  ASSUME NEW n \in Words
  PROVE  Kb(n) \in Words
<1>1. (n + Unit - 1) % WordSize \in Words
  <2>1. n + Unit - 1 \in Int /\ WordSize \in Nat /\ WordSize >= 1
    BY Numbers DEF Words
  <2>2. QED
    BY <2>1 DEF Words
<1>2. Kb(n) \in 0..((n + Unit - 1) % WordSize)
  BY <1>1, Numbers, QuotientSmall DEF Kb, Words
<1>3. \A m \in Words : \A k \in 0..m : k \in Words
  BY Numbers DEF Words
<1>4. QED
  BY <1>1, <1>2, <1>3

(* Rounding up, as the code does it, counts the KB that are needed.        *)
LEMMA KbCounts ==
  ASSUME NEW n \in Words, NEW k \in 1..WordSize
  PROVE  (k - 1) * Unit < n /\ n + Unit <= WordSize <=> k <= Kb(n)
<1> DEFINE m == n + Unit - 1
           q == m \div Unit
<1>0. n \in Nat /\ n < WordSize /\ k \in Nat /\ k >= 1 /\ m \in Nat
  BY Numbers DEF Words
<1>1. CASE n + Unit <= WordSize
  <2>1. m % WordSize = m
    BY <1>0, <1>1, Numbers
  <2>2. Kb(n) = q
    BY <2>1 DEF Kb
  <2>3. q \in Int /\ m = Unit * q + (m % Unit) /\ m % Unit \in 0..(Unit - 1)
    <3> HIDE DEF m
    <3>1. QED
      BY <1>0, Numbers
  <2> HIDE DEF q
  <2>4. Unit * q < n + Unit /\ Unit * q >= n
    BY <1>0, <2>3, Numbers
  <2>5. CASE k <= q
    <3>1. PICK d \in Nat : q = k + d
      BY <1>0, <2>3, <2>5
    <3>2. Unit * q = Unit * (k - 1) + Unit + Unit * d /\ Unit * d >= 0 /\ Unit * (k - 1) \in Int
      BY <1>0, <3>1, Numbers
    <3>3. Unit * (k - 1) < n
      BY <1>0, <2>3, <2>4, <3>2, Numbers
    <3>4. QED
      BY <1>0, <1>1, <2>2, <2>5, <3>3, Numbers
  <2>6. CASE ~(k <= q)
    <3>1. PICK d \in Nat : k - 1 = q + d
      BY <1>0, <2>3, <2>6
    <3>2. Unit * (k - 1) = Unit * q + Unit * d /\ Unit * d >= 0 /\ Unit * q \in Int
      BY <2>3, <3>1, Numbers
    <3>3. ~(Unit * (k - 1) < n)
      BY <1>0, <2>4, <3>2, Numbers
    <3>4. QED
      BY <1>0, <2>2, <2>3, <2>6, <3>3, Numbers
  <2>7. QED
    BY <2>5, <2>6
<1>2. CASE ~(n + Unit <= WordSize)
  <2>1. m - WordSize \in 0..(Unit - 1) /\ m - WordSize < WordSize
    BY <1>0, <1>2, Numbers
  <2>2. m % WordSize = m - WordSize
    BY <1>0, <2>1, Numbers
  <2>3. Kb(n) = (m - WordSize) \div Unit
    BY <2>2 DEF Kb
  <2>4. \A x \in 0..(Unit - 1) : x \div Unit = 0
    BY Numbers
  <2>5. Kb(n) = 0
    BY <2>1, <2>3, <2>4
  <2>6. QED
    BY <1>0, <1>2, <2>5
<1>3. QED
  BY <1>1, <1>2

LEMMA HeldCharged ==
  ASSUME NEW S, NEW f \in [S -> Words]
  PROVE  HeldKb(f) = {h \in S \X (1..WordSize) : h[2] <= Kb(f[h[1]])}
<1>1. ASSUME NEW h \in S \X (1..WordSize)
      PROVE  (h[2] - 1) * Unit < f[h[1]] /\ f[h[1]] + Unit <= WordSize <=> h[2] <= Kb(f[h[1]])
  <2>1. f[h[1]] \in Words /\ h[2] \in 1..WordSize
    OBVIOUS
  <2>2. QED
    BY <2>1, KbCounts
<1>2. DOMAIN f = S
  OBVIOUS
<1>3. QED
  BY <1>1, <1>2 DEF HeldKb

LEMMA HeldFinite ==
  ASSUME NEW S, IsFiniteSet(S), NEW f \in [S -> Words]
  PROVE  IsFiniteSet(HeldKb(f)) /\ Cardinality(HeldKb(f)) \in Nat
<1>1. IsFiniteSet(1..WordSize)
  BY Numbers, FS_Interval
<1>2. IsFiniteSet(S \X (1..WordSize))
  BY <1>1, FS_Product
<1>3. HeldKb(f) \in SUBSET (S \X (1..WordSize))
  BY DEF HeldKb
<1>4. IsFiniteSet(HeldKb(f))
  BY <1>2, <1>3, FS_Subset
<1>5. QED
  BY <1>4, FS_CardinalityType

(* One more holder holds Kb(n) more.                                       *)
LEMMA HeldAdd ==
  ASSUME NEW S, IsFiniteSet(S), NEW f \in [S -> Words], NEW x, x \notin S, NEW n \in Words
  PROVE  Cardinality(HeldKb([y \in S \cup {x} |-> IF y = x THEN n ELSE f[y]]))
           = Cardinality(HeldKb(f)) + Kb(n)
<1> DEFINE g == [y \in S \cup {x} |-> IF y = x THEN n ELSE f[y]]
           new == {x} \X (1..Kb(n))
<1>1. Kb(n) \in Nat /\ Kb(n) < WordSize /\ WordSize \in Nat
  BY KbRange, Numbers DEF Words
<1>0. /\ HeldKb(f) = {h \in S \X (1..WordSize) : h[2] <= Kb(f[h[1]])}
      /\ HeldKb(g) = {h \in (S \cup {x}) \X (1..WordSize) : h[2] <= Kb(g[h[1]])}
  <2>1. g \in [S \cup {x} -> Words]
    OBVIOUS
  <2> HIDE DEF g
  <2>2. QED
    BY <2>1, HeldCharged
<1>2. HeldKb(g) = HeldKb(f) \cup new
  <2>1. ASSUME NEW h \in (S \cup {x}) \X (1..WordSize)
        PROVE  h[2] <= Kb(g[h[1]]) <=> h \in HeldKb(f) \/ h \in new
    <3>1. CASE h[1] = x
      BY <1>0, <1>1, <3>1
    <3>2. CASE h[1] # x
      BY <1>0, <1>1, <3>2
    <3>3. QED
      BY <3>1, <3>2
  <2>2. HeldKb(f) \subseteq (S \cup {x}) \X (1..WordSize)
    BY <1>0
  <2>3. new \subseteq (S \cup {x}) \X (1..WordSize)
    BY <1>1
  <2>4. HeldKb(g) = {h \in (S \cup {x}) \X (1..WordSize) : h[2] <= Kb(g[h[1]])}
    BY <1>0
  <2>5. QED
    BY <2>1, <2>2, <2>3, <2>4
<1>3. HeldKb(f) \cap new = {}
  BY <1>0
<1>4. IsFiniteSet(new) /\ Cardinality(new) = Kb(n)
  <2>1. IsFiniteSet({x}) /\ Cardinality({x}) = 1
    BY FS_Singleton
  <2>2. IsFiniteSet(1..Kb(n)) /\ Cardinality(1..Kb(n)) = Kb(n)
    BY <1>1, FS_Interval
  <2>3. IsFiniteSet(new) /\ Cardinality(new) = Cardinality({x}) * Cardinality(1..Kb(n))
    BY <2>1, <2>2, FS_Product
  <2>4. QED
    BY <1>1, <2>1, <2>2, <2>3
<1>5. IsFiniteSet(HeldKb(f)) /\ Cardinality(HeldKb(f)) \in Nat
  BY HeldFinite
<1>6. Cardinality(HeldKb(f) \cup new)
        = Cardinality(HeldKb(f)) + Cardinality(new) - Cardinality(HeldKb(f) \cap new)
  <2> HIDE DEF new
  <2>1. QED
    BY <1>4, <1>5, FS_Union
<1>7. Cardinality(HeldKb(f) \cap new) = 0
  BY <1>3, FS_EmptySet
<1>8. Cardinality(HeldKb(f) \cup new) = Cardinality(HeldKb(f)) + Kb(n)
  <2> HIDE DEF new
  <2>1. QED
    BY <1>1, <1>4, <1>5, <1>6, <1>7
<1>9. QED
  BY <1>2, <1>8

(* One holder less.                                                        *)
LEMMA HeldRemove ==
  ASSUME NEW S, IsFiniteSet(S), NEW f \in [S -> Words], NEW x \in S
  PROVE  /\ Cardinality(HeldKb(f)) = Cardinality(HeldKb([y \in S \ {x} |-> f[y]])) + Kb(f[x])
         /\ Cardinality(HeldKb([y \in S \ {x} |-> f[y]])) \in Nat
<1> DEFINE T == S \ {x}
           g == [y \in T |-> f[y]]
<1>1. IsFiniteSet(T) /\ x \notin T /\ g \in [T -> Words] /\ f[x] \in Words
  BY FS_RemoveElement
<1>2. f = [y \in T \cup {x} |-> IF y = x THEN f[x] ELSE g[y]]
  OBVIOUS
<1>3. Cardinality(HeldKb([y \in T \cup {x} |-> IF y = x THEN f[x] ELSE g[y]]))
        = Cardinality(HeldKb(g)) + Kb(f[x])
  <2> HIDE DEF T, g
  <2>1. QED
    BY <1>1, HeldAdd
<1>4. Cardinality(HeldKb(g)) \in Nat
  <2> HIDE DEF T, g
  <2>1. QED
    BY <1>1, HeldFinite
<1>5. QED
  BY <1>2, <1>3, <1>4
-------------------------------------------------------------------------------
(* The least of a set of naturals, and with it what Min chooses.           *)
Before == {p \in Nat \X Nat : p[1] < p[2]}

LEMMA NatOrder == IsWellFoundedOn(Before, Nat)
BY NatLessThanWellFounded DEF OpToRel, Before

LEMMA MinIsLeast ==
  ASSUME NEW T \in SUBSET Nat, T # {}
  PROVE  Min(T) \in T /\ \A y \in T : Min(T) <= y
<1>1. PICK x \in T : \A y \in T : ~(<<y, x>> \in Before)
  BY NatOrder, WFMin
<1>2. ASSUME NEW y \in T PROVE x <= y
  <2>1. <<y, x>> \in Nat \X Nat /\ x \in Nat /\ y \in Nat
    OBVIOUS
  <2>2. ~(y < x)
    BY <1>1, <2>1 DEF Before
  <2>3. QED
    BY <2>1, <2>2
<1>3. QED
  BY <1>2 DEF Min
-------------------------------------------------------------------------------
(* Until one is revived a free slot owns no memory: no free gives back     *)
(* what was not charged.                                                   *)
FreeSlotsOwnNothing == ~revived => \A i \in Slots : slot[i].loaded => slot[i].in_use

(* What the accounts rest on: the charges are finitely many and typed, and *)
(* no counter has passed the bound below which the words do not wrap.      *)
BudgetInv ==
  /\ TypeOK
  /\ IsFiniteSet(DOMAIN charge)
  /\ charge \in [DOMAIN charge -> [region : Regions, size : Words]]
  /\ \A r \in Regions : used[r] <= MaxUsed
  /\ ChargesAccounted
  /\ FreeSlotsOwnNothing

Exact(r) == r # SwapRegion \/ ~revived
Chargers(r) == {x \in DOMAIN charge : charge[x].region = r}
SlotsInUse == {j \in Slots : slot[j].in_use}

LEMMA ChargesCounted ==
  ASSUME BudgetInv, NEW r \in Regions
  PROVE  /\ IsFiniteSet(Chargers(r)) /\ ChargesOf(r) \in [Chargers(r) -> Words]
         /\ Cardinality(HeldKb(ChargesOf(r))) \in Nat
<1>1. IsFiniteSet(Chargers(r))
  <2>1. Chargers(r) \in SUBSET DOMAIN charge
    BY DEF Chargers
  <2>2. QED
    BY <2>1, FS_Subset DEF BudgetInv
<1>2. ChargesOf(r) \in [Chargers(r) -> Words]
  BY DEF ChargesOf, Chargers, BudgetInv
<1>3. QED
  BY <1>1, <1>2, HeldFinite

LEMMA SlotsCounted ==
  ASSUME BudgetInv
  PROVE  /\ IsFiniteSet(SlotsInUse) /\ SlotSizes \in [SlotsInUse -> Words]
         /\ Cardinality(HeldKb(SlotSizes)) \in Nat
<1>1. IsFiniteSet(SlotsInUse)
  <2>1. IsFiniteSet(Slots)
    BY Numbers, FS_Interval DEF Slots
  <2>2. SlotsInUse \in SUBSET Slots
    BY DEF SlotsInUse
  <2>3. QED
    BY <2>1, <2>2, FS_Subset
<1>2. SlotSizes \in [SlotsInUse -> Words]
  BY DEF SlotSizes, SlotsInUse, BudgetInv, TypeOK, Words
<1>3. QED
  BY <1>1, <1>2, HeldFinite

(* memory_budget_alloc's addition does not wrap inside the bound.          *)
LEMMA ChargedValue ==
  ASSUME BudgetInv, NEW r \in Regions, NEW size \in Words, InModel(r, size)
  PROVE  /\ Kb(size) \in Nat /\ used[r] \in Nat /\ used[r] + Kb(size) <= MaxUsed
         /\ Charged(used, r, size) = [used EXCEPT ![r] = used[r] + Kb(size)]
         /\ Charged(used, r, size) \in [Regions -> Words]
<1>1. Kb(size) \in Nat /\ used[r] \in Nat /\ used \in [Regions -> Words]
  BY KbRange DEF BudgetInv, TypeOK, Words
<1>2. used[r] + Kb(size) <= MaxUsed
  BY DEF InModel
<1>3. (used[r] + Kb(size)) % WordSize = used[r] + Kb(size)
  BY <1>1, <1>2, Numbers
<1>4. used[r] + Kb(size) \in Words
  BY <1>1, <1>2, Numbers DEF Words
<1>5. Charged(used, r, size) = [used EXCEPT ![r] = used[r] + Kb(size)]
  BY <1>3 DEF Charged
<1>6. QED
  BY <1>1, <1>2, <1>4, <1>5

(* memory_budget_free gives back in full what a holder was charged.        *)
LEMMA ReleasedValue ==
  ASSUME NEW u \in [Regions -> Words], NEW r \in Regions, NEW size \in Words, Kb(size) <= u[r]
  PROVE  /\ Released(u, r, size) = [u EXCEPT ![r] = u[r] - Kb(size)]
         /\ Released(u, r, size) \in [Regions -> Words]
         /\ u[r] \in Nat /\ Kb(size) \in Nat
<1>1. u[r] \in Nat /\ Kb(size) \in Nat /\ u[r] < WordSize
  BY KbRange, Numbers DEF Words
<1>2. ~(Kb(size) > u[r]) /\ u[r] - Kb(size) \in Words
  BY <1>1, Numbers DEF Words
<1>3. QED
  BY <1>1, <1>2 DEF Released

LEMMA BudgetStarts == Init => BudgetInv
<1> SUFFICES ASSUME Init PROVE BudgetInv
  OBVIOUS
<1>1. 0 \in Words /\ 0 <= MaxUsed
  BY Numbers DEF Words
<1>2. DOMAIN charge = {} /\ IsFiniteSet({})
  BY FS_EmptySet DEF Init
<1>3. \A i \in Slots : slot[i] = Unused
  BY DEF Init
<1>4. TypeOK
  <2>1. Unused \in [in_use : BOOLEAN, loaded : BOOLEAN, size : 0..(WordSize - 1)]
    BY <1>1 DEF Unused, Words
  <2>2. slot \in [Slots -> [in_use : BOOLEAN, loaded : BOOLEAN, size : 0..(WordSize - 1)]]
    BY <2>1 DEF Init
  <2>3. limit \in [Regions -> Words] /\ used \in [Regions -> Words]
    BY <1>1, Numbers DEF Init
  <2>4. stranded \in 0..MaxUsed /\ revived \in BOOLEAN
    <3>1. stranded = 0 /\ MaxUsed \in Nat
      BY Numbers DEF Init
    <3>2. stranded \in 0..MaxUsed
      BY <3>1
    <3>3. revived \in BOOLEAN
      BY Zenon DEF Init
    <3>4. QED
      BY <3>2, <3>3
  <2>5. QED
    BY <1>2, <2>2, <2>3, <2>4 DEF TypeOK, Words
<1>5. ASSUME NEW r \in Regions
      PROVE  used[r] = Cardinality(HeldKb(ChargesOf(r)))
                     + IF r # SwapRegion THEN 0 ELSE stranded + Cardinality(HeldKb(SlotSizes))
  <2>1. HeldKb(ChargesOf(r)) = {}
    BY <1>2 DEF HeldKb, ChargesOf
  <2>2. HeldKb(SlotSizes) = {}
    BY <1>3 DEF HeldKb, SlotSizes, Unused
  <2>3. Cardinality({}) = 0
    BY FS_EmptySet
  <2>4. QED
    BY <2>1, <2>2, <2>3 DEF Init
<1>6. ChargesAccounted
  BY <1>5 DEF ChargesAccounted
<1>7. FreeSlotsOwnNothing
  BY <1>3 DEF FreeSlotsOwnNothing, Unused
<1>8. charge \in [DOMAIN charge -> [region : Regions, size : Words]]
  BY <1>2 DEF Init
<1>9. QED
  BY <1>1, <1>2, <1>4, <1>6, <1>7, <1>8 DEF BudgetInv, Init

LEMMA UnchangedKeepsBudget ==
  ASSUME BudgetInv, UNCHANGED <<used, slot, charge, stranded, revived>>, limit' \in [Regions -> Words]
  PROVE  BudgetInv'
<1>1. ASSUME NEW r \in Regions PROVE ChargesOf(r)' = ChargesOf(r)
  BY DEF ChargesOf
<1>2. SlotSizes' = SlotSizes
  BY DEF SlotSizes
<1>3. ChargesAccounted'
  <2>1. ASSUME NEW r \in Regions, r # SwapRegion \/ ~revived'
        PROVE  used'[r] = Cardinality(HeldKb(ChargesOf(r)'))
                     + IF r # SwapRegion THEN 0 ELSE stranded' + Cardinality(HeldKb(SlotSizes'))
    BY <1>1, <1>2, <2>1 DEF BudgetInv, ChargesAccounted
  <2>2. QED
    BY <2>1 DEF ChargesAccounted, HeldKb
<1>4. TypeOK' /\ FreeSlotsOwnNothing'
  BY DEF BudgetInv, TypeOK, FreeSlotsOwnNothing, Words
<1>5. QED
  BY <1>3, <1>4 DEF BudgetInv

LEMMA AllocKeepsBudget ==
  ASSUME BudgetInv, NEW c \in Charges, NEW r \in Regions, NEW size \in Sizes,
         MemoryBudgetAlloc(c, r, size)
  PROVE  BudgetInv'
<1>1. CASE UNCHANGED vars
  <2>1. limit' \in [Regions -> Words]
    BY <1>1 DEF vars, BudgetInv, TypeOK, Words
  <2>2. QED
    BY <1>1, <2>1, UnchangedKeepsBudget DEF vars
<1>2. CASE ~UNCHANGED vars
  <2> DEFINE S == Chargers(r)
             f == ChargesOf(r)
  <2>1. /\ c \notin DOMAIN charge /\ InModel(r, size) /\ size \in Words
        /\ used' = Charged(used, r, size)
        /\ charge' = [x \in DOMAIN charge \cup {c} |->
                        IF x = c THEN [region |-> r, size |-> size] ELSE charge[x]]
        /\ UNCHANGED <<limit, slot, stranded, revived>>
    BY <1>2, Numbers DEF MemoryBudgetAlloc
  <2>2. /\ used' = [used EXCEPT ![r] = used[r] + Kb(size)] /\ used' \in [Regions -> Words]
        /\ Kb(size) \in Nat /\ used[r] \in Nat /\ used[r] + Kb(size) <= MaxUsed
        /\ used \in [Regions -> Words]
    BY <2>1, ChargedValue DEF BudgetInv, TypeOK, Words
  <2>3. DOMAIN charge' = DOMAIN charge \cup {c} /\ IsFiniteSet(DOMAIN charge')
    BY <2>1, FS_AddElement DEF BudgetInv
  <2>4. charge' \in [DOMAIN charge' -> [region : Regions, size : Words]]
    BY <2>1, <2>3 DEF BudgetInv
  <2>5. SlotSizes' = SlotSizes
    BY <2>1 DEF SlotSizes
  <2>6. ChargesOf(r)' = [y \in S \cup {c} |-> IF y = c THEN size ELSE f[y]]
    BY <2>1 DEF ChargesOf, Chargers
  <2>7. ASSUME NEW q \in Regions, q # r PROVE ChargesOf(q)' = ChargesOf(q)
    BY <2>1, <2>7 DEF ChargesOf
  <2>8. Cardinality(HeldKb(ChargesOf(r)')) = Cardinality(HeldKb(ChargesOf(r))) + Kb(size)
    <3>1. IsFiniteSet(S) /\ f \in [S -> Words] /\ c \notin S /\ size \in Words
      BY <2>1, ChargesCounted DEF Chargers
    <3>2. Cardinality(HeldKb([y \in S \cup {c} |-> IF y = c THEN size ELSE f[y]]))
            = Cardinality(HeldKb(f)) + Kb(size)
      <4> HIDE DEF S, f
      <4>1. QED
        BY <3>1, HeldAdd
    <3>3. QED
      BY <2>6, <3>2
  <2>9. ChargesAccounted'
    <3>1. ASSUME NEW q \in Regions, q # SwapRegion \/ ~revived'
          PROVE  used'[q] = Cardinality(HeldKb(ChargesOf(q)'))
                     + IF q # SwapRegion THEN 0 ELSE stranded + Cardinality(HeldKb(SlotSizes))
      <4>1. /\ used[q] = Cardinality(HeldKb(ChargesOf(q)))
                 + IF q # SwapRegion THEN 0 ELSE stranded + Cardinality(HeldKb(SlotSizes))
            /\ Cardinality(HeldKb(ChargesOf(q))) \in Nat /\ Cardinality(HeldKb(SlotSizes)) \in Nat
            /\ stranded \in Nat
        BY <2>1, <3>1, ChargesCounted, SlotsCounted, Numbers DEF BudgetInv, ChargesAccounted, TypeOK
      <4>2. CASE q = r
        BY <2>2, <2>8, <4>1, <4>2
      <4>3. CASE q # r
        BY <2>2, <2>7, <4>1, <4>3
      <4>4. QED
        BY <4>2, <4>3
    <3>2. HeldKb(SlotSizes)' = HeldKb(SlotSizes) /\ stranded' = stranded
      BY <2>1, <2>5 DEF HeldKb
    <3>3. QED
      BY <3>1, <3>2 DEF ChargesAccounted, HeldKb
  <2>10. \A q \in Regions : used'[q] <= MaxUsed
    BY <2>2 DEF BudgetInv
  <2>11. TypeOK'
    BY <2>1, <2>2, <2>3 DEF BudgetInv, TypeOK, Words
  <2>12. FreeSlotsOwnNothing'
    BY <2>1 DEF BudgetInv, FreeSlotsOwnNothing
  <2>13. QED
    BY <2>3, <2>4, <2>9, <2>10, <2>11, <2>12 DEF BudgetInv
<1>3. QED
  BY <1>1, <1>2

(* The account of a region, with the counts as numbers.                    *)
LEMMA AccountOf ==
  ASSUME BudgetInv, NEW q \in Regions
  PROVE  /\ Exact(q) => used[q] = Cardinality(HeldKb(ChargesOf(q)))
              + IF q # SwapRegion THEN 0 ELSE stranded + Cardinality(HeldKb(SlotSizes))
         /\ Cardinality(HeldKb(ChargesOf(q))) \in Nat /\ Cardinality(HeldKb(SlotSizes)) \in Nat
         /\ stranded \in Nat /\ used[q] \in Nat /\ used[q] <= MaxUsed
         /\ used \in [Regions -> Words]
BY ChargesCounted, SlotsCounted, Numbers DEF BudgetInv, ChargesAccounted, TypeOK, Words, Exact

(* A release takes no counter up and leaves the others alone.              *)
LEMMA ReleasedFacts ==
  ASSUME NEW u \in [Regions -> Words], NEW r \in Regions, NEW size \in Words
  PROVE  /\ Released(u, r, size) \in [Regions -> Words]
         /\ \A q \in Regions \ {r} : Released(u, r, size)[q] = u[q]
         /\ \A q \in Regions : Released(u, r, size)[q] <= u[q]
<1>1. \A q \in Regions : u[q] \in Nat
  BY Numbers DEF Words
<1>0. u[r] \in Nat /\ Kb(size) \in Nat /\ u[r] < WordSize /\ WordSize \in Nat
  BY KbRange, Numbers DEF Words
<1> DEFINE v == IF Kb(size) > u[r] THEN 0 ELSE u[r] - Kb(size)
<1>2. v \in Words /\ v <= u[r]
  BY <1>0 DEF Words
<1>3. Released(u, r, size) = [u EXCEPT ![r] = v]
  BY DEF Released
<1> HIDE DEF v
<1>4. QED
  BY <1>1, <1>2, <1>3

LEMMA FreeKeepsBudget ==
  ASSUME BudgetInv, NEW c \in Charges, MemoryBudgetFree(c)
  PROVE  BudgetInv'
<1>0. PICK r \in Regions, size \in Words :
        c \in DOMAIN charge /\ charge[c].region = r /\ charge[c].size = size
  BY DEF MemoryBudgetFree, BudgetInv
<1> DEFINE S == Chargers(r)
           f == ChargesOf(r)
<1>1. /\ c \in DOMAIN charge /\ r \in Regions /\ size \in Words
      /\ charge[c].region = r /\ charge[c].size = size
      /\ used' = Released(used, r, size)
      /\ charge' = [x \in DOMAIN charge \ {c} |-> charge[x]]
      /\ UNCHANGED <<limit, slot, stranded, revived>>
  BY <1>0 DEF MemoryBudgetFree
<1>2. c \in S /\ f[c] = size
  BY <1>1 DEF Chargers, ChargesOf
<1>3. ChargesOf(r)' = [y \in S \ {c} |-> f[y]]
  BY <1>1 DEF ChargesOf, Chargers
<1>4. ASSUME NEW q \in Regions, q # r PROVE ChargesOf(q)' = ChargesOf(q)
  BY <1>1, <1>4 DEF ChargesOf
<1>5. /\ Cardinality(HeldKb(f)) = Cardinality(HeldKb(ChargesOf(r)')) + Kb(size)
      /\ Cardinality(HeldKb(ChargesOf(r)')) \in Nat
  <2>1. IsFiniteSet(S) /\ f \in [S -> Words]
    BY <1>1, ChargesCounted
  <2>2. /\ Cardinality(HeldKb(f)) = Cardinality(HeldKb([y \in S \ {c} |-> f[y]])) + Kb(f[c])
        /\ Cardinality(HeldKb([y \in S \ {c} |-> f[y]])) \in Nat
    <3> HIDE DEF S, f
    <3>1. QED
      BY <1>2, <2>1, HeldRemove
  <2>3. QED
    BY <1>2, <1>3, <2>2
<1>6. Kb(size) \in Nat
  BY <1>1, KbRange DEF Words
<1>7. Exact(r) => Kb(size) <= used[r]
  BY <1>1, <1>5, <1>6, AccountOf
<1>8. /\ Exact(r) => used'[r] = used[r] - Kb(size)
      /\ \A q \in Regions \ {r} : used'[q] = used[q]
      /\ used'[r] <= used[r] /\ used' \in [Regions -> Words]
      /\ used \in [Regions -> Words] /\ used[r] \in Nat
  <2>1. used \in [Regions -> Words] /\ used' = Released(used, r, size) /\ used[r] \in Nat
    BY <1>1, AccountOf
  <2>2. Exact(r) => used'[r] = used[r] - Kb(size)
    BY <1>1, <1>7, <2>1, ReleasedValue
  <2>3. QED
    BY <1>1, <2>1, <2>2, ReleasedFacts
<1>9. SlotSizes' = SlotSizes
  BY <1>1 DEF SlotSizes
<1>10. ChargesAccounted'
  <2>1. ASSUME NEW q \in Regions, q # SwapRegion \/ ~revived'
        PROVE  used'[q] = Cardinality(HeldKb(ChargesOf(q)'))
                   + IF q # SwapRegion THEN 0 ELSE stranded' + Cardinality(HeldKb(SlotSizes'))
    <3>0. /\ used[q] = Cardinality(HeldKb(ChargesOf(q)))
              + IF q # SwapRegion THEN 0 ELSE stranded + Cardinality(HeldKb(SlotSizes))
          /\ Cardinality(HeldKb(ChargesOf(q))) \in Nat /\ Cardinality(HeldKb(SlotSizes)) \in Nat
          /\ stranded \in Nat /\ stranded' = stranded /\ Exact(q)
      BY <1>1, <2>1, AccountOf DEF Exact
    <3>1. CASE q = r
      <4>1. used'[q] = used[q] - Kb(size)
        BY <1>8, <3>0, <3>1
      <4>2. Cardinality(HeldKb(ChargesOf(q))) = Cardinality(HeldKb(ChargesOf(q)')) + Kb(size)
        BY <1>5, <3>1
      <4>3. Cardinality(HeldKb(ChargesOf(q)')) \in Nat
        BY <1>5, <3>1
      <4>4. QED
        BY <1>6, <1>9, <3>0, <4>1, <4>2, <4>3
    <3>2. CASE q # r
      BY <1>1, <1>4, <1>8, <1>9, <3>0, <3>2
    <3>3. QED
      BY <3>1, <3>2
  <2>2. QED
    BY <2>1 DEF ChargesAccounted, HeldKb
<1>11. \A q \in Regions : used'[q] <= MaxUsed
  <2>1. ASSUME NEW q \in Regions PROVE used'[q] <= MaxUsed
    <3>1. used[q] <= MaxUsed /\ used[q] \in Nat /\ used'[q] \in Nat /\ MaxUsed \in Nat
      BY <1>8, AccountOf, Numbers DEF Words
    <3>2. QED
      BY <1>8, <3>1
  <2>2. QED
    BY <2>1
<1>12. /\ DOMAIN charge' \subseteq DOMAIN charge /\ IsFiniteSet(DOMAIN charge')
       /\ charge' \in [DOMAIN charge' -> [region : Regions, size : Words]]
  BY <1>1, FS_RemoveElement DEF BudgetInv
<1>13. TypeOK'
  BY <1>1, <1>8, <1>12 DEF BudgetInv, TypeOK, Words
<1>14. FreeSlotsOwnNothing'
  BY <1>1 DEF BudgetInv, FreeSlotsOwnNothing
<1>15. QED
  BY <1>10, <1>11, <1>12, <1>13, <1>14 DEF BudgetInv

SlotRecords == [in_use : BOOLEAN, loaded : BOOLEAN, size : Words]

(* A step of the swap layer: the accounts of the other regions are not     *)
(* touched, and the one of the swap region has to balance again.           *)
LEMMA SwapKeepsBudget ==
  ASSUME BudgetInv, UNCHANGED <<limit, charge>>, slot' \in [Slots -> SlotRecords],
         FreeSlotsOwnNothing', stranded' \in Nat, revived' \in BOOLEAN,
         revived' => stranded' = stranded,
         \A q \in Regions \ {SwapRegion} : used'[q] = used[q],
         used' \in [Regions -> Words], used'[SwapRegion] <= MaxUsed,
         Cardinality(HeldKb(SlotSizes')) \in Nat,
         ~revived' => used'[SwapRegion] = Cardinality(HeldKb(ChargesOf(SwapRegion)))
                               + stranded' + Cardinality(HeldKb(SlotSizes'))
  PROVE  BudgetInv'
<1>1. ASSUME NEW q \in Regions, q # SwapRegion \/ ~revived'
      PROVE  used'[q] = Cardinality(HeldKb(ChargesOf(q)'))
                 + IF q # SwapRegion THEN 0 ELSE stranded' + Cardinality(HeldKb(SlotSizes'))
  <2>1. ChargesOf(q)' = ChargesOf(q)
    BY DEF ChargesOf
  <2>2. CASE q = SwapRegion
    BY <1>1, <2>1, <2>2, AccountOf
  <2>3. CASE q # SwapRegion
    BY <2>1, <2>3, AccountOf DEF Exact
  <2>4. QED
    BY <2>2, <2>3
<1>2. ChargesAccounted'
  BY <1>1 DEF ChargesAccounted, HeldKb
<1>3. \A q \in Regions : used'[q] <= MaxUsed
  BY AccountOf
<1>4. stranded' \in 0..MaxUsed
  <2>1. CASE revived'
    BY <2>1 DEF BudgetInv, TypeOK
  <2>2. CASE ~revived'
    <3>1. Cardinality(HeldKb(ChargesOf(SwapRegion))) \in Nat /\ MaxUsed \in Nat
      BY AccountOf, Numbers
    <3>2. QED
      BY <2>2, <3>1
  <2>3. QED
    BY <2>1, <2>2
<1>5. TypeOK'
  BY <1>4 DEF BudgetInv, TypeOK, Words, SlotRecords
<1>6. QED
  BY <1>2, <1>3, <1>5 DEF BudgetInv

(* swap_slot_alloc with no slot left: the charge and its release cancel.   *)
LEMMA ChargeTakenBack ==
  ASSUME BudgetInv, NEW r \in Regions, NEW size \in Words, InModel(r, size)
  PROVE  Released(Charged(used, r, size), r, size) = used
<1> DEFINE u == Charged(used, r, size)
<1>1. /\ u = [used EXCEPT ![r] = used[r] + Kb(size)]
      /\ u \in [Regions -> Words] /\ Kb(size) \in Nat
      /\ used[r] \in Nat /\ used \in [Regions -> Words]
  BY ChargedValue, AccountOf
<1>2. u[r] = used[r] + Kb(size)
  BY <1>1
<1> HIDE DEF u
<1>3. Kb(size) <= u[r] /\ u[r] - Kb(size) = used[r]
  BY <1>1, <1>2
<1>4. Released(u, r, size) = [u EXCEPT ![r] = u[r] - Kb(size)]
  BY <1>1, <1>3, ReleasedValue
<1>5. Released(u, r, size) = used
  BY <1>1, <1>3, <1>4
<1>6. QED
  BY <1>5 DEF u

LEMMA SlotAllocKeepsBudget ==
  ASSUME BudgetInv, NEW size \in Sizes, SwapSlotAlloc(size)
  PROVE  BudgetInv'
<1>0. /\ size \in Words /\ SwapRegion \in Regions /\ limit \in [Regions -> Words]
      /\ slot \in [Slots -> SlotRecords]
  BY Numbers DEF BudgetInv, TypeOK, Words, SlotRecords
<1>1. CASE UNCHANGED vars
  BY <1>0, <1>1, UnchangedKeepsBudget DEF vars
<1>2. CASE /\ InModel(SwapRegion, size) /\ FreeSlots # {}
           /\ used' = Charged(used, SwapRegion, size) /\ slot' = NewSlot(size)
           /\ UNCHANGED <<limit, charge, stranded, revived>>
  <2> DEFINE i == Min(FreeSlots)
             S == SlotsInUse
             f == SlotSizes
  <2>1. i \in Slots /\ ~slot[i].in_use
    <3>1. FreeSlots \in SUBSET Nat
      BY Numbers DEF FreeSlots, Slots
    <3>2. i \in FreeSlots
      BY <1>2, <3>1, MinIsLeast
    <3>3. QED
      BY <3>2 DEF FreeSlots
  <2> HIDE DEF i
  <2>2. slot' = [slot EXCEPT ![i] = [in_use |-> TRUE, loaded |-> TRUE, size |-> size]]
    BY <1>2 DEF NewSlot, i
  <2>3. [in_use |-> TRUE, loaded |-> TRUE, size |-> size] \in SlotRecords
    BY <1>0 DEF SlotRecords
  <2>4. slot' \in [Slots -> SlotRecords]
    BY <1>0, <2>2, <2>3
  <2>5. FreeSlotsOwnNothing'
    BY <1>0, <1>2, <2>1, <2>2 DEF BudgetInv, FreeSlotsOwnNothing
  <2>6. SlotSizes' = [y \in S \cup {i} |-> IF y = i THEN size ELSE f[y]]
    BY <1>0, <2>1, <2>2 DEF SlotSizes, SlotsInUse
  <2>7. IsFiniteSet(S) /\ f \in [S -> Words] /\ i \notin S /\ size \in Words
    BY <1>0, <2>1, SlotsCounted DEF SlotsInUse
  <2>8. Cardinality(HeldKb([y \in S \cup {i} |-> IF y = i THEN size ELSE f[y]]))
          = Cardinality(HeldKb(f)) + Kb(size)
    <3> HIDE DEF S, f
    <3>1. QED
      BY <2>7, HeldAdd
  <2>9. Cardinality(HeldKb(SlotSizes')) = Cardinality(HeldKb(SlotSizes)) + Kb(size)
    BY <2>6, <2>8
  <2>10. /\ used' = [used EXCEPT ![SwapRegion] = used[SwapRegion] + Kb(size)]
         /\ used' \in [Regions -> Words] /\ Kb(size) \in Nat
         /\ used[SwapRegion] + Kb(size) <= MaxUsed
    BY <1>0, <1>2, ChargedValue
  <2>11. ~revived' => used'[SwapRegion] = Cardinality(HeldKb(ChargesOf(SwapRegion)))
                               + stranded' + Cardinality(HeldKb(SlotSizes'))
    BY <1>0, <1>2, <2>9, <2>10, AccountOf DEF Exact
  <2>12. /\ stranded' \in Nat /\ revived' \in BOOLEAN /\ stranded' = stranded
         /\ Cardinality(HeldKb(SlotSizes')) \in Nat
         /\ used'[SwapRegion] <= MaxUsed
         /\ \A q \in Regions \ {SwapRegion} : used'[q] = used[q]
    <3>1. revived' \in BOOLEAN
      BY <1>2 DEF BudgetInv, TypeOK
    <3>2. Cardinality(HeldKb(SlotSizes)) \in Nat /\ stranded \in Nat /\ used \in [Regions -> Words]
      BY <1>0, AccountOf
    <3>3. QED
      BY <1>0, <1>2, <2>9, <2>10, <3>1, <3>2
  <2>13. QED
    BY <1>2, <2>4, <2>5, <2>10, <2>11, <2>12, SwapKeepsBudget
<1>3. CASE /\ InModel(SwapRegion, size)
           /\ used' = Released(Charged(used, SwapRegion, size), SwapRegion, size)
           /\ UNCHANGED <<limit, charge, stranded, revived, slot>>
  <2>1. used' = used
    BY <1>0, <1>3, ChargeTakenBack
  <2>2. QED
    BY <1>0, <1>3, <2>1, UnchangedKeepsBudget
<1>4. QED
  BY <1>1, <1>2, <1>3 DEF SwapSlotAlloc

(* A restore that revives a free slot ends the claim about the swap region. *)
LEMMA LoadingKeepsBudget ==
  ASSUME BudgetInv, NEW i \in Slots, SwapEvict(i) \/ SwapRestore(i)
  PROVE  BudgetInv'
<1>1. slot \in [Slots -> SlotRecords]
  BY DEF BudgetInv, TypeOK, Words, SlotRecords
<1>2. /\ slot' \in [Slots -> SlotRecords]
      /\ \A j \in Slots : slot'[j].in_use = slot[j].in_use /\ slot'[j].size = slot[j].size
      /\ \A j \in Slots : j # i => slot'[j].loaded = slot[j].loaded
      /\ UNCHANGED <<limit, used, charge, stranded>>
  <2>1. UNCHANGED <<limit, used, charge, stranded>>
    BY DEF SwapEvict, SwapRestore
  <2>2. CASE UNCHANGED slot
    BY <1>1, <2>1, <2>2
  <2>3. ASSUME NEW v \in BOOLEAN, slot' = [slot EXCEPT ![i].loaded = v]
        PROVE  /\ slot' \in [Slots -> SlotRecords]
               /\ \A j \in Slots : slot'[j].in_use = slot[j].in_use /\ slot'[j].size = slot[j].size
               /\ \A j \in Slots : j # i => slot'[j].loaded = slot[j].loaded
    BY <1>1, <2>3 DEF SlotRecords
  <2>4. QED
    BY <2>1, <2>2, <2>3 DEF SwapEvict, SwapRestore
<1>3. SlotSizes' = SlotSizes
  BY <1>2 DEF SlotSizes
<1>4. /\ revived' \in BOOLEAN /\ (~revived' => ~revived)
      /\ ~revived' => (slot'[i].loaded => slot'[i].in_use)
  <2>1. revived \in BOOLEAN /\ slot[i].in_use \in BOOLEAN
    BY <1>1 DEF BudgetInv, TypeOK, SlotRecords
  <2>2. ~revived => (slot[i].loaded => slot[i].in_use)
    BY DEF BudgetInv, FreeSlotsOwnNothing
  <2>3. CASE SwapEvict(i)
    <3>1. ~slot'[i].loaded /\ revived' = revived
      BY <1>1, <2>3 DEF SwapEvict, SlotRecords
    <3>2. QED
      BY <2>1, <3>1
  <2>4. CASE UNCHANGED <<slot, revived>>
    BY <2>1, <2>2, <2>4
  <2>5. CASE revived' = (revived \/ ~slot[i].in_use)
    <3>1. revived' \in BOOLEAN /\ (~revived' => ~revived /\ slot[i].in_use)
      BY <2>1, <2>5
    <3>2. slot'[i].in_use = slot[i].in_use
      BY <1>2
    <3>3. QED
      BY <3>1, <3>2
  <2>6. QED
    BY <2>3, <2>4, <2>5 DEF SwapRestore
<1>5. FreeSlotsOwnNothing'
  BY <1>2, <1>4 DEF BudgetInv, FreeSlotsOwnNothing
<1>6. /\ ~revived' => used'[SwapRegion] = Cardinality(HeldKb(ChargesOf(SwapRegion)))
                               + stranded' + Cardinality(HeldKb(SlotSizes'))
      /\ Cardinality(HeldKb(SlotSizes')) \in Nat /\ stranded' \in Nat
      /\ used' \in [Regions -> Words] /\ used'[SwapRegion] <= MaxUsed
  BY <1>2, <1>3, <1>4, AccountOf, Numbers DEF Exact
<1>7. QED
  BY <1>2, <1>4, <1>5, <1>6, SwapKeepsBudget

(* A free through a stale handle finds the slot free: with no memory it    *)
(* does nothing, with memory (revived) it takes away somebody's charge.    *)
LEMMA SlotFreeKeepsBudget ==
  ASSUME BudgetInv, NEW i \in Slots, SwapSlotFree(i)
  PROVE  BudgetInv'
<1> DEFINE size == slot[i].size
           S == SlotsInUse
           f == SlotSizes
<1>1. /\ slot \in [Slots -> SlotRecords] /\ size \in Words /\ revived \in BOOLEAN
      /\ SwapRegion \in Regions /\ UNCHANGED <<limit, charge, revived>>
  BY Numbers DEF BudgetInv, TypeOK, Words, SlotRecords, SwapSlotFree
<1>2. /\ slot' \in [Slots -> SlotRecords] /\ ~slot'[i].in_use /\ ~slot'[i].loaded
      /\ \A j \in Slots \ {i} : slot'[j] = slot[j]
  BY <1>1 DEF SwapSlotFree, SlotRecords
<1>3. FreeSlotsOwnNothing'
  BY <1>1, <1>2 DEF BudgetInv, FreeSlotsOwnNothing
<1>4. SlotSizes' = [y \in S \ {i} |-> f[y]]
  BY <1>1, <1>2 DEF SlotSizes, SlotsInUse
<1>5. slot[i].in_use => i \in S /\ f[i] = size
  BY <1>1 DEF SlotSizes, SlotsInUse
<1>6. /\ slot[i].in_use =>
           Cardinality(HeldKb(SlotSizes)) = Cardinality(HeldKb(SlotSizes')) + Kb(size)
      /\ ~slot[i].in_use => SlotSizes' = SlotSizes
      /\ Cardinality(HeldKb(SlotSizes')) \in Nat
  <2>1. IsFiniteSet(S) /\ f \in [S -> Words]
    BY SlotsCounted
  <2>2. CASE slot[i].in_use
    <3>1. /\ Cardinality(HeldKb(f)) = Cardinality(HeldKb([y \in S \ {i} |-> f[y]])) + Kb(f[i])
          /\ Cardinality(HeldKb([y \in S \ {i} |-> f[y]])) \in Nat
      <4> HIDE DEF S, f
      <4>1. QED
        BY <1>5, <2>1, <2>2, HeldRemove
    <3>2. QED
      BY <1>4, <1>5, <2>2, <3>1
  <2>3. CASE ~slot[i].in_use
    <3>1. i \notin S
      BY <2>3 DEF SlotsInUse
    <3>2. SlotSizes' = SlotSizes
      <4>1. S \ {i} = S
        BY <3>1
      <4>2. f = [y \in S |-> f[y]]
        BY <2>1
      <4> HIDE DEF S
      <4>3. QED
        BY <1>4, <4>1, <4>2
    <3>3. QED
      BY <2>3, <3>2, SlotsCounted
  <2>4. QED
    BY <2>2, <2>3
<1>7. Kb(size) \in Nat
  BY <1>1, KbRange DEF Words
<1>8. /\ Exact(SwapRegion) => used[SwapRegion] = Cardinality(HeldKb(ChargesOf(SwapRegion)))
                                                + stranded + Cardinality(HeldKb(SlotSizes))
      /\ Cardinality(HeldKb(ChargesOf(SwapRegion))) \in Nat
      /\ used[SwapRegion] <= MaxUsed /\ MaxUsed \in Nat
      /\ used[SwapRegion] \in Nat /\ stranded \in Nat /\ used \in [Regions -> Words]
  BY <1>1, AccountOf, Numbers
<1>9. CASE slot[i].loaded
  <2>1. used' = Released(used, SwapRegion, size) /\ stranded' = stranded
    BY <1>9 DEF SwapSlotFree
  <2>2. /\ used' \in [Regions -> Words] /\ used'[SwapRegion] <= MaxUsed
        /\ \A q \in Regions \ {SwapRegion} : used'[q] = used[q]
    <3>1. /\ used' \in [Regions -> Words] /\ used'[SwapRegion] <= used[SwapRegion]
          /\ \A q \in Regions \ {SwapRegion} : used'[q] = used[q]
      <4> HIDE DEF size
      <4>1. QED
        BY <1>1, <1>8, <2>1, ReleasedFacts
    <3>2. used'[SwapRegion] \in Nat
      BY <1>1, <3>1 DEF Words
    <3>3. QED
      BY <1>8, <3>1, <3>2
  <2>3. ~revived' => used'[SwapRegion] = Cardinality(HeldKb(ChargesOf(SwapRegion)))
                              + stranded' + Cardinality(HeldKb(SlotSizes'))
    <3> SUFFICES ASSUME ~revived'
                 PROVE  used'[SwapRegion] = Cardinality(HeldKb(ChargesOf(SwapRegion)))
                              + stranded' + Cardinality(HeldKb(SlotSizes'))
      OBVIOUS
    <3>1. Exact(SwapRegion) /\ slot[i].in_use
      BY <1>1, <1>9 DEF Exact, BudgetInv, FreeSlotsOwnNothing
    <3> HIDE DEF size
    <3>2. Kb(size) <= used[SwapRegion]
      BY <1>6, <1>7, <1>8, <3>1
    <3>3. used'[SwapRegion] = used[SwapRegion] - Kb(size)
      BY <1>1, <1>8, <2>1, <3>2, ReleasedValue
    <3>4. QED
      BY <1>6, <1>7, <1>8, <2>1, <3>1, <3>3
  <2>4. QED
    BY <1>1, <1>2, <1>3, <1>6, <1>8, <2>1, <2>2, <2>3, SwapKeepsBudget
<1>10. CASE ~slot[i].loaded
  <2>1. /\ used' = used
        /\ slot[i].in_use /\ ~revived => stranded' = stranded + Kb(size)
        /\ ~(slot[i].in_use /\ ~revived) => stranded' = stranded
    BY <1>10 DEF SwapSlotFree
  <2> HIDE DEF size
  <2>2. stranded' \in Nat
    BY <1>7, <1>8, <2>1
  <2>3. ~revived' => used'[SwapRegion] = Cardinality(HeldKb(ChargesOf(SwapRegion)))
                              + stranded' + Cardinality(HeldKb(SlotSizes'))
    <3>1. CASE slot[i].in_use
      BY <1>1, <1>6, <1>7, <1>8, <2>1, <3>1 DEF Exact
    <3>2. CASE ~slot[i].in_use
      BY <1>1, <1>6, <1>8, <2>1, <3>2 DEF Exact
    <3>3. QED
      BY <3>1, <3>2
  <2>4. QED
    BY <1>1, <1>2, <1>3, <1>6, <1>8, <2>1, <2>2, <2>3, SwapKeepsBudget
<1>11. QED
  BY <1>9, <1>10

LEMMA NextKeepsBudget == BudgetInv /\ [Next]_vars => BudgetInv'
<1> SUFFICES ASSUME BudgetInv, [Next]_vars PROVE BudgetInv'
  OBVIOUS
<1>0. limit \in [Regions -> Words]
  BY DEF BudgetInv, TypeOK, Words
<1>1. ASSUME NEW r \in Regions, NEW kb \in Limits, MemoryBudgetSetLimit(r, kb)
      PROVE  BudgetInv'
  <2>1. limit' \in [Regions -> Words] /\ UNCHANGED <<used, slot, charge, stranded, revived>>
    BY <1>0, <1>1, Numbers DEF MemoryBudgetSetLimit
  <2>2. QED
    BY <2>1, UnchangedKeepsBudget
<1>2. ASSUME NEW c \in Charges, NEW r \in Regions, NEW s \in Sizes, MemoryBudgetAlloc(c, r, s)
      PROVE  BudgetInv'
  BY <1>2, AllocKeepsBudget
<1>3. ASSUME NEW c \in Charges, MemoryBudgetFree(c) PROVE BudgetInv'
  BY <1>3, FreeKeepsBudget
<1>4. ASSUME NEW s \in Sizes, SwapSlotAlloc(s) PROVE BudgetInv'
  BY <1>4, SlotAllocKeepsBudget
<1>5. ASSUME NEW i \in Slots, SwapEvict(i) \/ SwapRestore(i) PROVE BudgetInv'
  BY <1>5, LoadingKeepsBudget
<1>6. ASSUME NEW i \in Slots, SwapSlotFree(i) PROVE BudgetInv'
  BY <1>6, SlotFreeKeepsBudget
<1>7. CASE UNCHANGED vars
  BY <1>0, <1>7, UnchangedKeepsBudget DEF vars
<1>8. QED
  BY <1>1, <1>2, <1>3, <1>4, <1>5, <1>6, <1>7 DEF Next

(* The inductive invariant of the budget layer.                            *)
THEOREM BudgetSafe == Spec => []BudgetInv
BY BudgetStarts, NextKeepsBudget, PTL DEF Spec

(* The counters of memory_budget.c stay inside their width.                *)
THEOREM BudgetTyped == Spec => []TypeOK
<1>1. BudgetInv => TypeOK
  BY DEF BudgetInv
<1>2. QED
  BY <1>1, BudgetSafe, PTL

(* used_kb of every region is the number of KB its outstanding charges and *)
(* the slots in use need, whatever stale handles are evicted and freed; of *)
(* the swap region, plus what slots freed while evicted left behind, and   *)
(* only until swap_restore is given a handle whose slot is free.  Sizes    *)
(* whose rounding wraps are charged nothing.                               *)
THEOREM BudgetBalanced == Spec => []ChargesAccounted
<1>1. BudgetInv => ChargesAccounted
  BY DEF BudgetInv
<1>2. QED
  BY <1>1, BudgetSafe, PTL

LEMMA ChargeWithin ==
  ASSUME BudgetInv, NEW r \in Regions, NEW size \in Words, InModel(r, size), Within(r, size),
         NEW q \in Regions, Charged(used, r, size)[q] > used[q], limit[q] # 0
  PROVE  Charged(used, r, size)[q] <= limit[q]
<1>1. used \in [Regions -> Words] /\ used[q] \in Nat
  BY AccountOf
<1>2. CASE q = r
  BY <1>1, <1>2 DEF Charged, Within
<1>3. CASE q # r
  BY <1>1, <1>3 DEF Charged
<1>4. QED
  BY <1>2, <1>3

LimitStep == \A r \in Regions : used'[r] > used[r] /\ limit[r] # 0 => used'[r] <= limit[r]

LEMMA NextWithin == BudgetInv /\ [Next]_vars => LimitStep
<1> SUFFICES ASSUME BudgetInv, [Next]_vars, NEW q \in Regions, used'[q] > used[q], limit[q] # 0
             PROVE  used'[q] <= limit[q]
  BY DEF LimitStep
<1>0. /\ used \in [Regions -> Words] /\ used[q] \in Nat /\ SwapRegion \in Regions
      /\ Sizes \subseteq Words
  BY AccountOf, Numbers
<1>1. CASE UNCHANGED used
  BY <1>0, <1>1
<1>2. ASSUME NEW c \in Charges, NEW r \in Regions, NEW s \in Sizes, MemoryBudgetAlloc(c, r, s)
      PROVE  used'[q] <= limit[q]
  <2>1. CASE UNCHANGED vars
    BY <1>1, <2>1 DEF vars
  <2>2. CASE Within(r, s) /\ used' = Charged(used, r, s)
    <3>1. s \in Words /\ InModel(r, s)
      BY <1>0, <1>2 DEF MemoryBudgetAlloc
    <3>2. QED
      BY <2>2, <3>1, ChargeWithin
  <2>3. QED
    BY <1>2, <2>1, <2>2 DEF MemoryBudgetAlloc
<1>3. ASSUME NEW c \in Charges, MemoryBudgetFree(c) PROVE FALSE
  <2>1. PICK r \in Regions, size \in Words : used' = Released(used, r, size)
    BY <1>3 DEF MemoryBudgetFree, BudgetInv
  <2>2. Released(used, r, size)[q] <= used[q]
    BY <1>0, <2>1, ReleasedFacts
  <2>3. used'[q] \in Nat
    BY <1>0, <2>1, ReleasedFacts, Numbers DEF Words
  <2>4. QED
    BY <1>0, <2>1, <2>2, <2>3
<1>4. ASSUME NEW s \in Sizes, SwapSlotAlloc(s) PROVE used'[q] <= limit[q]
  <2>0. s \in Words
    BY <1>0
  <2>1. CASE UNCHANGED vars
    BY <1>1, <2>1 DEF vars
  <2>2. CASE /\ Within(SwapRegion, s) /\ InModel(SwapRegion, s)
             /\ used' = Charged(used, SwapRegion, s)
    BY <1>0, <2>0, <2>2, ChargeWithin
  <2>3. CASE /\ InModel(SwapRegion, s)
             /\ used' = Released(Charged(used, SwapRegion, s), SwapRegion, s)
    BY <1>0, <1>1, <2>0, <2>3, ChargeTakenBack
  <2>4. QED
    BY <1>4, <2>1, <2>2, <2>3 DEF SwapSlotAlloc
<1>5. ASSUME NEW i \in Slots, SwapSlotFree(i) PROVE used'[q] <= limit[q]
  <2>1. slot[i].size \in Words
    BY DEF BudgetInv, TypeOK, Words
  <2>2. CASE used' = Released(used, SwapRegion, slot[i].size)
    <3>1. Released(used, SwapRegion, slot[i].size)[q] <= used[q]
      BY <1>0, <2>1, ReleasedFacts
    <3>2. used'[q] \in Nat
      BY <1>0, <2>1, <2>2, ReleasedFacts, Numbers DEF Words
    <3>3. QED
      BY <1>0, <2>2, <3>1, <3>2
  <2>3. QED
    BY <1>1, <1>5, <2>2 DEF SwapSlotFree
<1>6. QED
  BY <1>1, <1>2, <1>3, <1>4, <1>5
     DEF Next, MemoryBudgetSetLimit, SwapEvict, SwapRestore, vars

(* memory_budget_alloc and swap_slot_alloc never take a region past its    *)
(* limit.                                                                  *)
THEOREM LimitsKept == Spec => LimitRespected
<1>1. BudgetInv /\ [Next]_vars => [LimitStep]_vars
  BY NextWithin
<1>2. Spec => [][LimitStep]_vars
  BY <1>1, BudgetSafe, PTL DEF Spec
<1>3. QED
  BY <1>2 DEF LimitRespected, LimitStep
===============================================================================
