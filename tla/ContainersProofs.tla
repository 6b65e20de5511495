--------------------------- MODULE ContainersProofs ---------------------------
(***************************************************************************)
(* Proofs about Heap for any values, any first capacity and any size: it   *)
(* stays within its block (TypeCorrect) and in order (StaysInOrder), and   *)
(* values are pushed and popped as with a queue that returns the first of  *)
(* those it holds (IsAPriorityQueue).  About LinkedList for any finite set *)
(* of nodes: the list can be walked alike from both ends and reaches no    *)
(* free node (ListStaysSound), and each call does to it what its name says *)
(* (CallsKeepTheOrder).  And about ConfigLoader for any files: the map of  *)
(* the users and the memory of their passwords are what the file lists     *)
(* (UsersStayAsListed).                                                    *)
(***************************************************************************)
EXTENDS Heap, LinkedList, ConfigLoader, BasicLemmas

-----------------------------------------------------------------------------
(* Arithmetic on positions. *)

LEMMA InBlock ==
    ASSUME NEW room \in Nat, NEW k \in Nat, k < room
    PROVE  k \in 0..(room - 1)
  OBVIOUS

LEMMA ParentIsAbove ==
    ASSUME NEW k \in Nat \ {0}
    PROVE  Parent(k) \in 0..(k - 1)
  BY SMT DEF Parent

LEMMA ChildrenOf ==
    ASSUME NEW k \in Nat \ {0}, NEW j \in Nat
    PROVE  Parent(k) = j <=> k = Left(j) \/ k = Right(j)
  BY SMT DEF Parent, Left, Right

LEMMA ChildrenAreBelow ==
    ASSUME NEW j \in Nat
    PROVE  /\ Left(j) \in Nat \ {0} /\ Right(j) \in Nat \ {0}
           /\ Left(j) > j /\ Right(j) = Left(j) + 1
  BY SMT DEF Left, Right

-----------------------------------------------------------------------------
(* The inductive invariant.  While a value is on its way, those below it are *)
(* in order with the one above it, so that it can be passed by; and what is  *)
(* being reconstructed is in order from position ii on.                      *)
Bridged ==
    (call = "reconstruct" => Parent(i) >= ii - 1) =>
        \A k \in 1..(size - 1) : Parent(k) = i => values[k] <= values[Parent(i)]

Inductive ==
    /\ HeapTypeOK
    /\ capacity \in Nat \ {0}
    /\ IF call = "reconstruct" THEN ii >= 1 /\ i >= ii - 1 ELSE ii = 0
    /\ HeapOrder
    /\ call # "none" /\ i # 0 => Bridged

LEMMA InitInductive == HeapInit => Inductive
<1> SUFFICES ASSUME HeapInit PROVE Inductive
  OBVIOUS
<1>1. capacity \in Nat \ {0} /\ size \in 0..capacity
  BY HeapAssumption DEF HeapInit, Doubles
<1>2. PICK filled \in [0..(size - 1) -> Value] :
         values = [k \in 0..(capacity - 1) |-> IF k < size THEN filled[k] ELSE Unset]
  BY DEF HeapInit
<1>3. /\ values \in [0..(capacity - 1) -> Value \cup {Unset}]
      /\ \A k \in 0..(size - 1) : values[k] \in Value
  BY <1>1, <1>2
<1>4. CASE size <= 1
  BY <1>1, <1>3, <1>4 DEF HeapInit, Inductive, HeapTypeOK, HeapOrder
<1>5. CASE size > 1
  <2>1. call = "reconstruct" /\ ii = size \div 2 /\ i = ii - 1 /\ out = Nothing
    BY <1>1, <1>5 DEF HeapInit
  <2>2. ii \in 1..(size \div 2) /\ i \in 0..(size - 1)
    BY <1>1, <1>5, <2>1
  <2>3. HeapTypeOK
    BY <1>1, <1>3, <2>1, <2>2 DEF HeapTypeOK
  <2>4. HeapOrder
    <3>1. ASSUME NEW k \in 1..(size - 1)
          PROVE  Parent(k) < ii - 1 \/ Parent(k) = i
      BY <1>1, <2>1 DEF Parent
    <3>2. QED
      BY <2>1, <3>1 DEF HeapOrder
  <2>5. i # 0 => Bridged
    <3>1. i # 0 => Parent(i) < i
      BY <2>2, ParentIsAbove
    <3>2. i # 0 => ~(Parent(i) >= ii - 1)
      BY <2>1, <2>2, <3>1, ParentIsAbove
    <3>3. QED
      BY <2>1, <3>2 DEF Bridged
  <2>6. QED
    BY <1>1, <2>1, <2>2, <2>3, <2>4, <2>5 DEF Inductive
<1>6. QED
  BY <1>1, <1>4, <1>5

(* What the invariant says of an idle heap, and what makes it true again.    *)
LEMMA IdleInductive ==
    ASSUME HeapTypeOK', capacity' \in Nat \ {0}, call' = "none", ii' = 0,
           \A k \in 1..(size' - 1) : values'[k] <= values'[Parent(k)]
    PROVE  Inductive'
  BY DEF Inductive, HeapOrder

LEMMA PushInductive ==
    ASSUME Inductive, NEW v \in Value, Push(v)
    PROVE  Inductive'
<1>1. /\ size \in 0..capacity /\ capacity \in Nat \ {0}
      /\ values \in [0..(capacity - 1) -> Value \cup {Unset}]
      /\ \A k \in 0..(size - 1) : values[k] \in Value
      /\ call = "none" /\ ii = 0 /\ out \in Value \cup {Nothing}
  BY DEF Push, Inductive, HeapTypeOK
<1>0. size \in Nat
  BY <1>1
<1>2. /\ size' = size + 1 /\ i' = size /\ ii' = ii /\ out' = out
      /\ call' = IF size = 0 THEN "none" ELSE "push"
      /\ capacity' = IF IsFull THEN 2 * capacity ELSE capacity
      /\ values' = [(IF IsFull THEN Moved(capacity') ELSE values) EXCEPT ![size] = v]
  BY DEF Push
<1>3. /\ capacity' \in Nat \ {0} /\ size < capacity'
      /\ values' \in [0..(capacity' - 1) -> Value \cup {Unset}]
      /\ values'[size] = v
      /\ \A k \in 0..(size - 1) : values'[k] = values[k]
  <2>1. CASE IsFull
    <3>1. capacity' = 2 * capacity /\ capacity' \in Nat \ {0} /\ size < capacity'
      BY <1>1, <1>2, <2>1 DEF IsFull
    <3>2. /\ Moved(capacity') \in [0..(capacity' - 1) -> Value \cup {Unset}]
          /\ \A k \in 0..(size - 1) : Moved(capacity')[k] = values[k]
      BY <1>1, <3>1 DEF Moved, Held
    <3>3. values' = [Moved(capacity') EXCEPT ![size] = v]
      BY <1>2, <2>1
    <3>4. size \in 0..(capacity' - 1)
      BY <1>1, <3>1
    <3>5. QED
      BY <1>1, <3>1, <3>2, <3>3, <3>4
  <2>2. CASE ~IsFull
    <3>1. capacity' = capacity /\ size < capacity /\ values' = [values EXCEPT ![size] = v]
      BY <1>1, <1>2, <2>2 DEF IsFull
    <3>2. QED
      BY <1>1, <3>1
  <2>3. QED
    BY <2>1, <2>2
<1>4. ASSUME NEW k \in 0..(size' - 1)
      PROVE  values'[k] \in Value
  BY <1>1, <1>2, <1>3
<1>5. HeapTypeOK'
  BY <1>1, <1>2, <1>3, <1>4 DEF HeapTypeOK
<1>6. ASSUME NEW k \in 1..(size - 1)
      PROVE  values'[k] <= values'[Parent(k)]
  <2>1. k \in 0..(size - 1) /\ Parent(k) \in 0..(size - 1)
    BY <1>0, ParentIsAbove
  <2>2. values[k] <= values[Parent(k)]
    BY <1>1 DEF Inductive, HeapOrder
  <2>3. values'[k] = values[k] /\ values'[Parent(k)] = values[Parent(k)]
    BY <1>3, <2>1
  <2>4. QED
    BY <2>2, <2>3
<1>7. HeapOrder'
  <2>1. ASSUME NEW k \in 1..(size' - 1)
        PROVE  values'[k] <= values'[Parent(k)] \/ (call' = "push" /\ k = i')
    BY <1>1, <1>2, <1>6
  <2>2. QED
    BY <2>1 DEF HeapOrder, Parent
<1>8. (call # "none" /\ i # 0 => Bridged)'
  <2>1. ASSUME NEW k \in 1..(size' - 1)
        PROVE  Parent(k) # i'
    BY <1>1, <1>2, ParentIsAbove
  <2>2. QED
    BY <2>1 DEF Bridged, Parent
<1>9. QED
  BY <1>1, <1>2, <1>3, <1>5, <1>7, <1>8 DEF Inductive

(* Exchanging two values held keeps the types, and all other values.         *)
LEMMA SwapType ==
    ASSUME Inductive, NEW k \in 0..(size - 1), NEW l \in 0..(size - 1),
           values' = Swapped(k, l), UNCHANGED <<size, capacity>>
    PROVE  /\ values' \in [0..(capacity - 1) -> Value \cup {Unset}]
           /\ \A m \in 0..(size - 1) : values'[m] \in Value
           /\ k # l => values'[k] = values[l]
           /\ values'[l] = values[k]
           /\ \A m \in 0..(size - 1) : m # k /\ m # l => values'[m] = values[m]
<1>1. /\ size \in 0..capacity /\ capacity \in Nat \ {0}
      /\ values \in [0..(capacity - 1) -> Value \cup {Unset}]
      /\ \A m \in 0..(size - 1) : values[m] \in Value
  BY DEF Inductive, HeapTypeOK
<1>2. k \in 0..(capacity - 1) /\ l \in 0..(capacity - 1)
  BY <1>1
<1>3. values' = [values EXCEPT ![k] = values[l], ![l] = values[k]]
  BY DEF Swapped
<1>4. \A m \in 0..(size - 1) : m \in 0..(capacity - 1)
  BY <1>1
<1>5. QED
  BY <1>1, <1>2, <1>3, <1>4

LEMMA RiseInductive ==
    ASSUME Inductive, Rise
    PROVE  Inductive'
<1> DEFINE p == Parent(i)
<1>1. /\ size \in Nat /\ call = "push" /\ i \in 1..(size - 1) /\ values[i] > values[p]
      /\ values' = Swapped(i, p) /\ i' = p
      /\ UNCHANGED <<size, capacity, call, ii, out>>
  BY DEF Rise, RisesOn, Inductive, HeapTypeOK
<1>2. p \in 0..(i - 1) /\ p \in 0..(size - 1) /\ i \in 0..(size - 1) /\ i # p
  BY <1>1, ParentIsAbove
<1>3. /\ values' \in [0..(capacity - 1) -> Value \cup {Unset}]
      /\ \A m \in 0..(size - 1) : values'[m] \in Value
      /\ values'[i] = values[p] /\ values'[p] = values[i]
      /\ \A m \in 0..(size - 1) : m # i /\ m # p => values'[m] = values[m]
  BY <1>1, <1>2, SwapType
<1>4. \A m \in 0..(size - 1) : values[m] \in Nat
  BY HeapAssumption DEF Inductive, HeapTypeOK
<1>5. ASSUME NEW k \in 1..(size - 1)
      PROVE  Parent(k) \in 0..(k - 1) /\ Parent(k) \in 0..(size - 1) /\ k \in 0..(size - 1)
  BY <1>1, ParentIsAbove
<1>6. \A k \in 1..(size - 1) : k # i => values[k] <= values[Parent(k)]
  BY <1>1 DEF Inductive, HeapOrder
<1>7. \A k \in 1..(size - 1) : Parent(k) = i => values[k] <= values[p]
  BY <1>1 DEF Inductive, Bridged
<1> HIDE DEF p
<1>8. ASSUME NEW k \in 1..(size - 1), k # p
      PROVE  values'[k] <= values'[Parent(k)]
  <2>1. CASE k = i
    BY <1>1, <1>2, <1>3, <1>4, <2>1 DEF p
  <2>2. CASE k # i /\ Parent(k) = i
    BY <1>2, <1>3, <1>5, <1>7, <1>8, <2>2
  <2>3. CASE k # i /\ Parent(k) = p
    <3>1. values'[k] = values[k] /\ values[k] <= values[p] /\ values[p] <= values[i]
      BY <1>1, <1>2, <1>3, <1>4, <1>5, <1>6, <1>8, <2>3 DEF p
    <3>2. QED
      BY <1>2, <1>3, <1>4, <1>5, <2>3, <3>1
  <2>4. CASE k # i /\ Parent(k) # i /\ Parent(k) # p
    BY <1>3, <1>5, <1>6, <1>8, <2>4
  <2>5. QED
    BY <2>1, <2>2, <2>3, <2>4
<1>9. HeapOrder'
  BY <1>1, <1>8 DEF HeapOrder, Parent
<1>10. HeapTypeOK'
  BY <1>1, <1>2, <1>3 DEF Inductive, HeapTypeOK
<1>11. (i # 0 => Bridged)'
  <2>1. ASSUME p # 0, NEW k \in 1..(size - 1), Parent(k) = p
        PROVE  values'[k] <= values'[Parent(p)]
    <3>1. p \in 1..(size - 1) /\ Parent(p) \in 0..(p - 1) /\ Parent(p) \in 0..(size - 1)
      BY <1>2, <1>5, <2>1
    <3>2. values[p] <= values[Parent(p)] /\ values'[Parent(p)] = values[Parent(p)]
      BY <1>2, <1>3, <1>6, <3>1
    <3>3. values'[k] <= values[p]
      <4>1. CASE k = i
        BY <1>2, <1>3, <1>4, <4>1
      <4>2. CASE k # i
        BY <1>2, <1>3, <1>5, <1>6, <2>1, <4>2
      <4>3. QED
        BY <4>1, <4>2
    <3>4. values'[k] \in Nat /\ values[p] \in Nat /\ values[Parent(p)] \in Nat
      BY <1>2, <1>3, <1>4, <1>5, <3>1, HeapAssumption
    <3>5. QED
      BY <3>2, <3>3, <3>4
  <2>2. QED
    BY <1>1, <2>1 DEF Bridged, Parent
<1>12. QED
  BY <1>1, <1>9, <1>10, <1>11 DEF Inductive

LEMMA RisenInductive ==
    ASSUME Inductive, Risen
    PROVE  Inductive'
<1>1. call = "push" /\ ~RisesOn /\ call' = "none" /\ UNCHANGED <<values, size, capacity, i, ii, out>>
  BY DEF Risen, memory
<1>2. ASSUME NEW k \in 1..(size - 1)
      PROVE  values[k] <= values[Parent(k)]
  <2>1. CASE k = i
    <3>1. ~(values[i] > values[Parent(i)])
      BY <1>1, <1>2, <2>1 DEF RisesOn, Inductive, HeapTypeOK
    <3>2. Parent(k) \in 0..(size - 1) /\ k \in 0..(size - 1)
      BY ParentIsAbove DEF Inductive, HeapTypeOK
    <3>3. values[k] \in Nat /\ values[Parent(k)] \in Nat
      BY <3>2, HeapAssumption DEF Inductive, HeapTypeOK
    <3>4. QED
      BY <2>1, <3>1, <3>3
  <2>2. CASE k # i
    BY <1>1, <2>2 DEF Inductive, HeapOrder
  <2>3. QED
    BY <2>1, <2>2
<1>3. HeapTypeOK' /\ capacity' \in Nat \ {0} /\ ii' = 0
  BY <1>1 DEF Inductive, HeapTypeOK
<1>4. QED
  BY <1>1, <1>2, <1>3, IdleInductive

LEMMA PopInductive ==
    ASSUME Inductive, Pop
    PROVE  Inductive'
<1>1. /\ size \in 0..capacity /\ capacity \in Nat \ {0} /\ size > 0 /\ ii = 0
      /\ values \in [0..(capacity - 1) -> Value \cup {Unset}]
      /\ \A k \in 0..(size - 1) : values[k] \in Value
      /\ call = "none"
  BY DEF Pop, Inductive, HeapTypeOK
<1>2. /\ out' = values[0] /\ size' = size - 1 /\ i' = 0 /\ UNCHANGED <<capacity, ii>>
      /\ call' = IF size' = 0 THEN "none" ELSE "pop"
      /\ values' = IF size' = 0 THEN values ELSE [values EXCEPT ![0] = values[size']]
  BY DEF Pop
<1>3. /\ values' \in [0..(capacity - 1) -> Value \cup {Unset}]
      /\ \A k \in 0..(size' - 1) : values'[k] \in Value
      /\ \A k \in 1..(size' - 1) : values'[k] = values[k]
  BY <1>1, <1>2
<1>4. size' \in Nat /\ size' \in 0..capacity' /\ ii' \in 0..(size' \div 2)
  BY <1>1, <1>2
<1>5. HeapTypeOK'
  BY <1>1, <1>2, <1>3, <1>4 DEF HeapTypeOK
<1>6. ASSUME NEW k \in 1..(size' - 1), Parent(k) # 0
      PROVE  values'[k] <= values'[Parent(k)]
  <2>0. k \in Nat \ {0} /\ k < size' /\ k < size
    BY <1>1, <1>2, <1>4
  <2>1. Parent(k) \in 1..(size' - 1) /\ k \in 1..(size - 1)
    <3>1. Parent(k) \in 0..(k - 1)
      BY <2>0, ParentIsAbove
    <3>2. QED
      BY <1>1, <1>4, <1>6, <2>0, <3>1
  <2>2. values[k] <= values[Parent(k)]
    BY <1>1, <2>1 DEF Inductive, HeapOrder
  <2>3. QED
    BY <1>3, <2>1, <2>2
<1>7. HeapOrder'
  BY <1>1, <1>2, <1>6 DEF HeapOrder, Parent
<1>8. QED
  BY <1>1, <1>2, <1>5, <1>7 DEF Inductive

(* The value that sinks, and its children.                                   *)
LEMMA SinkingFacts ==
    ASSUME Inductive, call \in {"pop", "reconstruct"}
    PROVE  /\ i \in 0..(size - 1) /\ size \in Nat
           /\ \A m \in 0..(size - 1) : values[m] \in Nat
           /\ SinksOn =>
                /\ LargerChild \in 1..(size - 1) /\ Parent(LargerChild) = i
                /\ values[i] < values[LargerChild]
                /\ \A k \in 1..(size - 1) : Parent(k) = i => values[k] <= values[LargerChild]
           /\ ~SinksOn => \A k \in 1..(size - 1) : Parent(k) = i => values[k] <= values[i]
<1>1. /\ i \in 0..(size - 1) /\ size \in Nat
      /\ \A m \in 0..(size - 1) : values[m] \in Nat
  <2>1. call # "none" /\ capacity \in Nat /\ size \in 0..capacity
    BY DEF Inductive, HeapTypeOK
  <2>2. \A m \in 0..(size - 1) : values[m] \in Nat
    BY HeapAssumption DEF Inductive, HeapTypeOK
  <2>3. QED
    BY <2>1, <2>2 DEF Inductive, HeapTypeOK
<1>2. /\ Left(i) \in Nat \ {0} /\ Right(i) \in Nat \ {0} /\ Right(i) = Left(i) + 1
      /\ \A k \in 1..(size - 1) : Parent(k) = i => k \in {Left(i), Right(i)}
      /\ Parent(Left(i)) = i /\ Parent(Right(i)) = i
  BY <1>1, ChildrenAreBelow, ChildrenOf
<1>3. CASE Left(i) < size
  <2>1. LargerChild \in {Left(i), Right(i)} /\ LargerChild \in 1..(size - 1)
    BY <1>1, <1>2, <1>3 DEF LargerChild
  <2>2. Left(i) \in 0..(size - 1) /\ (Right(i) < size => Right(i) \in 0..(size - 1))
    BY <1>1, <1>2, <1>3
  <2>3. values[Left(i)] <= values[LargerChild]
    BY <1>1, <1>2, <2>2 DEF LargerChild
  <2>4. Right(i) < size => values[Right(i)] <= values[LargerChild]
    BY <1>1, <1>2, <2>2 DEF LargerChild
  <2>5. \A k \in 1..(size - 1) : Parent(k) = i => values[k] <= values[LargerChild]
    BY <1>1, <1>2, <2>3, <2>4
  <2>6. LargerChild \in 0..(size - 1) /\ values[LargerChild] \in Nat /\ values[i] \in Nat
    BY <1>1, <2>1
  <2>7. CASE SinksOn
    BY <1>1, <1>2, <2>1, <2>5, <2>7 DEF SinksOn
  <2>8. CASE ~SinksOn
    <3>1. values[LargerChild] <= values[i]
      BY <1>3, <2>6, <2>8 DEF SinksOn
    <3>2. ASSUME NEW k \in 1..(size - 1), Parent(k) = i
          PROVE  values[k] <= values[i]
      <4>1. values[k] <= values[LargerChild] /\ values[k] \in Nat
        BY <1>1, <2>5, <3>2
      <4>2. QED
        BY <2>6, <3>1, <4>1
    <3>3. QED
      BY <1>1, <2>8, <3>2
  <2>9. QED
    BY <2>7, <2>8
<1>4. CASE ~(Left(i) < size)
  <2>1. \A k \in 1..(size - 1) : Parent(k) # i
    BY <1>1, <1>2, <1>4
  <2>2. QED
    BY <1>1, <1>4, <2>1 DEF SinksOn
<1>5. QED
  BY <1>3, <1>4

LEMMA SinkInductive ==
    ASSUME Inductive, Sink
    PROVE  Inductive'
<1> DEFINE c == LargerChild
<1>1. /\ call \in {"pop", "reconstruct"} /\ SinksOn
      /\ values' = Swapped(i, c) /\ i' = c
      /\ UNCHANGED <<size, capacity, call, ii, out>>
  BY DEF Sink
<1>2. /\ i \in 0..(size - 1) /\ size \in Nat
      /\ \A m \in 0..(size - 1) : values[m] \in Nat
      /\ c \in 1..(size - 1) /\ Parent(c) = i
      /\ values[i] < values[c]
      /\ \A k \in 1..(size - 1) : Parent(k) = i => values[k] <= values[c]
  BY <1>1, SinkingFacts
<1> HIDE DEF c
<1>3. c \in 0..(size - 1) /\ i < c
  BY <1>2, ParentIsAbove
<1>4. /\ values' \in [0..(capacity - 1) -> Value \cup {Unset}]
      /\ \A m \in 0..(size - 1) : values'[m] \in Value
      /\ values'[i] = values[c] /\ values'[c] = values[i]
      /\ \A m \in 0..(size - 1) : m # i /\ m # c => values'[m] = values[m]
  BY <1>1, <1>2, <1>3, SwapType
<1>5. ASSUME NEW k \in 1..(size - 1)
      PROVE  Parent(k) \in 0..(k - 1) /\ Parent(k) \in 0..(size - 1) /\ k \in 0..(size - 1)
  BY <1>2, ParentIsAbove
<1>6. /\ ii \in Nat /\ capacity \in Nat \ {0}
      /\ IF call = "reconstruct" THEN ii >= 1 /\ i >= ii - 1 ELSE ii = 0
  BY DEF Inductive, HeapTypeOK
<1>7. ASSUME NEW k \in 1..(size - 1), Parent(k) # i, call = "reconstruct" => Parent(k) >= ii - 1
      PROVE  values[k] <= values[Parent(k)]
  BY <1>1, <1>5, <1>6, <1>7 DEF Inductive, HeapOrder
<1>8. ASSUME NEW k \in 1..(size - 1), Parent(k) # c, call = "reconstruct" => Parent(k) >= ii - 1
      PROVE  values'[k] <= values'[Parent(k)]
  <2>1. CASE k = c
    BY <1>2, <1>4, <2>1
  <2>2. CASE k # c /\ Parent(k) = i
    <3>1. k # i
      BY <1>5, <2>2
    <3>2. QED
      BY <1>2, <1>4, <1>5, <2>2, <3>1
  <2>3. CASE k = i
    <3>1. values[c] <= values[Parent(i)]
      BY <1>1, <1>2, <1>8, <2>3 DEF Inductive, Bridged
    <3>2. Parent(k) # i
      BY <1>5, <2>3
    <3>3. QED
      BY <1>4, <1>5, <1>8, <2>3, <3>1, <3>2
  <2>4. CASE k # c /\ k # i /\ Parent(k) # i
    BY <1>4, <1>5, <1>7, <1>8, <2>4
  <2>5. QED
    BY <2>1, <2>2, <2>3, <2>4
<1>9. HeapOrder'
  <2>1. ASSUME NEW k \in 1..(size - 1)
        PROVE  \/ values'[k] <= values'[Parent(k)]
               \/ call = "pop" /\ Parent(k) = c
               \/ call = "reconstruct" /\ (Parent(k) < ii - 1 \/ Parent(k) = c)
    BY <1>1, <1>5, <1>6, <1>8
  <2>2. QED
    BY <1>1, <2>1 DEF HeapOrder, Parent
<1>10. HeapTypeOK'
  BY <1>1, <1>3, <1>4 DEF Inductive, HeapTypeOK
<1>11. Bridged'
  <2>1. ASSUME NEW k \in 1..(size - 1), Parent(k) = c
        PROVE  values'[k] <= values'[Parent(c)]
    <3>1. k # c /\ k # i /\ Parent(k) # i
      BY <1>3, <1>5, <2>1
    <3>2. call = "reconstruct" => Parent(k) >= ii - 1
      BY <1>2, <1>3, <1>6, <2>1
    <3>3. values[k] <= values[c] /\ values'[k] = values[k]
      BY <1>4, <1>5, <1>7, <2>1, <3>1, <3>2
    <3>4. QED
      BY <1>2, <1>4, <3>3
  <2>2. QED
    BY <1>1, <2>1 DEF Bridged, Parent
<1>12. QED
  <2>1. capacity' \in Nat \ {0} /\ (call # "none" /\ i # 0 => Bridged)'
    BY <1>1, <1>6, <1>11
  <2>2. IF call' = "reconstruct" THEN ii' >= 1 /\ i' >= ii' - 1 ELSE ii' = 0
    BY <1>1, <1>2, <1>3, <1>6
  <2>3. QED
    BY <1>9, <1>10, <2>1, <2>2 DEF Inductive

LEMMA SunkInductive ==
    ASSUME Inductive, Sunk
    PROVE  Inductive'
<1>1. /\ call \in {"pop", "reconstruct"} /\ ~SinksOn
      /\ UNCHANGED <<values, size, capacity, out>>
  BY DEF Sunk, memory
<1>2. /\ i \in 0..(size - 1) /\ size \in Nat
      /\ \A k \in 1..(size - 1) : Parent(k) = i => values[k] <= values[i]
  BY <1>1, SinkingFacts
<1>3. /\ ii \in 0..(size \div 2) /\ capacity \in Nat \ {0}
      /\ (call = "reconstruct" => ii >= 1 /\ i >= ii - 1)
  BY DEF Inductive, HeapTypeOK
<1>4. \A k \in 1..(size - 1) : Parent(k) \in 0..(k - 1)
  BY <1>2, ParentIsAbove
<1>5. ASSUME NEW k \in 1..(size - 1), call = "reconstruct" => Parent(k) >= ii - 1
      PROVE  values[k] <= values[Parent(k)]
  <2>1. CASE Parent(k) = i
    BY <1>2, <2>1
  <2>2. CASE Parent(k) # i
    BY <1>1, <1>2, <1>3, <1>4, <1>5, <2>2 DEF Inductive, HeapOrder
  <2>3. QED
    BY <2>1, <2>2
<1>6. CASE call = "reconstruct" /\ ii > 1
  <2>1. ii' = ii - 1 /\ i' = ii - 2 /\ call' = "reconstruct"
    BY <1>6 DEF Sunk
  <2>2. ii' \in 1..(size \div 2) /\ i' \in 0..(size - 1)
    BY <1>2, <1>3, <1>6, <2>1
  <2>3. HeapTypeOK'
    BY <1>1, <2>1, <2>2 DEF Inductive, HeapTypeOK
  <2>4. ASSUME NEW k \in 1..(size - 1)
        PROVE  \/ values[k] <= values[Parent(k)]
               \/ Parent(k) < ii' - 1 \/ Parent(k) = i'
    BY <1>2, <1>3, <1>4, <1>5, <2>1
  <2>5. HeapOrder'
    BY <1>1, <2>1, <2>4 DEF HeapOrder, Parent
  <2>7. (call # "none" /\ i # 0 => Bridged)'
    <3>1. ASSUME i' # 0
          PROVE  ~(Parent(i') >= ii' - 1)
      <4>1. i' \in Nat \ {0} /\ ii' \in Nat /\ i' = ii' - 1
        BY <1>2, <1>3, <2>1, <2>2, <3>1
      <4>2. Parent(i') \in 0..(i' - 1)
        BY <4>1, ParentIsAbove
      <4>3. QED
        BY <4>1, <4>2
    <3>2. QED
      BY <2>1, <3>1 DEF Bridged, Parent
  <2>8. QED
    <3>1. capacity' \in Nat \ {0} /\ call' = "reconstruct" /\ ii' >= 1 /\ i' >= ii' - 1
      BY <1>1, <1>2, <1>3, <2>1, <2>2
    <3>2. QED
      BY <2>3, <2>5, <2>7, <3>1 DEF Inductive
<1>7. CASE ~(call = "reconstruct" /\ ii > 1)
  <2>1. call' = "none" /\ ii' = 0 /\ UNCHANGED i
    BY <1>7 DEF Sunk
  <2>2. \A k \in 1..(size - 1) : values[k] <= values[Parent(k)]
    BY <1>1, <1>3, <1>4, <1>5, <1>7
  <2>3. HeapTypeOK' /\ capacity' \in Nat \ {0}
    BY <1>1, <1>2, <2>1 DEF Inductive, HeapTypeOK
  <2>4. QED
    BY <1>1, <2>1, <2>2, <2>3, IdleInductive
<1>8. QED
  BY <1>6, <1>7

LEMMA ReserveInductive ==
    ASSUME Inductive, NEW room, Reserve(room)
    PROVE  Inductive'
<1>1. /\ size \in 0..capacity /\ capacity \in Nat \ {0}
      /\ values \in [0..(capacity - 1) -> Value \cup {Unset}]
      /\ \A k \in 0..(size - 1) : values[k] \in Value
      /\ call = "none" /\ ii = 0 /\ out \in Value \cup {Nothing}
  BY DEF Reserve, Inductive, HeapTypeOK
<1>2. /\ capacity' \in Nat \ {0} /\ capacity < capacity' /\ values' = Moved(capacity')
      /\ UNCHANGED <<size, call, i, ii, out>>
  BY HeapAssumption DEF Reserve, Doubles
<1>3. /\ values' \in [0..(capacity' - 1) -> Value \cup {Unset}]
      /\ \A k \in 0..(size - 1) : values'[k] = values[k]
  <2>1. \A k \in 0..(capacity' - 1) : k \in Held => values[k] \in Value \cup {Unset}
    BY <1>1 DEF Held
  <2>2. values' \in [0..(capacity' - 1) -> Value \cup {Unset}]
    BY <1>2, <2>1 DEF Moved
  <2>3. DOMAIN values = 0..(capacity - 1)
    BY <1>1
  <2>4. /\ size \in Nat /\ capacity \in Nat /\ capacity' \in Nat
        /\ size <= capacity /\ capacity < capacity'
    BY <1>1, <1>2
  <2>5. ASSUME NEW k \in 0..(size - 1)
        PROVE  k \in Held /\ k \in 0..(capacity' - 1)
    <3>1. k \in 0..(capacity - 1) /\ k < size /\ k \in 0..(capacity' - 1)
      <4>1. k \in Nat /\ k < size /\ k < capacity /\ k < capacity'
        BY <2>4
      <4>2. QED
        BY <2>4, <4>1, InBlock
    <3>2. QED
      BY <2>3, <3>1 DEF Held
  <2>6. QED
    BY <1>2, <2>2, <2>5 DEF Moved
<1>4. HeapTypeOK'
  <2>1. size' \in 0..capacity' /\ ii' \in 0..(size' \div 2) /\ size' = size
    BY <1>1, <1>2
  <2>2. QED
    BY <1>1, <1>2, <1>3, <2>1 DEF HeapTypeOK
<1>5. ASSUME NEW k \in 1..(size - 1)
      PROVE  values'[k] <= values'[Parent(k)]
  <2>1. Parent(k) \in 0..(size - 1) /\ k \in 0..(size - 1)
    BY <1>1, ParentIsAbove
  <2>2. values[k] <= values[Parent(k)]
    BY <1>1 DEF Inductive, HeapOrder
  <2>3. QED
    BY <1>3, <2>1, <2>2
<1>6. QED
  BY <1>1, <1>2, <1>4, <1>5, IdleInductive

LEMMA NextInductive ==
    ASSUME Inductive, [HeapNext]_heapVars
    PROVE  Inductive'
<1>1. ASSUME NEW v \in Value, Push(v) PROVE Inductive'
  BY <1>1, PushInductive
<1>2. ASSUME Rise PROVE Inductive'
  BY <1>2, RiseInductive
<1>3. ASSUME Risen PROVE Inductive'
  BY <1>3, RisenInductive
<1>4. ASSUME Pop PROVE Inductive'
  BY <1>4, PopInductive
<1>5. ASSUME PopNothing PROVE Inductive'
  BY <1>5 DEF PopNothing, memory, Inductive, HeapTypeOK, HeapOrder, Bridged, Parent
<1>6. ASSUME Peak PROVE Inductive'
  <2>1. out' \in Value
    BY <1>6 DEF Peak, Inductive, HeapTypeOK
  <2>2. QED
    BY <1>6, <2>1 DEF Peak, memory, Inductive, HeapTypeOK, HeapOrder, Bridged, Parent
<1>7. ASSUME Sink PROVE Inductive'
  BY <1>7, SinkInductive
<1>8. ASSUME Sunk PROVE Inductive'
  BY <1>8, SunkInductive
<1>9. ASSUME NEW room \in 0..MaxSize, Reserve(room) PROVE Inductive'
  BY <1>9, ReserveInductive
<1>10. ASSUME UNCHANGED heapVars PROVE Inductive'
  BY <1>10 DEF heapVars, memory, Inductive, HeapTypeOK, HeapOrder, Bridged, Parent
<1>11. QED
  BY <1>1, <1>2, <1>3, <1>4, <1>5, <1>6, <1>7, <1>8, <1>9, <1>10 DEF HeapNext

(* The inductive invariant holds. *)
THEOREM InductiveHolds == HeapSpec => []Inductive
<1>1. Inductive /\ [HeapNext]_heapVars => Inductive'
  BY NextInductive
<1>2. QED
  BY InitInductive, <1>1, PTL DEF HeapSpec

(* No call of the heap, however large it has grown, reaches outside of its   *)
(* block or takes what was never written for a value.                        *)
THEOREM TypeCorrect == HeapSpec => []HeapTypeOK
<1>1. Inductive => HeapTypeOK
  BY DEF Inductive
<1>2. QED
  BY InductiveHolds, <1>1, PTL

(* Between calls no value of the heap comes before the one above it, for any *)
(* values and any size; a push, a pop and a reconstruction all restore this. *)
THEOREM StaysInOrder == HeapSpec => []HeapOrder
<1>1. Inductive => HeapOrder
  BY DEF Inductive
<1>2. QED
  BY InductiveHolds, <1>1, PTL

-----------------------------------------------------------------------------
(* The heap as a queue of values that are held any number of times.          *)

(* How often x is among the first n values of f. *)
PlacesOf(f, n, x) == {k \in 0..(n - 1) : f[k] = x}
Times(f, n, x) == Cardinality(PlacesOf(f, n, x))

(* The places of a value can be counted. *)
LEMMA PlacesAreFinite ==
    ASSUME NEW f, NEW n \in Nat, NEW x
    PROVE  IsFiniteSet(PlacesOf(f, n, x)) /\ Times(f, n, x) \in Nat
<1>1. IsFiniteSet(0..(n - 1))
  BY FS_Interval
<1>2. IsFiniteSet(PlacesOf(f, n, x))
  BY <1>1, FS_Subset DEF PlacesOf
<1> QED
  BY <1>2, FS_CardinalityType DEF Times

(* A value that is nowhere is there no times. *)
LEMMA NoneIsThere ==
    ASSUME NEW f, NEW n \in Nat, NEW x
    PROVE  Times(f, n, x) = 0 <=> \A k \in 0..(n - 1) : f[k] # x
<1>1. IsFiniteSet(PlacesOf(f, n, x))
  BY PlacesAreFinite
<1>2. Times(f, n, x) = 0 <=> PlacesOf(f, n, x) = {}
  BY <1>1, FS_EmptySet DEF Times
<1> QED
  BY <1>2 DEF PlacesOf

(* The same values are there as often. *)
LEMMA SameTimes ==
    ASSUME NEW f, NEW g, NEW n, NEW x, \A k \in 0..(n - 1) : f[k] = g[k]
    PROVE  Times(f, n, x) = Times(g, n, x)
<1>1. PlacesOf(f, n, x) = PlacesOf(g, n, x)
  BY DEF PlacesOf
<1> QED
  BY <1>1 DEF Times

(* One value more. *)
LEMMA TimesWithLast ==
    ASSUME NEW f, NEW n \in Nat, NEW m, m = n + 1, NEW x
    PROVE  Times(f, m, x) = Times(f, n, x) + (IF f[n] = x THEN 1 ELSE 0)
<1>1. IsFiniteSet(PlacesOf(f, n, x)) /\ Times(f, n, x) \in Nat
  BY PlacesAreFinite
<1>2. \A k : k \in 0..(m - 1) <=> k \in 0..(n - 1) \/ k = n
  OBVIOUS
<1>3. n \notin 0..(n - 1)
  OBVIOUS
<1>4. CASE f[n] = x
  <2>1. PlacesOf(f, m, x) = PlacesOf(f, n, x) \cup {n} /\ n \notin PlacesOf(f, n, x)
    BY <1>2, <1>3, <1>4 DEF PlacesOf
  <2>2. Cardinality(PlacesOf(f, n, x) \cup {n}) = Cardinality(PlacesOf(f, n, x)) + 1
    BY <1>1, <2>1, FS_AddElement
  <2> QED
    BY <1>4, <2>1, <2>2 DEF Times
<1>5. CASE f[n] # x
  <2>1. PlacesOf(f, m, x) = PlacesOf(f, n, x)
    BY <1>2, <1>3, <1>5 DEF PlacesOf
  <2> QED
    BY <1>1, <1>5, <2>1 DEF Times
<1> QED
  BY <1>4, <1>5

(* Two values exchanged. *)
LEMMA TimesOfSwapped ==
    ASSUME NEW f, NEW g, NEW n \in Nat, NEW x, NEW k \in 0..(n - 1), NEW l \in 0..(n - 1),
           g[k] = f[l], g[l] = f[k], \A m \in 0..(n - 1) : m # k /\ m # l => g[m] = f[m]
    PROVE  Times(g, n, x) = Times(f, n, x)
<1> DEFINE P == PlacesOf(f, n, x)
           Q == PlacesOf(g, n, x)
<1>1. IsFiniteSet(P) /\ IsFiniteSet(Q)
  BY PlacesAreFinite
<1>2. ASSUME NEW a \in 0..(n - 1), NEW b \in 0..(n - 1), f[a] = x, f[b] # x, g[a] = f[b], g[b] = f[a],
             \A m \in 0..(n - 1) : m # a /\ m # b => g[m] = f[m]
      PROVE  Cardinality(Q) = Cardinality(P)
  <2>1. Q = (P \ {a}) \cup {b} /\ a \in P /\ b \notin P \ {a}
    BY <1>2 DEF PlacesOf
  <2> HIDE DEF P, Q
  <2>2. /\ IsFiniteSet(P \ {a}) /\ Cardinality(P \ {a}) = Cardinality(P) - 1
        /\ Cardinality(P) \in Nat
    BY <1>1, <2>1, FS_RemoveElement, FS_CardinalityType
  <2>3. Cardinality((P \ {a}) \cup {b}) = Cardinality(P \ {a}) + 1
    BY <2>1, <2>2, FS_AddElement
  <2> QED
    BY <2>1, <2>2, <2>3
<1>3. CASE f[k] = x /\ f[l] # x
  BY <1>2, <1>3 DEF Times
<1>4. CASE f[k] # x /\ f[l] = x
  BY <1>2, <1>4 DEF Times
<1>5. CASE f[k] = x <=> f[l] = x
  <2>1. Q = P
    BY <1>5 DEF PlacesOf
  <2> QED
    BY <2>1 DEF Times
<1> QED
  BY <1>3, <1>4, <1>5

(* The value at the front is the first in the comparator's order.            *)
LEMMA RootIsFirst ==
    ASSUME Inductive, call = "none"
    PROVE  \A k \in 0..(size - 1) : values[k] <= values[0]
<1>1. size \in Nat /\ \A k \in 0..(size - 1) : values[k] \in Nat
  <2>1. size \in 0..capacity /\ capacity \in Nat
    BY DEF Inductive, HeapTypeOK
  <2>2. \A k \in 0..(size - 1) : values[k] \in Nat
    BY HeapAssumption DEF Inductive, HeapTypeOK
  <2> QED
    BY <2>1, <2>2
<1>2. \A k \in 1..(size - 1) : values[k] <= values[Parent(k)]
  BY DEF Inductive, HeapOrder
<1> DEFINE Good == {n \in Nat : \A k \in 0..n : k \in 0..(size - 1) => values[k] <= values[0]}
<1>3. 0 \in Good
  <2>1. \A k \in 0..0 : k \in 0..(size - 1) => values[k] <= values[0]
    BY <1>1
  <2> QED
    BY <2>1
<1>4. \A n \in Nat : n \in Good => n + 1 \in Good
  <2> SUFFICES ASSUME NEW n \in Nat, n \in Good, NEW k \in 0..(n + 1), k \in 0..(size - 1)
               PROVE  values[k] <= values[0]
    OBVIOUS
  <2>1. \A l \in 0..n : l \in 0..(size - 1) => values[l] <= values[0]
    OBVIOUS
  <2>2. CASE k = 0
    BY <1>1, <2>2
  <2>3. CASE k # 0
    <3>1. Parent(k) \in 0..(k - 1)
      BY <2>3, ParentIsAbove
    <3>2. Parent(k) \in 0..n /\ Parent(k) \in 0..(size - 1) /\ k \in 1..(size - 1) /\ 0 \in 0..(size - 1)
      BY <1>1, <2>3, <3>1
    <3> QED
      BY <1>1, <1>2, <2>1, <3>2
  <2> QED
    BY <2>2, <2>3
<1>5. Nat \subseteq Good
  <2> HIDE DEF Good
  <2> QED
    BY <1>3, <1>4, Induct
<1>6. ASSUME NEW k \in 0..(size - 1) PROVE values[k] <= values[0]
  <2>1. k \in Good /\ k \in 0..k
    BY <1>1, <1>5
  <2> QED
    BY <2>1
<1> QED
  BY <1>6

(* The queue that the values held make up. *)
Counts == [v \in Value |-> Times(values, size, v)]

(* It is the bag of the refinement mapping, before and after a step.         *)
LEMMA CountsOfHeld ==
    ASSUME HeapTypeOK, capacity \in Nat
    PROVE  [v \in Value |-> Cardinality({k \in Held : values[k] = v})] = Counts
<1>1. Held = 0..(size - 1)
  BY DEF HeapTypeOK, Held
<1>2. \A v : {k \in Held : values[k] = v} = PlacesOf(values, size, v)
  BY <1>1 DEF PlacesOf
<1> QED
  BY <1>2 DEF Counts, Times

LEMMA CountsOfHeldNext ==
    ASSUME HeapTypeOK', capacity' \in Nat
    PROVE  [v \in Value |-> Cardinality({k \in Held : values[k] = v})]' = Counts'
<1>1. Held' = 0..(size' - 1)
  BY DEF HeapTypeOK, Held
<1>2. \A v : {k \in Held' : values'[k] = v} = PlacesOf(values', size', v)
  BY <1>1 DEF PlacesOf
<1> QED
  BY <1>2 DEF Counts, Times

(* Rising and sinking exchange two values. *)
LEMMA ExchangeKeepsCounts ==
    ASSUME Inductive, NEW k \in 0..(size - 1), NEW l \in 0..(size - 1), k # l,
           values' = Swapped(k, l), UNCHANGED <<size, capacity>>
    PROVE  Counts' = Counts
<1>1. /\ values'[k] = values[l] /\ values'[l] = values[k]
      /\ \A m \in 0..(size - 1) : m # k /\ m # l => values'[m] = values[m]
  BY SwapType
<1>2. size \in Nat
  BY DEF Inductive, HeapTypeOK
<1>3. PICK f : f = values
  OBVIOUS
<1>4. PICK g : g = values'
  OBVIOUS
<1>5. PICK n \in Nat : n = size
  BY <1>2
<1>6. \A x : Times(g, n, x) = Times(f, n, x)
  BY <1>1, <1>3, <1>4, <1>5, TimesOfSwapped
<1> QED
  BY <1>3, <1>4, <1>5, <1>6 DEF Counts

(* A push adds the value pushed, also when the block grows. *)
LEMMA PushCounts ==
    ASSUME Inductive, NEW v \in Value, Push(v)
    PROVE  Counts' = [Counts EXCEPT ![v] = @ + 1]
<1>1. /\ size \in 0..capacity /\ capacity \in Nat \ {0} /\ size' = size + 1
      /\ values \in [0..(capacity - 1) -> Value \cup {Unset}]
  BY DEF Inductive, HeapTypeOK, Push
<1>2. PICK n \in Nat : n = size
  BY <1>1
<1>3. values'[n] = v /\ \A k \in 0..(n - 1) : values'[k] = values[k]
  <2>1. CASE IsFull
    <3>1. values' = [Moved(2 * capacity) EXCEPT ![n] = v] /\ n = capacity
      BY <1>2, <2>1 DEF Push, IsFull
    <3>2. n \in 0..(2 * capacity - 1) /\ \A k \in 0..(n - 1) : k \in 0..(2 * capacity - 1) /\ k \in Held /\ k # n
      BY <1>1, <1>2, <3>1 DEF Held
    <3> QED
      BY <3>1, <3>2 DEF Moved
  <2>2. CASE ~IsFull
    <3>1. values' = [values EXCEPT ![n] = v] /\ n # capacity
      BY <1>2, <2>2 DEF Push, IsFull
    <3>2. n \in 0..(capacity - 1) /\ \A k \in 0..(n - 1) : k \in 0..(capacity - 1) /\ k # n
      BY <1>1, <1>2, <3>1
    <3> QED
      BY <1>1, <3>1, <3>2
  <2> QED
    BY <2>1, <2>2
<1>4. PICK f : f = values
  OBVIOUS
<1>5. PICK g : g = values'
  OBVIOUS
<1>6. PICK m \in Nat : m = n + 1
  OBVIOUS
<1>7. \A x \in Value : Times(g, m, x) = IF x = v THEN Times(f, n, x) + 1 ELSE Times(f, n, x)
  <2> SUFFICES ASSUME NEW x \in Value
               PROVE Times(g, m, x) = IF x = v THEN Times(f, n, x) + 1 ELSE Times(f, n, x)
    OBVIOUS
  <2>1. Times(g, m, x) = Times(g, n, x) + (IF g[n] = x THEN 1 ELSE 0)
    BY <1>6, TimesWithLast
  <2>2. Times(g, n, x) = Times(f, n, x)
    BY <1>3, <1>4, <1>5, SameTimes
  <2>3. Times(f, n, x) \in Nat
    BY PlacesAreFinite
  <2> QED
    BY <1>3, <1>5, <2>1, <2>2, <2>3
<1> QED
  BY <1>1, <1>2, <1>4, <1>5, <1>6, <1>7 DEF Counts

(* A pop takes the value at the front, and the last one moves there. *)
LEMMA PopCounts ==
    ASSUME Inductive, Pop
    PROVE  values[0] \in Value /\ Counts' = [Counts EXCEPT ![values[0]] = @ - 1]
<1>1. /\ size \in 0..capacity /\ capacity \in Nat \ {0} /\ size > 0 /\ size' = size - 1
      /\ values \in [0..(capacity - 1) -> Value \cup {Unset}]
      /\ \A k \in 0..(size - 1) : values[k] \in Value
  BY DEF Inductive, HeapTypeOK, Pop
<1>2. PICK n \in Nat : n = size - 1
  BY <1>1
<1>3. PICK m \in Nat : m = n + 1
  OBVIOUS
<1>4. size = m /\ size' = n /\ 0 \in 0..(m - 1) /\ n \in 0..(m - 1)
  BY <1>1, <1>2, <1>3
<1>5. PICK f : f = values
  OBVIOUS
<1>6. PICK g : g = values'
  OBVIOUS
<1>7. \A k \in 0..(n - 1) : g[k] = IF k = 0 THEN f[n] ELSE f[k]
  <2>1. CASE n = 0
    BY <2>1
  <2>2. CASE n # 0
    <3>1. g = [f EXCEPT ![0] = f[n]]
      BY <1>4, <1>5, <1>6, <2>2 DEF Pop
    <3>2. \A k \in 0..(n - 1) : k \in 0..(capacity - 1)
      BY <1>1, <1>3, <1>4
    <3> QED
      BY <1>1, <1>5, <3>1, <3>2
  <2> QED
    BY <2>1, <2>2
<1>8. PICK h : h = [k \in 0..(m - 1) |-> IF k = 0 THEN f[n] ELSE IF k = n THEN f[0] ELSE f[k]]
  OBVIOUS
<1>9. /\ h[0] = f[n] /\ h[n] = f[0]
      /\ \A k \in 0..(m - 1) : k # 0 /\ k # n => h[k] = f[k]
  BY <1>4, <1>8
<1>10. \A k \in 0..(n - 1) : h[k] = g[k]
  <2>1. \A k \in 0..(n - 1) : k \in 0..(m - 1) /\ k # n
    BY <1>3
  <2> QED
    BY <1>7, <1>8, <2>1
<1>11. \A x \in Value : Times(g, n, x) = IF x = f[0] THEN Times(f, m, x) - 1 ELSE Times(f, m, x)
  <2> SUFFICES ASSUME NEW x \in Value
               PROVE Times(g, n, x) = IF x = f[0] THEN Times(f, m, x) - 1 ELSE Times(f, m, x)
    OBVIOUS
  <2>1. Times(h, m, x) = Times(f, m, x)
    BY <1>4, <1>9, TimesOfSwapped
  <2>2. Times(h, m, x) = Times(h, n, x) + (IF h[n] = x THEN 1 ELSE 0)
    BY <1>3, TimesWithLast
  <2>3. Times(h, n, x) = Times(g, n, x)
    BY <1>10, SameTimes
  <2>4. Times(g, n, x) \in Nat
    BY PlacesAreFinite
  <2> QED
    BY <1>9, <2>1, <2>2, <2>3, <2>4
<1>12. f[0] \in Value
  BY <1>1, <1>4, <1>5
<1> QED
  BY <1>4, <1>5, <1>6, <1>11, <1>12 DEF Counts

(* The value at the front is one that is held and the first of these. *)
LEMMA RootCounts ==
    ASSUME Inductive, call = "none", size > 0
    PROVE  /\ values[0] \in Value /\ Counts[values[0]] > 0
           /\ \A w \in Value : Counts[w] > 0 => w <= values[0]
<1>1. PICK n \in Nat : n = size
  BY DEF Inductive, HeapTypeOK
<1>2. 0 \in 0..(n - 1) /\ values[0] \in Value
  BY <1>1 DEF Inductive, HeapTypeOK
<1>3. \A x \in Value : Counts[x] > 0 <=> \E k \in 0..(n - 1) : values[k] = x
  <2> SUFFICES ASSUME NEW x \in Value
               PROVE  Counts[x] > 0 <=> \E k \in 0..(n - 1) : values[k] = x
    OBVIOUS
  <2>1. PICK f : f = values
    OBVIOUS
  <2>2. Counts[x] = Times(f, n, x)
    BY <1>1, <2>1 DEF Counts
  <2>3. Times(f, n, x) \in Nat /\ (Times(f, n, x) = 0 <=> \A k \in 0..(n - 1) : f[k] # x)
    BY PlacesAreFinite, NoneIsThere
  <2> QED
    BY <2>1, <2>2, <2>3
<1>4. \A k \in 0..(n - 1) : values[k] <= values[0]
  BY <1>1, RootIsFirst
<1> QED
  BY <1>2, <1>3, <1>4

(* An empty heap is an empty queue. *)
LEMMA EmptyCounts ==
    ASSUME size = 0 PROVE \A v \in Value : Counts[v] = 0
<1>1. PICK f : f = values
  OBVIOUS
<1>2. \A v \in Value : Times(f, 0, v) = 0
  BY NoneIsThere
<1> QED
  BY <1>1, <1>2 DEF Counts

(* All other steps leave the queue alone. *)
LEMMA CountsStay ==
    ASSUME Inductive,
           \/ Rise \/ Risen \/ PopNothing \/ Peak \/ Sink \/ Sunk
           \/ \E room \in 0..MaxSize : Reserve(room)
           \/ UNCHANGED heapVars
    PROVE  Counts' = Counts
<1>1. size \in 0..capacity /\ capacity \in Nat \ {0} /\ DOMAIN values = 0..(capacity - 1)
  BY DEF Inductive, HeapTypeOK
<1>2. CASE Rise
  <2>1. i \in 1..(size - 1)
    BY <1>1, <1>2 DEF Rise, RisesOn, Inductive, HeapTypeOK
  <2>2. Parent(i) \in 0..(i - 1)
    BY <2>1, ParentIsAbove
  <2>3. Parent(i) \in 0..(size - 1) /\ i \in 0..(size - 1) /\ i # Parent(i)
    BY <1>1, <2>1, <2>2
  <2> QED
    BY <1>2, <2>3, ExchangeKeepsCounts DEF Rise
<1>3. CASE Sink
  <2>1. /\ LargerChild \in 1..(size - 1) /\ Parent(LargerChild) = i
        /\ i \in 0..(size - 1)
    BY <1>3, SinkingFacts DEF Sink
  <2>2. LargerChild # i /\ LargerChild \in 0..(size - 1)
    <3>1. Parent(LargerChild) \in 0..(LargerChild - 1)
      BY <1>1, <2>1, ParentIsAbove
    <3> QED
      BY <1>1, <2>1, <3>1
  <2> QED
    BY <1>3, <2>1, <2>2, ExchangeKeepsCounts DEF Sink
<1>4. ASSUME NEW room \in 0..MaxSize, Reserve(room) PROVE Counts' = Counts
  <2>1. /\ values' = Moved(capacity') /\ capacity < capacity' /\ capacity' \in Nat /\ size' = size
    BY <1>4, HeapAssumption DEF Reserve, Doubles
  <2>2. \A k \in 0..(size - 1) : k \in 0..(capacity' - 1) /\ k \in Held
    <3>1. PICK c \in Nat : c = capacity
      BY <1>1
    <3>2. PICK d \in Nat : d = capacity'
      BY <2>1
    <3>3. size \in 0..c /\ c < d
      BY <1>1, <2>1, <3>1, <3>2
    <3>4. \A k \in 0..(size - 1) : k \in 0..(c - 1) /\ k \in 0..(d - 1) /\ k < size
      BY <3>3
    <3> QED
      BY <1>1, <3>1, <3>2, <3>4 DEF Held
  <2>3. \A k \in 0..(size - 1) : values'[k] = values[k]
    BY <2>1, <2>2 DEF Moved
  <2>4. PICK f : f = values
    OBVIOUS
  <2>5. PICK g : g = values'
    OBVIOUS
  <2>6. \A x : Times(g, size, x) = Times(f, size, x)
    BY <2>3, <2>4, <2>5, SameTimes
  <2> QED
    BY <2>1, <2>4, <2>5, <2>6 DEF Counts
<1>5. CASE UNCHANGED <<values, size>>
  BY <1>5 DEF Counts
<1> QED
  BY <1>2, <1>3, <1>4, <1>5 DEF Risen, PopNothing, Peak, Sunk, memory, heapVars

(* Whatever values are pushed, popped or reserved for, and whatever the order *)
(* they were in when the heap was reconstructed: what comes out is each time  *)
(* the first of the values held, and each as often as it was put in.          *)
THEOREM IsAPriorityQueue == HeapSpec => ImplementsPriorityQueue
<1>1. ASSUME HeapInit PROVE Queue!Init
  <2>1. Inductive
    BY <1>1, InitInductive
  <2>2. \A v \in Value : Times(values, size, v) \in Nat
    <3>1. PICK n \in Nat : n = size
      BY <2>1 DEF Inductive, HeapTypeOK
    <3>2. PICK f : f = values
      OBVIOUS
    <3> QED
      BY <3>1, <3>2, PlacesAreFinite
  <2>3. Counts \in [Value -> Nat] /\ out = Nothing
    BY <1>1, <2>2 DEF Counts, HeapInit
  <2>4. HeapTypeOK /\ capacity \in Nat
    BY <2>1 DEF Inductive
  <2> QED
    BY <2>3, <2>4, CountsOfHeld DEF Queue!Init
<1>2. ASSUME Inductive, [HeapNext]_heapVars
      PROVE  [Queue!Next]_Queue!vars
  <2>1. Inductive'
    BY <1>2, NextInductive
  <2>2. /\ [v \in Value |-> Cardinality({k \in Held : values[k] = v})] = Counts
        /\ [v \in Value |-> Cardinality({k \in Held : values[k] = v})]' = Counts'
    BY <1>2, <2>1, CountsOfHeld, CountsOfHeldNext DEF Inductive
  <2>3. \/ /\ Counts' = Counts
           /\ \/ out' = out
              \/ \E v \in Value : /\ Counts[v] > 0 /\ \A w \in Value : Counts[w] > 0 => w <= v
                                  /\ out' = v
              \/ (\A v \in Value : Counts[v] = 0) /\ out' = Nothing
        \/ \E v \in Value : /\ Counts[v] > 0 /\ \A w \in Value : Counts[w] > 0 => w <= v
                            /\ out' = v /\ Counts' = [Counts EXCEPT ![v] = @ - 1]
        \/ \E v \in Value : Counts' = [Counts EXCEPT ![v] = @ + 1] /\ out' = out
    <3>1. ASSUME NEW v \in Value, Push(v) PROVE <2>3!3
      BY <1>2, <3>1, PushCounts DEF Push
    <3>2. CASE Pop
      <4>1. call = "none" /\ size > 0 /\ out' = values[0]
        BY <3>2 DEF Pop
      <4> QED
        BY <1>2, <3>2, <4>1, PopCounts, RootCounts
    <3>3. CASE Peak
      <4>1. call = "none" /\ size > 0 /\ out' = values[0]
        BY <3>3 DEF Peak
      <4> QED
        BY <1>2, <3>3, <4>1, CountsStay, RootCounts
    <3>4. CASE PopNothing
      <4>1. size = 0 /\ out' = Nothing
        BY <3>4 DEF PopNothing
      <4> QED
        BY <1>2, <3>4, <4>1, CountsStay, EmptyCounts
    <3>5. CASE Rise \/ Risen \/ Sink \/ Sunk \/ (\E room \in 0..MaxSize : Reserve(room)) \/ UNCHANGED heapVars
      <4>1. out' = out
        BY <3>5 DEF Rise, Risen, Sink, Sunk, Reserve, heapVars
      <4> QED
        BY <1>2, <3>5, <4>1, CountsStay
    <3> QED
      BY <1>2, <3>1, <3>2, <3>3, <3>4, <3>5 DEF HeapNext
  <2> QED
    BY <2>2, <2>3 DEF Queue!Next, Queue!Look, Queue!Put, Queue!Take, Queue!IsFirst, Queue!vars
<1> QED
  BY <1>1, <1>2, InductiveHolds, PTL DEF HeapSpec, ImplementsPriorityQueue, Queue!Spec

-----------------------------------------------------------------------------
(* The nodes that follow one another over the pointers nx and pv, n of them, *)
(* W[1] first: those that a call put before the head, the head at h, those   *)
(* of the list, and the tail at n.                                           *)
Places == Node \cup {head, tail}

Linked(nx, pv, al, W, n, h) ==
    /\ n \in Nat /\ W \in [1..n -> Places] /\ h \in 1..(n - 1)
    /\ W[h] = head /\ W[n] = tail
    /\ \A j, k \in 1..n : W[j] = W[k] => j = k
    /\ DOMAIN nx = Places /\ DOMAIN pv = Places
    /\ \A k \in 1..(n - 1) : nx[W[k]] = W[k + 1] /\ pv[W[k + 1]] = W[k]
    /\ nx[W[n]] = Nil /\ pv[W[1]] = Nil
    /\ \A x \in Places : (\E k \in 1..n : W[k] = x) \/ (nx[x] = Nil /\ pv[x] = Nil)
    /\ \A k \in 1..n : W[k] \in al \cup {head, tail}

Put(W, n, k, x) == [j \in 1..(n + 1) |-> IF j < k THEN W[j] ELSE IF j = k THEN x ELSE W[j - 1]]
Cut(W, n, k) == [j \in 1..(n - 1) |-> IF j < k THEN W[j] ELSE W[j + 1]]

LEMMA PutKeepsLinks ==
    ASSUME NEW nx, NEW pv, NEW al, NEW W, NEW n, NEW h, Linked(nx, pv, al, W, n, h),
           NEW x \in Node, \A j \in 1..n : W[j] # x, NEW k \in 1..n, NEW nx2, NEW pv2, NEW al2,
           nx2 = [m \in DOMAIN nx |->
                    IF m = x THEN W[k] ELSE IF m = pv[W[k]] THEN x ELSE nx[m]],
           pv2 = [pv EXCEPT ![x] = pv[W[k]], ![W[k]] = x],
           al2 = al \cup {x}
    PROVE  Linked(nx2, pv2, al2, Put(W, n, k, x), n + 1, IF k <= h THEN h + 1 ELSE h)
<1> DEFINE V == Put(W, n, k, x)
           g == IF k <= h THEN h + 1 ELSE h
<1>1. /\ n \in Nat /\ W \in [1..n -> Places] /\ h \in 1..(n - 1)
      /\ W[h] = head /\ W[n] = tail
      /\ \A a, b \in 1..n : W[a] = W[b] => a = b
      /\ DOMAIN nx = Places /\ DOMAIN pv = Places
      /\ nx[W[n]] = Nil /\ pv[W[1]] = Nil
  BY DEF Linked
<1>2. \A j \in 1..(n - 1) : nx[W[j]] = W[j + 1] /\ pv[W[j + 1]] = W[j]
  BY DEF Linked
<1>3. \A y \in Places : (\E j \in 1..n : W[j] = y) \/ (nx[y] = Nil /\ pv[y] = Nil)
  BY DEF Linked
<1>4. \A j \in 1..n : W[j] \in al \cup {head, tail}
  BY DEF Linked
<1>5. x \in Places /\ W[k] \in Places /\ W[k] # x /\ Nil \notin Places
  BY <1>1, ListAssumption DEF Places
<1>6. pv[W[k]] = IF k = 1 THEN Nil ELSE W[k - 1]
  <2>1. CASE k = 1
    BY <1>1, <2>1
  <2>2. CASE k # 1
    <3>1. k - 1 \in 1..(n - 1) /\ (k - 1) + 1 = k
      BY <1>1, <2>2
    <3> QED
      BY <1>2, <2>2, <3>1
  <2> QED
    BY <2>1, <2>2
<1>7. /\ DOMAIN nx2 = Places /\ DOMAIN pv2 = Places
      /\ \A y \in Places : nx2[y] = IF y = x THEN W[k] ELSE IF y = pv[W[k]] THEN x ELSE nx[y]
      /\ \A y \in Places : pv2[y] = IF y = W[k] THEN x ELSE IF y = x THEN pv[W[k]] ELSE pv[y]
  BY <1>1, <1>5
<1>8. /\ V \in [1..(n + 1) -> Places]
      /\ \A j \in 1..(n + 1) : V[j] = IF j < k THEN W[j] ELSE IF j = k THEN x ELSE W[j - 1]
  <2>1. \A j \in 1..(n + 1) : j < k => j \in 1..n
    BY <1>1
  <2>2. \A j \in 1..(n + 1) : j > k => j - 1 \in 1..n
    BY <1>1
  <2> QED
    BY <1>1, <1>5, <2>1, <2>2 DEF Put
<1> HIDE DEF V
<1>9. g \in 1..n /\ V[g] = head /\ V[n + 1] = tail
  <2>1. CASE k <= h
    BY <1>1, <1>8, <2>1
  <2>2. CASE k > h
    <3>1. h \in 1..(n + 1) /\ n + 1 \in 1..(n + 1) /\ ~(n + 1 < k) /\ n + 1 # k /\ (n + 1) - 1 = n
      BY <1>1
    <3>2. V[h] = W[h] /\ V[n + 1] = W[n]
      BY <1>8, <2>2, <3>1
    <3>3. g = h /\ h \in 1..n
      BY <1>1, <2>2
    <3> HIDE DEF g
    <3> QED
      BY <1>1, <3>2, <3>3
  <2> QED
    BY <1>1, <2>1, <2>2
<1>10. \A a, b \in 1..(n + 1) : V[a] = V[b] => a = b
  <2> SUFFICES ASSUME NEW a \in 1..(n + 1), NEW b \in 1..(n + 1), V[a] = V[b], a < b
               PROVE  FALSE
    BY <1>1
  <2>1. CASE a < k /\ b < k
    BY <1>1, <1>8, <2>1
  <2>2. CASE a < k /\ b = k
    BY <1>1, <1>8, <2>2
  <2>3. CASE a < k /\ b > k
    BY <1>1, <1>8, <2>3
  <2>4. CASE a = k /\ b > k
    BY <1>1, <1>8, <2>4
  <2>5. CASE a > k /\ b > k
    <3>1. a - 1 \in 1..n /\ b - 1 \in 1..n /\ V[a] = W[a - 1] /\ V[b] = W[b - 1]
      BY <1>1, <1>8, <2>5
    <3>2. W[a - 1] = W[b - 1]
      BY <3>1
    <3>3. a - 1 = b - 1
      BY <1>1, <3>1, <3>2
    <3> QED
      BY <1>1, <3>3
  <2> QED
    BY <1>1, <2>1, <2>2, <2>3, <2>4, <2>5
<1>11. \A j \in 1..n : nx2[V[j]] = V[j + 1] /\ pv2[V[j + 1]] = V[j]
  <2> SUFFICES ASSUME NEW j \in 1..n PROVE nx2[V[j]] = V[j + 1] /\ pv2[V[j + 1]] = V[j]
    OBVIOUS
  <2>1. CASE j < k - 1
    <3>1. V[j] = W[j] /\ V[j + 1] = W[j + 1] /\ j \in 1..(n - 1) /\ j + 1 \in 1..n /\ k - 1 \in 1..n
      BY <1>1, <1>8, <2>1
    <3>2. W[j] # W[k - 1] /\ W[j + 1] # W[k] /\ W[j] \in Places /\ W[j + 1] \in Places /\ W[j + 1] # x
      BY <1>1, <2>1, <3>1
    <3> QED
      BY <1>2, <1>6, <1>7, <2>1, <3>1, <3>2
  <2>2. CASE j = k - 1
    <3>1. V[j] = W[j] /\ V[j + 1] = x /\ k # 1 /\ pv[W[k]] = W[j] /\ W[j] \in Places /\ W[j] # x
      BY <1>1, <1>6, <1>8, <2>2
    <3> QED
      BY <1>5, <1>7, <3>1
  <2>3. CASE j = k
    <3>1. V[j] = x /\ V[j + 1] = W[k]
      BY <1>1, <1>8, <2>3
    <3> QED
      BY <1>5, <1>7, <3>1
  <2>4. CASE j > k
    <3>1. V[j] = W[j - 1] /\ V[j + 1] = W[j] /\ j - 1 \in 1..(n - 1) /\ (j - 1) + 1 = j /\ j - 1 \in 1..n
      BY <1>1, <1>8, <2>4
    <3>2. W[j - 1] \in Places /\ W[j] \in Places /\ W[j] # W[k] /\ W[j] # x /\ W[j - 1] # x
      BY <1>1, <2>4, <3>1
    <3>3. W[j - 1] # pv[W[k]]
      <4>1. CASE k = 1
        BY <1>5, <1>6, <3>2, <4>1
      <4>2. CASE k # 1
        <5>1. k - 1 \in 1..n /\ k - 1 # j - 1
          BY <1>1, <2>4, <4>2
        <5> QED
          BY <1>1, <1>6, <3>1, <4>2, <5>1
      <4> QED
        BY <4>1, <4>2
    <3> QED
      BY <1>2, <1>7, <3>1, <3>2, <3>3
  <2> QED
    BY <1>1, <2>1, <2>2, <2>3, <2>4
<1>12. nx2[V[n + 1]] = Nil /\ pv2[V[1]] = Nil
  <2>1. V[n + 1] = W[n] /\ W[n] \in Places /\ W[n] # x
    <3>1. n \in 1..n /\ n + 1 \in 1..(n + 1) /\ ~(n + 1 < k) /\ n + 1 # k /\ (n + 1) - 1 = n
      BY <1>1
    <3> QED
      BY <1>1, <1>8, <3>1
  <2>2. W[n] # pv[W[k]]
    <3>1. CASE k = 1
      BY <1>5, <1>6, <2>1, <3>1
    <3>2. CASE k # 1
      <4>1. k - 1 \in 1..n /\ k - 1 # n
        BY <1>1, <3>2
      <4> QED
        BY <1>1, <1>6, <3>2, <4>1
    <3> QED
      BY <3>1, <3>2
  <2>3. nx2[V[n + 1]] = Nil
    BY <1>1, <1>7, <2>1, <2>2
  <2>4. pv2[V[1]] = Nil
    <3>1. CASE k = 1
      BY <1>5, <1>6, <1>7, <1>8, <1>1, <3>1
    <3>2. CASE k # 1
      <4>1. V[1] = W[1] /\ 1 \in 1..n /\ W[1] \in Places /\ W[1] # W[k] /\ W[1] # x
        BY <1>1, <1>8, <3>2
      <4> QED
        BY <1>1, <1>7, <4>1
    <3> QED
      BY <3>1, <3>2
  <2> QED
    BY <2>3, <2>4
<1>13. ASSUME NEW y \in Places, \A j \in 1..(n + 1) : V[j] # y
       PROVE  nx2[y] = Nil /\ pv2[y] = Nil
  <2>1. y # x
    BY <1>1, <1>8, <1>13
  <2>2. \A j \in 1..n : W[j] # y
    <3> SUFFICES ASSUME NEW j \in 1..n PROVE W[j] # y
      OBVIOUS
    <3>1. CASE j < k
      BY <1>1, <1>8, <1>13, <3>1
    <3>2. CASE j >= k
      <4>1. j + 1 \in 1..(n + 1) /\ V[j + 1] = W[j]
        BY <1>1, <1>8, <3>2
      <4> QED
        BY <1>13, <4>1
    <3> QED
      BY <1>1, <3>1, <3>2
  <2>3. nx[y] = Nil /\ pv[y] = Nil
    BY <1>3, <2>2
  <2>4. y # pv[W[k]] /\ y # W[k]
    <3>1. CASE k = 1
      BY <1>5, <1>6, <2>2, <3>1
    <3>2. CASE k # 1
      <4>1. k - 1 \in 1..n
        BY <1>1, <3>2
      <4> QED
        BY <1>6, <2>2, <3>2, <4>1
    <3> QED
      BY <3>1, <3>2
  <2> QED
    BY <1>7, <2>1, <2>3, <2>4
<1>14. \A j \in 1..(n + 1) : V[j] \in al2 \cup {head, tail}
  <2> SUFFICES ASSUME NEW j \in 1..(n + 1) PROVE V[j] \in al2 \cup {head, tail}
    OBVIOUS
  <2>1. j < k => j \in 1..n
    BY <1>1
  <2>2. j > k => j - 1 \in 1..n
    BY <1>1
  <2>3. j < k \/ j = k \/ j > k
    BY <1>1
  <2>4. CASE j < k
    BY <1>4, <1>8, <2>1, <2>4
  <2>5. CASE j = k
    BY <1>4, <1>8, <2>5
  <2>6. CASE j > k
    BY <1>1, <1>4, <1>8, <2>2, <2>6
  <2> QED
    BY <2>3, <2>4, <2>5, <2>6
<1>15. n + 1 \in Nat /\ (n + 1) - 1 = n
  BY <1>1
<1> HIDE DEF g
<1>16. Linked(nx2, pv2, al2, V, n + 1, g)
  <2>1. V \in [1..(n + 1) -> Places] /\ DOMAIN nx2 = Places /\ DOMAIN pv2 = Places
    BY <1>7, <1>8
  <2>2. g \in 1..((n + 1) - 1) /\ V[g] = head /\ V[n + 1] = tail
    BY <1>9, <1>15
  <2>3. \A j \in 1..((n + 1) - 1) : nx2[V[j]] = V[j + 1] /\ pv2[V[j + 1]] = V[j]
    BY <1>11, <1>15
  <2>4. \A y \in Places : (\E j \in 1..(n + 1) : V[j] = y) \/ (nx2[y] = Nil /\ pv2[y] = Nil)
    BY <1>13
  <2> QED
    BY <1>10, <1>12, <1>14, <1>15, <2>1, <2>2, <2>3, <2>4 DEF Linked
<1> QED
  BY <1>16 DEF V, g

LEMMA CutKeepsLinks ==
    ASSUME NEW nx, NEW pv, NEW al, NEW W, NEW n, NEW h, Linked(nx, pv, al, W, n, h),
           NEW x \in Node, NEW k \in 1..n, W[k] = x, NEW nx2, NEW pv2, NEW al2,
           nx2 = [m \in DOMAIN nx |->
                    IF m = x THEN Nil ELSE IF m = pv[x] THEN nx[x] ELSE nx[m]],
           pv2 = [m \in DOMAIN pv |->
                    IF m = x THEN Nil ELSE IF m = nx[x] THEN pv[x] ELSE pv[m]],
           al \ {x} \subseteq al2
    PROVE  /\ k # h /\ k # n
           /\ Linked(nx2, pv2, al2, Cut(W, n, k), n - 1, IF k < h THEN h - 1 ELSE h)
<1> DEFINE V == Cut(W, n, k)
           g == IF k < h THEN h - 1 ELSE h
<1>1. /\ n \in Nat /\ W \in [1..n -> Places] /\ h \in 1..(n - 1)
      /\ W[h] = head /\ W[n] = tail
      /\ \A a, b \in 1..n : W[a] = W[b] => a = b
      /\ DOMAIN nx = Places /\ DOMAIN pv = Places
      /\ nx[W[n]] = Nil /\ pv[W[1]] = Nil
  BY DEF Linked
<1>2. \A j \in 1..(n - 1) : nx[W[j]] = W[j + 1] /\ pv[W[j + 1]] = W[j]
  BY DEF Linked
<1>3. \A y \in Places : (\E j \in 1..n : W[j] = y) \/ (nx[y] = Nil /\ pv[y] = Nil)
  BY DEF Linked
<1>4. \A j \in 1..n : W[j] \in al \cup {head, tail}
  BY DEF Linked
<1>5. x \in Places /\ Nil \notin Places /\ x # head /\ x # tail
  BY ListAssumption DEF Places
<1>6. k # h /\ k # n /\ k + 1 \in 1..n /\ k \in 1..(n - 1)
  BY <1>1, <1>5
<1>7. nx[x] = W[k + 1]
  BY <1>2, <1>6
<1>8. pv[x] = IF k = 1 THEN Nil ELSE W[k - 1]
  <2>1. CASE k = 1
    BY <1>1, <2>1
  <2>2. CASE k # 1
    <3>1. k - 1 \in 1..(n - 1) /\ (k - 1) + 1 = k
      BY <1>1, <2>2
    <3> QED
      BY <1>2, <2>2, <3>1
  <2> QED
    BY <2>1, <2>2
<1>9. /\ DOMAIN nx2 = Places /\ DOMAIN pv2 = Places
      /\ \A y \in Places : nx2[y] = IF y = x THEN Nil ELSE IF y = pv[x] THEN nx[x] ELSE nx[y]
      /\ \A y \in Places : pv2[y] = IF y = x THEN Nil ELSE IF y = nx[x] THEN pv[x] ELSE pv[y]
  BY <1>1
<1>10. /\ n - 1 \in Nat /\ V \in [1..(n - 1) -> Places]
       /\ \A j \in 1..(n - 1) : V[j] = IF j < k THEN W[j] ELSE W[j + 1]
  <2>1. \A j \in 1..(n - 1) : j \in 1..n /\ j + 1 \in 1..n
    BY <1>1
  <2> QED
    BY <1>1, <2>1 DEF Cut
<1> HIDE DEF V
<1>11. g \in 1..((n - 1) - 1) /\ V[g] = head /\ V[n - 1] = tail
  <2>1. n - 1 \in 1..(n - 1) /\ ~(n - 1 < k) /\ (n - 1) + 1 = n
    BY <1>1, <1>6
  <2>2. V[n - 1] = tail
    BY <1>1, <1>10, <2>1
  <2>3. CASE k < h
    <3>1. h - 1 \in 1..((n - 1) - 1) /\ h - 1 \in 1..(n - 1) /\ ~(h - 1 < k) /\ (h - 1) + 1 = h
      BY <1>1, <2>3
    <3>2. g = h - 1
      BY <2>3
    <3> HIDE DEF g
    <3> QED
      BY <1>1, <1>10, <2>2, <3>1, <3>2
  <2>4. CASE ~(k < h)
    <3>1. h \in 1..((n - 1) - 1) /\ h \in 1..(n - 1) /\ h < k
      BY <1>1, <1>6, <2>4
    <3>2. g = h
      BY <2>4
    <3> HIDE DEF g
    <3> QED
      BY <1>1, <1>10, <2>2, <3>1, <3>2
  <2> QED
    BY <2>3, <2>4
<1>12. ASSUME NEW a \in 1..(n - 1), NEW b \in 1..(n - 1), V[a] = V[b] PROVE a = b
  <2>1. a \in 1..n /\ a + 1 \in 1..n /\ b \in 1..n /\ b + 1 \in 1..n
    BY <1>1
  <2>2. CASE a < k /\ b < k
    BY <1>1, <1>10, <1>12, <2>1, <2>2
  <2>3. CASE a < k /\ ~(b < k)
    <3>1. W[a] = W[b + 1] /\ a # b + 1
      BY <1>1, <1>10, <1>12, <2>3
    <3> QED
      BY <1>1, <2>1, <3>1
  <2>4. CASE ~(a < k) /\ b < k
    <3>1. W[a + 1] = W[b] /\ a + 1 # b
      BY <1>1, <1>10, <1>12, <2>4
    <3> QED
      BY <1>1, <2>1, <3>1
  <2>5. CASE ~(a < k) /\ ~(b < k)
    <3>1. W[a + 1] = W[b + 1]
      BY <1>1, <1>10, <1>12, <2>5
    <3>2. a + 1 = b + 1
      BY <1>1, <2>1, <3>1
    <3> QED
      BY <1>1, <3>2
  <2> QED
    BY <2>2, <2>3, <2>4, <2>5
<1>13. ASSUME NEW j \in 1..((n - 1) - 1)
       PROVE  nx2[V[j]] = V[j + 1] /\ pv2[V[j + 1]] = V[j]
  <2>0. j \in 1..(n - 1) /\ j + 1 \in 1..(n - 1) /\ j \in 1..n /\ j + 1 \in 1..n /\ (j + 1) + 1 \in 1..n
    BY <1>1
  <2>1. CASE j + 1 < k
    <3>1. V[j] = W[j] /\ V[j + 1] = W[j + 1] /\ k - 1 \in 1..n /\ j # k - 1 /\ k # 1
      BY <1>1, <1>10, <2>0, <2>1
    <3>2. /\ W[j] # x /\ W[j] # W[k - 1] /\ W[j] \in Places
          /\ W[j + 1] # x /\ W[j + 1] # W[k + 1] /\ W[j + 1] \in Places
      BY <1>1, <1>6, <2>0, <2>1, <3>1
    <3> QED
      BY <1>2, <1>7, <1>8, <1>9, <2>0, <3>1, <3>2
  <2>2. CASE j + 1 = k
    <3>1. V[j] = W[j] /\ V[j + 1] = W[k + 1] /\ k # 1 /\ pv[x] = W[j]
      BY <1>1, <1>8, <1>10, <2>0, <2>2
    <3>2. W[j] # x /\ W[j] \in Places /\ W[k + 1] # x /\ W[k + 1] \in Places
      BY <1>1, <1>6, <2>0, <2>2
    <3> QED
      BY <1>7, <1>9, <3>1, <3>2
  <2>3. CASE j + 1 > k
    <3>1. V[j] = W[j + 1] /\ V[j + 1] = W[(j + 1) + 1]
      BY <1>1, <1>10, <2>0, <2>3
    <3>2. /\ W[j + 1] # x /\ W[j + 1] \in Places
          /\ W[(j + 1) + 1] # x /\ W[(j + 1) + 1] # W[k + 1] /\ W[(j + 1) + 1] \in Places
      <4>1. j + 1 # k /\ (j + 1) + 1 # k /\ (j + 1) + 1 # k + 1
        BY <1>1, <2>3
      <4> QED
        BY <1>1, <1>6, <2>0, <4>1
    <3>3. W[j + 1] # pv[x]
      <4>1. CASE k = 1
        BY <1>5, <1>8, <3>2, <4>1
      <4>2. CASE k # 1
        <5>1. k - 1 \in 1..n /\ k - 1 # j + 1
          BY <1>1, <2>3, <4>2
        <5> QED
          BY <1>1, <1>8, <2>0, <4>2, <5>1
      <4> QED
        BY <4>1, <4>2
    <3>4. nx[W[j + 1]] = W[(j + 1) + 1] /\ pv[W[(j + 1) + 1]] = W[j + 1]
      BY <1>2, <2>0
    <3> QED
      BY <1>7, <1>9, <3>1, <3>2, <3>3, <3>4
  <2> QED
    BY <1>1, <2>1, <2>2, <2>3
<1>14. nx2[V[n - 1]] = Nil /\ pv2[V[1]] = Nil
  <2>1. nx2[tail] = Nil
    <3>1. tail \in Places /\ tail # x
      BY <1>5 DEF Places
    <3>2. tail # pv[x]
      <4>1. CASE k = 1
        BY <1>5, <1>8, <3>1, <4>1
      <4>2. CASE k # 1
        <5>1. k - 1 \in 1..n /\ k - 1 # n /\ n \in 1..n
          BY <1>1, <4>2
        <5> QED
          BY <1>1, <1>8, <4>2, <5>1
      <4> QED
        BY <4>1, <4>2
    <3> QED
      BY <1>1, <1>9, <3>1, <3>2
  <2>2. CASE k = 1
    <3>1. V[1] = W[k + 1] /\ W[k + 1] # x /\ W[k + 1] \in Places /\ pv[x] = Nil
      BY <1>1, <1>6, <1>8, <1>10, <2>2
    <3> QED
      BY <1>7, <1>9, <1>11, <2>1, <3>1
  <2>3. CASE k # 1
    <3>1. 1 \in 1..n /\ 1 < k /\ 1 \in 1..(n - 1) /\ 1 # k + 1
      BY <1>1, <1>6, <2>3
    <3>2. V[1] = W[1] /\ W[1] # x /\ W[1] # W[k + 1] /\ W[1] \in Places
      BY <1>1, <1>6, <1>10, <3>1
    <3> QED
      BY <1>1, <1>7, <1>9, <1>11, <2>1, <3>2
  <2> QED
    BY <2>2, <2>3
<1>15. ASSUME NEW y \in Places, \A j \in 1..(n - 1) : V[j] # y
       PROVE  nx2[y] = Nil /\ pv2[y] = Nil
  <2>1. CASE y = x
    BY <1>9, <2>1
  <2>2. CASE y # x
    <3>1. \A j \in 1..n : W[j] # y
      <4> SUFFICES ASSUME NEW j \in 1..n PROVE W[j] # y
        OBVIOUS
      <4>1. CASE j < k
        <5>1. j \in 1..(n - 1)
          BY <1>1, <1>6, <4>1
        <5> QED
          BY <1>10, <1>15, <4>1, <5>1
      <4>2. CASE j = k
        BY <2>2, <4>2
      <4>3. CASE j > k
        <5>1. j - 1 \in 1..(n - 1) /\ ~(j - 1 < k) /\ (j - 1) + 1 = j
          BY <1>1, <4>3
        <5> QED
          BY <1>10, <1>15, <5>1
      <4> QED
        BY <1>1, <4>1, <4>2, <4>3
    <3>2. nx[y] = Nil /\ pv[y] = Nil
      BY <1>3, <3>1
    <3>3. y # nx[x] /\ y # pv[x]
      <4>1. y # nx[x]
        BY <1>6, <1>7, <3>1
      <4>2. CASE k = 1
        BY <1>5, <1>8, <4>1, <4>2
      <4>3. CASE k # 1
        <5>1. k - 1 \in 1..n
          BY <1>1, <4>3
        <5> QED
          BY <1>8, <3>1, <4>1, <4>3, <5>1
      <4> QED
        BY <4>2, <4>3
    <3> QED
      BY <1>9, <2>2, <3>2, <3>3
  <2> QED
    BY <2>1, <2>2
<1>16. \A j \in 1..(n - 1) : V[j] \in al2 \cup {head, tail}
  <2> SUFFICES ASSUME NEW j \in 1..(n - 1) PROVE V[j] \in al2 \cup {head, tail}
    OBVIOUS
  <2>1. PICK m \in 1..n : V[j] = W[m] /\ m # k
    <3>1. CASE j < k
      <4>1. j \in 1..n /\ j # k
        BY <1>1, <3>1
      <4> QED
        BY <1>10, <3>1, <4>1
    <3>2. CASE ~(j < k)
      <4>1. j + 1 \in 1..n /\ j + 1 # k
        BY <1>1, <3>2
      <4> QED
        BY <1>10, <3>2, <4>1
    <3> QED
      BY <3>1, <3>2
  <2>2. W[m] # x /\ W[m] \in al \cup {head, tail}
    BY <1>1, <1>4, <2>1
  <2> QED
    BY <2>1, <2>2
<1> HIDE DEF g
<1>17. Linked(nx2, pv2, al2, V, n - 1, g)
  BY <1>9, <1>10, <1>11, <1>12, <1>13, <1>14, <1>15, <1>16 DEF Linked
<1> QED
  BY <1>6, <1>17 DEF V, g

Follows(t, p, e) ==
    t = [k \in 0..Cardinality(Node) |->
           IF k = 0 THEN p[e] ELSE IF t[k - 1] \in Node THEN p[t[k - 1]] ELSE Nil]

Trail(p, e) == CHOOSE t : Follows(t, p, e)

LEMMA WalkIsTrail ==
    \A p, e : Walk(p, e) = [k \in 1..Cardinality({j \in DOMAIN Trail(p, e) : Trail(p, e)[j] \in Node})
                              |-> Trail(p, e)[k - 1]]
BY DEF Walk, Trail, Follows

LEMMA WalkIsRun ==
    ASSUME NEW p, NEW e, NEW w, NEW m \in Nat, m <= Cardinality(Node), p[e] = w[0],
           \A k \in 0..(m - 1) : w[k] \in Node /\ p[w[k]] = w[k + 1], w[m] \notin Node
    PROVE  Walk(p, e) = [k \in 1..m |-> w[k - 1]]
<1> DEFINE N == Cardinality(Node)
           t == Trail(p, e)
           Body(u, k) == IF k = 0 THEN p[e] ELSE IF u[k - 1] \in Node THEN p[u[k - 1]] ELSE Nil
           c == [k \in 0..N |-> IF k <= m THEN w[k] ELSE Nil]
<1>0. N \in Nat /\ Nil \notin Node
  BY ListAssumption, FS_CardinalityType
<1> HIDE DEF N
<1>1. c = [k \in 0..N |-> Body(c, k)]
  <2>1. \A k \in 0..N : c[k] = Body(c, k)
    <3> SUFFICES ASSUME NEW k \in 0..N PROVE c[k] = Body(c, k)
      OBVIOUS
    <3>1. CASE k = 0
      BY <1>0, <3>1
    <3>2. CASE k # 0
      <4>1. k - 1 \in 0..N /\ (k - 1) + 1 = k /\ (k <= m => k - 1 \in 0..(m - 1))
        BY <1>0, <3>2
      <4>2. c[k - 1] = IF k - 1 <= m THEN w[k - 1] ELSE Nil
        BY <4>1
      <4>3. CASE k <= m
        BY <1>0, <3>2, <4>1, <4>2, <4>3
      <4>4. CASE k > m
        <5>1. c[k - 1] \notin Node
          <6>1. CASE k - 1 = m
            BY <4>2, <6>1
          <6>2. CASE k - 1 # m
            BY <1>0, <4>1, <4>2, <4>4, <6>2
          <6> QED
            BY <6>1, <6>2
        <5> QED
          BY <1>0, <3>2, <4>4, <5>1
      <4> QED
        BY <1>0, <4>3, <4>4
    <3> QED
      BY <3>1, <3>2
  <2> HIDE DEF Body
  <2> QED
    BY <2>1
<1>2. Follows(c, p, e)
  BY <1>1 DEF Follows, N
<1>3. Follows(t, p, e)
  BY <1>2 DEF Trail
<1>4. DOMAIN t = 0..N /\ \A k \in 0..N : t[k] = Body(t, k)
  <2> HIDE DEF t
  <2> QED
    BY <1>3 DEF Follows, N
<1> HIDE DEF t, c
<1>5. \A k \in 0..N : t[k] \in Node <=> k < m
  <2> DEFINE Told(k) == k \in 0..N => IF k <= m THEN t[k] = w[k] ELSE t[k] \notin Node
             Good == {k \in Nat : Told(k)}
  <2>1. 0 \in Good
    BY <1>0, <1>4
  <2>2. ASSUME NEW k \in Nat, Told(k)
        PROVE  Told(k + 1)
    <3> SUFFICES ASSUME k + 1 \in 0..N
                 PROVE  IF k + 1 <= m THEN t[k + 1] = w[k + 1] ELSE t[k + 1] \notin Node
      OBVIOUS
    <3>1. k \in 0..N /\ k + 1 # 0 /\ (k + 1) - 1 = k
      BY <1>0
    <3>2. t[k + 1] = IF t[k] \in Node THEN p[t[k]] ELSE Nil
      BY <1>4, <3>1
    <3>3. CASE k + 1 <= m
      <4>1. k \in 0..(m - 1) /\ k <= m
        BY <3>3
      <4> QED
        BY <2>2, <3>1, <3>2, <3>3, <4>1
    <3>4. CASE ~(k + 1 <= m)
      <4>1. t[k] \notin Node
        <5>1. CASE k = m
          BY <2>2, <3>1, <5>1
        <5>2. CASE k # m
          <6>1. ~(k <= m)
            BY <3>4, <5>2
          <6> QED
            BY <2>2, <3>1, <6>1
        <5> QED
          BY <5>1, <5>2
      <4> QED
        BY <1>0, <3>2, <3>4, <4>1
    <3> QED
      BY <3>3, <3>4
  <2>3. \A k \in Nat : k \in Good => k + 1 \in Good
    BY <2>2
  <2>4. \A k \in 0..N : Told(k)
    <3>1. Nat \subseteq Good
      <4> HIDE DEF Good
      <4> QED
        BY <2>1, <2>3, Induct
    <3> QED
      BY <1>0, <3>1
  <2> SUFFICES ASSUME NEW k \in 0..N PROVE t[k] \in Node <=> k < m
    OBVIOUS
  <2>5. k \in Nat
    BY <1>0
  <2>6. CASE k < m
    <3>1. k <= m /\ k \in 0..(m - 1)
      BY <2>5, <2>6
    <3> QED
      BY <2>4, <2>6, <3>1
  <2>7. CASE k = m
    BY <2>4, <2>5, <2>7
  <2>8. CASE k > m
    <3>1. ~(k <= m) /\ ~(k < m)
      BY <2>5, <2>8
    <3> QED
      BY <2>4, <3>1
  <2> QED
    BY <2>5, <2>6, <2>7, <2>8
<1>6. \A k \in 0..(m - 1) : t[k] = w[k]
  <2> DEFINE Told(k) == k \in 0..(m - 1) => t[k] = w[k]
             Good == {k \in Nat : Told(k)}
  <2>1. 0 \in Good
    BY <1>0, <1>4
  <2>2. ASSUME NEW k \in Nat, Told(k)
        PROVE  Told(k + 1)
    <3> SUFFICES ASSUME k + 1 \in 0..(m - 1) PROVE t[k + 1] = w[k + 1]
      OBVIOUS
    <3>1. k \in 0..(m - 1) /\ k + 1 \in 0..N /\ k + 1 # 0 /\ (k + 1) - 1 = k
      BY <1>0 DEF N
    <3> QED
      BY <1>4, <2>2, <3>1
  <2>3. \A k \in Nat : k \in Good => k + 1 \in Good
    BY <2>2
  <2>4. Nat \subseteq Good
    <3> HIDE DEF Good
    <3> QED
      BY <2>1, <2>3, Induct
  <2> QED
    BY <2>4
<1>7. {j \in DOMAIN t : t[j] \in Node} = 0..(m - 1)
  <2>1. 0..(m - 1) \subseteq 0..N
    BY <1>0 DEF N
  <2>2. \A j \in 0..N : j < m <=> j \in 0..(m - 1)
    BY <1>0
  <2> QED
    BY <1>4, <1>5, <2>1, <2>2
<1>8. Cardinality(0..(m - 1)) = m
  BY FS_Interval
<1>9. Walk(p, e) = [k \in 1..m |-> t[k - 1]]
  BY <1>7, <1>8, WalkIsTrail DEF t
<1>10. \A k \in 1..m : t[k - 1] = w[k - 1]
  <2>1. \A k \in 1..m : k - 1 \in 0..(m - 1)
    OBVIOUS
  <2> QED
    BY <1>6, <2>1
<1> QED
  BY <1>9, <1>10

(* The list itself: the nodes between the head and the tail. *)
Mid(W, n, h) == [j \in 1..(n - 1 - h) |-> W[h + j]]

LEMMA WalksAreTheList ==
    ASSUME NEW nx, NEW pv, NEW al, NEW W, NEW n, NEW h, Linked(nx, pv, al, W, n, h)
    PROVE  /\ \A j \in 1..(n - 1 - h) : h + j \in 1..n /\ W[h + j] \in Node \cap al
           /\ Walk(nx, head) = Mid(W, n, h)
           /\ Walk(pv, tail) = [j \in 1..(n - 1 - h) |-> W[n - j]]
<1> DEFINE m == n - 1 - h
<1>1. /\ n \in Nat /\ W \in [1..n -> Places] /\ h \in 1..(n - 1)
      /\ W[h] = head /\ W[n] = tail
      /\ \A a, b \in 1..n : W[a] = W[b] => a = b
      /\ \A j \in 1..n : W[j] \in al \cup {head, tail}
  BY DEF Linked
<1>2. \A j \in 1..(n - 1) : nx[W[j]] = W[j + 1] /\ pv[W[j + 1]] = W[j]
  BY DEF Linked
<1>3. head \notin Node /\ tail \notin Node
  BY ListAssumption
<1>4. m \in Nat /\ h + 1 + m = n /\ n \in Nat /\ h \in Nat
  BY <1>1
<1> HIDE DEF m
<1>5. ASSUME NEW j \in 1..m PROVE h + j \in 1..n /\ W[h + j] \in Node \cap al
  <2>1. h + j \in 1..n /\ h + j # h /\ h + j # n /\ h \in 1..n /\ n \in 1..n
    BY <1>1, <1>4
  <2>2. W[h + j] # head /\ W[h + j] # tail
    BY <1>1, <2>1
  <2> QED
    BY <1>1, <2>1, <2>2 DEF Places
<1>6. m <= Cardinality(Node)
  <2> DEFINE f == [j \in 1..m |-> W[h + j]]
  <2>1. \A a, b \in 1..m : f[a] = f[b] => a = b
    <3> SUFFICES ASSUME NEW a \in 1..m, NEW b \in 1..m, W[h + a] = W[h + b] PROVE a = b
      OBVIOUS
    <3>1. h + a = h + b
      BY <1>1, <1>5
    <3> QED
      BY <1>1, <3>1
  <2>2. f \in Injection(1..m, Node)
    BY <1>5, <2>1 DEF Injection, IsInjective
  <2>3. Cardinality(1..m) <= Cardinality(Node)
    BY <2>2, FS_Injection, ListAssumption
  <2>4. Cardinality(1..m) = m
    BY <1>4, FS_Interval
  <2> QED
    BY <2>3, <2>4
<1>7. Walk(nx, head) = Mid(W, n, h)
  <2> DEFINE w == [k \in 0..m |-> W[h + 1 + k]]
  <2>1. nx[head] = w[0]
    BY <1>1, <1>2, <1>4
  <2>2. ASSUME NEW k \in 0..(m - 1) PROVE w[k] \in Node /\ nx[w[k]] = w[k + 1]
    <3>1. /\ k \in 0..m /\ k + 1 \in 0..m /\ k + 1 \in 1..m /\ h + (k + 1) = h + 1 + k
          /\ h + 1 + k \in 1..(n - 1) /\ (h + 1 + k) + 1 = h + 1 + (k + 1)
      BY <1>1, <1>4
    <3> QED
      BY <1>2, <1>5, <3>1
  <2>3. w[m] \notin Node
    BY <1>1, <1>3, <1>4
  <2>4. \A k \in 1..m : w[k - 1] = W[h + k]
    <3> SUFFICES ASSUME NEW k \in 1..m PROVE w[k - 1] = W[h + k]
      OBVIOUS
    <3>1. k - 1 \in 0..m /\ h + 1 + (k - 1) = h + k
      BY <1>4
    <3> QED
      BY <3>1
  <2> HIDE DEF w
  <2>5. Walk(nx, head) = [k \in 1..m |-> w[k - 1]]
    BY <1>4, <1>6, <2>1, <2>2, <2>3, WalkIsRun
  <2> QED
    BY <2>4, <2>5 DEF Mid, m
<1>8. Walk(pv, tail) = [j \in 1..m |-> W[n - j]]
  <2> DEFINE w == [k \in 0..m |-> W[n - 1 - k]]
  <2>1. pv[tail] = w[0]
    <3>1. n - 1 \in 1..(n - 1) /\ (n - 1) + 1 = n /\ n - 1 - 0 = n - 1 /\ 0 \in 0..m
      BY <1>1, <1>4
    <3> QED
      BY <1>1, <1>2, <3>1
  <2>2. ASSUME NEW k \in 0..(m - 1) PROVE w[k] \in Node /\ pv[w[k]] = w[k + 1]
    <3>1. /\ k \in 0..m /\ k + 1 \in 0..m /\ m - k \in 1..m /\ h + (m - k) = n - 1 - k
          /\ n - 1 - (k + 1) \in 1..(n - 1) /\ n - 1 - (k + 1) + 1 = n - 1 - k
      BY <1>1, <1>4
    <3> QED
      BY <1>2, <1>5, <3>1
  <2>3. w[m] \notin Node
    <3>1. n - 1 - m = h /\ m \in 0..m
      BY <1>4
    <3> QED
      BY <1>1, <1>3, <3>1
  <2>4. \A k \in 1..m : w[k - 1] = W[n - k]
    <3> SUFFICES ASSUME NEW k \in 1..m PROVE w[k - 1] = W[n - k]
      OBVIOUS
    <3>1. k - 1 \in 0..m /\ n - 1 - (k - 1) = n - k
      BY <1>4
    <3> QED
      BY <3>1
  <2> HIDE DEF w
  <2>5. \A k \in 0..(m - 1) : w[k] \in Node /\ pv[w[k]] = w[k + 1]
    BY <2>2
  <2>6. Walk(pv, tail) = [k \in 1..m |-> w[k - 1]]
    BY <1>4, <1>6, <2>1, <2>3, <2>5, WalkIsRun
  <2> QED
    BY <2>4, <2>6
<1> QED
  BY <1>5, <1>7, <1>8 DEF m

LEMMA LinkedIsSound ==
    ASSUME NEW W, NEW n, NEW h, Linked(next, prev, allocated, W, n, h)
    PROVE  ListIsSound
<1> DEFINE m == n - 1 - h
           L == Mid(W, n, h)
<1>1. /\ n \in Nat /\ h \in 1..(n - 1) /\ m \in Nat /\ h + 1 + m = n
      /\ \A a, b \in 1..n : W[a] = W[b] => a = b
      /\ \A j \in 1..n : W[j] \in allocated \cup {head, tail}
      /\ \A y \in Places : (\E j \in 1..n : W[j] = y) \/ (next[y] = Nil /\ prev[y] = Nil)
  BY DEF Linked
<1>2. /\ \A j \in 1..m : h + j \in 1..n /\ W[h + j] \in Node \cap allocated
      /\ List = L
      /\ Walk(prev, tail) = [j \in 1..m |-> W[n - j]]
  BY WalksAreTheList DEF List
<1>3. DOMAIN L = 1..m /\ Len(L) = m /\ \A j \in 1..m : L[j] = W[h + j]
  BY <1>1 DEF Mid
<1> HIDE DEF L, m
<1>4. Walk(prev, tail) = Reverse(List)
  <2>1. \A j \in 1..m : L[m - j + 1] = W[n - j]
    <3> SUFFICES ASSUME NEW j \in 1..m PROVE L[m - j + 1] = W[n - j]
      OBVIOUS
    <3>1. m - j + 1 \in 1..m /\ h + (m - j + 1) = n - j
      BY <1>1
    <3> QED
      BY <1>3, <3>1
  <2> QED
    BY <1>2, <1>3, <2>1 DEF Reverse
<1>5. IsInjective(List)
  <2> SUFFICES ASSUME NEW a \in 1..m, NEW b \in 1..m, L[a] = L[b] PROVE a = b
    BY <1>2, <1>3 DEF IsInjective
  <2>1. h + a \in 1..n /\ h + b \in 1..n /\ W[h + a] = W[h + b]
    BY <1>2, <1>3
  <2>2. h + a = h + b
    BY <1>1, <2>1
  <2> QED
    BY <1>1, <2>2
<1>6. ToSet(List) \subseteq allocated
  BY <1>2, <1>3 DEF ToSet
<1>7. ASSUME NEW x \in Node \ allocated PROVE next[x] = Nil /\ prev[x] = Nil
  <2>1. x # head /\ x # tail /\ x \in Places
    BY ListAssumption DEF Places
  <2> QED
    BY <1>1, <2>1
<1> QED
  BY <1>4, <1>5, <1>6, <1>7 DEF ListIsSound

LEMMA PutIsInsertion ==
    ASSUME NEW S, NEW s \in Seq(S), NEW x \in S, NEW m, m = Len(s)
    PROVE  /\ Put(s, m, m + 1, x) = Append(s, x)
           /\ Put(s, m, 1, x) = <<x>> \o s
           /\ \A k \in 1..m : Put(s, m, k, x) = InsertAt(s, k, x)
<1>0. m \in Nat /\ s \in [1..m -> S]
  OBVIOUS
<1>1. Put(s, m, m + 1, x) = Append(s, x)
  <2> DEFINE f == Put(s, m, m + 1, x)
             c == Append(s, x)
  <2>1. c \in Seq(S) /\ Len(c) = m + 1 /\ c[m + 1] = x /\ \A j \in 1..m : c[j] = s[j]
    BY AppendProperties
  <2>2. f = [j \in 1..(m + 1) |-> f[j]] /\ \A j \in 1..(m + 1) : f[j] = IF j <= m THEN s[j] ELSE x
    BY <1>0 DEF Put
  <2> HIDE DEF f, c
  <2>3. \A j \in 1..(m + 1) : (j <= m => j \in 1..m) /\ (~(j <= m) => j = m + 1)
    BY <1>0
  <2>4. \A j \in 1..(m + 1) : c[j] = f[j]
    BY <2>1, <2>2, <2>3
  <2>5. c = f
    BY <2>1, <2>2, <2>4, SameItems
  <2> QED
    BY <2>5 DEF c, f
<1>2. Put(s, m, 1, x) = <<x>> \o s
  <2> DEFINE c == <<x>> \o s
  <2>1. c \in Seq(S) /\ Len(c) = m + 1 /\ \A j \in 1..(m + 1) : c[j] = IF j = 1 THEN x ELSE s[j - 1]
    BY <1>0
  <2>2. c = [j \in 1..(m + 1) |-> c[j]]
    BY <2>1
  <2>3. \A j \in 1..(m + 1) : ~(j < 1)
    BY <1>0
  <2> HIDE DEF c
  <2>4. c = Put(s, m, 1, x)
    BY <2>1, <2>2, <2>3 DEF Put
  <2> QED
    BY <2>4 DEF c
<1>3. ASSUME NEW k \in 1..m PROVE Put(s, m, k, x) = InsertAt(s, k, x)
  <2> DEFINE a == SubSeq(s, 1, k - 1)
             b == SubSeq(s, k, Len(s))
             f == Put(s, m, k, x)
  <2>1. a \in Seq(S) /\ Len(a) = k - 1 /\ \A j \in 1..(k - 1) : a[j] = s[j]
    <3>1. 1 \in 1..(m + 1) /\ k - 1 \in 0..m
      BY <1>0
    <3> QED
      BY <3>1, <1>0, SubSeqProperties
  <2>2. b \in Seq(S) /\ Len(b) = m - k + 1 /\ \A j \in 1..(m - k + 1) : b[j] = s[k + j - 1]
    BY <1>0, SubSeqProperties
  <2>3. f = [j \in 1..(m + 1) |-> f[j]] /\ \A j \in 1..(m + 1) :
          f[j] = IF j < k THEN s[j] ELSE IF j = k THEN x ELSE s[j - 1]
    BY DEF Put
  <2> HIDE DEF a, b, f
  <2>4. PICK d : d = a \o <<x>>
    OBVIOUS
  <2>5. d \in Seq(S) /\ Len(d) = k /\ \A j \in 1..k : d[j] = IF j < k THEN s[j] ELSE x
    <3>1. <<x>> \in Seq(S) /\ Len(<<x>>) = 1 /\ (k - 1) + 1 = k
      OBVIOUS
    <3>2. d \in Seq(S) /\ Len(d) = k /\ \A j \in 1..k : d[j] = IF j <= k - 1 THEN a[j] ELSE <<x>>[j - (k - 1)]
      BY <2>1, <2>4, <3>1, Joined
    <3>3. \A j \in 1..k : (j <= k - 1 => j \in 1..(k - 1) /\ j < k) /\ (~(j <= k - 1) => ~(j < k) /\ j - (k - 1) = 1)
      BY <1>0
    <3> QED
      BY <2>1, <3>2, <3>3
  <2>6. PICK c : c = d \o b
    OBVIOUS
  <2>7. c \in Seq(S) /\ Len(c) = m + 1 /\ \A j \in 1..(m + 1) : c[j] = IF j <= k THEN d[j] ELSE b[j - k]
    <3>1. k + (m - k + 1) = m + 1
      BY <1>0
    <3> QED
      BY <2>2, <2>5, <2>6, <3>1, Joined
  <2>8. \A j \in 1..(m + 1) : c[j] = f[j]
    <3> SUFFICES ASSUME NEW j \in 1..(m + 1) PROVE c[j] = f[j]
      OBVIOUS
    <3>1. CASE j <= k
      <4>1. c[j] = d[j] /\ j \in 1..k /\ ~(j < k /\ j = k) /\ (~(j < k) => j = k)
        BY <1>0, <2>7, <3>1
      <4> QED
        BY <2>3, <2>5, <4>1
    <3>2. CASE j > k
      <4>1. ~(j <= k) /\ ~(j < k) /\ j # k /\ j - k \in 1..(m - k + 1) /\ k + (j - k) - 1 = j - 1
        BY <1>0, <3>2
      <4> QED
        BY <2>2, <2>3, <2>7, <4>1
    <3> QED
      BY <1>0, <3>1, <3>2
  <2>9. c = f
    BY <2>3, <2>7, <2>8, SameItems
  <2> QED
    BY <2>4, <2>6, <2>9 DEF a, b, f, InsertAt
<1> QED
  BY <1>1, <1>2, <1>3

LEMMA CutIsRemoval ==
    ASSUME NEW S, NEW s \in Seq(S), NEW m, m = Len(s), NEW k \in 1..m
    PROVE  /\ Cut(s, m, k) = RemoveAt(s, k)
           /\ k = 1 => Cut(s, m, k) = Tail(s)
<1>0. m \in Nat /\ s \in [1..m -> S]
  OBVIOUS
<1>1. Cut(s, m, k) = RemoveAt(s, k)
  <2> DEFINE a == SubSeq(s, 1, k - 1)
             b == SubSeq(s, k + 1, Len(s))
             f == Cut(s, m, k)
  <2>1. a \in Seq(S) /\ Len(a) = k - 1 /\ \A j \in 1..(k - 1) : a[j] = s[j]
    <3>1. 1 \in 1..(m + 1) /\ k - 1 \in 0..m
      BY <1>0
    <3> QED
      BY <3>1, <1>0, SubSeqProperties
  <2>2. b \in Seq(S) /\ Len(b) = m - k /\ \A j \in 1..(m - k) : b[j] = s[k + j]
    <3>1. k + 1 \in 1..(m + 1) /\ m \in k..m /\ \A j \in Int : (k + 1) + j - 1 = k + j
      BY <1>0
    <3>2. m - (k + 1) + 1 = m - k
      BY <1>0
    <3> QED
      BY <1>0, <3>1, <3>2, SubSeqProperties
  <2>3. f = [j \in 1..(m - 1) |-> f[j]] /\ \A j \in 1..(m - 1) : f[j] = IF j < k THEN s[j] ELSE s[j + 1]
    BY DEF Cut
  <2> HIDE DEF a, b, f
  <2>4. PICK c : c = a \o b
    OBVIOUS
  <2>5. c \in Seq(S) /\ Len(c) = m - 1 /\ \A j \in 1..(m - 1) : c[j] = IF j <= k - 1 THEN a[j] ELSE b[j - (k - 1)]
    <3>1. /\ c \in Seq(S) /\ Len(c) = Len(a) + Len(b)
          /\ \A j \in 1..(Len(a) + Len(b)) : c[j] = IF j <= Len(a) THEN a[j] ELSE b[j - Len(a)]
      BY <2>1, <2>2, <2>4, ConcatProperties
    <3>2. Len(a) + Len(b) = m - 1
      BY <1>0, <2>1, <2>2
    <3>3. Len(a) = k - 1
      BY <2>1
    <3> QED
      BY <3>1, <3>2, <3>3
  <2>6. \A j \in 1..(m - 1) : c[j] = f[j]
    <3> SUFFICES ASSUME NEW j \in 1..(m - 1) PROVE c[j] = f[j]
      OBVIOUS
    <3>1. CASE j <= k - 1
      <4>1. c[j] = a[j] /\ j \in 1..(k - 1) /\ j < k
        BY <1>0, <2>5, <3>1
      <4> QED
        BY <2>1, <2>3, <4>1
    <3>2. CASE ~(j <= k - 1)
      <4>1. j - (k - 1) \in 1..(m - k) /\ k + (j - (k - 1)) = j + 1 /\ ~(j < k)
        BY <1>0, <3>2
      <4> QED
        BY <2>2, <2>3, <2>5, <3>2, <4>1
    <3> QED
      BY <3>1, <3>2
  <2>7. c = f
    BY <2>3, <2>5, <2>6, SameItems
  <2> QED
    BY <2>4, <2>7 DEF a, b, f, RemoveAt
<1>2. ASSUME k = 1 PROVE Cut(s, m, k) = Tail(s)
  <2> DEFINE f == Cut(s, m, k)
             c == Tail(s)
  <2>1. c \in Seq(S) /\ Len(c) = m - 1 /\ \A j \in 1..(m - 1) : c[j] = s[j + 1]
    <3>1. s # <<>>
      BY <1>0
    <3> QED
      BY <3>1, HeadTailProperties
  <2>2. f = [j \in 1..(m - 1) |-> f[j]] /\ \A j \in 1..(m - 1) : f[j] = s[j + 1]
    <3>1. \A j \in 1..(m - 1) : ~(j < k)
      BY <1>0, <1>2
    <3> QED
      BY <3>1 DEF Cut
  <2> HIDE DEF f, c
  <2>3. c = f
    BY <2>1, <2>2, SameItems
  <2> QED
    BY <2>3 DEF c, f
<1> QED
  BY <1>1, <1>2

LEMMA MidOfPut ==
    ASSUME NEW W, NEW n \in Nat, NEW h \in 1..(n - 1), NEW x, NEW k \in 1..n
    PROVE  Mid(Put(W, n, k, x), n + 1, IF k <= h THEN h + 1 ELSE h)
             = IF k <= h THEN Mid(W, n, h) ELSE Put(Mid(W, n, h), n - 1 - h, k - h, x)
<1> DEFINE m == n - 1 - h
           V == Put(W, n, k, x)
<1>1. \A j \in 1..(n + 1) : V[j] = IF j < k THEN W[j] ELSE IF j = k THEN x ELSE W[j - 1]
  BY DEF Put
<1> HIDE DEF V
<1>2. CASE k <= h
  <2>1. \A j \in 1..m : V[h + 1 + j] = W[h + j]
    <3> SUFFICES ASSUME NEW j \in 1..m PROVE V[h + 1 + j] = W[h + j]
      OBVIOUS
    <3>1. h + 1 + j \in 1..(n + 1) /\ ~(h + 1 + j < k) /\ h + 1 + j # k /\ h + 1 + j - 1 = h + j
      BY <1>2
    <3> QED
      BY <1>1, <3>1
  <2>2. (n + 1) - 1 - (h + 1) = m
    OBVIOUS
  <2>3. Mid(V, n + 1, h + 1) = Mid(W, n, h)
    BY <2>1, <2>2 DEF Mid
  <2> QED
    BY <1>2, <2>3 DEF V
<1>3. CASE k > h
  <2> DEFINE L == Mid(W, n, h)
  <2>0. \A j \in 1..m : L[j] = W[h + j]
    BY DEF Mid
  <2> HIDE DEF L
  <2>1. \A j \in 1..(m + 1) : V[h + j] = IF j < k - h THEN L[j] ELSE IF j = k - h THEN x ELSE L[j - 1]
    <3> SUFFICES ASSUME NEW j \in 1..(m + 1)
                 PROVE V[h + j] = IF j < k - h THEN L[j] ELSE IF j = k - h THEN x ELSE L[j - 1]
      OBVIOUS
    <3>1. h + j \in 1..(n + 1)
      OBVIOUS
    <3>2. CASE j < k - h
      <4>1. h + j < k /\ j \in 1..m
        BY <3>2
      <4> QED
        BY <1>1, <2>0, <3>1, <3>2, <4>1
    <3>3. CASE j = k - h
      <4>1. h + j = k /\ ~(h + j < k)
        BY <3>3
      <4> QED
        BY <1>1, <3>1, <3>3, <4>1
    <3>4. CASE j > k - h
      <4>1. ~(h + j < k) /\ h + j # k /\ j - 1 \in 1..m /\ h + (j - 1) = h + j - 1
        BY <1>3, <3>4
      <4> QED
        BY <1>1, <2>0, <3>1, <3>4, <4>1
    <3> QED
      BY <3>2, <3>3, <3>4
  <2>2. (n + 1) - 1 - h = m + 1 /\ ~(k <= h)
    BY <1>3
  <2>3. Mid(V, n + 1, h) = Put(L, m, k - h, x)
    BY <2>1, <2>2 DEF Mid, Put
  <2> QED
    BY <2>2, <2>3 DEF V, L
<1> QED
  BY <1>2, <1>3

LEMMA MidOfCut ==
    ASSUME NEW W, NEW n \in Nat, NEW h \in 1..(n - 1), NEW k \in 1..(n - 1), k # h
    PROVE  Mid(Cut(W, n, k), n - 1, IF k < h THEN h - 1 ELSE h)
             = IF k < h THEN Mid(W, n, h) ELSE Cut(Mid(W, n, h), n - 1 - h, k - h)
<1> DEFINE m == n - 1 - h
           V == Cut(W, n, k)
<1>1. \A j \in 1..(n - 1) : V[j] = IF j < k THEN W[j] ELSE W[j + 1]
  BY DEF Cut
<1> HIDE DEF V
<1>2. CASE k < h
  <2>1. \A j \in 1..m : V[h - 1 + j] = W[h + j]
    <3> SUFFICES ASSUME NEW j \in 1..m PROVE V[h - 1 + j] = W[h + j]
      OBVIOUS
    <3>1. h - 1 + j \in 1..(n - 1) /\ ~(h - 1 + j < k) /\ h - 1 + j + 1 = h + j
      BY <1>2
    <3> QED
      BY <1>1, <3>1
  <2>2. (n - 1) - 1 - (h - 1) = m
    OBVIOUS
  <2>3. Mid(V, n - 1, h - 1) = Mid(W, n, h)
    BY <2>1, <2>2 DEF Mid
  <2> QED
    BY <1>2, <2>3 DEF V
<1>3. CASE ~(k < h)
  <2> DEFINE L == Mid(W, n, h)
  <2>0. \A j \in 1..m : L[j] = W[h + j]
    BY DEF Mid
  <2> HIDE DEF L
  <2>1. \A j \in 1..(m - 1) : V[h + j] = IF j < k - h THEN L[j] ELSE L[j + 1]
    <3> SUFFICES ASSUME NEW j \in 1..(m - 1)
                 PROVE V[h + j] = IF j < k - h THEN L[j] ELSE L[j + 1]
      OBVIOUS
    <3>1. h + j \in 1..(n - 1) /\ j \in 1..m /\ j + 1 \in 1..m /\ h + (j + 1) = h + j + 1
      OBVIOUS
    <3>2. h + j < k <=> j < k - h
      OBVIOUS
    <3> QED
      BY <1>1, <2>0, <3>1, <3>2
  <2>2. (n - 1) - 1 - h = m - 1
    OBVIOUS
  <2>3. Mid(V, n - 1, h) = Cut(L, m, k - h)
    BY <2>1, <2>2 DEF Mid, Cut
  <2> QED
    BY <1>3, <2>3 DEF V, L
<1> QED
  BY <1>2, <1>3

ListInv == \E W, n, h : Linked(next, prev, allocated, W, n, h)

LEMMA ListInvInit == ListInit => ListInv
<1> SUFFICES ASSUME ListInit PROVE ListInv
  OBVIOUS
<1> DEFINE W == [k \in 1..2 |-> IF k = 1 THEN head ELSE tail]
<1>1. /\ \A y \in Places : next[y] = IF y = head THEN tail ELSE Nil
      /\ \A y \in Places : prev[y] = IF y = tail THEN head ELSE Nil
      /\ DOMAIN next = Places /\ DOMAIN prev = Places
  BY DEF ListInit, Places
<1>2. head \in Places /\ tail \in Places /\ head # tail
  BY ListAssumption DEF Places
<1>3. W[1] = head /\ W[2] = tail /\ W \in [1..2 -> Places]
  BY <1>2
<1> HIDE DEF W
<1>4. 1..(2 - 1) = {1} /\ 1..2 = {1, 2} /\ 1 + 1 = 2
  OBVIOUS
<1>5. \A k \in 1..(2 - 1) : next[W[k]] = W[k + 1] /\ prev[W[k + 1]] = W[k]
  BY <1>1, <1>2, <1>3, <1>4
<1>6. Linked(next, prev, allocated, W, 2, 1)
  BY <1>1, <1>2, <1>3, <1>4, <1>5 DEF Linked
<1> QED
  BY <1>6 DEF ListInv

(* A node that is free, or that is loose, is not on the way from end to end. *)
LEMMA LooseIsOutside ==
    ASSUME NEW W, NEW n, NEW h, Linked(next, prev, allocated, W, n, h), NEW x \in Node,
           x \notin allocated \/ IsLoose(x)
    PROVE  \A k \in 1..n : W[k] # x
<1> SUFFICES ASSUME NEW k \in 1..n, W[k] = x PROVE FALSE
  OBVIOUS
<1>1. /\ n \in Nat /\ W \in [1..n -> Places] /\ W[n] = tail
      /\ \A j \in 1..n : W[j] \in allocated \cup {head, tail}
      /\ \A j \in 1..(n - 1) : next[W[j]] = W[j + 1]
  BY DEF Linked
<1>2. x # head /\ x # tail /\ Nil \notin Places
  BY ListAssumption DEF Places
<1>3. IsLoose(x)
  BY <1>1, <1>2
<1>4. k \in 1..(n - 1) /\ k + 1 \in 1..n
  BY <1>1, <1>2
<1>5. next[x] \in Places
  BY <1>1, <1>4
<1> QED
  BY <1>2, <1>3, <1>5 DEF IsLoose

LEMMA InsertedIsPut ==
    ASSUME NEW W, NEW n, NEW h, Linked(next, prev, allocated, W, n, h), NEW x \in Node,
           x \notin allocated \/ IsLoose(x), NEW k \in 1..n,
           Inserted(x, W[k]), allocated' = allocated \cup {x}
    PROVE  /\ ListInv'
           /\ List' = IF k <= h THEN List ELSE Put(List, n - 1 - h, k - h, x)
<1> DEFINE V == Put(W, n, k, x)
           g == IF k <= h THEN h + 1 ELSE h
<1>1. \A j \in 1..n : W[j] # x
  BY LooseIsOutside
<1>2. /\ next' = [m \in DOMAIN next |->
                    IF m = x THEN W[k] ELSE IF m = prev[W[k]] THEN x ELSE next[m]]
      /\ prev' = [prev EXCEPT ![x] = prev[W[k]], ![W[k]] = x]
  BY DEF Inserted
<1>3. Linked(next', prev', allocated', V, n + 1, g)
  BY <1>1, <1>2, PutKeepsLinks
<1>4. List' = Mid(V, n + 1, g)
  <2> HIDE DEF V, g
  <2> QED
    BY <1>3, WalksAreTheList DEF List
<1>5. List = Mid(W, n, h)
  BY WalksAreTheList DEF List
<1>6. n \in Nat /\ h \in 1..(n - 1)
  BY DEF Linked
<1>7. Mid(V, n + 1, g) = IF k <= h THEN Mid(W, n, h) ELSE Put(Mid(W, n, h), n - 1 - h, k - h, x)
  BY <1>6, MidOfPut
<1>8. ListInv'
  <2> HIDE DEF V, g
  <2> QED
    BY <1>3 DEF ListInv
<1> HIDE DEF V, g
<1> QED
  BY <1>4, <1>5, <1>7, <1>8

(* Where a node of the list is on the way, and that the list is a sequence. *)
LEMMA ListPlaces ==
    ASSUME NEW W, NEW n, NEW h, Linked(next, prev, allocated, W, n, h)
    PROVE  /\ n \in Nat /\ h \in 1..(n - 1) /\ n - 1 - h \in Nat
           /\ List \in Seq(Node) /\ Len(List) = n - 1 - h
           /\ \A j \in 1..(n - 1 - h) : List[j] = W[h + j]
           /\ \A k \in 1..n : InList(W[k]) => k > h /\ k < n /\ List[k - h] = W[k]
           /\ \A x : InList(x) => \E k \in 1..n : W[k] = x
<1> DEFINE m == n - 1 - h
<1>1. /\ n \in Nat /\ h \in 1..(n - 1) /\ m \in Nat
      /\ \A a, b \in 1..n : W[a] = W[b] => a = b
  BY DEF Linked
<1>2. /\ List = Mid(W, n, h)
      /\ \A j \in 1..m : h + j \in 1..n /\ W[h + j] \in Node
  BY WalksAreTheList DEF List
<1>3. List = [j \in 1..m |-> W[h + j]]
  BY <1>2 DEF Mid
<1> HIDE DEF m
<1>4. List \in Seq(Node) /\ Len(List) = m /\ DOMAIN List = 1..m
  <2>1. \A j \in 1..m : W[h + j] \in Node
    BY <1>2
  <2>2. List \in [1..m -> Node]
    BY <1>3, <2>1
  <2> QED
    BY <1>1, <2>2
<1>5. ASSUME NEW k \in 1..n, InList(W[k]) PROVE k > h /\ k < n /\ List[k - h] = W[k]
  <2>1. PICK j \in 1..m : List[j] = W[k]
    BY <1>4, <1>5 DEF InList, ToSet
  <2>2. W[h + j] = W[k]
    BY <1>3, <2>1
  <2>3. k = h + j
    BY <1>1, <1>2, <2>2
  <2> QED
    BY <1>1, <2>1, <2>3 DEF m
<1>6. ASSUME NEW x, InList(x) PROVE \E k \in 1..n : W[k] = x
  <2>1. PICK j \in 1..m : List[j] = x
    BY <1>4, <1>6 DEF InList, ToSet
  <2> QED
    BY <1>2, <1>3, <2>1
<1> QED
  BY <1>1, <1>3, <1>4, <1>5, <1>6 DEF m

LEMMA DetachedIsCut ==
    ASSUME ListInv, NEW x \in Node, Detached(x), allocated \ {x} \subseteq allocated'
    PROVE  /\ ListInv'
           /\ \/ ~InList(x) /\ List' = List
              \/ \E k \in DOMAIN List : List[k] = x /\ List' = RemoveAt(List, k)
           /\ x = next[head] => List' = Tail(List)
<1>0. PICK W, n, h : Linked(next, prev, allocated, W, n, h)
  BY DEF ListInv
<1>1. /\ n \in Nat /\ W \in [1..n -> Places] /\ h \in 1..(n - 1) /\ W[h] = head
      /\ \A a, b \in 1..n : W[a] = W[b] => a = b
      /\ DOMAIN next = Places /\ DOMAIN prev = Places
      /\ \A j \in 1..(n - 1) : next[W[j]] = W[j + 1]
      /\ \A y \in Places : (\E j \in 1..n : W[j] = y) \/ (next[y] = Nil /\ prev[y] = Nil)
  BY <1>0 DEF Linked
<1>2. /\ next' = [y \in DOMAIN next |->
                    IF y = x THEN Nil ELSE IF y = prev[x] THEN next[x] ELSE next[y]]
      /\ prev' = [y \in DOMAIN prev |->
                    IF y = x THEN Nil ELSE IF y = next[x] THEN prev[x] ELSE prev[y]]
  BY DEF Detached
<1>3. next[head] = W[h + 1] /\ h + 1 \in 1..n
  BY <1>1
<1>4. CASE \A j \in 1..n : W[j] # x
  <2>1. x \in Places /\ next[x] = Nil /\ prev[x] = Nil /\ Nil \notin Places
    BY <1>1, <1>4, ListAssumption DEF Places
  <2>2. next' = [y \in Places |-> next[y]] /\ prev' = [y \in Places |-> prev[y]]
    BY <1>1, <1>2, <2>1
  <2>3. /\ DOMAIN next' = Places /\ DOMAIN prev' = Places
        /\ \A y \in Places : next'[y] = next[y] /\ prev'[y] = prev[y]
    BY <2>2
  <2>4. Linked(next', prev', allocated', W, n, h)
    <3>1. \A j \in 1..n : W[j] \in Places /\ W[j] \in allocated' \cup {head, tail}
      BY <1>0, <1>1, <1>4 DEF Linked
    <3>2. \A j \in 1..(n - 1) : j \in 1..n /\ j + 1 \in 1..n
      BY <1>1
    <3>3. 1 \in 1..n /\ n \in 1..n
      BY <1>1
    <3>4. \A j \in 1..(n - 1) : next'[W[j]] = W[j + 1] /\ prev'[W[j + 1]] = W[j]
      BY <1>0, <2>3, <3>1, <3>2 DEF Linked
    <3>5. next'[W[n]] = Nil /\ prev'[W[1]] = Nil
      BY <1>0, <2>3, <3>1, <3>3 DEF Linked
    <3>6. \A y \in Places : (\E j \in 1..n : W[j] = y) \/ (next'[y] = Nil /\ prev'[y] = Nil)
      BY <1>1, <2>3
    <3>7. W[h] = head /\ W[n] = tail
      BY <1>0 DEF Linked
    <3> QED
      BY <1>1, <2>3, <3>1, <3>4, <3>5, <3>6, <3>7 DEF Linked
  <2>5. List' = List
    BY <1>0, <2>4, WalksAreTheList DEF List
  <2>6. ~InList(x)
    BY <1>0, <1>4, ListPlaces
  <2> QED
    BY <1>3, <1>4, <2>4, <2>5, <2>6 DEF ListInv
<1>5. ASSUME NEW k \in 1..n, W[k] = x
      PROVE  /\ ListInv'
             /\ \/ ~InList(x) /\ List' = List
                \/ \E j \in DOMAIN List : List[j] = x /\ List' = RemoveAt(List, j)
             /\ x = next[head] => List' = Tail(List)
  <2> DEFINE V == Cut(W, n, k)
             g == IF k < h THEN h - 1 ELSE h
             m == n - 1 - h
  <2>1. k # h /\ k # n /\ Linked(next', prev', allocated', V, n - 1, g)
    BY <1>0, <1>2, <1>5, CutKeepsLinks
  <2>2. List' = Mid(V, n - 1, g)
    <3> HIDE DEF V, g
    <3> QED
      BY <2>1, WalksAreTheList DEF List
  <2>3. List = Mid(W, n, h)
    BY <1>0, WalksAreTheList DEF List
  <2>4. k \in 1..(n - 1)
    BY <1>1, <2>1
  <2>5. Mid(V, n - 1, g) = IF k < h THEN Mid(W, n, h) ELSE Cut(Mid(W, n, h), n - 1 - h, k - h)
    <3>1. k # h
      BY <2>1
    <3>2. n \in Nat /\ h \in 1..(n - 1)
      BY <1>1
    <3> HIDE DEF m
    <3> QED
      BY <2>4, <3>1, <3>2, MidOfCut
  <2>6. ListInv'
    <3> HIDE DEF V, g
    <3> QED
      BY <2>1 DEF ListInv
  <2> HIDE DEF V, g
  <2>7. /\ List \in Seq(Node) /\ Len(List) = m /\ m \in Nat
        /\ \A j \in 1..m : List[j] = W[h + j]
        /\ InList(x) => k > h
    BY <1>0, <1>5, ListPlaces
  <2>8. x = next[head] => k = h + 1
    BY <1>1, <1>3, <1>5
  <2>9. CASE k < h
    BY <1>1, <2>2, <2>3, <2>5, <2>6, <2>7, <2>8, <2>9
  <2>10. CASE k > h
    <3>1. k - h \in 1..m /\ h + (k - h) = k /\ ~(k < h)
      BY <1>1, <2>4, <2>10
    <3>2. List' = Cut(List, m, k - h)
      BY <2>2, <2>3, <2>5, <3>1
    <3> HIDE DEF m
    <3>3. Cut(List, m, k - h) = RemoveAt(List, k - h) /\ (k - h = 1 => Cut(List, m, k - h) = Tail(List))
      BY <2>7, <3>1, CutIsRemoval
    <3>4. List[k - h] = x /\ k - h \in DOMAIN List
      BY <1>5, <2>7, <3>1
    <3>5. k = h + 1 => k - h = 1
      BY <1>1
    <3> QED
      BY <2>6, <2>8, <3>2, <3>3, <3>4, <3>5
  <2> QED
    BY <1>1, <2>1, <2>9, <2>10
<1> QED
  BY <1>4, <1>5

LEMMA ListInvNext == ListInv /\ [ListNext]_listVars => ListInv'
<1> SUFFICES ASSUME ListInv, [ListNext]_listVars PROVE ListInv'
  OBVIOUS
<1>0. PICK W, n, h : Linked(next, prev, allocated, W, n, h)
  BY DEF ListInv
<1>1. /\ n \in Nat /\ h \in 1..(n - 1) /\ W[h] = head /\ W[n] = tail
      /\ \A j \in 1..(n - 1) : next[W[j]] = W[j + 1]
  BY <1>0 DEF Linked
<1>2. h \in 1..n /\ n \in 1..n /\ h + 1 \in 1..n /\ next[head] = W[h + 1]
  BY <1>1
<1>3. ASSUME NEW x \in Node, NEW k \in 1..n, Inserted(x, W[k]),
             Create(x) \/ (IsLoose(x) /\ UNCHANGED allocated)
      PROVE  ListInv'
  <2>1. (x \notin allocated \/ IsLoose(x)) /\ allocated' = allocated \cup {x}
    BY <1>3 DEF Create, IsLoose
  <2> QED
    BY <1>0, <1>3, <2>1, InsertedIsPut
<1>4. ASSUME NEW x \in Node, AppendNew(x) \/ AppendNode(x) PROVE ListInv'
  BY <1>1, <1>2, <1>3, <1>4 DEF AppendNew, AppendNode
<1>5. ASSUME NEW x \in Node, PrependNew(x) PROVE ListInv'
  BY <1>2, <1>3, <1>5 DEF PrependNew
<1>6. ASSUME NEW x \in Node, PrependNode(x) PROVE ListInv'
  BY <1>1, <1>2, <1>3, <1>6 DEF PrependNode
<1>7. ASSUME NEW x \in Node, NEW before \in Node, InsertNew(x, before) \/ InsertNode(x, before)
      PROVE ListInv'
  <2>1. PICK k \in 1..n : W[k] = before
    BY <1>0, <1>7, ListPlaces DEF InsertNew, InsertNode
  <2> QED
    BY <1>3, <1>7, <2>1 DEF InsertNew, InsertNode
<1>8. ASSUME NEW x \in Node, PopNodeFront(x) \/ Detach(x) \/ RemoveNode(x) PROVE ListInv'
  BY <1>8, DetachedIsCut DEF PopNodeFront, Detach, RemoveNode
<1>9. CASE UNCHANGED listVars
  BY <1>9 DEF listVars, ListInv
<1> QED
  BY <1>4, <1>5, <1>6, <1>7, <1>8, <1>9 DEF ListNext

LEMMA ListInvHolds == ListSpec => []ListInv
BY ListInvInit, ListInvNext, PTL DEF ListSpec

(* The list is the same from both of its ends, no node is in it twice, and   *)
(* no node that is free can be reached.                                      *)
THEOREM ListStaysSound == ListSpec => []ListIsSound
<1>1. ListInv => ListIsSound
  BY LinkedIsSound DEF ListInv
<1> QED
  BY <1>1, ListInvHolds, PTL

(* Every call puts its node where its name says, takes the one it is given   *)
(* and leaves the others in their order.                                     *)
THEOREM CallsKeepTheOrder == ListSpec => OrderIsKept
<1> DEFINE Kept ==
       \A n \in Node :
         /\ AppendNew(n) \/ AppendNode(n) => List' = Append(List, n)
         /\ PrependNew(n) => List' = <<n>> \o List
         /\ \A before \in Node :
              InsertNew(n, before) \/ InsertNode(n, before) =>
                \E k \in DOMAIN List : List[k] = before /\ List' = InsertAt(List, k, n)
         /\ PopNodeFront(n) => List' = Tail(List)
         /\ Detach(n) \/ RemoveNode(n) =>
              \/ ~InList(n) /\ List' = List
              \/ \E k \in DOMAIN List : List[k] = n /\ List' = RemoveAt(List, k)
<1>1. ListInv => Kept
  <2> SUFFICES ASSUME ListInv, NEW x \in Node
               PROVE  /\ AppendNew(x) \/ AppendNode(x) => List' = Append(List, x)
                      /\ PrependNew(x) => List' = <<x>> \o List
                      /\ \A before \in Node :
                           InsertNew(x, before) \/ InsertNode(x, before) =>
                             \E k \in DOMAIN List : List[k] = before /\ List' = InsertAt(List, k, x)
                      /\ PopNodeFront(x) => List' = Tail(List)
                      /\ Detach(x) \/ RemoveNode(x) =>
                           \/ ~InList(x) /\ List' = List
                           \/ \E k \in DOMAIN List : List[k] = x /\ List' = RemoveAt(List, k)
    OBVIOUS
  <2>0. PICK W, n, h : Linked(next, prev, allocated, W, n, h)
    BY DEF ListInv
  <2> DEFINE m == n - 1 - h
  <2>1. /\ n \in Nat /\ h \in 1..(n - 1) /\ W[h] = head /\ W[n] = tail
        /\ \A j \in 1..(n - 1) : next[W[j]] = W[j + 1]
    BY <2>0 DEF Linked
  <2>2. /\ n \in 1..n /\ h + 1 \in 1..n /\ next[head] = W[h + 1]
        /\ m \in Nat /\ n - h = m + 1 /\ (h + 1) - h = 1
    BY <2>1
  <2>3. List \in Seq(Node) /\ Len(List) = m
    BY <2>0, ListPlaces
  <2> HIDE DEF m
  <2>4. /\ Put(List, m, m + 1, x) = Append(List, x)
        /\ Put(List, m, 1, x) = <<x>> \o List
        /\ \A k \in 1..m : Put(List, m, k, x) = InsertAt(List, k, x)
    BY <2>3, PutIsInsertion
  <2>5. ASSUME NEW k \in 1..n, Inserted(x, W[k]), k > h,
               Create(x) \/ (IsLoose(x) /\ UNCHANGED allocated)
        PROVE  List' = Put(List, m, k - h, x)
    <3>1. (x \notin allocated \/ IsLoose(x)) /\ allocated' = allocated \cup {x}
      BY <2>5 DEF Create, IsLoose
    <3>2. ~(k <= h)
      BY <2>1, <2>5
    <3> QED
      BY <2>0, <2>5, <3>1, <3>2, InsertedIsPut DEF m
  <2>6. ASSUME AppendNew(x) \/ AppendNode(x) PROVE List' = Append(List, x)
    <3>1. n > h
      BY <2>1
    <3> QED
      BY <2>1, <2>2, <2>4, <2>5, <2>6, <3>1 DEF AppendNew, AppendNode
  <2>7. ASSUME PrependNew(x) PROVE List' = <<x>> \o List
    <3>1. h + 1 > h
      BY <2>1
    <3> QED
      BY <2>2, <2>4, <2>5, <2>7, <3>1 DEF PrependNew
  <2>8. ASSUME NEW before \in Node, InsertNew(x, before) \/ InsertNode(x, before)
        PROVE  \E k \in DOMAIN List : List[k] = before /\ List' = InsertAt(List, k, x)
    <3>1. PICK k \in 1..n : W[k] = before
      BY <2>0, <2>8, ListPlaces DEF InsertNew, InsertNode
    <3>2. k > h /\ k < n /\ List[k - h] = before
      BY <2>0, <2>8, <3>1, ListPlaces DEF InsertNew, InsertNode
    <3>3. k - h \in 1..m
      BY <2>1, <2>2, <3>2
    <3>4. List' = Put(List, m, k - h, x)
      BY <2>5, <2>8, <3>1, <3>2 DEF InsertNew, InsertNode
    <3> QED
      BY <2>3, <2>4, <3>2, <3>3, <3>4
  <2>9. PopNodeFront(x) => List' = Tail(List)
    BY DetachedIsCut DEF PopNodeFront
  <2>10. Detach(x) \/ RemoveNode(x) =>
           \/ ~InList(x) /\ List' = List
           \/ \E k \in DOMAIN List : List[k] = x /\ List' = RemoveAt(List, k)
    BY DetachedIsCut DEF Detach, RemoveNode
  <2> QED
    BY <2>6, <2>7, <2>8, <2>9, <2>10
<1>2. ListInv /\ [ListNext]_listVars => [Kept]_listVars
  BY <1>1
<1> QED
  BY <1>2, ListInvHolds, PTL DEF ListSpec, OrderIsKept

-----------------------------------------------------------------------------
(* What ends a name, or a password. *)
Stops(p, b, k) == users[k] = LineEnd \/ (users[k] = Blank /\ k >= b) \/ k - p = MaxLength

LEMMA WordIsRead ==
    ASSUME users \in Seq(Word), NEW p \in Nat \ {0}, NEW b \in Int
    PROVE  /\ WordEnd(p, b) \in 1..(Len(users) + 1)
           /\ WordEnd(p, b) <= Len(users) => p <= WordEnd(p, b) /\ Stops(p, b, WordEnd(p, b))
           /\ \A k \in p..Len(users) : k < WordEnd(p, b) => ~Stops(p, b, k)
<1> DEFINE T == {k \in p..Len(users) : Stops(p, b, k)} \cup {Len(users) + 1}
<1>1. Len(users) \in Nat
  BY LenProperties
<1>2. T \in SUBSET Nat /\ T # {}
  BY <1>1
<1>3. WordEnd(p, b) = CHOOSE x \in T : \A y \in T : x <= y
  BY DEF WordEnd, Min, Stops
<1>4. WordEnd(p, b) \in T /\ \A y \in T : WordEnd(p, b) <= y
  <2> HIDE DEF T
  <2> QED
    BY <1>2, <1>3, Least
<1>5. \A k \in p..Len(users) : k < WordEnd(p, b) => ~Stops(p, b, k)
  <2> SUFFICES ASSUME NEW k \in p..Len(users), k < WordEnd(p, b), Stops(p, b, k) PROVE FALSE
    OBVIOUS
  <2>1. k \in T /\ k \in Nat /\ WordEnd(p, b) \in Nat
    BY <1>1, <1>4
  <2> QED
    BY <1>4, <2>1
<1> QED
  BY <1>1, <1>4, <1>5

LEMMA WordEndsAt ==
    ASSUME users \in Seq(Word), NEW p \in Nat \ {0}, NEW b \in Int, NEW e \in p..(Len(users) + 1),
           e <= Len(users) => Stops(p, b, e), \A k \in p..(e - 1) : ~Stops(p, b, k)
    PROVE  WordEnd(p, b) = e
<1>1. PICK w : w = WordEnd(p, b)
  OBVIOUS
<1>2. PICK n \in Nat : n = Len(users)
  BY LenProperties
<1>3. /\ w \in 1..(n + 1)
      /\ w <= n => p <= w /\ Stops(p, b, w)
      /\ \A k \in p..n : k < w => ~Stops(p, b, k)
  BY <1>1, <1>2, WordIsRead
<1>4. e \in p..(n + 1) /\ (e <= n => Stops(p, b, e)) /\ \A k \in p..(e - 1) : ~Stops(p, b, k)
  BY <1>2
<1>5. ~(w < e)
  <2> SUFFICES ASSUME w < e PROVE FALSE
    OBVIOUS
  <2>1. w <= n /\ w \in p..(e - 1)
    BY <1>3, <1>4
  <2> QED
    BY <1>3, <1>4, <2>1
<1>6. ~(e < w)
  <2> SUFFICES ASSUME e < w PROVE FALSE
    OBVIOUS
  <2>1. e <= n /\ e \in p..n
    BY <1>3, <1>4
  <2> QED
    BY <1>3, <1>4, <2>1
<1> QED
  BY <1>1, <1>3, <1>4, <1>5, <1>6

(* A row that is read holds no line end, and what is behind it may be one. *)
LEMMA RowIsRead ==
    ASSUME users \in Seq(Word), row \in Nat \ {0}
    PROVE  /\ NameEnd \in 1..(Len(users) + 1) /\ PasswordEnd \in 1..(Len(users) + 1)
           /\ HasPassword =>
                /\ row <= NameEnd /\ NameEnd < PasswordEnd /\ NameEnd <= Len(users)
                /\ users[NameEnd] = Blank
                /\ \A k \in (NameEnd + 1)..Len(users) :
                      k < PasswordEnd => users[k] \notin {Blank, LineEnd}
                /\ PasswordEnd <= Len(users) =>
                      \/ users[PasswordEnd] \in {Blank, LineEnd}
                      \/ PasswordEnd - (NameEnd + 1) = MaxLength
           /\ row <= Len(users) => row <= NameEnd /\ row <= PasswordEnd
           /\ ~(row <= Len(users)) => PasswordEnd = Len(users) + 1
           /\ \A k \in row..Len(users) : k < PasswordEnd => users[k] # LineEnd
           /\ PasswordEnd <= Len(users) => MayStart(PasswordEnd + 1)
<1>1. PICK n \in Nat : n = Len(users) /\ DOMAIN users = 1..n
  BY LenProperties
<1>2. PICK r \in Nat \ {0} : r = row
  OBVIOUS
<1>3. PICK m \in Nat \ {0} : m = MaxLength
  BY ConfigAssumption
<1>4. PICK e : e = NameEnd
  OBVIOUS
<1>8. PICK b \in Int : b = r + 1
  OBVIOUS
<1>9. e = WordEnd(r, b)
  BY <1>2, <1>4, <1>8 DEF NameEnd
<1>5. /\ e \in 1..(n + 1)
      /\ e <= n => r <= e /\ Stops(r, b, e)
      /\ \A k \in r..n : k < e => ~Stops(r, b, k)
  BY <1>1, <1>9, WordIsRead
<1>6. CASE ~HasPassword
  <2>1. PasswordEnd = e
    BY <1>4, <1>6 DEF PasswordEnd
  <2>2. e <= n => users[e] # Blank
    BY <1>1, <1>4, <1>5, <1>6 DEF HasPassword
  <2>3. \A k \in r..n : k < e => users[k] # LineEnd /\ (k # r => users[k] # Blank)
    BY <1>5, <1>8 DEF Stops
  <2>4. ASSUME e <= n PROVE MayStart(e + 1)
    <3>1. CASE users[e] = LineEnd
      BY <1>5, <3>1 DEF MayStart
    <3>2. CASE users[e] # LineEnd
      <4>1. e - r = m
        BY <1>3, <1>5, <2>2, <2>4, <3>2, <1>8 DEF Stops
      <4>2. PICK x \in Int : x = e + 1
        BY <1>5
      <4>4. x - 1 = e /\ x - 1 > MaxLength /\ x - MaxLength = r + 1
        BY <1>3, <1>5, <4>1, <4>2
      <4>3. \A k \in (r + 1)..e : users[k] \notin {Blank, LineEnd}
        <5> SUFFICES ASSUME NEW k \in (r + 1)..e PROVE users[k] \notin {Blank, LineEnd}
          OBVIOUS
        <5>1. k = e \/ (k \in r..n /\ k < e /\ k # r)
          BY <1>5, <2>4
        <5> QED
          BY <2>2, <2>3, <2>4, <3>2, <5>1
      <4> QED
        <5>1. MayStart(x)
          BY <4>3, <4>4 DEF MayStart
        <5> QED
          BY <4>2, <5>1
    <3> QED
      BY <3>1, <3>2
  <2>5. (r <= n => r <= e) /\ (~(r <= n) => e = n + 1)
    BY <1>5
  <2> QED
    BY <1>1, <1>2, <1>4, <1>5, <1>6, <2>1, <2>3, <2>4, <2>5
<1>7. CASE HasPassword
  <2>1. e <= n /\ users[e] = Blank /\ r <= e
    BY <1>1, <1>4, <1>5, <1>7 DEF HasPassword
  <2>2. PICK f : f = PasswordEnd
    OBVIOUS
  <2>10. PICK p \in Nat \ {0} : p = e + 1
    BY <1>5
  <2>11. PICK z \in Int : z = 0
    OBVIOUS
  <2>3. f = WordEnd(p, z)
    BY <1>4, <1>5, <1>7, <2>2, <2>10, <2>11 DEF PasswordEnd
  <2>4. /\ f \in 1..(n + 1)
        /\ f <= n => p <= f /\ Stops(p, z, f)
        /\ \A k \in p..n : k < f => ~Stops(p, z, k)
    BY <1>1, <2>3, WordIsRead
  <2>5. \A k \in (e + 1)..n : k < f => users[k] \notin {Blank, LineEnd}
    BY <1>5, <2>4, <2>10, <2>11 DEF Stops
  <2>6. ASSUME f <= n PROVE MayStart(f + 1)
    <3>1. CASE users[f] \in {Blank, LineEnd}
      BY <2>4, <3>1 DEF MayStart
    <3>2. CASE users[f] \notin {Blank, LineEnd}
      <4>1. f - (e + 1) = m
        BY <1>3, <1>5, <2>4, <2>6, <2>10, <2>11, <3>2 DEF Stops
      <4>2. PICK x \in Int : x = f + 1
        BY <2>4
      <4>4. x - 1 = f /\ x - 1 > MaxLength /\ x - MaxLength = e + 2
        BY <1>3, <1>5, <2>4, <4>1, <4>2
      <4>3. \A k \in (e + 2)..f : users[k] \notin {Blank, LineEnd}
        <5> SUFFICES ASSUME NEW k \in (e + 2)..f PROVE users[k] \notin {Blank, LineEnd}
          OBVIOUS
        <5>1. k = f \/ (k \in (e + 1)..n /\ k < f)
          BY <1>5, <2>4, <2>6
        <5> QED
          BY <2>5, <3>2, <5>1
      <4> QED
        <5>1. MayStart(x)
          BY <4>3, <4>4 DEF MayStart
        <5> QED
          BY <4>2, <5>1
    <3> QED
      BY <3>1, <3>2
  <2>7. e < f /\ r < f
    BY <1>5, <2>1, <2>4, <2>10
  <2>8. \A k \in r..n : k < f => users[k] # LineEnd
    <3> SUFFICES ASSUME NEW k \in r..n, k < f PROVE users[k] # LineEnd
      OBVIOUS
    <3>1. k < e \/ k = e \/ k \in (e + 1)..n
      BY <1>5, <2>1
    <3>2. Blank # LineEnd
      BY ConfigAssumption
    <3> QED
      BY <1>5, <1>8, <2>1, <2>5, <3>1, <3>2 DEF Stops
  <2>9. f <= n => users[f] \in {Blank, LineEnd} \/ f - (e + 1) = MaxLength
    BY <2>4, <2>10 DEF Stops
  <2> QED
    BY <1>1, <1>2, <1>4, <1>5, <2>1, <2>2, <2>4, <2>5, <2>6, <2>7, <2>8, <2>9
<1> QED
  BY <1>6, <1>7

(* Only the row itself can be a line that starts in it. *)
LEMMA OneMoreRow ==
    ASSUME users \in Seq(Word), row \in Nat \ {0}
    PROVE  \A k \in RowsBefore(PasswordEnd + 1) : k \in RowsBefore(row) \/ (k = row /\ row <= Len(users) /\ Lists(row))
<1>1. PICK n \in Nat : n = Len(users) /\ DOMAIN users = 1..n
  BY LenProperties
<1>2. PICK f \in Nat : f = PasswordEnd
  BY <1>1, RowIsRead
<1>3. \A k \in row..n : k < f => users[k] # LineEnd
  BY <1>1, <1>2, RowIsRead
<1> SUFFICES ASSUME NEW k \in RowsBefore(f + 1), k >= row
             PROVE  k = row
  <2>1. \A k \in RowsBefore(f + 1) : k \in 1..f /\ k \in 1..n /\ Lists(k)
    BY <1>1, <1>2 DEF RowsBefore
  <2>2. \A k \in RowsBefore(f + 1) : ~(k >= row) => k \in RowsBefore(row)
    BY <2>1, <1>1 DEF RowsBefore
  <2> QED
    BY <1>1, <1>2, <2>1, <2>2
<1>4. k \in 1..f /\ k \in 1..n /\ (k = 1 \/ users[k - 1] = LineEnd)
  BY <1>1, <1>2 DEF RowsBefore, Lists
<1>5. CASE k # row
  <2>1. k - 1 \in row..n /\ k - 1 < f /\ k # 1
    BY <1>4, <1>5
  <2> QED
    BY <1>3, <1>4, <2>1
<1> QED
  BY <1>5

(* A line of a name and a password is read as such. *)
LEMMA ListedIsRead ==
    ASSUME users \in Seq(Word), row \in Nat \ {0}, Lists(row)
    PROVE  /\ RowRead.name = <<users[row]>> /\ RowRead.password = <<users[row + 2]>>
           /\ IsUser
<1>1. PICK n \in Nat : n = Len(users) /\ DOMAIN users = 1..n
  BY LenProperties
<1>2. /\ row + 2 <= n /\ row <= n /\ row + 1 <= n
      /\ users[row] \notin {Blank, LineEnd} /\ users[row + 2] \notin {Blank, LineEnd}
      /\ users[row + 1] = Blank
      /\ row + 3 <= n => users[row + 3] = LineEnd
  <2>1. row + 2 \in 1..n /\ (row + 3 \in 1..n => users[row + 3] = LineEnd)
    BY <1>1 DEF Lists
  <2>2. users[row + 1] = Blank /\ {users[row], users[row + 2]} \cap {Blank, LineEnd} = {}
    BY DEF Lists
  <2>3. users[row] \notin {Blank, LineEnd} /\ users[row + 2] \notin {Blank, LineEnd}
    BY <2>2
  <2> QED
    BY <2>1, <2>2, <2>3
<1>3. PICK m \in Nat \ {0} : m = MaxLength
  BY ConfigAssumption
<1>4. PICK b \in Int : b = row + 1
  OBVIOUS
<1>5. b \in row..(n + 1) /\ b <= n /\ Stops(row, b, b) /\ \A k \in row..(b - 1) : ~Stops(row, b, k)
  <2>1. \A k \in row..(b - 1) : k = row /\ k - row = 0
    BY <1>4
  <2>2. 0 # m
    BY <1>3
  <2> QED
    BY <1>2, <1>3, <1>4, <2>1, <2>2 DEF Stops
<1>6. WordEnd(row, b) = b
  BY <1>1, <1>5, WordEndsAt
<1>7. NameEnd = b /\ HasPassword
  BY <1>1, <1>2, <1>4, <1>5, <1>6 DEF NameEnd, HasPassword
<1>8. PICK p \in Nat \ {0} : p = row + 2
  OBVIOUS
<1>9. PICK e \in Nat : e = row + 3
  OBVIOUS
<1>10. PICK z \in Int : z = 0
  OBVIOUS
<1>11. e \in p..(n + 1) /\ (e <= n => Stops(p, z, e)) /\ \A k \in p..(e - 1) : ~Stops(p, z, k)
  <2>1. \A k \in p..(e - 1) : k = p /\ k - p = 0
    BY <1>8, <1>9
  <2>2. 0 # m
    BY <1>3
  <2> QED
    BY <1>2, <1>3, <1>8, <1>9, <2>1, <2>2 DEF Stops
<1>12. WordEnd(p, z) = e
  BY <1>1, <1>11, WordEndsAt
<1>13. PasswordEnd = e
  BY <1>4, <1>7, <1>8, <1>10, <1>12 DEF PasswordEnd
<1>14. ~IsTooLong
  <2>1. ~Overflows(row, b)
    BY <1>2, <1>4 DEF Overflows
  <2>2. ~Overflows(p, e)
    BY <1>1, <1>2, <1>9 DEF Overflows
  <2>3. b + 1 = p
    BY <1>4, <1>8
  <2> QED
    BY <1>7, <1>13, <2>1, <2>2, <2>3 DEF IsTooLong
<1>15. Between(users, row, b) = <<users[row]>> /\ Between(users, p, e) = <<users[p]>>
  BY <1>1, <1>2, <1>4, <1>8, <1>9, OneItem DEF Between
<1>16. RowRead.name = Between(users, row, b) /\ RowRead.password = Between(users, p, e)
  <2>1. b + 1 = p
    BY <1>4, <1>8
  <2> QED
    BY <1>7, <1>13, <1>14, <2>1 DEF RowRead, Password
<1> QED
  BY <1>8, <1>15, <1>16 DEF IsUser

-----------------------------------------------------------------------------
(* The run of words from p up to q, and two of these in a row. *)
IsRun(p, q) == p \in Nat \ {0} /\ q \in Nat /\ p <= q /\ q <= Len(users) + 1

LEMMA BetweenIsRun ==
    ASSUME users \in Seq(Word), NEW p, NEW q, IsRun(p, q)
    PROVE  /\ Between(users, p, q) \in Seq(Word)
           /\ Len(Between(users, p, q)) = q - p
           /\ p < q => Between(users, p, q)[1] = users[p]
<1> USE DEF IsRun
<1>1. PICK y \in Int : y = q - 1
  OBVIOUS
<1>2. \A j \in p..y : users[j] \in Word
  BY <1>1, LenProperties
<1>3. /\ SubSeq(users, p, y) \in Seq(Word)
      /\ Len(SubSeq(users, p, y)) = IF p <= y THEN y - p + 1 ELSE 0
      /\ \A j \in 1..(y - p + 1) : SubSeq(users, p, y)[j] = users[p + j - 1]
  BY <1>1, <1>2, SubSeqProperties
<1>4. p < q => 1 \in 1..(y - p + 1) /\ p + 1 - 1 = p
  BY <1>1
<1> QED
  BY <1>1, <1>3, <1>4 DEF Between

LEMMA BetweenJoins ==
    ASSUME users \in Seq(Word), NEW p, NEW q, NEW r, IsRun(p, q), IsRun(q, r)
    PROVE  Between(users, p, q) \o Between(users, q, r) = Between(users, p, r)
<1> USE DEF IsRun
<1>1. PICK k \in Int : k = q - 1
  OBVIOUS
<1>2. PICK m \in Int : m = r - 1
  OBVIOUS
<1>3. p \in 1..(Len(users) + 1) /\ k \in (p - 1)..Len(users) /\ m \in k..Len(users) /\ k + 1 = q
  BY <1>1, <1>2, LenProperties
<1>4. SubSeq(users, p, k) \o SubSeq(users, k + 1, m) = SubSeq(users, p, m)
  BY ONLY users \in Seq(Word), <1>3, ConcatAdjacentSubSeq
<1> QED
  BY <1>1, <1>2, <1>3, <1>4 DEF Between

(* A name and its password, read at k: as much is read of the name as can be. *)
Found(name, password, k) ==
    /\ k \in DOMAIN users
    /\ name = Between(users, k, WordEnd(k, k + 1))
    /\ IsRead(k, name \o <<Blank>> \o password)

LEMMA UserIsFound ==
    ASSUME users \in Seq(Word), row \in Nat \ {0}, row <= Len(users) => MayStart(row), IsUser
    PROVE  /\ Found(RowRead.name, RowRead.password, row)
           /\ RowRead.name \in Seq(Word) /\ RowRead.password \in Seq(Word)
           /\ \A x : RowRead.name = <<x>> /\ x \notin {Blank, LineEnd} => users[row] = x /\ Gives(row)
<1>1. PICK n \in Nat : n = Len(users) /\ DOMAIN users = 1..n
  BY LenProperties
<1>2. PICK r \in Nat \ {0} : r = row
  OBVIOUS
<1>3. /\ ~IsTooLong /\ HasPassword
      /\ RowRead.name = Between(users, row, NameEnd)
      /\ RowRead.password = Between(users, NameEnd + 1, PasswordEnd)
      /\ RowRead.name # <<>> /\ RowRead.password # <<>>
  BY DEF IsUser, RowRead, Password
<1>4. PICK e \in Int : e = NameEnd
  BY <1>1, RowIsRead
<1>5. PICK f \in Int : f = PasswordEnd
  BY <1>1, RowIsRead
<1>6. /\ r <= e /\ e < f /\ e <= n /\ f <= n + 1
      /\ users[e] = Blank
      /\ \A k \in (e + 1)..n : k < f => users[k] \notin {Blank, LineEnd}
      /\ f <= n => users[f] \in {Blank, LineEnd} \/ f - (e + 1) = MaxLength
  BY <1>1, <1>2, <1>3, <1>4, <1>5, RowIsRead
<1>7. PICK a : a = RowRead.name /\ a = Between(users, r, e)
  BY <1>2, <1>3, <1>4
<1>8. PICK m \in Nat : m = e + 1
  BY <1>6
<1>9. PICK w : w = RowRead.password /\ w = Between(users, m, f)
  BY <1>3, <1>4, <1>5, <1>8
<1>10. r <= n /\ e \in 1..n /\ f \in Nat /\ r <= e /\ e <= m /\ m <= f /\ f <= n + 1
  BY <1>6, <1>8
<1>17. IsRun(r, e) /\ IsRun(e, m) /\ IsRun(r, m) /\ IsRun(m, f) /\ IsRun(r, f)
  BY <1>1, <1>8, <1>10 DEF IsRun
<1>11. a \in Seq(Word) /\ Len(a) = e - r /\ (r < e => a[1] = users[r])
  BY <1>7, <1>17, BetweenIsRun
<1>12. w \in Seq(Word) /\ Len(w) = f - m
  BY <1>9, <1>17, BetweenIsRun
<1>13. r < e /\ m < f
  <2>1. Len(a) # 0 /\ Len(w) # 0
    BY <1>3, <1>7, <1>9, <1>11, <1>12, EmptySeq
  <2> QED
    BY <1>10, <1>11, <1>12, <2>1
<1>14. PICK t : t = a \o <<Blank>> \o w
  OBVIOUS
<1>15. t = Between(users, r, f) /\ Len(t) = f - r
  <2>1. Between(users, e, m) = <<Blank>>
    BY <1>1, <1>6, <1>8, <1>10, OneItem DEF Between
  <2>2. Between(users, r, e) \o Between(users, e, m) = Between(users, r, m)
    BY <1>17, BetweenJoins
  <2>3. Between(users, r, m) \o Between(users, m, f) = Between(users, r, f)
    BY <1>17, BetweenJoins
  <2>4. Len(Between(users, r, f)) = f - r
    BY <1>17, BetweenIsRun
  <2> QED
    BY <1>7, <1>9, <1>14, <2>1, <2>2, <2>3, <2>4
<1>16. r + Len(t) = f /\ r + Len(t) - 1 = f - 1
  BY <1>10, <1>15
<1>21. SubSeq(users, r, r + Len(t) - 1) = t
  BY <1>15, <1>16 DEF Between
<1>22. MayStart(r)
  BY <1>1, <1>2, <1>10
<1>23. f <= n => users[f] \in {Blank, LineEnd}
  <2>1. ~Overflows(e + 1, f)
    BY <1>3, <1>4, <1>5 DEF IsTooLong
  <2> QED
    BY <1>1, <1>6, <2>1 DEF Overflows
<1>24. IsRead(r, t)
  <2>1. r + Len(t) \in DOMAIN users => users[r + Len(t)] \in {Blank, LineEnd}
    BY <1>1, <1>16, <1>23
  <2> QED
    BY <1>21, <1>22, <2>1 DEF IsRead
<1>25. Found(a, w, r)
  <2>1. a = Between(users, r, WordEnd(r, r + 1))
    BY <1>2, <1>3, <1>7 DEF NameEnd
  <2>2. r \in DOMAIN users
    BY <1>1, <1>10
  <2> QED
    BY <1>14, <1>24, <2>1, <2>2 DEF Found
<1>26. ASSUME NEW x, a = <<x>>, x \notin {Blank, LineEnd} PROVE users[r] = x /\ Gives(r)
  <2>1. Len(a) = 1 /\ a[1] = x
    BY <1>26
  <2>2. e - r = 1 /\ users[r] = x
    BY <1>11, <1>13, <2>1
  <2>6. e = r + 1
    BY <2>2
  <2>3. r + 2 <= n /\ r + 2 \in (e + 1)..n /\ r + 2 < f
    BY <1>6, <1>8, <1>13, <2>6
  <2>4. users[r + 2] \notin {Blank, LineEnd} /\ users[r + 1] = Blank
    BY <1>6, <2>6, <2>3
  <2>5. r + 2 \in DOMAIN users
    BY <1>1, <2>3
  <2> QED
    BY <1>22, <1>26, <2>2, <2>4, <2>5 DEF Gives
<1> QED
  BY <1>2, <1>7, <1>9, <1>11, <1>12, <1>25, <1>26

-----------------------------------------------------------------------------
(* A line of those before p gives the name its password, or a later one does. *)
Given(p) ==
    \A y \in RowsBefore(p) :
       \/ \E k \in (y + 1)..(p - 1) : Gives(k) /\ users[k] = users[y]
       \/ <<users[y]>> \in DOMAIN accounts
          /\ stored[accounts[<<users[y]>>]] = <<users[y + 2]>>

IsText == users \in Seq(Word) /\ Len(users) < Blocks

MemoryInv ==
    /\ accounts \in [DOMAIN accounts -> 1..Blocks]
    /\ stored \in [1..Blocks -> Seq(Word) \cup {Absent}]
    /\ \A n, m \in DOMAIN accounts : accounts[n] = accounts[m] => n = m
    /\ \A b \in 1..Blocks : stored[b] # Absent <=> \E n \in DOMAIN accounts : accounts[n] = b
    /\ \A n \in DOMAIN accounts : \E k : Found(n, stored[accounts[n]], k)

FileInv ==
    /\ users = Absent \/ IsText
    /\ row \in Nat
    /\ row > 0 => IsText /\ (row <= Len(users) => MayStart(row))
    /\ loading = "nothing" => row = 0
    /\ loading = "users" => row > 0
    /\ loading \in {"config", "loaded"} /\ row > 0 /\ rc = 0 =>
          \A k \in row..Len(users) : users[k] # LineEnd

GivenInv == loading \in {"nothing", "users", "config", "loaded"} => Given(row)

ConfigInv == MemoryInv /\ FileInv /\ GivenInv

LEMMA ThereIsAFreeBlock ==
    ASSUME MemoryInv, IsText
    PROVE  \E b \in 1..Blocks : stored[b] = Absent
<1> SUFFICES ASSUME \A b \in 1..Blocks : stored[b] # Absent PROVE FALSE
  OBVIOUS
<1>1. PICK n \in Nat : n = Len(users) /\ DOMAIN users = 1..n /\ n < Blocks
  BY LenProperties DEF IsText
<1> DEFINE At(k) == Between(users, k, WordEnd(k, k + 1))
           Holds(b, k) == \E a \in DOMAIN accounts : accounts[a] = b /\ a = At(k)
           g == [b \in 1..Blocks |-> CHOOSE k \in 1..n : Holds(b, k)]
<1>2. \A b \in 1..Blocks : \E k \in 1..n : Holds(b, k)
  <2> TAKE b \in 1..Blocks
  <2>1. PICK a \in DOMAIN accounts : accounts[a] = b
    BY DEF MemoryInv
  <2>2. PICK k : Found(a, stored[accounts[a]], k)
    BY DEF MemoryInv
  <2> QED
    BY <1>1, <2>1, <2>2 DEF Found
<1>3. g \in [1..Blocks -> 1..n] /\ \A b \in 1..Blocks : Holds(b, g[b])
  BY <1>2
<1>4. \E x, y \in 1..Blocks : x # y /\ g[x] = g[y]
  <2> HIDE DEF g
  <2>1. \A m \in Nat : IsFiniteSet(1..m) /\ Cardinality(1..m) = m
    <3> TAKE m \in Nat
    <3>1. IsFiniteSet(1..m) /\ Cardinality(1..m) = IF 1 > m THEN 0 ELSE m - 1 + 1
      BY FS_Interval
    <3> QED
      BY <3>1
  <2>2. PICK S : S = 1..Blocks
    OBVIOUS
  <2>3. PICK T : T = 1..n
    OBVIOUS
  <2>4. IsFiniteSet(S) /\ IsFiniteSet(T) /\ Cardinality(T) < Cardinality(S)
    BY <1>1, <2>1, <2>2, <2>3, ConfigAssumption
  <2>5. PICK h \in [S -> T] : h = g
    BY <1>3, <2>2, <2>3
  <2>6. \E x, y \in S : x # y /\ h[x] = h[y]
    BY <2>4, FS_PigeonHole
  <2> QED
    BY <2>2, <2>5, <2>6
<1> QED
  BY <1>3, <1>4

LEMMA ConfigStarts ==
    ASSUME ConfigInit PROVE ConfigInv
<1>1. MemoryInv
  BY DEF ConfigInit, MemoryInv, None, AllFree
<1>2. FileInv
  BY DEF ConfigInit, FileInv, IsText
<1>3. GivenInv
  BY DEF ConfigInit, GivenInv, Given, RowsBefore
<1> QED
  BY <1>1, <1>2, <1>3 DEF ConfigInv

(* Once the passwords are free()d. *)
LEMMA ReleasedKeeps ==
    ASSUME ConfigInv, Released PROVE ConfigInv'
<1>1. /\ loading' \in {"failed", "undefined"} /\ accounts' = None
      /\ users' = users /\ row' = row /\ rc' = rc
  BY DEF Released, files
<1>2. stored' = [b \in 1..Blocks |-> Absent]
  <2>1. \A b \in 1..Blocks : b \notin Range(accounts) => stored[b] = Absent
    BY DEF ConfigInv, MemoryInv, Range
  <2> QED
    BY <2>1 DEF Released
<1>3. MemoryInv'
  BY <1>1, <1>2 DEF MemoryInv, None
<1>4. FileInv'
  BY <1>1 DEF ConfigInv, FileInv, IsText, MayStart
<1>5. GivenInv'
  BY <1>1 DEF GivenInv
<1> QED
  BY <1>3, <1>4, <1>5 DEF ConfigInv

(* With the map and memory as they were, it is the places that change. *)
LEMMA SameMemory ==
    ASSUME MemoryInv, UNCHANGED <<users, accounts, stored>>
    PROVE  MemoryInv' /\ \A p : Given(p)' <=> Given(p)
<1>1. \A a, w, k : Found(a, w, k)' <=> Found(a, w, k)
  BY DEF Found, IsRead, MayStart, WordEnd, Between
<1>2. MemoryInv'
  BY <1>1 DEF MemoryInv
<1> QED
  BY <1>2 DEF Given, RowsBefore, Lists, Gives, MayStart

(* Nothing but where the line starts changes, or how loading goes on. *)
LEMMA OtherStepsKeep ==
    ASSUME ConfigInv,
           \/ Open \/ OtherLine \/ MethodLine \/ UsersLine \/ ConfigEnds \/ RowsEnd
           \/ ConfigIsRead \/ UNCHANGED configVars
    PROVE  ConfigInv'
<1>1. CASE Released
  BY <1>1, ReleasedKeeps
<1>2. ASSUME UNCHANGED <<users, accounts, stored, row, rc>>, loading' # "nothing" \/ loading = "nothing",
             \/ loading' = loading
             \/ loading = "nothing" /\ loading' \in {"failed", "config"}
             \/ loading = "config" /\ loading' \in {"loaded", "undefined"}
             \/ loading = "users" /\ loading' = "config" /\ RowRead.code = rc /\ ~(rc < 0)
      PROVE  ConfigInv'
  <2>1. MemoryInv' /\ \A p : Given(p)' <=> Given(p)
    BY <1>2, SameMemory DEF ConfigInv
  <2>2. GivenInv'
    BY <1>2, <2>1 DEF ConfigInv, GivenInv
  <2>3. ASSUME loading' \in {"config", "loaded"}, row' > 0, rc' = 0
        PROVE  \A k \in row..Len(users) : users[k] # LineEnd
    <3>1. CASE loading = "users" /\ loading' # loading
      <4>1. RowRead.code = 0
        BY <1>2, <2>3, <3>1
      <4>2. PasswordEnd \notin DOMAIN users
        BY <4>1 DEF RowRead
      <4>3. users \in Seq(Word) /\ row \in Nat \ {0} /\ Len(users) \in Nat /\ DOMAIN users = 1..Len(users)
        BY <3>1, LenProperties DEF ConfigInv, FileInv, IsText
      <4>4. /\ PasswordEnd \in 1..(Len(users) + 1)
            /\ \A k \in row..Len(users) : k < PasswordEnd => users[k] # LineEnd
        BY <4>3, RowIsRead
      <4>5. PasswordEnd = Len(users) + 1
        BY <4>2, <4>3, <4>4
      <4> QED
        BY <4>3, <4>4, <4>5
    <3>2. CASE ~(loading = "users" /\ loading' # loading)
      BY <1>2, <2>3, <3>2 DEF ConfigInv, FileInv
    <3> QED
      BY <3>1, <3>2
  <2>4. FileInv'
    <3>1. loading' = "users" => loading = "users"
      BY <1>2
    <3>2. loading' \in {"config", "loaded"} /\ row' > 0 /\ rc' = 0 =>
            \A k \in row'..Len(users') : users'[k] # LineEnd
      BY <1>2, <2>3
    <3> QED
      BY <1>2, <3>1, <3>2 DEF ConfigInv, FileInv, IsText, MayStart
  <2> QED
    BY <2>1, <2>2, <2>4 DEF ConfigInv
<1>3. CASE UsersLine /\ ~Released
  <2>1. /\ users' = users /\ accounts' = accounts /\ stored' = stored
        /\ row' = 1 /\ loading' = "users" /\ users # Absent
    BY <1>3 DEF UsersLine, files
  <2>2. IsText
    BY <2>1 DEF ConfigInv, FileInv
  <2>3. MemoryInv'
    BY <2>1, SameMemory DEF ConfigInv
  <2>4. FileInv'
    BY <2>1, <2>2 DEF FileInv, IsText, MayStart
  <2>5. GivenInv'
    BY <2>1 DEF GivenInv, Given, RowsBefore
  <2> QED
    BY <2>3, <2>4, <2>5 DEF ConfigInv
<1>4. CASE Open
  BY <1>2, <1>4 DEF Open, files
<1>5. CASE OtherLine
  BY <1>2, <1>5 DEF OtherLine, ReadsLine, files
<1>6. CASE MethodLine /\ ~Released
  BY <1>2, <1>6 DEF MethodLine, ReadsLine, files
<1>7. CASE ConfigEnds
  BY <1>2, <1>7 DEF ConfigEnds, files
<1>8. CASE RowsEnd /\ ~Released
  BY <1>2, <1>8 DEF RowsEnd, files
<1>9. CASE ConfigIsRead \/ UNCHANGED configVars
  BY <1>2, <1>9 DEF ConfigIsRead, configVars
<1> QED
  BY <1>1, <1>3, <1>4, <1>5, <1>6, <1>7, <1>8, <1>9

LEMMA SkippedKeeps ==
    ASSUME ConfigInv, RowIsSkipped PROVE ConfigInv'
<1>1. /\ users' = users /\ accounts' = accounts /\ stored' = stored /\ loading' = loading
      /\ row' = PasswordEnd + 1 /\ loading = "users" /\ ~IsUser
  BY DEF RowIsSkipped, GoesOnWithRows, files, RowRead
<1>2. IsText /\ users \in Seq(Word) /\ row \in Nat \ {0}
  BY <1>1 DEF ConfigInv, FileInv, IsText
<1>3. PICK n \in Nat : n = Len(users)
  BY <1>2, LenProperties
<1>4. /\ PasswordEnd \in 1..(n + 1)
      /\ PasswordEnd <= n => MayStart(PasswordEnd + 1)
      /\ row <= n => row <= PasswordEnd
      /\ ~(row <= n) => PasswordEnd = n + 1
  BY <1>2, <1>3, RowIsRead
<1>5. MemoryInv' /\ \A p : Given(p)' <=> Given(p)
  BY <1>1, SameMemory DEF ConfigInv
<1>6. PICK q \in Nat : q = PasswordEnd + 1
  BY <1>4
<1>7. FileInv'
  <2>1. q > 0 /\ (q <= n => MayStart(q))
    BY <1>4, <1>6
  <2>2. MayStart(q)' <=> MayStart(q)
    BY <1>1 DEF MayStart
  <2>3. row' = q /\ IsText' /\ users' = users /\ loading' = "users"
    BY <1>1, <1>2, <1>6 DEF IsText
  <2> QED
    BY <1>3, <2>1, <2>2, <2>3 DEF FileInv, MayStart
<1>8. Given(q)
  <2> SUFFICES ASSUME NEW y \in RowsBefore(q)
               PROVE  \/ \E k \in (y + 1)..(q - 1) : Gives(k) /\ users[k] = users[y]
                      \/ <<users[y]>> \in DOMAIN accounts
                         /\ stored[accounts[<<users[y]>>]] = <<users[y + 2]>>
    BY DEF Given
  <2>1. y \in RowsBefore(row)
    BY <1>1, <1>2, <1>6, OneMoreRow, ListedIsRead
  <2>2. Given(row)
    BY <1>1 DEF ConfigInv, GivenInv
  <2>3. \A k \in (y + 1)..(row - 1) : Gives(k) => k \in (y + 1)..(q - 1)
    <3>1. \A k : Gives(k) => k + 2 \in 1..n
      BY <1>2, <1>3, LenProperties DEF Gives
    <3>2. y \in Int
      BY <2>1 DEF RowsBefore
    <3>3. PICK r \in Nat : r = row
      BY <1>2
    <3>4. PICK f \in Nat : f = PasswordEnd /\ q = f + 1
      BY <1>4, <1>6
    <3>5. (r <= n => r <= f) /\ (~(r <= n) => f = n + 1)
      BY <1>4, <3>3, <3>4
    <3>6. ASSUME NEW k \in (y + 1)..(r - 1), Gives(k) PROVE k \in (y + 1)..(q - 1)
      <4>1. k <= n
        BY <3>1, <3>2, <3>6
      <4> QED
        BY <3>2, <3>4, <3>5, <4>1
    <3> QED
      BY <3>3, <3>6
  <2> QED
    BY <2>1, <2>2, <2>3 DEF Given
<1>9. GivenInv'
  BY <1>1, <1>5, <1>6, <1>8 DEF GivenInv
<1> QED
  BY <1>5, <1>7, <1>9 DEF ConfigInv

LEMMA StoredKeeps ==
    ASSUME ConfigInv, RowIsStored PROVE ConfigInv'
<1> DEFINE name == RowRead.name
           password == RowRead.password
           Free == {b \in 1..Blocks : stored[b] = Absent}
<1>1. PICK block : block = Min(Free)
  OBVIOUS
<1>2. /\ users' = users /\ loading = "users" /\ loading' \in {"users", "undefined"}
      /\ row' = PasswordEnd + 1 /\ IsUser
      /\ accounts' = Mapped(name, block)
      /\ stored' = IF name \in DOMAIN accounts
                   THEN [[stored EXCEPT ![block] = password] EXCEPT ![accounts[name]] = Absent]
                   ELSE [stored EXCEPT ![block] = password]
  BY <1>1 DEF RowIsStored, GoesOnWithRows, files, RowRead, Cloned
<1>3. IsText /\ users \in Seq(Word) /\ row \in Nat \ {0} /\ (row <= Len(users) => MayStart(row))
  BY <1>2 DEF ConfigInv, FileInv, IsText
<1>4. block \in 1..Blocks /\ stored[block] = Absent
  <2>1. Free \in SUBSET Nat /\ Free # {}
    BY <1>2, <1>3, ThereIsAFreeBlock, ConfigAssumption DEF ConfigInv
  <2>2. PICK F \in SUBSET Nat : F = Free
    BY <2>1
  <2>3. block = CHOOSE x \in F : \A y \in F : x <= y
    BY <1>1, <2>2 DEF Min
  <2>4. block \in F
    BY <2>1, <2>2, <2>3, Least
  <2> QED
    BY <2>2, <2>4
<1>5. PICK n \in Nat : n = Len(users)
  BY <1>3, LenProperties
<1>6. /\ PasswordEnd \in 1..(n + 1)
      /\ PasswordEnd <= n => MayStart(PasswordEnd + 1)
      /\ row <= n => row <= PasswordEnd
  BY <1>3, <1>5, RowIsRead
<1>7. PICK q \in Nat : q = PasswordEnd + 1
  BY <1>6
<1>8. row <= n
  <2>1. HasPassword
    BY <1>2 DEF IsUser, RowRead, Password
  <2>2. row <= NameEnd /\ NameEnd <= n /\ NameEnd \in 1..(n + 1)
    BY <1>3, <1>5, <2>1, RowIsRead
  <2> QED
    BY <1>3, <2>2
<1>9. /\ Found(name, password, row) /\ password \in Seq(Word)
      /\ \A x : name = <<x>> /\ x \notin {Blank, LineEnd} => users[row] = x /\ Gives(row)
  BY <1>2, <1>3, UserIsFound
<1>10. password # Absent
  BY <1>9, ConfigAssumption
<1> DEFINE old == accounts[name]
<1>11. /\ DOMAIN accounts' = DOMAIN accounts \cup {name}
       /\ accounts'[name] = block
       /\ \A m \in DOMAIN accounts : m # name => accounts'[m] = accounts[m]
  BY <1>2 DEF Mapped
<1>12. \A m \in DOMAIN accounts : /\ accounts[m] \in 1..Blocks /\ accounts[m] # block
                                  /\ stored[accounts[m]] # Absent
  BY <1>4 DEF ConfigInv, MemoryInv
<1>13. /\ DOMAIN stored' = 1..Blocks
       /\ stored'[block] = password
       /\ name \in DOMAIN accounts => stored'[old] = Absent
       /\ \A b \in 1..Blocks : /\ b # block
                               /\ name \in DOMAIN accounts => b # old
                               => stored'[b] = stored[b]
  <2>1. stored \in [1..Blocks -> Seq(Word) \cup {Absent}]
    BY DEF ConfigInv, MemoryInv
  <2>2. name \in DOMAIN accounts => old \in 1..Blocks /\ old # block
    BY <1>12
  <2> QED
    BY <1>2, <1>4, <2>1, <2>2
<1>14. stored' \in [1..Blocks -> Seq(Word) \cup {Absent}]
  <2>1. stored \in [1..Blocks -> Seq(Word) \cup {Absent}]
    BY DEF ConfigInv, MemoryInv
  <2> QED
    BY <1>2, <1>9, <2>1
<1>15. \A m, l \in DOMAIN accounts : accounts[m] = accounts[l] => m = l
  BY DEF ConfigInv, MemoryInv
<1>16. \A m \in DOMAIN accounts : m # name => stored'[accounts'[m]] = stored[accounts[m]]
  BY <1>11, <1>12, <1>13, <1>15
<1> HIDE DEF name, password, old
<1>17. MemoryInv'
  <2>1. accounts' \in [DOMAIN accounts' -> 1..Blocks]
    <3>1. accounts' = [m \in DOMAIN accounts' |-> accounts'[m]]
      BY <1>2 DEF Mapped
    <3>2. \A m \in DOMAIN accounts' : accounts'[m] \in 1..Blocks
      BY <1>4, <1>11, <1>12
    <3> QED
      BY <3>1, <3>2
  <2>2. \A m, l \in DOMAIN accounts' : accounts'[m] = accounts'[l] => m = l
    BY <1>11, <1>12, <1>15
  <2>3. \A b \in 1..Blocks : stored'[b] # Absent <=> \E m \in DOMAIN accounts' : accounts'[m] = b
    <3> TAKE b \in 1..Blocks
    <3>1. stored[b] # Absent <=> \E m \in DOMAIN accounts : accounts[m] = b
      BY DEF ConfigInv, MemoryInv
    <3>2. CASE b = block
      BY <1>10, <1>11, <1>13, <3>2
    <3>3. CASE b # block /\ name \in DOMAIN accounts /\ b = old
      <4>1. stored'[b] = Absent
        BY <1>13, <3>3
      <4>2. \A m \in DOMAIN accounts' : accounts'[m] # b
        BY <1>11, <1>15, <3>3 DEF old
      <4> QED
        BY <4>1, <4>2
    <3>4. CASE b # block /\ ~(name \in DOMAIN accounts /\ b = old)
      <4>1. stored'[b] = stored[b]
        BY <1>13, <3>4
      <4>2. (\E m \in DOMAIN accounts' : accounts'[m] = b) <=> \E m \in DOMAIN accounts : accounts[m] = b
        BY <1>11, <3>4 DEF old
      <4> QED
        BY <3>1, <4>1, <4>2
    <3> QED
      BY <3>2, <3>3, <3>4
  <2>4. \A m \in DOMAIN accounts' : \E k : Found(m, stored'[accounts'[m]], k)
    <3> SUFFICES ASSUME NEW m \in DOMAIN accounts'
                 PROVE  \E k : Found(m, stored'[accounts'[m]], k)
      OBVIOUS
    <3>1. CASE m = name
      BY <1>9, <1>11, <1>13, <3>1
    <3>2. CASE m # name
      <4>1. m \in DOMAIN accounts
        BY <1>11, <3>2
      <4>2. \E k : Found(m, stored[accounts[m]], k)
        BY <4>1 DEF ConfigInv, MemoryInv
      <4> QED
        BY <1>16, <3>2, <4>1, <4>2
    <3> QED
      BY <3>1, <3>2
  <2>5. (\A m \in DOMAIN accounts : \E k : Found(m, stored[accounts[m]], k))'
    <3>1. users' = users
      BY <1>2
    <3>2. ASSUME NEW m \in DOMAIN accounts', NEW k, Found(m, stored'[accounts'[m]], k)
          PROVE  Found(m, stored[accounts[m]], k)'
      BY <3>1, <3>2 DEF Found, IsRead, MayStart, WordEnd, Between
    <3> QED
      BY <2>4, <3>2
  <2> QED
    BY <1>14, <2>1, <2>2, <2>3, <2>5 DEF MemoryInv
<1>18. FileInv'
  <2>1. q > 0 /\ (q <= n => MayStart(q))
    BY <1>6, <1>7
  <2>2. MayStart(q)' <=> MayStart(q)
    BY <1>2 DEF MayStart
  <2>3. row' = q /\ IsText' /\ users' = users /\ loading' \in {"users", "undefined"}
    BY <1>2, <1>3, <1>7 DEF IsText
  <2> QED
    BY <1>5, <2>1, <2>2, <2>3 DEF FileInv, MayStart
<1>19. Given(q)'
  <2>1. \A p : /\ RowsBefore(p)' = RowsBefore(p)
               /\ \A k : Gives(k)' <=> Gives(k)
    BY <1>2 DEF RowsBefore, Lists, Gives, MayStart
  <2> SUFFICES ASSUME NEW y \in RowsBefore(q)
               PROVE  \/ \E k \in (y + 1)..(q - 1) : Gives(k) /\ users[k] = users[y]
                      \/ <<users[y]>> \in DOMAIN accounts'
                         /\ stored'[accounts'[<<users[y]>>]] = <<users[y + 2]>>
    BY <1>2, <2>1 DEF Given
  <2>2. y \in RowsBefore(row) \/ (y = row /\ Lists(row))
    BY <1>3, <1>7, OneMoreRow
  <2>3. CASE y = row /\ Lists(row)
    <3>1. name = <<users[y]>> /\ password = <<users[y + 2]>>
      BY <1>3, <2>3, ListedIsRead DEF name, password
    <3> QED
      BY <1>11, <1>13, <3>1
  <2>4. CASE y \in RowsBefore(row)
    <3>1. y \in 1..(row - 1) /\ Lists(y)
      BY <2>4 DEF RowsBefore
    <3>2. row \in (y + 1)..(q - 1) /\ \A k \in (y + 1)..(row - 1) : k \in (y + 1)..(q - 1)
      <4>1. PICK f \in Nat : f = PasswordEnd
        BY <1>6
      <4>2. row <= f /\ q = f + 1
        BY <1>6, <1>7, <1>8, <4>1
      <4> QED
        BY <1>3, <3>1, <4>2
    <3>3. \/ \E k \in (y + 1)..(row - 1) : Gives(k) /\ users[k] = users[y]
          \/ <<users[y]>> \in DOMAIN accounts
             /\ stored[accounts[<<users[y]>>]] = <<users[y + 2]>>
      BY <1>2, <2>4 DEF ConfigInv, GivenInv, Given
    <3>4. CASE <<users[y]>> = name
      <4>1. users[y] \notin {Blank, LineEnd}
        BY <3>1 DEF Lists
      <4>2. users[row] = users[y] /\ Gives(row)
        BY <1>9, <3>4, <4>1
      <4> QED
        BY <3>2, <4>2
    <3>5. CASE <<users[y]>> # name
      BY <1>11, <1>16, <3>2, <3>3, <3>5
    <3> QED
      BY <3>4, <3>5
  <2> QED
    BY <2>2, <2>3, <2>4
<1>20. GivenInv'
  <2>1. row' = q
    BY <1>2, <1>7
  <2> QED
    BY <1>19, <2>1 DEF GivenInv, Given, RowsBefore, Lists, Gives, MayStart
<1> QED
  BY <1>17, <1>18, <1>20 DEF ConfigInv

LEMMA ConfigInvHolds == ConfigSpec => []ConfigInv
<1>1. ASSUME ConfigInv, [ConfigNext]_configVars PROVE ConfigInv'
  BY <1>1, OtherStepsKeep, SkippedKeeps, StoredKeeps DEF ConfigNext
<1> QED
  BY <1>1, ConfigStarts, PTL DEF ConfigSpec

(* However the files and rc turn out. *)
THEOREM UsersStayAsListed == ConfigSpec => []UsersAreAsListed
<1>1. ASSUME ConfigInv PROVE UsersAreAsListed
  <2>1. Given(row) => \A y \in RowsBefore(row) :
             \/ \E k \in (y + 1)..(row - 1) : Gives(k) /\ users[k] = users[y]
             \/ /\ <<users[y]>> \in DOMAIN accounts
                /\ stored[accounts[<<users[y]>>]] = <<users[y + 2]>>
    BY DEF Given
  <2>2. ASSUME loading \in {"users", "config", "loaded"}
        PROVE  /\ Given(row)
               /\ row > 0 /\ rc = 0 /\ loading # "users" =>
                     \A y \in row..Len(users) : users[y] # LineEnd
    BY <1>1, <2>2 DEF ConfigInv, GivenInv, FileInv
  <2>3. \A a \in DOMAIN accounts :
          \E y \in DOMAIN users : IsRead(y, a \o <<Blank>> \o stored[accounts[a]])
    BY <1>1 DEF ConfigInv, MemoryInv, Found
  <2>4. IsInjective(accounts)
    BY <1>1 DEF ConfigInv, MemoryInv, IsInjective
  <2>5. {b \in 1..Blocks : stored[b] # Absent} = Range(accounts)
    BY <1>1 DEF ConfigInv, MemoryInv, Range
  <2> QED
    BY <2>1, <2>2, <2>3, <2>4, <2>5 DEF UsersAreAsListed
<1> QED
  BY <1>1, ConfigInvHolds, PTL

=============================================================================
