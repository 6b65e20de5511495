--------------------------------- MODULE Heap ---------------------------------
(***************************************************************************)
(* The binary heap of util/ss_heap.c.  Values are numbers in the order of  *)
(* the comparator; the calls that sift take one step for each exchange.    *)
(***************************************************************************)
EXTENDS Integers, FiniteSets

CONSTANTS
    Value,             \* what may be pushed: positive numbers
    Nothing,           \* no value
    DEFAULT_CAPACITY,  \* 4
    MaxSize            \* bound: values held

ASSUME HeapAssumption ==
    /\ Value \subseteq Nat \ {0} /\ Nothing \notin Value
    /\ DEFAULT_CAPACITY \in Nat \ {0} /\ MaxSize \in Nat

VARIABLES
    values, size, capacity,  \* the fields of ss_heap_t
    call,                    \* the call whose loop is running
    i, ii,                   \* its locals
    out                      \* the value popped or peaked at last

memory == <<values, size, capacity>>
heapVars == <<memory, call, i, ii, out>>

(* A slot that was never written.                                           *)
Unset == 0

Held == {k \in DOMAIN values : k < size}

(* What ss_heap_reserve comes to by doubling, as far as it is needed.       *)
Doubles ==
    {c \in DEFAULT_CAPACITY..(DEFAULT_CAPACITY + 2 * MaxSize) :
       \E k \in 0..MaxSize : c = DEFAULT_CAPACITY * 2^k}

(* The heap is new; or its owner has reserved some room and filled it, as   *)
(* ss_callback_clean and the unit test do, and has it reconstructed.        *)
HeapInit ==
    /\ capacity \in Doubles
    /\ size \in 0..MaxSize
    /\ size <= capacity
    /\ \E filled \in [0..(size - 1) -> Value] :
         values = [k \in 0..(capacity - 1) |-> IF k < size THEN filled[k] ELSE Unset]
    /\ call = IF size <= 1 THEN "none" ELSE "reconstruct"
    /\ ii = IF size <= 1 THEN 0 ELSE size \div 2
    /\ i = IF size <= 1 THEN 0 ELSE ii - 1
    /\ out = Nothing

-----------------------------------------------------------------------------
(* The values in a new block, with room for more. *)
Moved(room) == [k \in 0..(room - 1) |-> IF k \in Held THEN values[k] ELSE Unset]

(* Mutant: room is made too late.                                           *)
IsOverfull == size > capacity

IsFull == size = capacity

(* ss_heap_push up to its loop. *)
Push(v) ==
    /\ call = "none"
    /\ size < MaxSize
    /\ capacity' = IF IsFull THEN 2 * capacity ELSE capacity
    /\ values' = [(IF IsFull THEN Moved(capacity') ELSE values) EXCEPT ![size] = v]
    /\ size' = size + 1
    /\ call' = IF size = 0 THEN "none" ELSE "push"
    /\ i' = size
    /\ UNCHANGED <<ii, out>>

Swapped(k, l) == [values EXCEPT ![k] = values[l], ![l] = values[k]]

Parent(k) == (k + 1) \div 2 - 1

RisesOn == i # 0 /\ values[i] > values[Parent(i)]

Rise ==
    /\ call = "push"
    /\ RisesOn
    /\ values' = Swapped(i, Parent(i))
    /\ i' = Parent(i)
    /\ UNCHANGED <<size, capacity, call, ii, out>>

Risen ==
    /\ call = "push"
    /\ ~RisesOn
    /\ call' = "none"
    /\ UNCHANGED <<memory, i, ii, out>>

(* Mutant: the value after the last is put first.                           *)
PopPastTheEnd ==
    /\ call = "none"
    /\ size > 0
    /\ out' = values[0]
    /\ size' = size - 1
    /\ values' = IF size' = 0 \/ size = capacity THEN values ELSE [values EXCEPT ![0] = values[size]]
    /\ call' = IF size' = 0 THEN "none" ELSE "pop"
    /\ i' = 0
    /\ UNCHANGED <<capacity, ii>>

(* ss_heap_pop up to its loop. *)
Pop ==
    /\ call = "none"
    /\ size > 0
    /\ out' = values[0]
    /\ size' = size - 1
    /\ values' = IF size' = 0 THEN values ELSE [values EXCEPT ![0] = values[size']]
    /\ call' = IF size' = 0 THEN "none" ELSE "pop"
    /\ i' = 0
    /\ UNCHANGED <<capacity, ii>>

PopNothing ==
    /\ call = "none"
    /\ size = 0
    /\ out' = Nothing
    /\ UNCHANGED <<memory, call, i, ii>>

Peak ==
    /\ call = "none"
    /\ size > 0
    /\ out' = values[0]
    /\ UNCHANGED <<memory, call, i, ii>>

Right(k) == (k + 1) * 2
Left(k) == Right(k) - 1

(* Mutant: the left child, whatever the right one is.                       *)
LeftChild == Left(i)

(* The child that the value is compared with.                               *)
LargerChild ==
    IF Right(i) < size /\ values[Left(i)] < values[Right(i)] THEN Right(i) ELSE Left(i)

SinksOn == Left(i) < size /\ values[i] < values[LargerChild]

Sink ==
    /\ call \in {"pop", "reconstruct"}
    /\ SinksOn
    /\ values' = Swapped(i, LargerChild)
    /\ i' = LargerChild
    /\ UNCHANGED <<size, capacity, call, ii, out>>

(* ss_heap_reconstruct goes on with the position before.                    *)
Sunk ==
    /\ call \in {"pop", "reconstruct"}
    /\ ~SinksOn
    /\ IF call = "reconstruct" /\ ii > 1
       THEN ii' = ii - 1 /\ i' = ii - 2 /\ UNCHANGED call
       ELSE ii' = 0 /\ call' = "none" /\ UNCHANGED i
    /\ UNCHANGED <<memory, out>>

(* ss_heap_reserve: the first double of the default that is enough.         *)
Reserve(room) ==
    /\ call = "none"
    /\ capacity' \in Doubles
    /\ room <= capacity' /\ \A c \in Doubles : room <= c => capacity' <= c
    /\ capacity < capacity'
    /\ values' = Moved(capacity')
    /\ UNCHANGED <<size, call, i, ii, out>>

HeapNext ==
    \/ \E v \in Value : Push(v)
    \/ Rise \/ Risen
    \/ Pop \/ PopNothing \/ Peak
    \/ Sink \/ Sunk
    \/ \E room \in 0..MaxSize : Reserve(room)

HeapSpec == HeapInit /\ [][HeapNext]_heapVars

-----------------------------------------------------------------------------
(* The types of the variables: the values held are in the block, and are     *)
(* values that were pushed.                                                  *)
HeapTypeOK ==
    /\ size \in 0..capacity
    /\ values \in [0..(capacity - 1) -> Value \cup {Unset}]
    /\ \A k \in 0..(size - 1) : values[k] \in Value
    /\ call \in {"none", "push", "pop", "reconstruct"}
    /\ call # "none" => i \in 0..(size - 1)
    /\ ii \in 0..(size \div 2)
    /\ out \in Value \cup {Nothing}

(* Between calls no value comes before the one above it, however many        *)
(* exchanges a call took; within a loop there is one exception at most.      *)
HeapOrder ==
    \A k \in 1..(size - 1) :
        \/ values[k] <= values[Parent(k)]
        \/ call = "push" /\ k = i
        \/ call = "pop" /\ Parent(k) = i
        \/ call = "reconstruct" /\ (Parent(k) < ii - 1 \/ Parent(k) = i)

(* Whatever is pushed, popped, reserved or reconstructed, values come out in *)
(* the comparator's order, and each as often as it was put in.               *)
Queue == INSTANCE PriorityQueue
    WITH queue <- [v \in Value |-> Cardinality({k \in Held : values[k] = v})]

ImplementsPriorityQueue == Queue!Spec
=============================================================================
