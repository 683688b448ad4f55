------------------------------ MODULE MemPool ------------------------------
(***************************************************************************)
(* class MemPool<T> of mempool.cpp.  The pool is used by one thread, so    *)
(* each call is one action; the callers may call in any order, and may     *)
(* pass deallocate() a pointer that is not theirs.                         *)
(***************************************************************************)
EXTENDS Integers, FiniteSets

CONSTANTS
    Object,   \* the objects allocate() can construct
    Default,  \* T()
    NumElems  \* the constructor's num_elems

\* The constructor looks at &store_[0], so there is a slot.
ASSUME NumElemsAssumption == NumElems \in Nat \ {0}

Slots == 0 .. NumElems - 1
noBlock == -1

\* What a T* passed to deallocate() can be, as an index: a slot, or a place
\* before or behind the vector.
Pointers == -1 .. NumElems

VARIABLES
    store_,            \* the ObjectBlocks
    next_free_index_,
    num_free_,
    call,              \* history: the last call and its argument
    ret,               \* what the last allocate() returned
    aborted            \* an ASSERT failed

poolVars == <<store_, next_free_index_, num_free_, call, ret, aborted>>

ObjectBlock == [object_ : Object \cup {Default}, is_free_ : BOOLEAN]

PoolTypeOK ==
    /\ store_ \in [Slots -> ObjectBlock]
    /\ next_free_index_ \in Slots
    /\ num_free_ \in 0 .. NumElems
    /\ ret \in Slots \cup {noBlock}
    /\ aborted \in BOOLEAN

PoolInit ==
    /\ store_ = [s \in Slots |-> [object_ |-> Default, is_free_ |-> TRUE]]
    /\ next_free_index_ = 0
    /\ num_free_ = NumElems
    /\ call = <<"construct", noBlock>>
    /\ ret = noBlock
    /\ aborted = FALSE

FreeSlots == {s \in Slots : store_[s].is_free_}

Abort == aborted' = TRUE /\ UNCHANGED <<store_, next_free_index_, num_free_, ret>>

-----------------------------------------------------------------------------
\* The slot d steps after slot i, around the end of the vector.
Step(i, d) == IF i + d >= NumElems THEN i + d - NumElems ELSE i + d

(* Mutated forms of the operators below. *)

MutDeallocateUnchecked(p) ==
    /\ ~aborted
    /\ call' = <<"deallocate", p>>
    /\ IF p \in Slots
       THEN /\ store_' = [store_ EXCEPT ![p].is_free_ = TRUE]
            /\ num_free_' = num_free_ + 1
            /\ next_free_index_' = IF num_free_' = 1 THEN p ELSE next_free_index_
            /\ UNCHANGED <<ret, aborted>>
       ELSE Abort

MutDeallocateStale(p) ==
    /\ ~aborted
    /\ call' = <<"deallocate", p>>
    /\ IF p \in Slots /\ ~store_[p].is_free_
       THEN /\ store_' = [store_ EXCEPT ![p].is_free_ = TRUE]
            /\ num_free_' = num_free_ + 1
            /\ UNCHANGED <<next_free_index_, ret, aborted>>
       ELSE Abort

\* updateNextFreeIndex()'s loop, started at slot from, stops after d steps.
ScanEnds(store, from, d) ==
    /\ store[Step(from, d)].is_free_
    /\ \A e \in 0 .. d - 1 : ~store[Step(from, e)].is_free_

\* Where the scan leaves next_free_index_, given that some slot is free.
NextFree(store, from) ==
    Step(from, CHOOSE d \in 0 .. NumElems - 1 : ScanEnds(store, from, d))

\* updateNextFreeIndex(): nothing to look for in a full pool; a scan that comes
\* around to its start aborts.
UpdateNextFreeIndex ==
    IF num_free_' = 0 THEN UNCHANGED <<next_free_index_, aborted>>
    ELSE IF \E s \in Slots : store_'[s].is_free_
         THEN next_free_index_' = NextFree(store_', next_free_index_) /\ UNCHANGED aborted
         ELSE aborted' = TRUE /\ UNCHANGED next_free_index_

Allocate(o) ==
    /\ ~aborted
    /\ call' = <<"allocate", o>>
    /\ IF num_free_ > 0 /\ store_[next_free_index_].is_free_
       THEN /\ store_' = [store_ EXCEPT ![next_free_index_] =
                                [object_ |-> o, is_free_ |-> FALSE]]
            /\ num_free_' = num_free_ - 1
            /\ ret' = next_free_index_
            /\ UpdateNextFreeIndex
       ELSE Abort

\* A full pool has a stale next_free_index_: the freed slot replaces it.
Deallocate(p) ==
    /\ ~aborted
    /\ call' = <<"deallocate", p>>
    /\ IF p \in Slots /\ ~store_[p].is_free_
       THEN /\ store_' = [store_ EXCEPT ![p].is_free_ = TRUE]
            /\ num_free_' = num_free_ + 1
            /\ next_free_index_' = IF num_free_' = 1 THEN p ELSE next_free_index_
            /\ UNCHANGED <<ret, aborted>>
       ELSE Abort

PoolEnds == aborted /\ UNCHANGED poolVars

PoolNext == \/ \E o \in Object : Allocate(o)
        \/ \E p \in Pointers : Deallocate(p)
        \/ PoolEnds

PoolSpec == PoolInit /\ [][PoolNext]_poolVars

-----------------------------------------------------------------------------
\* The count allocate() relies on is the number of free slots, and the index it
\* relies on names one of them: the scan that keeps it so is skipped when the
\* pool fills up, and deallocate() must repair it (mempool.cpp:33, 89-92).
CountsFree == num_free_ = Cardinality(FreeSlots)
IndexIsFree == num_free_ > 0 => next_free_index_ \in FreeSlots

PoolInv == PoolTypeOK /\ CountsFree /\ IndexIsFree

\* The pool does what its users expect: no slot is handed out twice, no object
\* is disturbed while it is held, no legal call aborts and every illegal one
\* does (mempool.cpp:64, 67, 82-84).
P == INSTANCE Pool WITH Slot <- Slots, Pointer <- Pointers, NoSlot <- noBlock,
                        held <- [s \in Slots \ FreeSlots |-> store_[s].object_],
                        dead <- aborted
ImplementsPool == P!Spec

=============================================================================
