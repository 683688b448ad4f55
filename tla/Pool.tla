-------------------------------- MODULE Pool --------------------------------
(***************************************************************************)
(* What the users of class MemPool expect of it, without flags, counters   *)
(* or a scan: an object lives undisturbed in a slot of its own from        *)
(* allocate() to deallocate(), a call that is legal is always served, and  *)
(* one that is not ends the program.                                       *)
(***************************************************************************)
CONSTANTS Slot, Object, Pointer, NoSlot

VARIABLES
    call,  \* the last call and its argument
    held,  \* the objects that live in the pool, by their slot
    ret,   \* the slot the last allocate() returned
    dead   \* the program was aborted

vars == <<call, held, ret, dead>>

Init ==
    /\ call = <<"construct", NoSlot>>
    /\ held = [s \in {} |-> NoSlot]
    /\ ret = NoSlot
    /\ dead = FALSE

Allocate(o) ==
    /\ ~dead
    /\ call' = <<"allocate", o>>
    /\ IF DOMAIN held = Slot
       THEN dead' = TRUE /\ UNCHANGED <<held, ret>>
       ELSE /\ \E s \in Slot \ DOMAIN held :
                   /\ held' = [t \in DOMAIN held \cup {s} |-> IF t = s THEN o ELSE held[t]]
                   /\ ret' = s
            /\ UNCHANGED dead

Deallocate(p) ==
    /\ ~dead
    /\ call' = <<"deallocate", p>>
    /\ IF p \in DOMAIN held
       THEN held' = [t \in DOMAIN held \ {p} |-> held[t]] /\ UNCHANGED dead
       ELSE dead' = TRUE /\ UNCHANGED held
    /\ UNCHANGED ret

Next == \/ \E o \in Object : Allocate(o)
        \/ \E p \in Pointer : Deallocate(p)

Spec == Init /\ [][Next]_vars

=============================================================================
