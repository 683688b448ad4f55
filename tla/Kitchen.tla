------------------------------ MODULE Kitchen ------------------------------
(***************************************************************************)
(* condition_variable.cpp: chef() puts dishes on the pass and notifies,    *)
(* waiter() waits on the condition variable while the pass is empty.       *)
(*                                                                         *)
(* A wait releases the mutex and goes to sleep in one step, wakes up by a  *)
(* notification or for no reason, and takes the mutex again before it      *)
(* looks at its condition.                                                 *)
(***************************************************************************)
EXTENDS Integers, Sequences

CONSTANT NumDishes  \* the length of chef()'s list, and waiter()'s count

ASSUME DishesAssumption == NumDishes \in Nat \ {0}

VARIABLES
    pass,    \* std::queue<std::string>, a dish by its place in the list
    mtx,     \* who holds std::mutex mtx
    cpc,     \* where chef() is
    dish,    \* the dish it is at
    wpc,     \* where waiter() is
    served   \* history: the dishes waiter() has served

kitchenVars == <<pass, mtx, cpc, dish, wpc, served>>

Dishes == 1 .. NumDishes

KitchenTypeOK ==
    /\ pass \in Seq(Dishes)
    /\ mtx \in {"free", "chef", "waiter"}
    /\ cpc \in {"lock", "push", "unlock", "notify", "sleep", "exit"}
    /\ dish \in 1 .. NumDishes + 1
    /\ wpc \in {"lock", "test", "asleep", "wake", "serve", "unlock", "exit"}
    /\ served \in Seq(Dishes)

KitchenInit ==
    /\ pass = <<>>
    /\ mtx = "free"
    /\ cpc = "lock"
    /\ dish = 1
    /\ wpc = "lock"
    /\ served = <<>>

-----------------------------------------------------------------------------
(* Mutated forms of the actions below. *)

MutChefNotifyNever ==
    /\ cpc = "notify"
    /\ cpc' = "sleep"
    /\ UNCHANGED <<pass, mtx, dish, wpc, served>>

MutChefPushUnlocked ==
    /\ cpc = "lock"
    /\ cpc' = "push"
    /\ UNCHANGED <<pass, mtx, dish, wpc, served>>

-----------------------------------------------------------------------------
(* chef(), one dish after the other. *)

ChefLock ==
    /\ cpc = "lock"
    /\ mtx = "free"
    /\ mtx' = "chef"
    /\ cpc' = "push"
    /\ UNCHANGED <<pass, dish, wpc, served>>

ChefPush ==
    /\ cpc = "push"
    /\ pass' = Append(pass, dish)
    /\ cpc' = "unlock"
    /\ UNCHANGED <<mtx, dish, wpc, served>>

ChefUnlock ==
    /\ cpc = "unlock"
    /\ mtx' = "free"
    /\ cpc' = "notify"
    /\ UNCHANGED <<pass, dish, wpc, served>>

\* notify_one() reaches the waiter only if it is asleep at this moment.
ChefNotify ==
    /\ cpc = "notify"
    /\ wpc' = IF wpc = "asleep" THEN "wake" ELSE wpc
    /\ cpc' = "sleep"
    /\ UNCHANGED <<pass, mtx, dish, served>>

\* The dish is done: sleep, and the next one.
ChefSleep ==
    /\ cpc = "sleep"
    /\ dish' = dish + 1
    /\ cpc' = IF dish' > NumDishes THEN "exit" ELSE "lock"
    /\ UNCHANGED <<pass, mtx, wpc, served>>

Chef == ChefLock \/ ChefPush \/ ChefUnlock \/ ChefNotify \/ ChefSleep

-----------------------------------------------------------------------------
(* waiter(), one dish after the other. *)

WaiterLock ==
    /\ wpc \in {"lock", "wake"}
    /\ mtx = "free"
    /\ mtx' = "waiter"
    /\ wpc' = "test"
    /\ UNCHANGED <<pass, cpc, dish, served>>

\* The condition of cv.wait(): sleep on, with the mutex released, or go ahead.
WaiterTest ==
    /\ wpc = "test"
    /\ IF pass # <<>> THEN wpc' = "serve" /\ UNCHANGED mtx
                      ELSE wpc' = "asleep" /\ mtx' = "free"
    /\ UNCHANGED <<pass, cpc, dish, served>>

\* A wait may also end without a notification.
SpuriousWakeup ==
    /\ wpc = "asleep"
    /\ wpc' = "wake"
    /\ UNCHANGED <<pass, mtx, cpc, dish, served>>

WaiterServe ==
    /\ wpc = "serve"
    /\ served' = Append(served, Head(pass))
    /\ pass' = Tail(pass)
    /\ wpc' = "unlock"
    /\ UNCHANGED <<mtx, cpc, dish>>

WaiterUnlock ==
    /\ wpc = "unlock"
    /\ mtx' = "free"
    /\ wpc' = IF Len(served) = NumDishes THEN "exit" ELSE "lock"
    /\ UNCHANGED <<pass, cpc, dish, served>>

Waiter == WaiterLock \/ WaiterTest \/ WaiterServe \/ WaiterUnlock

-----------------------------------------------------------------------------
KitchenEnds == cpc = "exit" /\ wpc = "exit" /\ UNCHANGED kitchenVars

KitchenNext == Chef \/ Waiter \/ SpuriousWakeup \/ KitchenEnds

\* The scheduler runs both threads.  Wakeups may be spurious for ever, so the
\* chef needs a mutex that, free again and again, is not kept from it for ever.
\* Nothing promises that a wakeup is ever spurious.
KitchenSpec ==
    /\ KitchenInit /\ [][KitchenNext]_kitchenVars
    /\ WF_kitchenVars(Chef) /\ SF_kitchenVars(ChefLock) /\ WF_kitchenVars(Waiter)

-----------------------------------------------------------------------------
\* The pass is touched only by the thread that holds the mutex.
PassIsGuarded ==
    /\ mtx = "chef" <=> cpc \in {"push", "unlock"}
    /\ mtx = "waiter" <=> wpc \in {"test", "serve", "unlock"}

\* chef() is at a dish of its list until it has put the last one on the pass.
DishOfList == dish = NumDishes + 1 <=> cpc = "exit"

\* Dishes are served in the order they were cooked, none twice, none skipped,
\* and the waiter never takes one from an empty pass.
ServedInOrder ==
    /\ wpc = "serve" => pass # <<>>
    /\ served \o pass
         = [k \in 1 .. dish - (IF cpc \in {"lock", "push", "exit"} THEN 1 ELSE 0) |-> k]

\* The wakeup is not lost: while a dish is on the pass and the waiter sleeps,
\* the chef is about to notify it.
NoLostWakeup == wpc = "asleep" /\ pass # <<>> => cpc \in {"unlock", "notify"}

\* The inductive invariant: the two threads exclude each other at the pass,
\* nothing is served twice or out of order, and no wakeup is lost
\* (condition_variable.cpp:16-39).
KitchenInv ==
    /\ KitchenTypeOK
    /\ PassIsGuarded
    /\ DishOfList
    /\ ServedInOrder
    /\ NoLostWakeup

\* Both threads are joined: every dish is served, without a spurious wakeup.
EveryDishServed == <>(cpc = "exit" /\ wpc = "exit")

=============================================================================
