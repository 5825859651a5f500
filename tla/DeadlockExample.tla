---------------------------- MODULE DeadlockExample ----------------------------
(***************************************************************************)
(* Two threads that take two critical sections in opposite orders          *)
(* (Deadlock-Example.cpp): t1 locks a_mutex then b_mutex, t2 the reverse.  *)
(*                                                                         *)
(* Each iteration locks, increments, locks, increments, and leaves both    *)
(* sections at the closing brace, the later one first.  The ints are kept  *)
(* modulo Wrap, which stands for their width.                              *)
(***************************************************************************)
EXTENDS Integers

CONSTANT Wrap   \* a positive number: ints are kept modulo Wrap

Threads == {"t1", "t2"}
Ints    == {"a", "b"}

\* The section and the int that thread t takes first, and second.
First(t)  == IF t = "t1" THEN "a" ELSE "b"
Second(t) == IF t = "t1" THEN "b" ELSE "a"

VARIABLES
    val,     \* val[x]: the int x
    owner,   \* owner[x]: who is in the critical section of x, or "nobody"
    pc,      \* pc[t]: where thread t is
    reg      \* reg[t]: the value it increments

vars == <<val, owner, pc, reg>>

TypeOK ==
    /\ val   \in [Ints -> 0 .. Wrap - 1]
    /\ owner \in [Ints -> Threads \cup {"nobody"}]
    /\ pc    \in [Threads -> {"lock", "load", "store", "lock2", "load2", "store2", "leave2", "leave"}]
    /\ reg   \in [Threads -> 0 .. Wrap - 1]

Init ==
    /\ val   = [x \in Ints |-> 0]
    /\ owner = [x \in Ints |-> "nobody"]
    /\ pc    = [t \in Threads |-> "lock"]
    /\ reg   = [t \in Threads |-> 0]

Go(t, from, to) == pc[t] = from /\ pc' = [pc EXCEPT ![t] = to]

\* EnterCriticalSection, which lets its owner in again.
Enter(t, x) ==
    /\ owner[x] \in {"nobody", t}
    /\ owner' = [owner EXCEPT ![x] = t]
    /\ UNCHANGED <<val, reg>>

Load(t, x) ==
    /\ reg' = [reg EXCEPT ![t] = val[x]]
    /\ UNCHANGED <<val, owner>>

Store(t, x) ==
    /\ val' = [val EXCEPT ![x] = (reg[t] + 1) % Wrap]
    /\ UNCHANGED <<owner, reg>>

Exit(x) ==
    /\ owner' = [owner EXCEPT ![x] = "nobody"]
    /\ UNCHANGED <<val, reg>>

Step(t) ==
    \/ Go(t, "lock", "load")     /\ Enter(t, First(t))
    \/ Go(t, "load", "store")    /\ Load(t, First(t))
    \/ Go(t, "store", "lock2")   /\ Store(t, First(t))
    \/ Go(t, "lock2", "load2")   /\ Enter(t, Second(t))
    \/ Go(t, "load2", "store2")  /\ Load(t, Second(t))
    \/ Go(t, "store2", "leave2") /\ Store(t, Second(t))
    \/ Go(t, "leave2", "leave")  /\ Exit(Second(t))
    \/ Go(t, "leave", "lock")    /\ Exit(First(t))

Next == \E t \in Threads : Step(t)

Spec == Init /\ [][Next]_vars

-----------------------------------------------------------------------------
(* Properties. *)

\* The two threads stop for good in one way only: each is inside its first
\* section and before its second (lines 68-70, 80-82).
Stuck == \A t \in Threads : pc[t] = "lock2"

OnlyOppositeOrder == [](Stuck => []Stuck) /\ []<>(Stuck \/ \E t \in Threads : pc[t] = "leave")
=============================================================================
