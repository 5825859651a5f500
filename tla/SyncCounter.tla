------------------------------ MODULE SyncCounter ------------------------------
(***************************************************************************)
(* Threads that count up and down under one lock (SyncMutex_win.cpp, and   *)
(* SyncCS_win.cpp with a critical section and steps of 1), or without it   *)
(* (thread_win3.cpp).  num is one word, as in the x64 builds.  In the x86  *)
(* ones it is two: under the lock nobody can tell, and TornCounter has     *)
(* what happens without it.                                                *)
(*                                                                         *)
(* An update of num is a load and a store, so that what the lock prevents  *)
(* is there to be prevented.  Nothing makes the compiler load num again in *)
(* the middle of the loop: it may keep the number in a register.           *)
(***************************************************************************)
EXTENDS Integers, FiniteSets, Functions

CONSTANTS
    Inc, Dec,   \* the threads running threadInc and threadDes
    Nobody,     \* the owner of a free lock
    Rounds,     \* length of their loops
    Amount      \* Amount[i]: what round i adds or takes

Threads == Inc \cup Dec

VARIABLES
    num,     \* the shared number
    owner,   \* who owns hMutex
    pc,      \* pc[t]: where thread t is
    i,       \* i[t]: its loop variable
    reg      \* reg[t]: the value it has loaded

vars == <<num, owner, pc, i, reg>>

TypeOK ==
    /\ num \in Int
    /\ owner \in Threads \cup {Nobody}
    /\ pc \in [Threads -> {"wait", "load", "store", "done"}]
    /\ i \in [Threads -> 0 .. Rounds]
    /\ reg \in [Threads -> Int]

Init ==
    /\ num = 0
    /\ owner = Nobody
    /\ pc = [t \in Threads |-> "wait"]
    /\ i = [t \in Threads |-> 0]
    /\ reg = [t \in Threads |-> 0]

\* Mutated form: the lock is not taken.
Enter_none(t) ==
    /\ pc[t] = "wait"
    /\ pc' = [pc EXCEPT ![t] = "load"]
    /\ UNCHANGED <<num, owner, i, reg>>

Enter(t) ==
    /\ pc[t] = "wait" /\ owner = Nobody
    /\ owner' = t
    /\ pc' = [pc EXCEPT ![t] = "load"]
    /\ UNCHANGED <<num, i, reg>>

Load(t) ==
    /\ pc[t] = "load" /\ i[t] < Rounds
    /\ \E v \in IF i[t] = 0 THEN {num} ELSE {num, reg[t]} : reg' = [reg EXCEPT ![t] = v]
    /\ pc' = [pc EXCEPT ![t] = "store"]
    /\ UNCHANGED <<num, owner, i>>

Store(t) ==
    /\ pc[t] = "store"
    /\ num' = IF t \in Inc THEN reg[t] + Amount[i[t]] ELSE reg[t] - Amount[i[t]]
    /\ reg' = [reg EXCEPT ![t] = num']
    /\ i' = [i EXCEPT ![t] = @ + 1]
    /\ pc' = [pc EXCEPT ![t] = "load"]
    /\ UNCHANGED owner

Leave(t) ==
    /\ pc[t] = "load" /\ i[t] = Rounds
    /\ owner' = Nobody
    /\ pc' = [pc EXCEPT ![t] = "done"]
    /\ UNCHANGED <<num, i, reg>>

Step(t) == Enter(t) \/ Load(t) \/ Store(t) \/ Leave(t)

\* Without the lock a thread is its loop: it begins and ends there.
RaceInit ==
    /\ num = 0
    /\ owner = Nobody
    /\ pc = [t \in Threads |-> "load"]
    /\ i = [t \in Threads |-> 0]
    /\ reg = [t \in Threads |-> 0]

RaceStep(t) == Load(t) \/ Store(t) \/ Leave(t)

RaceNext == \E t \in Threads : RaceStep(t)

Next == \E t \in Threads : Step(t)

Spec == Init /\ [][Next]_vars

\* Threads are scheduled; each takes the lock once, so a fair queue for it is
\* not needed.
FairSpec == Spec /\ \A t \in Threads : WF_vars(Step(t))

-----------------------------------------------------------------------------
(* Properties. *)

Done(S) == {t \in S : pc[t] = "done"}

\* What the first k rounds of a loop add up to.
SumTo(k) == SumFunctionOnSet(Amount, 0 .. k - 1)

\* Whenever the lock is free num is what the threads that are through have
\* made it: no update is lost, and none is there by half.
WholeLoops ==
    owner = Nobody => num = (Cardinality(Done(Inc)) - Cardinality(Done(Dec))) * SumTo(Rounds)

\* Without the lock updates are lost, in either direction ("not synchronised, so
\* that it does not run as intended": thread_win3.cpp, lines 5-6), but none is
\* made up or made twice: at any moment num lies between what the subtractions
\* alone and what the additions alone could have made it so far.
Made(S) == SumFunction([t \in S |-> SumTo(i[t])])

OnlyLost == -Made(Dec) <= num /\ num <= Made(Inc)

\* The wait of main for all threads ends.
AllEnd == <>(Done(Threads) = Threads)
=============================================================================
