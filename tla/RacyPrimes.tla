------------------------------ MODULE RacyPrimes ------------------------------
(***************************************************************************)
(* The prime search without locks (Prime_number_multiThread.cpp): n = num, *)
(* num++ and primes.push_back(n) all race.                                 *)
(*                                                                         *)
(* A thread's own view of num is in val: what it has last stored or is     *)
(* about to increment.  As nothing tells the compiler of other threads it  *)
(* may use that value again instead of reading num.  Overlapping           *)
(* push_backs may crash, or leave any part of the vector.                  *)
(***************************************************************************)
EXTENDS Integers

CONSTANTS
    Threads,    \* the ThreadCount threads
    MaxCount    \* the search ends before this number

VARIABLES
    num,      \* the next number to test
    primes,   \* the numbers in the vector
    pc,       \* pc[t]: where thread t is
    n,        \* n[t]: the number it works on
    val       \* val[t]: its view of num, 0 before the first

vars == <<num, primes, pc, n, val>>

\* Trial division by 2 .. k-2; 1, 2 and 3 are singled out.
IsPrimeNumber(k) == k \in {2, 3} \/ (k # 1 /\ \A i \in 2 .. k - 2 : k % i # 0)

Init ==
    /\ num = 1
    /\ primes = {}
    /\ pc = [t \in Threads |-> "read"]
    /\ n = [t \in Threads |-> 0]
    /\ val = [t \in Threads |-> 0]

\* n = num
Read(t) ==
    /\ pc[t] = "read"
    /\ \E v \in {num, val[t]} \ {0} : n' = [n EXCEPT ![t] = v]
    /\ pc' = [pc EXCEPT ![t] = "load"]
    /\ UNCHANGED <<num, primes, val>>

\* num++: the load and the store.
Load(t) ==
    /\ pc[t] = "load"
    /\ \E v \in {num, n[t]} : val' = [val EXCEPT ![t] = v]
    /\ pc' = [pc EXCEPT ![t] = "store"]
    /\ UNCHANGED <<num, primes, n>>

\* Mutated form: the counter runs down.
Store_down(t) ==
    /\ pc[t] = "store"
    /\ num' = IF val[t] > 1 THEN val[t] - 1 ELSE val[t] + 1
    /\ val' = [val EXCEPT ![t] = num']
    /\ pc' = [pc EXCEPT ![t] = "test"]
    /\ UNCHANGED <<primes, n>>

Store(t) ==
    /\ pc[t] = "store"
    /\ num' = val[t] + 1
    /\ val' = [val EXCEPT ![t] = @ + 1]
    /\ pc' = [pc EXCEPT ![t] = "test"]
    /\ UNCHANGED <<primes, n>>

Test(t) ==
    /\ pc[t] = "test"
    /\ pc' = [pc EXCEPT ![t] = IF n[t] >= MaxCount THEN "exit"
                               ELSE IF IsPrimeNumber(n[t]) THEN "push" ELSE "read"]
    /\ UNCHANGED <<num, primes, n, val>>

Push(t) ==
    /\ pc[t] = "push"
    /\ \/ /\ primes' = primes \cup {n[t]}
          /\ pc' = [pc EXCEPT ![t] = "read"]
       \/ /\ \E u \in Threads \ {t} : pc[u] = "push"
          /\ primes' \in SUBSET (primes \cup {n[t]})
          /\ \/ pc' = [pc EXCEPT ![t] = "read"]
             \/ pc' = [u \in Threads |-> "crashed"]
    /\ UNCHANGED <<num, n, val>>

Step(t) == Read(t) \/ Load(t) \/ Store(t) \/ Test(t) \/ Push(t)

Next == \E t \in Threads : Step(t)

Spec == Init /\ [][Next]_vars

\* The threads run.
FairSpec == Spec /\ \A t \in Threads : WF_vars(Step(t))

-----------------------------------------------------------------------------
(* Properties. *)

\* No value that a later store to num could come from is below k.
NoneBelow(k) ==
    /\ num >= k
    /\ \A t \in Threads :
          /\ pc[t] = "load" => n[t] >= k
          /\ pc[t] \notin {"load", "exit", "crashed"} /\ val[t] # 0 => val[t] >= k

\* Lost updates throw num back (line 60), but never below what every thread has
\* left behind: a number skipped by all is not tested later, and one that all
\* have passed is not tested again.
NeverFurtherBack ==
    [][\A k \in 1 .. MaxCount : NoneBelow(k) => NoneBelow(k)']_vars

\* So the search ends all the same, unless the vector's race crashes it: no
\* schedule can make the threads throw each other back for ever.
RacySearchEnds == <>(\A t \in Threads : pc[t] \in {"exit", "crashed"})
=============================================================================
