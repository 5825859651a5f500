----------------------------- MODULE PrimeWorkers -----------------------------
(***************************************************************************)
(* The multi-threaded prime search (prime_number_multithreaded.cpp):       *)
(* worker threads take the next number from num under num_mutex, test it,  *)
(* and append it to primes under primes_mutex.                             *)
(*                                                                         *)
(* Every locked body is one action, since nothing in it waits and no other *)
(* code touches what it locks; everything else is local to a worker.       *)
(***************************************************************************)
EXTENDS Integers, Sequences, SequencesExt, FiniteSets

CONSTANTS
    Workers,    \* the threads (ThreadCount of them)
    MaxCount    \* the search ends before this number

ASSUME PrimeAssumption == MaxCount \in Nat \ {0}

VARIABLES
    num,      \* the next number to test
    primes,   \* the vector of primes
    pc,       \* pc[w]: where worker w is
    n         \* n[w]: the number it works on, 0 before the first

vars == <<num, primes, pc, n>>

TypeOK ==
    /\ num \in Nat \ {0}
    /\ primes \in Seq(1 .. MaxCount - 1)
    /\ pc \in [Workers -> {"take", "test", "push", "exit"}]
    /\ n \in [Workers -> Nat]

Init ==
    /\ num = 1
    /\ primes = <<>>
    /\ pc = [w \in Workers |-> "take"]
    /\ n = [w \in Workers |-> 0]

\* Mutated form: without num_mutex another worker may read the old num, too.
Take_racy(w) ==
    /\ pc[w] = "take"
    /\ n' = [n EXCEPT ![w] = num]
    /\ num' \in {num, num + 1}
    /\ pc' = [pc EXCEPT ![w] = "test"]
    /\ UNCHANGED primes

\* n = num; num++;
Take(w) ==
    /\ pc[w] = "take"
    /\ n' = [n EXCEPT ![w] = num]
    /\ num' = num + 1
    /\ pc' = [pc EXCEPT ![w] = "test"]
    /\ UNCHANGED primes

\* Trial division by 2 .. k-2; 1, 2 and 3 are singled out.
IsPrimeNumber(k) ==
    \/ k \in {2, 3}
    \/ k # 1 /\ \A i \in 2 .. k - 2 : k % i # 0

Test(w) ==
    /\ pc[w] = "test"
    /\ pc' = [pc EXCEPT ![w] = IF n[w] >= MaxCount THEN "exit"
                               ELSE IF IsPrimeNumber(n[w]) THEN "push" ELSE "take"]
    /\ UNCHANGED <<num, primes, n>>

\* Mutated form: without primes_mutex an append may be lost.
Push_racy(w) ==
    /\ pc[w] = "push"
    /\ primes' \in {primes, Append(primes, n[w])}
    /\ pc' = [pc EXCEPT ![w] = "take"]
    /\ UNCHANGED <<num, n>>

Push(w) ==
    /\ pc[w] = "push"
    /\ primes' = Append(primes, n[w])
    /\ pc' = [pc EXCEPT ![w] = "take"]
    /\ UNCHANGED <<num, n>>

Work(w) == Take(w) \/ Test(w) \/ Push(w)

Next == \E w \in Workers : Work(w)

Spec == Init /\ [][Next]_vars

-----------------------------------------------------------------------------
(* Properties. *)

Below == 1 .. MaxCount - 1

\* No number is found twice, though the workers share the counter: no two of
\* them work on one number, and none on a number already in the vector.
FoundOnce ==
    /\ \A i, j \in DOMAIN primes : primes[i] = primes[j] => i = j
    /\ \A w \in Workers : pc[w] = "push" => n[w] \notin Range(primes)
    /\ \A v, w \in Workers : pc[v] = "push" /\ pc[w] = "push" /\ n[v] = n[w] => v = w

Joined == \A w \in Workers : pc[w] = "exit"

\* When all threads have been joined the vector holds exactly the primes below
\* MaxCount, in the sense of the schoolbook: no number was skipped, none lost,
\* and the test, which leaves out some divisors, tells primes from the others.
IsPrime(k) == k > 1 /\ \A d \in 1 .. k : k % d = 0 => d \in {1, k}

NothingMissed ==
    Workers # {} /\ Joined => Range(primes) = {k \in Below : IsPrime(k)}
=============================================================================
