------------------------------ MODULE TornCounter ------------------------------
(***************************************************************************)
(* thread_win3.cpp as the x86 build runs it.  num is a long long, which    *)
(* that build keeps in two 32-bit words: an update loads, changes and      *)
(* stores each of them by itself, the high word with the carry or the      *)
(* borrow of the low one, in any order that this allows.  SyncCounter has  *)
(* the x64 build, where num is one word.                                   *)
(*                                                                         *)
(* As there, a word may stay in its register from round to round.          *)
(***************************************************************************)
EXTENDS Integers, FiniteSets, Functions

CONSTANTS
    Inc, Dec,   \* the threads running threadInc and threadDes
    Rounds,     \* length of their loops
    Amount,     \* Amount[i]: what round i adds or takes
    Word        \* the numbers that the low word can hold (2^32)

Threads == Inc \cup Dec

VARIABLES
    low, high,          \* the words of num
    pcLow, pcHigh,      \* what thread t does to each word in this round
    i,                  \* i[t]: its loop variable
    regLow, regHigh,    \* its registers
    carry               \* carry[t]: 1, or -1 for a borrow, of its low word

vars == <<low, high, pcLow, pcHigh, i, regLow, regHigh, carry>>

TypeOK ==
    /\ low \in 0 .. Word - 1 /\ high \in Int
    /\ pcLow \in [Threads -> {"load", "store", "done"}]
    /\ pcHigh \in [Threads -> {"load", "store", "done"}]
    /\ i \in [Threads -> 0 .. Rounds]
    /\ regLow \in [Threads -> 0 .. Word - 1]
    /\ regHigh \in [Threads -> Int]
    /\ carry \in [Threads -> {-1, 0, 1}]

Init ==
    /\ low = 0 /\ high = 0
    /\ pcLow = [t \in Threads |-> "load"]
    /\ pcHigh = [t \in Threads |-> "load"]
    /\ i = [t \in Threads |-> 0]
    /\ regLow = [t \in Threads |-> 0]
    /\ regHigh = [t \in Threads |-> 0]
    /\ carry = [t \in Threads |-> 0]

\* What a word, or the register it was in before, is taken to be.
Taken(t, word, reg) == IF i[t] = 0 THEN {word} ELSE {word, reg[t]}

\* What is carried to the high word from a sum or a difference of low words.
Carry(s) == IF s < 0 THEN -1 ELSE IF s < Word THEN 0 ELSE 1

LoadLow(t) ==
    /\ pcLow[t] = "load" /\ i[t] < Rounds
    /\ \E v \in Taken(t, low, regLow) :
          LET s == IF t \in Inc THEN v + Amount[i[t]] ELSE v - Amount[i[t]]
          IN  /\ regLow' = [regLow EXCEPT ![t] = s - Carry(s) * Word]
              /\ carry' = [carry EXCEPT ![t] = Carry(s)]
    /\ pcLow' = [pcLow EXCEPT ![t] = "store"]
    /\ UNCHANGED <<low, high, pcHigh, i, regHigh>>

LoadHigh(t) ==
    /\ pcHigh[t] = "load" /\ i[t] < Rounds
    /\ \E v \in Taken(t, high, regHigh) : regHigh' = [regHigh EXCEPT ![t] = v]
    /\ pcHigh' = [pcHigh EXCEPT ![t] = "store"]
    /\ UNCHANGED <<low, high, pcLow, i, regLow, carry>>

StoreLow(t) ==
    /\ pcLow[t] = "store"
    /\ low' = regLow[t]
    /\ pcLow' = [pcLow EXCEPT ![t] = "done"]
    /\ UNCHANGED <<high, pcHigh, i, regLow, regHigh, carry>>

\* The carry must be there.
StoreHigh(t) ==
    /\ pcHigh[t] = "store" /\ pcLow[t] # "load"
    /\ high' = regHigh[t] + carry[t]
    /\ regHigh' = [regHigh EXCEPT ![t] = high']
    /\ pcHigh' = [pcHigh EXCEPT ![t] = "done"]
    /\ UNCHANGED <<low, pcLow, i, regLow, carry>>

NextRound(t) ==
    /\ pcLow[t] = "done" /\ pcHigh[t] = "done"
    /\ i' = [i EXCEPT ![t] = @ + 1]
    /\ pcLow' = [pcLow EXCEPT ![t] = "load"]
    /\ pcHigh' = [pcHigh EXCEPT ![t] = "load"]
    /\ UNCHANGED <<low, high, regLow, regHigh, carry>>

Step(t) == LoadLow(t) \/ LoadHigh(t) \/ StoreLow(t) \/ StoreHigh(t) \/ NextRound(t)

Next == \E t \in Threads : Step(t)

Spec == Init /\ [][Next]_vars

FairSpec == Spec /\ \A t \in Threads : WF_vars(Step(t))

-----------------------------------------------------------------------------
(* Properties. *)

SumTo(k) == SumFunctionOnSet(Amount, 0 .. k - 1)

\* What the threads in S have added or taken, with the rounds that have just
\* loaded the low word.
Begun(t) == IF pcLow[t] = "load" THEN i[t] ELSE i[t] + 1

Made(S) == SumFunction([t \in S |-> SumTo(Begun(t))])

\* How often the threads in S have stored the high word.
Stored(t) == IF pcHigh[t] = "done" THEN i[t] + 1 ELSE i[t]

HighStores(S) == SumFunction([t \in S |-> Stored(t)])

\* The number itself may be made up: 0 - 1 shows 2^32 - 1 between the stores of
\* its words.  Each word by itself only loses updates: the low one is that of a
\* number between what the subtractions alone and what the additions alone could
\* have made so far, and the high one has at most one borrow for each store of the
\* former and one carry for each store of the latter, which is far from overflow.
WordsOnlyLose ==
    /\ \E v \in -Made(Dec) .. Made(Inc) : low = v % Word
    /\ -HighStores(Dec) <= high /\ high <= HighStores(Inc)

\* The wait of main for all threads ends.
AllEnd == <>(\A t \in Threads : i[t] = Rounds)
=============================================================================
