------------------------------- MODULE SyncSema -------------------------------
(***************************************************************************)
(* Two threads that hand a number to each other with two semaphores        *)
(* (SyncSema_win.cpp): Read scans it into num, Accu adds it to its sum.    *)
(*                                                                         *)
(* A semaphore is its count; its maximum is 1, and a ReleaseSemaphore that *)
(* would pass the maximum fails and changes nothing.  A scanf that cannot  *)
(* convert its input leaves num as it was.                                 *)
(***************************************************************************)
EXTENDS Integers

CONSTANTS
    Rounds,   \* numbers to read (5)
    Inputs    \* the numbers that may be entered

VARIABLES
    semOne, semTwo,   \* the semaphores' counts
    num,              \* the shared number
    sum,              \* the sum of Accu
    pcR, iR,          \* Read: where it is, numbers read
    pcA, iA,          \* Accu: where it is, numbers added
    total             \* history: the sum of what Read has left in num

readVars == <<pcR, iR>>
accuVars == <<pcA, iA, sum>>
vars == <<semOne, semTwo, num, readVars, accuVars, total>>

TypeOK ==
    /\ semOne \in 0 .. 1 /\ semTwo \in 0 .. 1
    /\ num \in Int /\ sum \in Int /\ total \in Int
    /\ pcR \in {"wait", "scan", "post", "done"} /\ iR \in 0 .. Rounds
    /\ pcA \in {"wait", "add", "post", "done"}  /\ iA \in 0 .. Rounds

\* A thread enters its next round, or ends after the last one.
Round(i) == IF i < Rounds THEN "wait" ELSE "done"

Init ==
    /\ semOne = 0 /\ semTwo = 1
    /\ num = 0 /\ sum = 0 /\ total = 0
    /\ pcR = Round(0) /\ iR = 0
    /\ pcA = Round(0) /\ iA = 0

ReadWait ==
    /\ pcR = "wait" /\ semTwo > 0
    /\ semTwo' = semTwo - 1
    /\ pcR' = "scan"
    /\ UNCHANGED <<semOne, num, iR, accuVars, total>>

Scan ==
    /\ pcR = "scan"
    /\ num' \in Inputs \cup {num}
    /\ total' = total + num'
    /\ pcR' = "post"
    /\ UNCHANGED <<semOne, semTwo, iR, accuVars>>

\* Mutated form: the other semaphore is released.
ReadPost_wrong ==
    /\ pcR = "post"
    /\ semTwo' = IF semTwo < 1 THEN semTwo + 1 ELSE semTwo
    /\ iR' = iR + 1
    /\ pcR' = Round(iR + 1)
    /\ UNCHANGED <<semOne, num, accuVars, total>>

ReadPost ==
    /\ pcR = "post"
    /\ semOne' = IF semOne < 1 THEN semOne + 1 ELSE semOne
    /\ iR' = iR + 1
    /\ pcR' = Round(iR + 1)
    /\ UNCHANGED <<semTwo, num, accuVars, total>>

\* Mutated form: Accu does not wait for semOne.
AccuWait_none ==
    /\ pcA = "wait"
    /\ pcA' = "add"
    /\ UNCHANGED <<semOne, semTwo, num, iA, sum, readVars, total>>

AccuWait ==
    /\ pcA = "wait" /\ semOne > 0
    /\ semOne' = semOne - 1
    /\ pcA' = "add"
    /\ UNCHANGED <<semTwo, num, iA, sum, readVars, total>>

Add ==
    /\ pcA = "add"
    /\ sum' = sum + num
    /\ pcA' = "post"
    /\ UNCHANGED <<semOne, semTwo, num, iA, readVars, total>>

AccuPost ==
    /\ pcA = "post"
    /\ semTwo' = IF semTwo < 1 THEN semTwo + 1 ELSE semTwo
    /\ iA' = iA + 1
    /\ pcA' = Round(iA + 1)
    /\ UNCHANGED <<semOne, num, sum, readVars, total>>

Read == ReadWait \/ Scan \/ ReadPost

Accu == AccuWait \/ Add \/ AccuPost

Next == Read \/ Accu

Spec == Init /\ [][Next]_vars

\* Both threads are scheduled, and input arrives.
FairSpec == Spec /\ WF_vars(Read) /\ WF_vars(Accu)

-----------------------------------------------------------------------------
(* Properties. *)

\* Every number that Read stores is added once and before the next one: the
\* sums differ by the number that is on its way (lines 35-37, 47-49).
OnItsWay == pcR = "post" \/ semOne = 1 \/ pcA = "add"

HandedOver == total = sum + (IF OnItsWay THEN num ELSE 0)

\* A release always finds its semaphore taken, so that none is lost.
NoLostRelease == (pcR = "post" => semOne = 0) /\ (pcA = "post" => semTwo = 0)

\* The result printed is the sum of the numbers entered.
ResultExact == pcA = "done" => sum = total /\ pcR = "done"

\* Neither thread waits for ever for the other.
Termination == <>(pcR = "done" /\ pcA = "done")
=============================================================================
