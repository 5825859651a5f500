------------------------------- MODULE SyncEvent -------------------------------
(***************************************************************************)
(* The event example (SyncEvent_window.cpp): two threads wait for a        *)
(* manual-reset event before they count the characters of the line that    *)
(* main reads, one the letters A and the other all the others.             *)
(*                                                                         *)
(* A line is a sequence of "A", "x" (any other letter) and, at its end     *)
(* only, "nl".  str is the string without its NUL.                         *)
(***************************************************************************)
EXTENDS Integers, Sequences, FiniteSets

CONSTANTS
    Lines,    \* what stdin may have to offer; the empty line is its end
    StrLen    \* STR_LEN

VARIABLES
    line,     \* the input
    str,      \* the shared string
    hEvent,   \* the event: signalled or not
    main,     \* where main is
    pc,       \* pc[t]: wait, count or done
    i, cnt,   \* i[t], cnt[t]: index and count of thread t
    shown     \* shown[t]: the number it has printed

vars == <<line, str, hEvent, main, pc, i, cnt, shown>>

Threads == {"NumberOfA", "NumberOfOthers"}

\* Mutated form: the event is created signalled.
Init_signalled ==
    /\ line \in Lines
    /\ str = <<>>
    /\ hEvent = TRUE
    /\ main = "fgets"
    /\ pc = [t \in Threads |-> "wait"]
    /\ i = [t \in Threads |-> 1]
    /\ cnt = [t \in Threads |-> 0]
    /\ shown = [t \in Threads |-> 0]

Init ==
    /\ line \in Lines
    /\ str = <<>>
    /\ hEvent = FALSE
    /\ main = "fgets"
    /\ pc = [t \in Threads |-> "wait"]
    /\ i = [t \in Threads |-> 1]
    /\ cnt = [t \in Threads |-> 0]
    /\ shown = [t \in Threads |-> 0]

\* What str can take of the line, with its NUL.
Kept == SubSeq(line, 1, IF Len(line) < StrLen THEN Len(line) ELSE StrLen - 1)

\* fgets leaves room for the NUL; at the end of the input it changes nothing.
Fgets ==
    /\ main = "fgets"
    /\ str' = Kept
    /\ main' = "set"
    /\ UNCHANGED <<line, hEvent, pc, i, cnt, shown>>

SetEvent ==
    /\ main = "set"
    /\ hEvent' = TRUE
    /\ main' = "join"
    /\ UNCHANGED <<line, str, pc, i, cnt, shown>>

\* Both waits, and ResetEvent.
Join ==
    /\ main = "join"
    /\ \A t \in Threads : pc[t] = "done"
    /\ hEvent' = FALSE
    /\ main' = "end"
    /\ UNCHANGED <<line, str, pc, i, cnt, shown>>

\* The event stays signalled, so that it lets both threads through.
Wait(t) ==
    /\ pc[t] = "wait" /\ hEvent
    /\ pc' = [pc EXCEPT ![t] = "count"]
    /\ UNCHANGED <<line, str, hEvent, main, i, cnt, shown>>

Counts(t, char) == (char = "A") = (t = "NumberOfA")

Count(t) ==
    /\ pc[t] = "count" /\ i[t] <= Len(str)
    /\ cnt' = [cnt EXCEPT ![t] = IF Counts(t, str[i[t]]) THEN @ + 1 ELSE @]
    /\ i' = [i EXCEPT ![t] = @ + 1]
    /\ UNCHANGED <<line, str, hEvent, main, pc, shown>>

\* The others are printed less one, for the newline.
Show(t) ==
    /\ pc[t] = "count" /\ i[t] > Len(str)
    /\ shown' = [shown EXCEPT ![t] = IF t = "NumberOfA" THEN cnt[t] ELSE cnt[t] - 1]
    /\ pc' = [pc EXCEPT ![t] = "done"]
    /\ UNCHANGED <<line, str, hEvent, main, i, cnt>>

Step(t) == Wait(t) \/ Count(t) \/ Show(t)

Main == Fgets \/ SetEvent \/ Join

Next == Main \/ \E t \in Threads : Step(t)

Spec == Init /\ [][Next]_vars

\* All three threads run.
FairSpec == Spec /\ WF_vars(Main) /\ \A t \in Threads : WF_vars(Step(t))

-----------------------------------------------------------------------------
(* Properties. *)

Number(char) == Cardinality({k \in DOMAIN Kept : Kept[k] = char})

\* However the threads run, they have counted the whole of the line that was
\* kept when main ends.  The others come out right if its newline was kept,
\* too, and else one too low: with a line too long for str, or at the end of
\* the input (line 57).
CountsOfLine ==
    main = "end" =>
       /\ shown["NumberOfA"] = Number("A")
       /\ shown["NumberOfOthers"] = Number("x") - (IF Number("nl") = 1 THEN 0 ELSE 1)

\* Both threads are let through, and main's waits for them end.
MainEnds == <>(main = "end")
=============================================================================
