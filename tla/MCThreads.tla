------------------------------ MODULE MCThreads ------------------------------
(***************************************************************************)
(* A small instance of the thread examples.                                *)
(***************************************************************************)
EXTENDS ThreadSuite

MCInputs == {-1, 1, 2}

\* SyncMutex_win.cpp and thread_win3.cpp, whose round k adds or takes k.
MCAmount == [k \in 0 .. 2 |-> k]

\* Lines up to three characters, whole or cut off, and the end of the input.
Words == UNION {[1 .. k -> {"A", "x"}] : k \in 0 .. 3}

MCLines == Words \cup {Append(w, "nl") : w \in Words}
=============================================================================
