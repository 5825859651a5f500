------------------------------ MODULE MCSockets ------------------------------
(***************************************************************************)
(* A small instance of the programs that serve one peer at a time.         *)
(***************************************************************************)
EXTENDS SocketSuite

MCOperands == {-3, 2}

\* Files that end within, and at the end of, a block of two bytes.
MCSizes == 0 .. 5

\* Files up to four characters in lines of any length, pieces of up to two.
MCFiles == {f \in {[length |-> k, newlines |-> s] : k \in 0 .. 4, s \in SUBSET (1 .. 4)} :
               f.newlines \subseteq 1 .. f.length}
=============================================================================
