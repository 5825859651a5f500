---------------------------- MODULE OverlappedOnce ----------------------------
(***************************************************************************)
(* One overlapped operation on each side of a connection.  The sender      *)
(* (OverlappedSend_win.cpp) waits for its WSASend by event.  Of the two    *)
(* receivers one waits for its WSARecv by event (OverlappedRecv_win.cpp),  *)
(* the other in an alertable wait on an event that nothing signals, which  *)
(* only its completion routine ends (CmplRoutinesRecv_win.cpp).            *)
(*                                                                         *)
(* The message has Length bytes.  An operation is none, pending, ok,       *)
(* failed (it completes with an error), or refused (the call itself fails  *)
(* and nothing completes).                                                 *)
(***************************************************************************)
EXTENDS Integers

CONSTANTS
    Length    \* length of the message with its NUL

VARIABLES
    waits,    \* how the receiver waits: "event" or "routine"
    conn,     \* none, up, refused, fin (sender has closed), or broken
    wire,     \* bytes the sender's side has taken that no receive has fetched
    sPc, sOp, \* the sender and its operation
    rPc, rOp, \* the receiver and its operation
    bytes,    \* bytes that the receive has stored in buf
    printed   \* how many of them were there when buf was printed, or -1

vars == <<waits, conn, wire, sPc, sOp, rPc, rOp, bytes, printed>>

Init ==
    /\ waits \in {"event", "routine"}
    /\ conn = "none"
    /\ wire = 0 /\ bytes = 0 /\ printed = -1
    /\ sPc = "connect" /\ rPc = "accept"
    /\ sOp = "none" /\ rOp = "none"

-----------------------------------------------------------------------------
(* The system. *)

Break ==
    /\ conn \in {"up", "fin"}
    /\ conn' = "broken"
    /\ wire' = 0
    /\ UNCHANGED <<waits, sPc, sOp, rPc, rOp, bytes, printed>>

\* A pending operation completes.
SendCompletes ==
    /\ sOp = "pending"
    /\ \/ conn = "up" /\ sOp' = "ok" /\ wire' = Length
       \/ conn = "broken" /\ sOp' = "failed" /\ UNCHANGED wire
    /\ UNCHANGED <<waits, conn, sPc, rPc, rOp, bytes, printed>>

\* A receive fetches what there is, or finds the end of the stream.
Fetch ==
    \/ /\ \E k \in 1 .. wire : bytes' = k /\ wire' = wire - k
    \/ /\ conn = "fin" /\ wire = 0
       /\ UNCHANGED <<bytes, wire>>

RecvCompletes ==
    /\ rOp = "pending"
    /\ \/ conn # "broken" /\ Fetch /\ rOp' = "ok"
       \/ conn = "broken" /\ rOp' = "failed" /\ UNCHANGED <<wire, bytes>>
    /\ UNCHANGED <<waits, conn, sPc, sOp, rPc, printed>>

-----------------------------------------------------------------------------
(* The sender. *)

Connect ==
    /\ sPc = "connect"
    /\ \/ conn' = "up" /\ sPc' = "post"
       \/ conn' = "refused" /\ sPc' = "exit"
    /\ UNCHANGED <<waits, wire, sOp, rPc, rOp, bytes, printed>>

\* WSASend is done at once, goes on in the background, or fails.
PostSend ==
    /\ sPc = "post"
    /\ \/ /\ conn = "up" /\ sOp' = "ok" /\ wire' = Length
          /\ sPc' = "close"
       \/ /\ conn = "up" /\ sOp' = "pending" /\ sPc' = "wait"
          /\ UNCHANGED wire
       \/ /\ conn = "broken" /\ sOp' = "refused" /\ sPc' = "exit"
          /\ UNCHANGED wire
    /\ UNCHANGED <<waits, conn, rPc, rOp, bytes, printed>>

WaitSend ==
    /\ sPc = "wait" /\ sOp # "pending"
    /\ sPc' = "close"
    /\ UNCHANGED <<waits, conn, wire, sOp, rPc, rOp, bytes, printed>>

CloseSend ==
    /\ sPc = "close"
    /\ conn' = IF conn = "up" THEN "fin" ELSE conn
    /\ sPc' = "end"
    /\ UNCHANGED <<waits, wire, sOp, rPc, rOp, bytes, printed>>

Sender == Connect \/ PostSend \/ WaitSend \/ CloseSend

-----------------------------------------------------------------------------
(* The receivers. *)

\* accept may fail when the connection is broken by then.  Only the receiver
\* with the routine looks.
Accept ==
    /\ rPc = "accept" /\ conn \notin {"none", "refused"}
    /\ rPc' \in IF conn = "broken" /\ waits = "routine" THEN {"post", "exit"} ELSE {"post"}
    /\ UNCHANGED <<waits, conn, wire, sPc, sOp, rOp, bytes, printed>>

\* Mutated form: the event receiver does not wait for a pending receive.
PostRecv_noWait ==
    /\ rPc = "post"
    /\ \/ conn # "broken" /\ Fetch /\ rOp' = "ok"
       \/ conn # "broken" /\ rOp' = "pending" /\ UNCHANGED <<wire, bytes>>
    /\ rPc' = IF waits = "event" THEN "print" ELSE "wait"
    /\ UNCHANGED <<waits, conn, sPc, sOp, printed>>

\* WSARecv is done at once, goes on in the background, or fails: then the
\* one program exits, and the other goes on to its wait all the same.
PostRecv ==
    /\ rPc = "post"
    /\ \/ /\ conn # "broken" /\ Fetch /\ rOp' = "ok"
          /\ rPc' = IF waits = "event" THEN "print" ELSE "wait"
       \/ /\ conn # "broken" /\ rOp' = "pending" /\ rPc' = "wait"
          /\ UNCHANGED <<wire, bytes>>
       \/ /\ conn = "broken" /\ rOp' = "refused"
          /\ rPc' = IF waits = "event" THEN "exit" ELSE "wait"
          /\ UNCHANGED <<wire, bytes>>
    /\ UNCHANGED <<waits, conn, sPc, sOp, printed>>

\* The event is signalled, or the routine is called: its ErrorHandling ends
\* the program.  WSAGetOverlappedResult may fail, which is not looked at.
WaitRecv ==
    /\ rPc = "wait" /\ rOp \in {"ok", "failed"}
    /\ rPc' = IF waits = "routine" /\ rOp = "failed" THEN "exit" ELSE "print"
    /\ UNCHANGED <<waits, conn, wire, sPc, sOp, rOp, bytes, printed>>

\* buf is printed up to the first NUL, which it has only if it was global (and
\* zero) or the message is whole; then everything is closed.
ShowBuf ==
    /\ rPc = "print"
    /\ printed' = bytes
    /\ rPc' = "end"
    /\ UNCHANGED <<waits, conn, wire, sPc, sOp, rOp, bytes>>

Receiver == Accept \/ PostRecv \/ WaitRecv \/ ShowBuf

-----------------------------------------------------------------------------

Next == Break \/ SendCompletes \/ RecvCompletes \/ Sender \/ Receiver

Spec == Init /\ [][Next]_vars

\* The programs run, and the system completes what is pending.
FairSpec ==
    /\ Spec
    /\ WF_vars(Sender) /\ WF_vars(Receiver)
    /\ WF_vars(SendCompletes) /\ WF_vars(RecvCompletes)

-----------------------------------------------------------------------------
(* Properties. *)

\* The OVERLAPPED structures and the event receiver's buf are variables of
\* main: it does not use buf, and does not return, while the system may still
\* write to them (sender lines 47-64, event 57-75, routine 62-84).
FramesOutliveOperations ==
    /\ sOp = "pending" => sPc = "wait"
    /\ rOp = "pending" => rPc = "wait" /\ printed = -1

\* Every program ends, if the connection is ever made, but for the receiver
\* with the routine whose WSARecv fails: no routine will come, and it waits for
\* ever (line 70) instead of reporting the error (line 77).
Ended ==
    \/ conn = "refused"
    \/ /\ sPc \in {"end", "exit"}
       /\ \/ rPc \in {"end", "exit"}
          \/ waits = "routine" /\ rPc = "wait" /\ rOp = "refused"

OnlyRefusedWaits == <>Ended
=============================================================================
