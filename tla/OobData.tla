-------------------------------- MODULE OobData --------------------------------
(***************************************************************************)
(* The out-of-band pair (oob_send_win.cpp, oob_recv_win.cpp).  The sender  *)
(* sends 123, 4 as urgent data, 567, 890 as urgent data; only the last     *)
(* byte of an urgent send is urgent.  The receiver selects its socket for  *)
(* reading and for exceptions and deals with the exception first.          *)
(*                                                                         *)
(* Bytes are named by their position: byte p holds the digit p % 10.  TCP  *)
(* keeps one urgent byte: a later one replaces it, or turns it into        *)
(* ordinary data if it has not been transmitted.                           *)
(***************************************************************************)
EXTENDS Integers, Sequences, FiniteSetsExt

VARIABLES
    conn,     \* up, closed by the sender, or broken
    sends,    \* send calls the sender has made
    marked,   \* the bytes that TCP carries as urgent
    arrived,  \* bytes that have arrived
    oob,      \* the urgent byte that waits to be read, or 0
    at,       \* position up to which the stream has been read
    pc,       \* the receiver: select, except, read, end, or crashed
    ready,    \* the sets among readCopy and exceptCopy that its socket is in
    inline,   \* bytes printed from the stream
    urgent    \* bytes printed as urgent

recvVars == <<at, pc, ready, inline, urgent>>
vars == <<conn, sends, marked, arrived, oob, recvVars>>

\* Where the four sends end, and which of them are urgent.
Ends == <<3, 4, 7, 10>>

Urgent == {2, 4}

Sent == IF sends = 0 THEN 0 ELSE Ends[sends]

Init ==
    /\ conn = "up" /\ sends = 0 /\ marked = {} /\ arrived = 0 /\ oob = 0
    /\ at = 0 /\ pc = "select" /\ ready = {} /\ inline = {} /\ urgent = {}

-----------------------------------------------------------------------------
(* The sender, and TCP. *)

Send ==
    /\ conn # "closed" /\ sends < Len(Ends)
    /\ sends' = sends + 1
    /\ IF sends' \in Urgent
       THEN \E old \in {marked, {p \in marked : p <= arrived}} : marked' = old \cup {Ends[sends']}
       ELSE UNCHANGED marked
    /\ UNCHANGED <<conn, arrived, oob, recvVars>>

Close ==
    /\ conn = "up" /\ sends = Len(Ends)
    /\ conn' = "closed"
    /\ UNCHANGED <<sends, marked, arrived, oob, recvVars>>

Arrive ==
    /\ conn # "broken"
    /\ \E k \in arrived + 1 .. Sent :
          /\ arrived' = k
          /\ oob' = Max({oob} \cup (marked \cap (arrived + 1 .. k)))
    /\ UNCHANGED <<conn, sends, marked, recvVars>>

Break ==
    /\ conn # "broken"
    /\ conn' = "broken"
    /\ UNCHANGED <<sends, marked, arrived, oob, recvVars>>

-----------------------------------------------------------------------------
(* The receiver. *)

\* What the stream has to offer: urgent bytes are not in it.
Unread == (at + 1 .. arrived) \ marked

AtEnd == conn = "closed" /\ arrived = Ends[Len(Ends)] /\ Unread = {}

\* select; after the 5 seconds of its timeout it is called again.
Select ==
    /\ pc = "select"
    /\ ready' = {s \in {"read", "except"} :
                   IF s = "read" THEN Unread # {} \/ AtEnd \/ conn = "broken" ELSE oob # 0}
    /\ ready' # {}
    /\ pc' = "except"
    /\ UNCHANGED <<conn, sends, marked, arrived, oob, at, inline, urgent>>

\* recv returns -1, and buf[-1] is written: a crash, or nothing of note.
RecvFails(next) ==
    /\ conn = "broken"
    /\ pc' \in {next, "crashed"}
    /\ UNCHANGED <<at, inline, urgent, oob>>

\* Mutated form: the exception is dealt with only if there is nothing to read.
Except_last ==
    /\ pc = "except"
    /\ \/ /\ "except" \in ready /\ "read" \notin ready
          /\ \/ /\ conn # "broken"
                /\ urgent' = urgent \cup {oob}
                /\ oob' = 0
                /\ pc' = "read"
                /\ UNCHANGED <<at, inline>>
             \/ RecvFails("read")
       \/ /\ "except" \notin ready \/ "read" \in ready
          /\ pc' = "read"
          /\ UNCHANGED <<at, inline, urgent, oob>>
    /\ UNCHANGED <<conn, sends, marked, arrived, ready>>

\* The exception: the urgent byte is printed.
Except ==
    /\ pc = "except"
    /\ \/ /\ "except" \in ready
          /\ \/ /\ conn # "broken"
                /\ urgent' = urgent \cup {oob}
                /\ oob' = 0
                /\ pc' = "read"
                /\ UNCHANGED <<at, inline>>
             \/ RecvFails("read")
       \/ /\ "except" \notin ready
          /\ pc' = "read"
          /\ UNCHANGED <<at, inline, urgent, oob>>
    /\ UNCHANGED <<conn, sends, marked, arrived, ready>>

\* Some bytes of the stream, or its end.
Read ==
    /\ pc = "read"
    /\ \/ /\ "read" \in ready
          /\ \/ /\ conn # "broken"
                /\ \E p \in Unread :
                      /\ at' = p
                      /\ inline' = inline \cup {q \in Unread : q <= p}
                /\ pc' = "select"
                /\ UNCHANGED <<urgent, oob>>
             \/ /\ AtEnd
                /\ pc' = "end"
                /\ UNCHANGED <<at, inline, urgent, oob>>
             \/ RecvFails("select")
       \/ /\ "read" \notin ready
          /\ pc' = "select"
          /\ UNCHANGED <<at, inline, urgent, oob>>
    /\ UNCHANGED <<conn, sends, marked, arrived, ready>>

-----------------------------------------------------------------------------

Sender == Send \/ Close

Receiver == Select \/ Except \/ Read

Next == Sender \/ Arrive \/ Break \/ Receiver

Spec == Init /\ [][Next]_vars

\* Both programs run and what is sent arrives.
FairSpec == Spec /\ WF_vars(Sender) /\ WF_vars(Arrive) /\ WF_vars(Receiver)

-----------------------------------------------------------------------------
(* Properties. *)

\* A receiver that has come to the end of the stream (line 77) has printed every
\* byte once, and the last urgent one as urgent, however late that arrived: the
\* exception is looked at first (line 67).  Only the earlier urgent byte may be
\* missing, replaced by the later, or be printed from the stream.
LastUrgentSeen ==
    pc = "end" =>
       /\ 10 \in urgent
       /\ inline \cap urgent = {}
       /\ (1 .. 10) \ (inline \cup urgent) \subseteq {4}

\* The receiver ends, unless the connection breaks.
Ended == pc = "end" \/ conn = "broken"

ReceiverEnds == <>Ended
=============================================================================
