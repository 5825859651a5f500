--------------------------------- MODULE News ---------------------------------
(***************************************************************************)
(* The multicast news (news_sender_win.cpp and news_receiver_win.cpp): the *)
(* sender cuts a file with fgets and sends each piece as one datagram to   *)
(* the group; a receiver prints what it gets until recvfrom fails.         *)
(*                                                                         *)
(* The file is its length and the positions of its newlines, a piece the   *)
(* interval <<from, to>> of the file.  Datagrams may be lost, doubled and  *)
(* overtaken: whatever has been sent may arrive, any number of times.      *)
(***************************************************************************)
EXTENDS Integers, Sequences

CONSTANTS
    Receivers,   \* the receivers
    Files,       \* the files there may be: records of length and newlines
    BufSize      \* BUF_SIZE of both programs

VARIABLES
    file,      \* news.txt
    pos,       \* how far it has been read
    eof,       \* feof(fp)
    buf,       \* the piece in the sender's buffer; garbage before the first
    pieces,    \* the datagrams sent, in order
    sender,    \* loop, send or end
    receiver,  \* receiver[r]: away, listening, or stopped
    last       \* last[r]: what r has printed last

vars == <<file, pos, eof, buf, pieces, sender, receiver, last>>

\* What strlen finds in a buffer that was never written: a length up to and,
\* beyond the end of the buffer, greater than BUF_SIZE.
Garbage == {<<0, k>> : k \in {0, BufSize - 1, BufSize + 1}}

Nothing == <<0, 0>>

Span(p) == p[2] - p[1]

Init ==
    /\ file \in Files
    /\ pos = 0
    /\ eof = FALSE
    /\ buf \in IF file.length = 0 THEN Garbage ELSE {Nothing}
    /\ pieces = <<>>
    /\ sender = "loop"
    /\ receiver = [r \in Receivers |-> "away"]
    /\ last = [r \in Receivers |-> Nothing]

-----------------------------------------------------------------------------
(* The sender. *)

\* Where fgets stops: behind a newline, when the buffer has room for the NUL
\* only, or at the end of the file, which it then has seen.
LineEnd ==
    LET stops == file.newlines \cup {pos + BufSize - 1, file.length}
    IN  CHOOSE k \in stops : k > pos /\ \A j \in stops : j > pos => k <= j

\* The loop ends when the end of the file has been seen.  At the end of the
\* file fgets leaves the buffer as it was.
Fgets ==
    /\ sender = "loop"
    /\ \/ /\ eof
          /\ sender' = "end"
          /\ UNCHANGED <<pos, eof, buf>>
       \/ /\ ~eof /\ pos < file.length
          /\ buf' = <<pos, LineEnd>>
          /\ pos' = LineEnd
          /\ eof' = (LineEnd \notin file.newlines /\ LineEnd < pos + BufSize - 1)
          /\ sender' = "send"
       \/ /\ ~eof /\ pos = file.length
          /\ eof' = TRUE
          /\ sender' = "send"
          /\ UNCHANGED <<pos, buf>>
    /\ UNCHANGED <<file, pieces, receiver, last>>

Sendto ==
    /\ sender = "send"
    /\ pieces' = Append(pieces, buf)
    /\ sender' = "loop"
    /\ UNCHANGED <<file, pos, eof, buf, receiver, last>>

-----------------------------------------------------------------------------
(* The receivers. *)

Join(r) ==
    /\ receiver[r] = "away"
    /\ receiver' = [receiver EXCEPT ![r] = "listening"]
    /\ UNCHANGED <<file, pos, eof, buf, pieces, sender, last>>

\* Mutated form: one byte less is asked for.
Recvfrom_oneLess(r) ==
    /\ receiver[r] = "listening"
    /\ \E i \in DOMAIN pieces :
          IF Span(pieces[i]) <= BufSize - 2
          THEN last' = [last EXCEPT ![r] = pieces[i]] /\ UNCHANGED receiver
          ELSE receiver' = [receiver EXCEPT ![r] = "stopped"] /\ UNCHANGED last
    /\ UNCHANGED <<file, pos, eof, buf, pieces, sender>>

\* A datagram longer than the buffer makes recvfrom fail, which ends the loop.
Recvfrom(r) ==
    /\ receiver[r] = "listening"
    /\ \E i \in DOMAIN pieces :
          IF Span(pieces[i]) <= BufSize - 1
          THEN last' = [last EXCEPT ![r] = pieces[i]] /\ UNCHANGED receiver
          ELSE receiver' = [receiver EXCEPT ![r] = "stopped"] /\ UNCHANGED last
    /\ UNCHANGED <<file, pos, eof, buf, pieces, sender>>

-----------------------------------------------------------------------------

Sender == Fgets \/ Sendto

Next == Sender \/ \E r \in Receivers : Join(r) \/ Recvfrom(r)

Spec == Init /\ [][Next]_vars

\* The sender runs; nothing is assumed of datagrams.
FairSpec == Spec /\ WF_vars(Sender)

-----------------------------------------------------------------------------
(* Properties. *)

\* As long as there is any news no receiver is stopped by a piece that it has
\* no room for (sender line 47, receiver line 50), and the pieces follow each
\* other without a gap.  Only the last may be sent twice, if its newline, or
\* the end of the buffer, came before the end of the file was seen (line 45).
NewsInOrder ==
    file.length > 0 =>
       /\ \A r \in Receivers : receiver[r] # "stopped"
       /\ \A i \in DOMAIN pieces :
             \/ pieces[i][1] = (IF i = 1 THEN 0 ELSE pieces[i - 1][2])
             \/ i = Len(pieces) /\ i > 1 /\ pieces[i] = pieces[i - 1]
       /\ sender = "end" => pieces[Len(pieces)][2] = file.length

\* The sender gets to the end of the file.
Ended == sender = "end"

SenderEnds == <>Ended
=============================================================================
