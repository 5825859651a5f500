------------------------------- MODULE HalfClose -------------------------------
(***************************************************************************)
(* The half-close file transfer (Half_close_server.cpp and                 *)
(* Half_close_client.cpp).  The server sends a file in blocks of BUF_SIZE, *)
(* shuts its output down and waits for a message; the client stores what   *)
(* comes until the end of the stream, and then says thank you.             *)
(*                                                                         *)
(* Data are counted.  A connection may break at any time: what is on its   *)
(* way is lost, every recv fails and every send is without effect, and     *)
(* neither program looks at either result.                                 *)
(***************************************************************************)
EXTENDS Integers

CONSTANTS
    Sizes,    \* the lengths that the file may have
    BufSize,  \* BUF_SIZE of both programs
    Thanks    \* length of the thank-you with its NUL, at most BUF_SIZE

VARIABLES
    size,     \* length of the file
    conn,     \* none, up, broken, or refused
    sPc, cPc, \* where server and client are
    sent,     \* bytes of the file the server has sent
    fin,      \* the server has shut its output down or closed
    stored,   \* bytes the client has written to receive.dat
    spoilt,   \* it has also written what it never received
    thanked,  \* bytes of the thank-you that are on their way
    heard     \* bytes of the thank-you the server has received

sVars == <<sPc, sent, fin, heard>>
cVars == <<cPc, stored, spoilt>>
vars  == <<size, conn, sVars, cVars, thanked>>

Least(a, b) == IF a <= b THEN a ELSE b

Init ==
    /\ size \in Sizes
    /\ conn = "none"
    /\ sPc = "accept" /\ cPc = "connect"
    /\ sent = 0 /\ stored = 0 /\ thanked = 0 /\ heard = 0
    /\ fin = FALSE /\ spoilt = FALSE

-----------------------------------------------------------------------------
(* The server. *)

Accept ==
    /\ sPc = "accept" /\ conn \in {"up", "broken"}
    /\ sPc' = "copy"
    /\ UNCHANGED <<size, conn, sent, fin, heard, cVars, thanked>>

\* fread and send.  A short block, also one of no bytes, is the last.
SendBlock ==
    /\ sPc = "copy"
    /\ LET readCnt == Least(BufSize, size - sent)
       IN  /\ sent' = sent + readCnt
           /\ sPc'  = IF readCnt < BufSize THEN "shutdown" ELSE "copy"
    /\ UNCHANGED <<size, conn, fin, heard, cVars, thanked>>

\* Mutated form: no shutdown.
Shutdown_none ==
    /\ sPc = "shutdown"
    /\ sPc' = "recv"
    /\ UNCHANGED <<size, conn, sent, fin, heard, cVars, thanked>>

Shutdown ==
    /\ sPc = "shutdown"
    /\ fin' = TRUE
    /\ sPc' = "recv"
    /\ UNCHANGED <<size, conn, sent, heard, cVars, thanked>>

\* One recv: the thank-you or the first part of it, or -1.
RecvThanks ==
    /\ sPc = "recv"
    /\ \/ /\ conn = "up"
          /\ \E k \in 1 .. thanked : heard' = k
       \/ /\ conn = "broken"
          /\ UNCHANGED heard
    /\ sPc' = "end"
    /\ UNCHANGED <<size, conn, sent, fin, cVars, thanked>>

Server == Accept \/ SendBlock \/ Shutdown \/ RecvThanks

-----------------------------------------------------------------------------
(* The client. *)

\* The result of connect is not looked at.
Connect ==
    /\ cPc = "connect"
    /\ conn' \in {"up", "refused"}
    /\ cPc' = "recv"
    /\ UNCHANGED <<size, sVars, stored, spoilt, thanked>>

\* Mutated form: a short block is taken for the end of the file.
RecvBlock_shortIsEnd ==
    /\ cPc = "recv" /\ conn = "up"
    /\ \E readCnt \in 1 .. Least(BufSize, sent - stored) :
          /\ stored' = stored + readCnt
          /\ cPc' = IF readCnt < BufSize THEN "thank" ELSE "recv"
    /\ UNCHANGED <<size, conn, sVars, spoilt, thanked>>

\* recv and fwrite.
RecvBlock ==
    /\ cPc = "recv" /\ conn = "up"
    /\ \E readCnt \in 1 .. Least(BufSize, sent - stored) : stored' = stored + readCnt
    /\ UNCHANGED <<size, conn, sVars, cPc, spoilt, thanked>>

RecvEnd ==
    /\ cPc = "recv" /\ conn = "up" /\ fin /\ stored = sent
    /\ cPc' = "thank"
    /\ UNCHANGED <<size, conn, sVars, stored, spoilt, thanked>>

\* recv returns -1, which ends the loop no more than a length does; fwrite
\* takes it for a huge size and crashes, writes garbage, or writes nothing.
RecvFails ==
    /\ cPc = "recv" /\ conn \in {"broken", "refused"}
    /\ cPc' \in {"recv", "crashed"}
    /\ spoilt' \in {spoilt, TRUE}
    /\ UNCHANGED <<size, conn, sVars, stored, thanked>>

Thank ==
    /\ cPc = "thank"
    /\ thanked' = IF conn = "up" THEN Thanks ELSE 0
    /\ cPc' = "end"
    /\ UNCHANGED <<size, conn, sVars, stored, spoilt>>

Client == Connect \/ RecvBlock \/ RecvEnd \/ RecvFails \/ Thank

-----------------------------------------------------------------------------

Break ==
    /\ conn = "up"
    /\ conn' = "broken"
    /\ UNCHANGED <<size, sVars, cVars, thanked>>

Next == Server \/ Client \/ Break

Spec == Init /\ [][Next]_vars

\* Both programs run.
FairSpec == Spec /\ WF_vars(Server) /\ WF_vars(Client)

-----------------------------------------------------------------------------
(* Properties. *)

\* The thank-you acknowledges the file: once the client is through its loop, and
\* so whenever the server has heard any of the message, receive.dat holds the
\* whole file and nothing else, however the stream was cut into receives and
\* whatever breaks (client lines 42-48, server lines 48-60).
ThanksMeanStored ==
    cPc \in {"thank", "end"} \/ heard > 0 => stored = size /\ ~spoilt

\* Neither waits for the other for ever.  The server ends even if the
\* connection breaks; the client then does not (line 42), nor does the server
\* if there never is a connection.
Ended == conn = "refused" \/ (sPc = "end" /\ (cPc = "end" \/ conn = "broken"))

BothEnd == <>Ended
=============================================================================
