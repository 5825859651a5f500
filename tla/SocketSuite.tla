------------------------------ MODULE SocketSuite ------------------------------
(***************************************************************************)
(* The programs that serve one peer at a time: the iterative echo server   *)
(* (IterativeEcho), the calculator (Calculator), the half-close file       *)
(* transfer (HalfClose), the pair with one overlapped operation each       *)
(* (OverlappedOnce), the out-of-band pair (OobData) and the multicast news *)
(* (News).  They have nothing in common at run time: which of them runs is *)
(* chosen in the initial state, and the others stay in theirs.             *)
(***************************************************************************)
EXTENDS Integers, Sequences, FiniteSets

CONSTANTS
    Simple, Stable, Nobody,         \* IterativeEcho: its clients, no client,
    EchoServe, MsgMax, Rounds,      \*   how many it serves, and what they send
    Users, Abandoners, CalcServe,   \* Calculator: its clients, how many it serves,
    Operands, MaxOps, OpSz, Half,   \*   the operands, and the ints
    Sizes, BlockSize, Thanks,       \* HalfClose: the files, the blocks, the message
    Length,                         \* OverlappedOnce: the message
    Receivers, Files, LineSize      \* News: the receivers, the files, the buffers

ASSUME EchoAssumption ==
    /\ IsFiniteSet(Simple) /\ IsFiniteSet(Stable)
    /\ Simple \cap Stable = {} /\ Nobody \notin Simple \cup Stable
    /\ EchoServe \in Nat /\ MsgMax \in Nat \ {0} /\ Rounds \in Nat

\* A user enters ints, and the buffers have room for MaxOps of them.
ASSUME CalcAssumption ==
    /\ Nobody \notin Users
    /\ CalcServe \in Nat /\ MaxOps \in Nat /\ OpSz \in Nat \ {0}
    /\ Half \in Nat \ {0} /\ Operands \subseteq -Half .. Half - 1

ASSUME FileAssumption == Sizes \subseteq Nat /\ BlockSize \in Nat \ {0}

\* A buffer has room for a character and its NUL.
ASSUME NewsAssumption ==
    /\ LineSize \in Nat /\ LineSize > 1
    /\ \A f \in Files : f.length \in Nat /\ f.newlines \subseteq 1 .. f.length

VARIABLES
    program,   \* the program that runs
    iPeer, iAt, iRounds, iSent, iDue, iNread, iOut, iGot, iSrv, iCur, iServed, iLen,
    cReq, cAt, cArrived, cGot, cResult, cSrv, cCur, cServed, cOpndCnt, cRecvLen, cOpinfo,
    hSize, hConn, hSPc, hCPc, hSent, hFin, hStored, hSpoilt, hThanked, hHeard,
    vWaits, vConn, vWire, vSPc, vSOp, vRPc, vROp, vBytes, vPrinted,
    oConn, oSends, oMarked, oArrived, oOob, oAt, oPc, oReady, oInline, oUrgent,
    nFile, nPos, nEof, nBuf, nPieces, nSender, nReceiver, nLast

echoVars == <<iPeer, iAt, iRounds, iSent, iDue, iNread, iOut, iGot, iSrv, iCur, iServed, iLen>>
calcVars == <<cReq, cAt, cArrived, cGot, cResult, cSrv, cCur, cServed, cOpndCnt, cRecvLen, cOpinfo>>
fileVars == <<hSize, hConn, hSPc, hCPc, hSent, hFin, hStored, hSpoilt, hThanked, hHeard>>
overVars == <<vWaits, vConn, vWire, vSPc, vSOp, vRPc, vROp, vBytes, vPrinted>>
oobVars  == <<oConn, oSends, oMarked, oArrived, oOob, oAt, oPc, oReady, oInline, oUrgent>>
newsVars == <<nFile, nPos, nEof, nBuf, nPieces, nSender, nReceiver, nLast>>
suiteVars == <<program, echoVars, calcVars, fileVars, overVars, oobVars, newsVars>>

Echo == INSTANCE IterativeEcho WITH
    NServe <- EchoServe, peer <- iPeer, at <- iAt, rounds <- iRounds, sent <- iSent,
    due <- iDue, nread <- iNread, out <- iOut, got <- iGot, srv <- iSrv, cur <- iCur,
    served <- iServed, len <- iLen

Calc == INSTANCE Calculator WITH
    Clients <- Users, Values <- Operands, NServe <- CalcServe, req <- cReq, at <- cAt,
    arrived <- cArrived, got <- cGot, result <- cResult, srv <- cSrv, cur <- cCur,
    served <- cServed, opndCnt <- cOpndCnt, recvLen <- cRecvLen, opinfo <- cOpinfo

File == INSTANCE HalfClose WITH
    BufSize <- BlockSize, size <- hSize, conn <- hConn, sPc <- hSPc, cPc <- hCPc,
    sent <- hSent, fin <- hFin, stored <- hStored, spoilt <- hSpoilt, thanked <- hThanked,
    heard <- hHeard

Over == INSTANCE OverlappedOnce WITH
    waits <- vWaits, conn <- vConn, wire <- vWire, sPc <- vSPc, sOp <- vSOp, rPc <- vRPc,
    rOp <- vROp, bytes <- vBytes, printed <- vPrinted

Oob == INSTANCE OobData WITH
    conn <- oConn, sends <- oSends, marked <- oMarked, arrived <- oArrived, oob <- oOob,
    at <- oAt, pc <- oPc, ready <- oReady, inline <- oInline, urgent <- oUrgent

Paper == INSTANCE News WITH
    BufSize <- LineSize, file <- nFile, pos <- nPos, eof <- nEof, buf <- nBuf,
    pieces <- nPieces, sender <- nSender, receiver <- nReceiver, last <- nLast

InEcho(A) == program = "echo" /\ A /\ UNCHANGED <<program, calcVars, fileVars, overVars, oobVars, newsVars>>
InCalc(A) == program = "calculator" /\ A /\ UNCHANGED <<program, echoVars, fileVars, overVars, oobVars, newsVars>>
InFile(A) == program = "file" /\ A /\ UNCHANGED <<program, echoVars, calcVars, overVars, oobVars, newsVars>>
InOver(A) == program = "overlapped" /\ A /\ UNCHANGED <<program, echoVars, calcVars, fileVars, oobVars, newsVars>>
InOob(A)  == program = "oob" /\ A /\ UNCHANGED <<program, echoVars, calcVars, fileVars, overVars, newsVars>>
InNews(A) == program = "news" /\ A /\ UNCHANGED <<program, echoVars, calcVars, fileVars, overVars, oobVars>>

\* A program that does not run has one initial state only.
AnyOf(S) == CHOOSE x \in S : TRUE

SuiteInit ==
    /\ program \in {"echo", "calculator", "file", "overlapped", "oob", "news"}
    /\ Echo!Init /\ Calc!Init /\ Oob!Init
    /\ File!Init /\ (program = "file" \/ hSize = AnyOf(Sizes))
    /\ Over!Init /\ (program = "overlapped" \/ vWaits = "event")
    /\ Paper!Init /\ (program = "news" \/ (nFile = AnyOf(Files) /\ nBuf = Paper!Nothing))

SuiteNext ==
    \/ InEcho(Echo!Next) \/ InCalc(Calc!Next) \/ InFile(File!Next)
    \/ InOver(Over!Next) \/ InOob(Oob!Next) \/ InNews(Paper!Next)

SuiteSpec == SuiteInit /\ [][SuiteNext]_suiteVars

\* The fairness of each program while it is the one that runs.
SuiteFairness ==
    /\ WF_suiteVars(InEcho(Echo!Server))
    /\ \A c \in Echo!Clients :
          /\ WF_suiteVars(InEcho(Echo!Connect(c)))
          /\ WF_suiteVars(InEcho(Echo!Receive(c)))
          /\ WF_suiteVars(InEcho(Echo!Quit(c)))
    /\ WF_suiteVars(InCalc(Calc!Server))
    /\ \A c \in Users :
          /\ WF_suiteVars(InCalc(Calc!Arrive(c)))
          /\ WF_suiteVars(InCalc(Calc!Connect(c) \/ Calc!Send(c) \/ Calc!Receive(c)))
    /\ WF_suiteVars(InFile(File!Server)) /\ WF_suiteVars(InFile(File!Client))
    /\ WF_suiteVars(InOver(Over!Sender)) /\ WF_suiteVars(InOver(Over!Receiver))
    /\ WF_suiteVars(InOver(Over!SendCompletes)) /\ WF_suiteVars(InOver(Over!RecvCompletes))
    /\ WF_suiteVars(InOob(Oob!Sender)) /\ WF_suiteVars(InOob(Oob!Receiver))
    /\ WF_suiteVars(InOob(Oob!Arrive))
    /\ WF_suiteVars(InNews(Paper!Sender))

SuiteFairSpec == SuiteSpec /\ SuiteFairness

-----------------------------------------------------------------------------
(* Properties. *)

\* At its prompt a stable client has the whole echo of all that it has sent
\* (IterativeEcho!StableComplete, lines 61-70 of StableEchoClnt.cpp).
StableComplete == Echo!StableComplete

\* The echo server's clients are served strictly one after the other
\* (IterativeEcho!OneAtATime, lines 56-75 of echo_server_win.cpp).
OneAtATime == Echo!OneAtATime

\* The calculator has the request of its client whole when it answers, however
\* the stream was cut, and the answer is the wrapped result of exact arithmetic
\* (Calculator!Framed and ResultRight, lines 59-63 and 73-90 of Op_server_win.cpp).
CalcRight == Calc!Framed /\ Calc!ResultRight

\* The thank-you of the file's receiver means that it has the whole file
\* (HalfClose!ThanksMeanStored, lines 42-48 of Half_close_client.cpp).
ThanksMeanStored == File!ThanksMeanStored

\* No OVERLAPPED or buffer of main goes out of use while the system may write
\* to it (OverlappedOnce!FramesOutliveOperations, lines 57-75 of
\* OverlappedRecv_win.cpp).
FramesOutliveOperations == Over!FramesOutliveOperations

\* The urgent data are seen as urgent however late they arrive, and nothing is
\* seen twice (OobData!LastUrgentSeen, lines 67-90 of oob_recv_win.cpp).
LastUrgentSeen == Oob!LastUrgentSeen

\* The pieces of the news follow each other and fit into the receivers' buffers
\* (News!NewsInOrder, line 47 of news_sender_win.cpp).
NewsInOrder == Paper!NewsInOrder

\* Each client that the echo server or the calculator accepts is served and the
\* echo server ends, unless a client leaves in a way that traps them; both sides
\* of the file transfer, of the overlapped and of the out-of-band pair end, and so
\* does the sender of the news, but for connections never made or broken and the
\* alertable wait for a refused WSARecv.  As the program never changes this is
\* IterativeEcho!ServerEnds, Calculator!Answered, HalfClose!BothEnd,
\* OverlappedOnce!OnlyRefusedWaits, OobData!ReceiverEnds and News!SenderEnds:
\* once a program has ended it stays so.
AllServed ==
    []<>(/\ program = "echo" => Echo!Finished
         /\ program = "calculator" => Calc!NoneWaits
         /\ program = "file" => File!Ended
         /\ program = "overlapped" => Over!Ended
         /\ program = "oob" => Oob!Ended
         /\ program = "news" => Paper!Ended)
=============================================================================
