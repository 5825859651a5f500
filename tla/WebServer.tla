------------------------------- MODULE WebServer -------------------------------
(***************************************************************************)
(* The web server (webserv_win.cpp): the main thread accepts, and a thread *)
(* of its own answers each connection.  Socket handles are numbers that    *)
(* the system uses again once they are closed, so what a thread does with  *)
(* a handle it no longer owns reaches another client.                      *)
(*                                                                         *)
(* The thread of client c is called c.  A request is a record: `http` that *)
(* the first recv contains "HTTP/", `get` that the method is GET, `ext`    *)
(* the extension of the file, `there` that the file can be opened.  An     *)
(* answer is sent piece by piece, and each send is a step of its own.      *)
(***************************************************************************)
EXTENDS Integers, Sequences, SequencesExt, FiniteSets

CONSTANTS
    Clients,
    Handles,     \* socket handles
    Leavers,     \* clients that may leave before they send
    Free,        \* a handle that is no socket
    Requests,    \* Requests[c]: what client c may ask for
    HeaderLines, \* lines of a header (4)
    File,        \* the lines of a file, as fgets reads them
    MaxFiles     \* streams the C library has for fopen

Texts == [http : BOOLEAN, get : BOOLEAN, ext : {"html", "other", "none"}, there : BOOLEAN]

ASSUME WebServerAssumption ==
    /\ Free \notin Clients /\ Leavers \subseteq Clients
    /\ Handles # {} /\ Requests \in [Clients -> SUBSET Texts]
    /\ HeaderLines \in Nat /\ File \in Seq(STRING)
    /\ MaxFiles \in Nat

NoText == [http |-> FALSE, get |-> FALSE, ext |-> "none", there |-> FALSE]

VARIABLES
    alive,    \* the process runs
    sock,     \* sock[h]: the client whose connection h is, or Free
    files,    \* streams opened and never closed
    pc,       \* pc[c]: where the thread of c is
    hnd,      \* hnd[c]: hClntSock of that thread
    job,      \* job[c]: the request it has read
    why,      \* why[c]: the reason of its error answer
    todo,     \* todo[c]: what it is still to send before it closes
    at,       \* at[c]: the client: idle, connected, sent (not yet read), read, gone
    req,      \* req[c]: its request
    conn,     \* conn[c]: its connection
    got       \* got[c]: what it has received, each piece with the thread that sent it

threadVars == <<pc, hnd, job, why, todo>>
clientVars == <<at, req>>
vars == <<alive, sock, files, threadVars, clientVars, conn, got>>

Labels == {"none", "recv", "error", "close", "open", "data", "done"}

\* What clients are sent: pieces of an answer, each with the thread that sends it.
Parts == {"400", "error text", "200 html", "200 plain"} \cup {File[i] : i \in DOMAIN File}

Sendings == [part : Parts, by : Clients]

Pieces(c, parts) == [i \in DOMAIN parts |-> [part |-> parts[i], by |-> c]]

Header(kind) == [i \in 1 .. HeaderLines |-> kind]

ErrorParts == Header("400") \o <<"error text">>

OkParts(r) == Header(IF r.ext = "html" THEN "200 html" ELSE "200 plain") \o File

TypeOK ==
    /\ alive \in BOOLEAN
    /\ sock  \in [Handles -> Clients \cup {Free}]
    /\ files \in 0 .. MaxFiles
    /\ pc    \in [Clients -> Labels]
    /\ hnd   \in [Clients -> Handles]
    /\ job   \in [Clients -> Texts]
    /\ why   \in [Clients -> {"none", "no HTTP", "method", "no file"}]
    /\ todo  \in [Clients -> Seq(Sendings)]
    /\ at    \in [Clients -> {"idle", "connected", "sent", "read", "gone"}]
    /\ req   \in [Clients -> Texts]
    /\ conn  \in [Clients -> {"none", "backlog", "open", "closed"}]
    /\ got   \in [Clients -> Seq(Sendings)]

Init ==
    /\ alive = TRUE
    /\ sock  = [h \in Handles |-> Free]
    /\ files = 0
    /\ pc    = [c \in Clients |-> "none"]
    /\ hnd   = [c \in Clients |-> CHOOSE h \in Handles : TRUE]
    /\ job   = [c \in Clients |-> NoText]
    /\ why   = [c \in Clients |-> "none"]
    /\ todo  = [c \in Clients |-> <<>>]
    /\ at    = [c \in Clients |-> "idle"]
    /\ req   = [c \in Clients |-> NoText]
    /\ conn  = [c \in Clients |-> "none"]
    /\ got   = [c \in Clients |-> <<>>]

-----------------------------------------------------------------------------
(* The clients. *)

Connect(c) ==
    /\ at[c] = "idle"
    /\ at' = [at EXCEPT ![c] = "connected"]
    /\ conn' = [conn EXCEPT ![c] = "backlog"]
    /\ UNCHANGED <<sock, files, threadVars, req, got>>

SendRequest(c) ==
    /\ at[c] = "connected"
    /\ \E r \in Requests[c] : req' = [req EXCEPT ![c] = r]
    /\ at' = [at EXCEPT ![c] = "sent"]
    /\ UNCHANGED <<sock, files, threadVars, conn, got>>

\* The client gives up before it has sent anything.
Leave(c) ==
    /\ c \in Leavers /\ at[c] = "connected"
    /\ at' = [at EXCEPT ![c] = "gone"]
    /\ UNCHANGED <<sock, files, threadVars, req, conn, got>>

-----------------------------------------------------------------------------
(* What the system does for a thread. *)

\* closesocket on the handle of thread c.
CloseSocket(c) ==
    /\ conn' = [d \in Clients |-> IF sock[hnd[c]] = d THEN "closed" ELSE conn[d]]
    /\ sock' = [sock EXCEPT ![hnd[c]] = Free]

Goto(c, l) == pc' = [pc EXCEPT ![c] = l]

\* SendErrorMSG, called for reason w.
AnswerError(c, w) ==
    /\ Goto(c, "error")
    /\ why' = [why EXCEPT ![c] = w]
    /\ todo' = [todo EXCEPT ![c] = Pieces(c, ErrorParts)]

-----------------------------------------------------------------------------
(* The server. *)

Accept(c) ==
    /\ conn[c] = "backlog"
    /\ \E h \in Handles :
          /\ sock[h] = Free
          /\ sock' = [sock EXCEPT ![h] = c]
          /\ hnd' = [hnd EXCEPT ![c] = h]
    /\ conn' = [conn EXCEPT ![c] = "open"]
    /\ Goto(c, "recv")
    /\ UNCHANGED <<files, job, why, todo, clientVars, got>>

\* Lines 77-88.
Judge(c, r) ==
    /\ job' = [job EXCEPT ![c] = r]
    /\ \/ ~r.http /\ AnswerError(c, "no HTTP")
       \/ r.http /\ ~r.get /\ AnswerError(c, "method")
       \/ r.http /\ r.get /\ Goto(c, "open") /\ UNCHANGED <<why, todo>>

\* recv takes the request of whoever owns the handle; without data, at the end
\* of the stream or with a handle closed by another thread, the buffer holds
\* no "HTTP/".
Recv(c) ==
    /\ pc[c] = "recv"
    /\ \/ \E d \in Clients :
             /\ sock[hnd[c]] = d /\ at[d] = "sent"
             /\ at' = [at EXCEPT ![d] = "read"]
             /\ Judge(c, req[d])
       \/ /\ \/ sock[hnd[c]] = Free \/ conn[c] = "closed"
             \/ \E d \in Clients : sock[hnd[c]] = d /\ at[d] = "gone"
          /\ Judge(c, NoText)
          /\ UNCHANGED at
    /\ UNCHANGED <<sock, files, hnd, req, conn, got>>

\* send: it fails when the handle is no socket, which nobody looks at.
SendPiece(c) ==
    /\ pc[c] \in {"error", "data"} /\ todo[c] # <<>>
    /\ got' = [d \in Clients |-> IF sock[hnd[c]] = d THEN Append(got[d], Head(todo[c])) ELSE got[d]]
    /\ todo' = [todo EXCEPT ![c] = Tail(@)]
    /\ UNCHANGED <<sock, files, pc, hnd, job, why, clientVars, conn>>

\* The close of SendErrorMSG.  After the answer to another method the handler
\* goes on to SendData.
ErrClose(c) ==
    /\ pc[c] = "error" /\ todo[c] = <<>>
    /\ CloseSocket(c)
    /\ Goto(c, CASE why[c] = "no HTTP" -> "close"
                 [] why[c] = "method"  -> "open"
                 [] why[c] = "no file" -> "done")
    /\ UNCHANGED <<files, hnd, job, why, todo, clientVars, got>>

\* ContentType ends the process when the file name has no extension.
Crash(c) ==
    /\ pc[c] = "open" /\ job[c].ext = "none"
    /\ alive' = FALSE
    /\ UNCHANGED <<sock, files, threadVars, clientVars, conn, got>>

\* Mutated form: a missing file is answered, and then closed once more.
Open_twice(c) ==
    /\ pc[c] = "open" /\ job[c].ext # "none"
    /\ \/ /\ job[c].there /\ files < MaxFiles
          /\ files' = files + 1
          /\ Goto(c, "data")
          /\ todo' = [todo EXCEPT ![c] = Pieces(c, OkParts(job[c]))]
          /\ UNCHANGED why
       \/ /\ ~job[c].there \/ files = MaxFiles
          /\ AnswerError(c, "no HTTP")
          /\ UNCHANGED files
    /\ UNCHANGED <<sock, hnd, job, clientVars, conn, got>>

\* fopen, which fails when no stream is left.  The stream is never closed.
Open(c) ==
    /\ pc[c] = "open" /\ job[c].ext # "none"
    /\ \/ /\ job[c].there /\ files < MaxFiles
          /\ files' = files + 1
          /\ Goto(c, "data")
          /\ todo' = [todo EXCEPT ![c] = Pieces(c, OkParts(job[c]))]
          /\ UNCHANGED why
       \/ /\ ~job[c].there \/ files = MaxFiles
          /\ AnswerError(c, "no file")
          /\ UNCHANGED files
    /\ UNCHANGED <<sock, hnd, job, clientVars, conn, got>>

\* Mutated form: the connection is left open.
Close_open(c) ==
    /\ pc[c] \in {"data", "close"} /\ todo[c] = <<>>
    /\ Goto(c, "done")
    /\ UNCHANGED <<sock, conn, files, hnd, job, why, todo, clientVars, got>>

\* The close that ends SendData, or the second one of line 80.
Close(c) ==
    /\ pc[c] \in {"data", "close"} /\ todo[c] = <<>>
    /\ CloseSocket(c)
    /\ Goto(c, "done")
    /\ UNCHANGED <<files, hnd, job, why, todo, clientVars, got>>

-----------------------------------------------------------------------------

Handler(c) ==
    \/ Crash(c)
    \/ /\ Recv(c) \/ SendPiece(c) \/ ErrClose(c) \/ Open(c) \/ Close(c)
       /\ UNCHANGED alive

Client(c) == (Connect(c) \/ SendRequest(c) \/ Leave(c)) /\ UNCHANGED alive

Next ==
    /\ alive
    /\ \E c \in Clients : Handler(c) \/ Client(c) \/ (Accept(c) /\ UNCHANGED alive)

Spec == Init /\ [][Next]_vars

\* The main thread accepts in order of arrival, every thread runs, and a
\* connected client sends a request or leaves.
Fairness ==
    \A c \in Clients :
       /\ WF_vars(alive /\ Handler(c))
       /\ WF_vars(alive /\ Accept(c) /\ UNCHANGED alive)
       /\ WF_vars(alive /\ (SendRequest(c) \/ Leave(c)) /\ UNCHANGED alive)

FairSpec == Spec /\ Fairness

-----------------------------------------------------------------------------
(* Properties. *)

\* A request that the handler ends with more uses of a handle than it owns.
Bad(r) == ~r.http \/ ~r.get

OkAnswer(c) == Pieces(c, OkParts(req[c]))

ErrorAnswer(c) == Pieces(c, ErrorParts)

\* The answers due to c: the file if it can be had, and else the error.
Answers(c) ==
    IF ~Bad(req[c]) /\ req[c].there
    THEN {OkAnswer(c)} \cup (IF files = MaxFiles THEN {ErrorAnswer(c)} ELSE {})
    ELSE {ErrorAnswer(c)}

\* What c has received is its own answer or a part of it, all of it once the
\* server has closed the connection.
Proper(c) ==
    /\ \E a \in Answers(c) : IsPrefix(got[c], a)
    /\ conn[c] = "closed" => got[c] \in Answers(c)

\* What goes wrong with a connection was done by the thread of another client
\* whose handle had the same number and whose request was no GET: whatever the
\* order in which handles are closed and used again, GETs do no harm, and harm
\* stays with the handle it began with.
HarmByHandle ==
    \A d \in Clients : Proper(d) \/
       \E c \in Clients \ {d} : pc[c] \notin {"none", "recv"} /\ Bad(job[c]) /\ hnd[c] = hnd[d]

\* Every client that has sent a request is answered and its connection closed,
\* in any order of the threads, unless some thread has had a request that is no
\* GET or the process has ended.
Harmless == alive /\ \A c \in Clients : pc[c] \in {"none", "recv"} \/ ~Bad(job[c])

GetsAnswered ==
    \A c \in Clients : at[c] = "sent" ~> ~Harmless \/ (conn[c] = "closed" /\ got[c] \in Answers(c))
=============================================================================
