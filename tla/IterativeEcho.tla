----------------------------- MODULE IterativeEcho -----------------------------
(***************************************************************************)
(* The iterative echo server (echo_server_win.cpp), which serves a fixed   *)
(* number of clients one after the other, and its two clients: the simple  *)
(* one (Echo_client_win.cpp) takes one recv for the whole echo, the stable *)
(* one (StableEchoClnt.cpp) receives until it has as much as it sent.      *)
(*                                                                         *)
(* A stream is the number of bytes in it, since TCP keeps their order.     *)
(* Clients still in the backlog when the server ends are reset.            *)
(***************************************************************************)
EXTENDS Integers, FiniteSets

CONSTANTS
    Simple, Stable,   \* the clients of the two kinds
    Nobody,           \* no client is being served
    NServe,           \* clients the server serves (5)
    MsgMax,           \* longest message
    Rounds            \* bound: messages a user enters

Clients == Simple \cup Stable

VARIABLES
    peer,     \* peer[c]: what the client's end has done; "cut" by the server
    at,       \* at[c]: is the client at its prompt or in recv
    rounds,   \* rounds[c]: messages entered
    sent,     \* sent[c]: bytes sent by the client
    due,      \* due[c]: bytes the client expects in this round
    nread,    \* nread[c]: bytes of the echo received by the client
    out,      \* out[c]: bytes sent back by the server
    got,      \* got[c]: bytes received by the server
    srv,      \* where the server is
    cur,      \* the client it serves
    served,   \* the clients accepted
    len       \* string_length

clientVars == <<at, rounds, sent, due, nread>>
serverVars == <<out, got, srv, cur, served, len>>
vars == <<peer, clientVars, serverVars>>

TypeOK ==
    /\ peer   \in [Clients -> {"idle", "up", "fin", "rst", "cut"}]
    /\ at     \in [Clients -> {"prompt", "recv", "end"}]
    /\ rounds \in [Clients -> 0 .. Rounds]
    /\ sent   \in [Clients -> 0 .. Rounds * MsgMax]
    /\ due    \in [Clients -> 0 .. MsgMax]
    /\ nread  \in [Clients -> 0 .. Rounds * MsgMax]
    /\ out    \in [Clients -> 0 .. Rounds * MsgMax]
    /\ got    \in [Clients -> 0 .. Rounds * MsgMax]
    /\ srv    \in {"accept", "recv", "send", "close", "exit"}
    /\ cur    \in Clients \cup {Nobody}
    /\ served \subseteq Clients /\ Cardinality(served) <= NServe
    /\ len    \in -1 .. Rounds * MsgMax

Init ==
    /\ peer   = [c \in Clients |-> "idle"]
    /\ at     = [c \in Clients |-> "prompt"]
    /\ rounds = [c \in Clients |-> 0]
    /\ sent   = [c \in Clients |-> 0]
    /\ due    = [c \in Clients |-> 0]
    /\ nread  = [c \in Clients |-> 0]
    /\ out    = [c \in Clients |-> 0]
    /\ got    = [c \in Clients |-> 0]
    /\ srv    = "accept"
    /\ cur    = Nobody
    /\ served = {}
    /\ len    = 0

-----------------------------------------------------------------------------
(* The clients. *)

\* connect; it fails, and the client ends, once the listener is gone.
Connect(c) ==
    /\ peer[c] = "idle" /\ at[c] = "prompt"
    /\ IF srv = "exit"
       THEN at' = [at EXCEPT ![c] = "end"] /\ UNCHANGED peer
       ELSE peer' = [peer EXCEPT ![c] = "up"] /\ UNCHANGED at
    /\ UNCHANGED <<rounds, sent, due, nread, serverVars>>

\* A message is entered and sent.
Send(c) ==
    /\ at[c] = "prompt" /\ peer[c] \in {"up", "cut"} /\ rounds[c] < Rounds
    /\ \E n \in 1 .. MsgMax :
          /\ due' = [due EXCEPT ![c] = n]
          /\ sent' = IF peer[c] = "up" THEN [sent EXCEPT ![c] = @ + n] ELSE sent
    /\ rounds' = [rounds EXCEPT ![c] = @ + 1]
    /\ at' = [at EXCEPT ![c] = "recv"]
    /\ UNCHANGED <<peer, nread, serverVars>>

\* The one recv of the simple client: whatever has arrived ends the round.
SimpleRecv(c) ==
    /\ c \in Simple /\ at[c] = "recv" /\ peer[c] = "up"
    /\ \E k \in 1 .. out[c] - nread[c] : nread' = [nread EXCEPT ![c] = @ + k]
    /\ due' = [due EXCEPT ![c] = 0]
    /\ at' = [at EXCEPT ![c] = "prompt"]
    /\ UNCHANGED <<peer, rounds, sent, serverVars>>

\* Mutated form: one recv is enough for the stable client, too.
StableRecv_once(c) ==
    /\ c \in Stable /\ at[c] = "recv" /\ peer[c] = "up"
    /\ \E k \in 1 .. out[c] - nread[c] : nread' = [nread EXCEPT ![c] = @ + k]
    /\ due' = [due EXCEPT ![c] = 0]
    /\ at' = [at EXCEPT ![c] = "prompt"]
    /\ UNCHANGED <<peer, rounds, sent, serverVars>>

\* The loop of the stable client, until readLen reaches strLen.
StableRecv(c) ==
    /\ c \in Stable /\ at[c] = "recv" /\ peer[c] = "up"
    /\ \E k \in 1 .. out[c] - nread[c] :
          /\ nread' = [nread EXCEPT ![c] = @ + k]
          /\ due' = [due EXCEPT ![c] = IF k < @ THEN @ - k ELSE 0]
          /\ at' = [at EXCEPT ![c] = IF k < due[c] THEN "recv" ELSE "prompt"]
    /\ UNCHANGED <<peer, rounds, sent, serverVars>>

\* recv returns -1 on a connection that is gone.  The simple client writes in
\* front of its buffer, and goes on or crashes; the stable one stays in its
\* loop for ever.
RecvCut(c) ==
    /\ c \in Simple /\ at[c] = "recv" /\ peer[c] = "cut"
    /\ \E next \in {"prompt", "end"} : at' = [at EXCEPT ![c] = next]
    /\ UNCHANGED <<peer, rounds, sent, due, nread, serverVars>>

\* "q": the socket is closed; with echo unread this resets the connection.
Quit(c) ==
    /\ at[c] = "prompt" /\ peer[c] \in {"up", "cut"}
    /\ peer' = [peer EXCEPT ![c] =
          IF @ = "cut" THEN @ ELSE IF nread[c] < out[c] THEN "rst" ELSE "fin"]
    /\ at' = [at EXCEPT ![c] = "end"]
    /\ UNCHANGED <<rounds, sent, due, nread, serverVars>>

-----------------------------------------------------------------------------
(* The server. *)

Accept(c) ==
    /\ srv = "accept" /\ Cardinality(served) < NServe
    /\ c \notin served /\ peer[c] # "idle"
    /\ cur' = c
    /\ served' = served \cup {c}
    /\ srv' = "recv"
    /\ UNCHANGED <<peer, clientVars, out, got, len>>

\* The server has ended, and with it the connections nobody has accepted.
Exit ==
    /\ srv' = "exit"
    /\ peer' = [c \in Clients |-> IF c \notin served /\ peer[c] = "up" THEN "cut" ELSE peer[c]]

\* accept fails, which ends the server.
AcceptFails ==
    /\ srv = "accept"
    /\ Exit
    /\ UNCHANGED <<clientVars, out, got, cur, served, len>>

\* Mutated form: a client that has quit is given up with input unread.
Recv_early ==
    /\ srv = "recv"
    /\ \/ /\ peer[cur] # "rst"
          /\ \E k \in 1 .. sent[cur] - got[cur] :
                got' = [got EXCEPT ![cur] = @ + k] /\ len' = k
          /\ srv' = "send"
       \/ /\ peer[cur] = "fin"
          /\ len' = 0
          /\ srv' = "close"
          /\ UNCHANGED got
    /\ UNCHANGED <<peer, clientVars, out, cur, served>>

\* recv: some bytes, 0 at the end of the stream, or -1 after a reset, which
\* the loop does not take for an end.
Recv ==
    /\ srv = "recv"
    /\ \/ /\ peer[cur] # "rst"
          /\ \E k \in 1 .. sent[cur] - got[cur] :
                got' = [got EXCEPT ![cur] = @ + k] /\ len' = k
          /\ srv' = "send"
       \/ /\ peer[cur] = "fin" /\ got[cur] = sent[cur]
          /\ len' = 0
          /\ srv' = "close"
          /\ UNCHANGED got
       \/ /\ peer[cur] = "rst"
          /\ len' = -1
          /\ srv' = "send"
          /\ UNCHANGED got
    /\ UNCHANGED <<peer, clientVars, out, cur, served>>

\* send: data for a client that has quit is answered by a reset.
SendBack ==
    /\ srv = "send"
    /\ IF len > 0 /\ peer[cur] = "up"
       THEN out' = [out EXCEPT ![cur] = @ + len] /\ UNCHANGED peer
       ELSE /\ peer' = IF len > 0 THEN [peer EXCEPT ![cur] = "rst"] ELSE peer
            /\ UNCHANGED out
    /\ srv' = "recv"
    /\ UNCHANGED <<clientVars, got, cur, served, len>>

\* The socket is closed.  After the last client the server ends.
Close ==
    /\ srv = "close"
    /\ cur' = Nobody
    /\ \/ /\ Cardinality(served) < NServe
          /\ srv' = "accept"
          /\ UNCHANGED peer
       \/ /\ Cardinality(served) = NServe
          /\ Exit
    /\ UNCHANGED <<clientVars, out, got, served, len>>

-----------------------------------------------------------------------------

Receive(c) == SimpleRecv(c) \/ StableRecv(c) \/ RecvCut(c)

Client(c) == Connect(c) \/ Send(c) \/ Receive(c) \/ Quit(c)

Server == AcceptFails \/ Recv \/ SendBack \/ Close \/ \E c \in Clients : Accept(c)

Next == Server \/ \E c \in Clients : Client(c)

Spec == Init /\ [][Next]_vars

\* Programs run, and a user connects, has a last message, and enters q.
Fairness ==
    /\ WF_vars(Server)
    /\ \A c \in Clients : WF_vars(Connect(c)) /\ WF_vars(Receive(c)) /\ WF_vars(Quit(c))

FairSpec == Spec /\ Fairness

-----------------------------------------------------------------------------
(* Properties. *)

\* At the prompt a stable client has the whole echo of all it has sent, also
\* when it came in pieces, and nothing is on its way (lines 61-70).
StableComplete ==
    \A c \in Stable : at[c] = "prompt" /\ peer[c] = "up" => nread[c] = sent[c] /\ out[c] = sent[c]

\* Clients are served strictly one after the other: nothing of a client is
\* echoed before its turn, and a client whose turn is over has quit, with all
\* that it sent received unless it reset.
OneAtATime ==
    \A c \in Clients :
       /\ c \notin served => out[c] = 0
       /\ c \in served \ {cur} =>
             peer[c] = "rst" \/ (peer[c] = "fin" /\ got[c] = sent[c])

\* The server comes to its end if as many clients come as it serves and none of
\* them resets: a stable client never keeps it from that.
Finished ==
    Cardinality(Clients) >= NServe => srv = "exit" \/ \E c \in Simple : peer[c] = "rst"

ServerEnds == <>Finished
=============================================================================
