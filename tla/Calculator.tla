------------------------------ MODULE Calculator ------------------------------
(***************************************************************************)
(* The calculator (Op_client_win.cpp, Op_server_win.cpp): a client sends a *)
(* count byte, that many operands of OpSz bytes, and one operator byte; the *)
(* server collects them from a stream that arrives in pieces of any size   *)
(* and returns the result.  It serves NServe clients one after the other.  *)
(*                                                                         *)
(* Byte p after the count byte of client c is <<c, p>>; the server's buffer *)
(* is not cleared between clients.  A result that depends on other bytes   *)
(* than the operands is Junk.                                              *)
(***************************************************************************)
EXTENDS Integers, Sequences, SequencesExt, FiniteSets

CONSTANTS
    Clients,
    Abandoners,   \* the clients that may be ended, or entered nonsense, before they send
    Nobody,       \* no client is being served
    NServe,       \* clients the server serves (5)
    Values,       \* the operands a user may enter
    MaxOps,       \* the most operands that fit the buffers (255)
    OpSz,         \* OPSZ
    Half          \* 2^(w-1) for an int of w bits

Operators == {"+", "-", "*", "?"}
\* What a client has been sent.
None == [kind |-> "none", val |-> 0]
Junk == [kind |-> "junk", val |-> 0]
Number(v) == [kind |-> "number", val |-> v]

VARIABLES
    req,       \* req[c]: the operands and operator that client c has sent
    at,        \* at[c]: where client c is
    arrived,   \* arrived[c]: how many of its bytes have reached the server
    got,       \* got[c]: how many of them the server has received
    result,    \* result[c]: what has been sent to c
    srv,       \* where the server is
    cur,       \* the client it serves
    served,    \* the clients accepted
    opndCnt, recvLen,
    opinfo     \* the buffer, opinfo[0] its first byte

clientVars == <<req, at>>
serverVars == <<got, result, srv, cur, served, opndCnt, recvLen, opinfo>>
vars == <<clientVars, arrived, serverVars>>

BufSize == MaxOps * OpSz + 1

Ints == -Half .. Half - 1

NoReq == [vals |-> <<>>, op |-> "?"]

\* Bytes of a request after the count byte.
Body(c) == Len(req[c].vals) * OpSz + 1

TypeOK ==
    /\ \A c \in Clients : req[c].vals \in Seq(Values) /\ req[c].op \in Operators
    /\ at      \in [Clients -> {"idle", "user", "wait", "mute", "gone", "end"}]
    /\ arrived \in [Clients -> 0 .. BufSize + 1]
    /\ got     \in [Clients -> 0 .. BufSize + 1]
    /\ \A c \in Clients : result[c] \in {None, Junk} \cup {Number(v) : v \in Ints}
    /\ srv     \in {"accept", "count", "body", "trapped", "exit"}
    /\ cur     \in Clients \cup {Nobody}
    /\ served  \subseteq Clients /\ Cardinality(served) <= NServe
    /\ opndCnt \in 0 .. MaxOps
    /\ recvLen \in 0 .. BufSize
    /\ opinfo  \in [0 .. BufSize - 1 -> (Clients \cup {Nobody}) \X (0 .. BufSize)]

Init ==
    /\ req     = [c \in Clients |-> NoReq]
    /\ at      = [c \in Clients |-> "idle"]
    /\ arrived = [c \in Clients |-> 0]
    /\ got     = [c \in Clients |-> 0]
    /\ result  = [c \in Clients |-> None]
    /\ srv     = "accept"
    /\ cur     = Nobody
    /\ served  = {}
    /\ opndCnt = 0
    /\ recvLen = 0
    /\ opinfo  = [p \in 0 .. BufSize - 1 |-> <<Nobody, 0>>]

-----------------------------------------------------------------------------
(* The clients, and the network. *)

Connect(c) ==
    /\ at[c] = "idle"
    /\ at' = [at EXCEPT ![c] = IF srv = "exit" THEN "end" ELSE "user"]
    /\ UNCHANGED <<req, arrived, serverVars>>

\* The request is entered and sent with one call.
Send(c) ==
    /\ at[c] = "user"
    /\ \E n \in 0 .. MaxOps, op \in Operators :
          \E vals \in [1 .. n -> Values] : req' = [req EXCEPT ![c] = [vals |-> vals, op |-> op]]
    /\ at' = [at EXCEPT ![c] = "wait"]
    /\ UNCHANGED <<arrived, serverVars>>

\* The client is ended while its user is asked for input.
Abandon(c) ==
    /\ c \in Abandoners /\ at[c] = "user"
    /\ at' = [at EXCEPT ![c] = "gone"]
    /\ UNCHANGED <<req, arrived, serverVars>>

\* A count below 0 is entered: send refuses the length, and the client waits
\* for a result all the same.
Negative(c) ==
    /\ c \in Abandoners /\ at[c] = "user"
    /\ at' = [at EXCEPT ![c] = "mute"]
    /\ UNCHANGED <<req, arrived, serverVars>>

\* The result arrives, or the server has ended without it.
Receive(c) ==
    /\ at[c] \in {"wait", "mute"}
    /\ result[c] # None \/ (srv = "exit" /\ c \notin served)
    /\ at' = [at EXCEPT ![c] = "end"]
    /\ UNCHANGED <<req, arrived, serverVars>>

Arrive(c) ==
    /\ at[c] = "wait"
    /\ \E n \in arrived[c] + 1 .. Body(c) + 1 : arrived' = [arrived EXCEPT ![c] = n]
    /\ UNCHANGED <<clientVars, serverVars>>

-----------------------------------------------------------------------------
(* The server. *)

Accept(c) ==
    /\ srv = "accept" /\ c \notin served /\ at[c] # "idle"
    /\ cur' = c
    /\ served' = served \cup {c}
    /\ opndCnt' = 0 /\ recvLen' = 0
    /\ srv' = "count"
    /\ UNCHANGED <<clientVars, arrived, got, result, opinfo>>

\* accept fails, which nobody looks at: the count stays 0, and the loop of
\* lines 59-63 waits for an operator from no socket.
AcceptFails ==
    /\ srv = "accept"
    /\ opndCnt' = 0 /\ recvLen' = 0
    /\ srv' = "trapped"
    /\ UNCHANGED <<clientVars, arrived, got, result, cur, served, opinfo>>

\* recv of the count byte; at the end of the stream the count stays 0.
RecvCount ==
    /\ srv = "count"
    /\ \/ /\ arrived[cur] > 0
          /\ opndCnt' = Len(req[cur].vals)
          /\ got' = [got EXCEPT ![cur] = 1]
       \/ /\ at[cur] = "gone"
          /\ UNCHANGED <<opndCnt, got>>
    /\ srv' = "body"
    /\ UNCHANGED <<clientVars, arrived, result, cur, served, recvLen, opinfo>>

\* Mutated form: the operator is not waited for.
Complete_noOp == opndCnt * OpSz <= recvLen

\* The condition of line 59 has become false.
Complete == opndCnt * OpSz + 1 <= recvLen

\* recv appends what is there.  After the end of the stream it returns 0 for
\* ever, or -1, and the loop has no way out: the server stays where it is.
RecvBody ==
    /\ srv = "body" /\ ~Complete
    /\ \E k \in 1 .. arrived[cur] - got[cur] :
          /\ opinfo' = [p \in DOMAIN opinfo |->
                IF p \in recvLen .. recvLen + k - 1 THEN <<cur, got[cur] + p - recvLen>> ELSE opinfo[p]]
          /\ recvLen' = recvLen + k
          /\ got' = [got EXCEPT ![cur] = @ + k]
    /\ UNCHANGED <<clientVars, arrived, result, srv, cur, served, opndCnt>>

\* Two's complement wrap-around of an int.
Wrapped(x) == ((x + Half) % (2 * Half)) - Half

Apply(op, x, y) ==
    CASE op = "+" -> Wrapped(x + y)
      [] op = "-" -> Wrapped(x - y)
      [] op = "*" -> Wrapped(x * y)
      [] op = "?" -> x

\* calculate: the other operands are applied to the first, from the left.
Calculate(vals, op) ==
    LET r[i \in 1 .. Len(vals)] == IF i = 1 THEN vals[1] ELSE Apply(op, r[i - 1], vals[i])
    IN  r[Len(vals)]

\* The bytes that the server takes for the operands and the operator are the
\* operands of its client in their order, and its operator.
InPlace ==
    /\ \A p \in 1 .. opndCnt * OpSz : opinfo[p - 1] = <<cur, p>>
    /\ opinfo[recvLen - 1] = <<cur, opndCnt * OpSz + 1>>

\* Without operands the result is four bytes of whatever is in the buffer.
Reply ==
    /\ srv = "body" /\ Complete
    /\ result' = [result EXCEPT ![cur] =
          IF opndCnt > 0 /\ InPlace
          THEN Number(Calculate(req[cur].vals, req[cur].op))
          ELSE Junk]
    /\ cur' = Nobody
    /\ srv' = IF Cardinality(served) < NServe THEN "accept" ELSE "exit"
    /\ UNCHANGED <<clientVars, arrived, got, served, opndCnt, recvLen, opinfo>>

-----------------------------------------------------------------------------

Client(c) == Connect(c) \/ Send(c) \/ Abandon(c) \/ Negative(c) \/ Receive(c)

Server == AcceptFails \/ RecvCount \/ RecvBody \/ Reply \/ \E c \in Clients : Accept(c)

Next == Server \/ \E c \in Clients : Client(c) \/ Arrive(c)

Spec == Init /\ [][Next]_vars

\* Programs run, the network delivers, and users answer the questions.
Fairness ==
    /\ WF_vars(Server)
    /\ \A c \in Clients : WF_vars(Arrive(c)) /\ WF_vars(Connect(c) \/ Send(c) \/ Receive(c))

FairSpec == Spec /\ Fairness

-----------------------------------------------------------------------------
(* Properties. *)

\* When the loop of lines 59-63 ends, the buffer holds the request of this
\* client, nothing of an earlier one and no byte too few, however the stream
\* was cut into pieces; the last byte is the operator.
Framed ==
    srv = "body" /\ Complete =>
       /\ recvLen = Body(cur) /\ got[cur] = Body(cur) + 1
       /\ \A p \in 1 .. recvLen : opinfo[p - 1] = <<cur, p>>

\* The result is that of the arithmetic on unbounded integers, wrapped once.
Exact(vals, op) ==
    LET first == Head(vals)
        rest  == Tail(vals)
    IN  CASE op = "+" -> FoldLeft(LAMBDA x, y : x + y, first, rest)
          [] op = "-" -> first - FoldLeft(LAMBDA x, y : x + y, 0, rest)
          [] op = "*" -> FoldLeft(LAMBDA x, y : x * y, first, rest)
          [] op = "?" -> first

ResultRight ==
    \A c \in Clients :
       result[c] # None /\ req[c].vals # <<>> =>
          result[c] = Number(Wrapped(Exact(req[c].vals, req[c].op)))

\* Each client that is accepted gets a result, unless some client was ended
\* before it had sent its request, or never sends one: the server then waits
\* for it for ever.
NoneWaits ==
    \A c \in Clients :
       c \in served => result[c] # None \/ \E d \in Clients : at[d] \in {"gone", "mute"}

Answered == []<>NoneWaits
=============================================================================
