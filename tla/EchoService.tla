----------------------------- MODULE EchoService -----------------------------
(***************************************************************************)
(* What an echo server of this repository promises its clients.  It is the *)
(* abstract specification that IocpEcho and ComplRoutineEcho are checked   *)
(* against.                                                                *)
(*                                                                         *)
(* Byte i of the stream a client sends is represented by the number i, so  *)
(* a correct reply is always the sequence 1, 2, ..., k: nothing invented,  *)
(* lost, duplicated or reordered.  A server may drop a connection only     *)
(* after its client has left.                                              *)
(***************************************************************************)
EXTENDS Naturals, Sequences

CONSTANTS
    Clients,
    MayHalt    \* may the server's process end?

VARIABLES
    asked,      \* asked[c]: number of bytes client c has sent so far
    reply,      \* reply[c]: the bytes the server has sent back to c
    phase       \* phase[c]: is c here, has it left, or is it served no more

vars == <<asked, reply, phase>>

Phases == {"here", "left", "gone"}

TypeOK ==
    /\ asked \in [Clients -> Nat]
    /\ reply \in [Clients -> Seq(Nat \ {0})]
    /\ phase \in [Clients -> Phases]

\* The stream bytes from+1 .. to.
Bytes(from, to) == [i \in 1 .. (to - from) |-> from + i]

Init ==
    /\ asked = [c \in Clients |-> 0]
    /\ reply = [c \in Clients |-> <<>>]
    /\ phase = [c \in Clients |-> "here"]

\* The client sends more bytes.
Ask(c) ==
    /\ phase[c] = "here"
    /\ asked'[c] \in Nat /\ asked'[c] > asked[c]
    /\ asked' = [asked EXCEPT ![c] = asked'[c]]
    /\ UNCHANGED <<reply, phase>>

\* The client says that it will send nothing more.
Leave(c) ==
    /\ phase[c] = "here"
    /\ phase' = [phase EXCEPT ![c] = "left"]
    /\ UNCHANGED <<asked, reply>>

\* The client breaks the connection off.
Abort(c) ==
    /\ phase[c] # "gone"
    /\ phase' = [phase EXCEPT ![c] = "gone"]
    /\ UNCHANGED <<asked, reply>>

\* The server sends back some of the bytes it still owes, the oldest first.
Echo(c) ==
    /\ \E n \in (Len(reply[c]) + 1) .. asked[c] :
          reply' = [reply EXCEPT ![c] = @ \o Bytes(Len(@), n)]
    /\ UNCHANGED <<asked, phase>>

\* The server closes a connection whose client has left.
Drop(c) ==
    /\ phase[c] = "left"
    /\ phase' = [phase EXCEPT ![c] = "gone"]
    /\ UNCHANGED <<asked, reply>>

\* The process of the server ends, and with it every connection.
Halt ==
    /\ MayHalt
    /\ phase' = [c \in Clients |-> "gone"]
    /\ UNCHANGED <<asked, reply>>

Next == Halt \/ \E c \in Clients : Ask(c) \/ Leave(c) \/ Abort(c) \/ Echo(c) \/ Drop(c)

\* While the connection stands the server must answer.
OwedEcho(c) == phase[c] # "gone" /\ Echo(c)

Safety == Init /\ [][Next]_vars

Spec == Safety /\ \A c \in Clients : WF_vars(OwedEcho(c))
=============================================================================
