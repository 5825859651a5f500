--------------------------- MODULE SocketSuiteProofs ---------------------------
(***************************************************************************)
(* Proofs about the programs of SocketSuite, for any clients, files, sizes *)
(* and messages that its assumptions allow.                                *)
(*                                                                         *)
(* A step of the suite is a step of one program and leaves the variables   *)
(* of the others alone, so that what every step of a program preserves is  *)
(* preserved by the suite.                                                 *)
(***************************************************************************)
EXTENDS SocketSuite, FiniteSetTheorems, SequenceTheorems, WellFoundedInduction, TLAPS

LEMMA SuiteSteps == ASSUME [SuiteNext]_suiteVars
                    PROVE  /\ [Echo!Next]_(Echo!vars)
                           /\ [Calc!Next]_(Calc!vars)
                           /\ [File!Next]_(File!vars)
                           /\ [Over!Next]_(Over!vars)
                           /\ [Oob!Next]_(Oob!vars)
                           /\ [Paper!Next]_(Paper!vars)
<1> USE DEF echoVars, calcVars, fileVars, overVars, oobVars, newsVars,
            Echo!vars, Echo!clientVars, Echo!serverVars, Calc!vars, Calc!clientVars,
            Calc!serverVars, File!vars, File!sVars, File!cVars, Over!vars,
            Oob!vars, Oob!recvVars, Paper!vars
<1>1. CASE InEcho(Echo!Next)
    BY <1>1 DEF InEcho
<1>2. CASE InCalc(Calc!Next)
    BY <1>2 DEF InCalc
<1>3. CASE InFile(File!Next)
    BY <1>3 DEF InFile
<1>4. CASE InOver(Over!Next)
    BY <1>4 DEF InOver
<1>5. CASE InOob(Oob!Next)
    BY <1>5 DEF InOob
<1>6. CASE InNews(Paper!Next)
    BY <1>6 DEF InNews
<1>7. CASE UNCHANGED suiteVars
    BY <1>7 DEF suiteVars
<1> QED
    BY <1>1, <1>2, <1>3, <1>4, <1>5, <1>6, <1>7 DEF SuiteNext

-----------------------------------------------------------------------------
(* The half-close file transfer.  The thank-you is the last link of a      *)
(* chain: the server shuts its output down only when all of the file is    *)
(* sent, the client sees the end of the stream only when it has stored all *)
(* that was sent, and what it stores on a broken connection it never       *)
(* thanks for, because a broken connection has no end.                     *)

FileCounts == hSize \in Nat /\ hSent \in 0 .. hSize /\ hStored \in 0 .. hSent

\* The end of the stream means the end of the file.
WholeAtEnd ==
    /\ hSPc \in {"shutdown", "recv", "end"} => hSent = hSize
    /\ hFin => hSPc \in {"recv", "end"}

\* Garbage is written only on a connection that has no end any more.
GarbageLate == hSpoilt => hConn \in {"broken", "refused"}

\* What the client has done when it is through its loop.
Through ==
    /\ hCPc = "connect" => hConn = "none"
    /\ hCPc # "connect" => hConn # "none"
    /\ hCPc \in {"thank", "end"} => hStored = hSize /\ hFin /\ ~hSpoilt

\* Only then is there a thank-you to be heard.
Heard == (hThanked # 0 \/ hHeard # 0) => hCPc = "end"

FileInv == FileCounts /\ WholeAtEnd /\ GarbageLate /\ Through /\ Heard

LEMMA FileInitial == File!Init => FileInv
    BY FileAssumption DEF File!Init, FileInv, FileCounts, WholeAtEnd, GarbageLate, Through, Heard

LEMMA FileServerStep == ASSUME FileInv, File!Server PROVE FileInv'
<1> USE DEF FileInv, FileCounts, WholeAtEnd, GarbageLate, Through, Heard
<1>1. CASE File!Accept
    BY <1>1 DEF File!Accept, File!cVars
<1>2. CASE File!SendBlock
    BY <1>2, FileAssumption DEF File!SendBlock, File!Least, File!cVars
<1>3. CASE File!Shutdown
    BY <1>3 DEF File!Shutdown, File!cVars
<1>4. CASE File!RecvThanks
  <2>1. hThanked = 0 => hHeard' = hHeard
      BY <1>4 DEF File!RecvThanks
  <2> QED
      BY <1>4, <2>1 DEF File!RecvThanks, File!cVars
<1> QED
    BY <1>1, <1>2, <1>3, <1>4 DEF File!Server

LEMMA FileClientStep == ASSUME FileInv, File!Client PROVE FileInv'
<1> USE DEF FileInv, FileCounts, WholeAtEnd, GarbageLate, Through, Heard
<1>1. CASE File!Connect
    BY <1>1 DEF File!Connect, File!sVars
<1>2. CASE File!RecvBlock
    BY <1>2, FileAssumption DEF File!RecvBlock, File!Least, File!sVars
<1>3. CASE File!RecvEnd
    BY <1>3 DEF File!RecvEnd, File!sVars
<1>4. CASE File!RecvFails
    BY <1>4 DEF File!RecvFails, File!sVars
<1>5. CASE File!Thank
    BY <1>5 DEF File!Thank, File!sVars
<1> QED
    BY <1>1, <1>2, <1>3, <1>4, <1>5 DEF File!Client

LEMMA FileInductive == ASSUME FileInv, [File!Next]_(File!vars) PROVE FileInv'
<1>1. CASE File!Break
    BY <1>1 DEF File!Break, File!sVars, File!cVars, FileInv, FileCounts, WholeAtEnd, GarbageLate,
                Through, Heard
<1>2. CASE UNCHANGED File!vars
    BY <1>2 DEF File!vars, File!sVars, File!cVars, FileInv, FileCounts, WholeAtEnd, GarbageLate,
                Through, Heard
<1> QED
    BY <1>1, <1>2, FileServerStep, FileClientStep DEF File!Next

\* The inductive invariant of the file transfer.
THEOREM FileInvariance == SuiteSpec => []FileInv
<1>1. SuiteInit => FileInv
    BY FileInitial DEF SuiteInit
<1>2. FileInv /\ [SuiteNext]_suiteVars => FileInv'
    BY SuiteSteps, FileInductive
<1> QED
    BY <1>1, <1>2, PTL DEF SuiteSpec

\* The thank-you acknowledges the whole file and nothing else, whatever the
\* length of the file and of the blocks (lines 42-48 of Half_close_client.cpp).
THEOREM ThanksForAll == SuiteSpec => []ThanksMeanStored
<1>1. FileInv => ThanksMeanStored
    BY DEF FileInv, FileCounts, Through, Heard, ThanksMeanStored, File!ThanksMeanStored
<1> QED
    BY FileInvariance, <1>1, PTL

-----------------------------------------------------------------------------
(* The overlapped pair: whoever has an operation pending waits for it, and *)
(* nobody posts a second one.                                              *)

OverInv ==
    /\ vSOp = "pending" => vSPc = "wait"
    /\ vROp = "pending" => vRPc = "wait"
    /\ vSPc \in {"connect", "post"} => vSOp = "none"
    /\ vRPc \in {"accept", "post"} => vROp = "none"
    /\ vRPc # "end" => vPrinted = -1

LEMMA OverInductive == ASSUME OverInv, [Over!Next]_(Over!vars) PROVE OverInv'
<1> USE DEF OverInv
<1>1. CASE Over!Break \/ Over!SendCompletes \/ Over!RecvCompletes
    BY <1>1 DEF Over!Break, Over!SendCompletes, Over!RecvCompletes
<1>2. CASE Over!Sender
    BY <1>2 DEF Over!Sender, Over!Connect, Over!PostSend, Over!WaitSend, Over!CloseSend
<1>3. CASE Over!Accept
    BY <1>3 DEF Over!Accept
<1>4. CASE Over!PostRecv
    BY <1>4 DEF Over!PostRecv
<1>5. CASE Over!WaitRecv \/ Over!ShowBuf
    BY <1>5 DEF Over!WaitRecv, Over!ShowBuf
<1>6. CASE UNCHANGED Over!vars
    BY <1>6 DEF Over!vars
<1> QED
    BY <1>1, <1>2, <1>3, <1>4, <1>5, <1>6 DEF Over!Next, Over!Receiver

\* main neither uses its buffer nor returns while an operation is under way
\* (lines 57-75 of OverlappedRecv_win.cpp).
THEOREM FramesOutlive == SuiteSpec => []FramesOutliveOperations
<1>1. SuiteInit => OverInv
    BY DEF SuiteInit, Over!Init, OverInv
<1>2. OverInv /\ [SuiteNext]_suiteVars => OverInv'
    BY SuiteSteps, OverInductive
<1>3. OverInv => FramesOutliveOperations
    BY DEF OverInv, FramesOutliveOperations, Over!FramesOutliveOperations
<1> QED
    BY <1>1, <1>2, <1>3, PTL DEF SuiteSpec

-----------------------------------------------------------------------------
(* The out-of-band pair.  A byte is urgent or in the stream for good once  *)
(* it has arrived, and a select that finds the end of the stream finds the *)
(* last urgent byte as well, unless that has been read.                    *)

Sent == IF oSends = 0 THEN 0 ELSE Oob!Ends[oSends]

OobTypeOK ==
    /\ oConn \in {"up", "closed", "broken"} /\ oSends \in 0 .. 4
    /\ oMarked \subseteq {4, 10}
    /\ oArrived \in 0 .. Sent /\ oAt \in 0 .. oArrived
    /\ oOob \in {0, 4, 10} /\ oOob <= oArrived
    /\ oPc \in {"select", "except", "read", "end", "crashed"}
    /\ oReady \subseteq {"read", "except"}

\* What has been printed, and what waits.
Printed ==
    /\ oConn = "closed" => oSends = 4
    /\ oSends = 4 => 10 \in oMarked
    /\ oOob # 0 => oOob \in oMarked
    /\ oUrgent \subseteq oMarked \cap 1 .. oArrived
    /\ oInline \cap oMarked = {}
    /\ oInline \subseteq 1 .. oAt /\ 1 .. oAt \subseteq oInline \cup oMarked
    /\ oArrived = 10 => oOob = 10 \/ 10 \in oUrgent

\* What a select has found still holds when its results are used.
Found ==
    /\ oPc = "except" /\ "except" \in oReady => oOob # 0
    /\ oPc \in {"except", "read"} /\ "read" \in oReady /\ Oob!Unread = {} /\ oConn # "broken" =>
          /\ oConn = "closed" /\ oArrived = 10
          /\ 10 \in oUrgent \/ (oPc = "except" /\ "except" \in oReady /\ oOob = 10)
    /\ oPc = "end" => oSends = 4 /\ 10 \in oUrgent /\ 1 .. 10 \subseteq oInline \cup oMarked

OobInv == OobTypeOK /\ Printed /\ Found

LEMMA FourSends == /\ Oob!Ends \in [1 .. 4 -> Nat] /\ Len(Oob!Ends) = 4 /\ DOMAIN Oob!Ends = 1 .. 4
                   /\ Oob!Ends[1] = 3 /\ Oob!Ends[2] = 4 /\ Oob!Ends[3] = 7 /\ Oob!Ends[4] = 10
    BY DEF Oob!Ends

LEMMA OobMax == ASSUME NEW x \in {0, 4, 10}, NEW S, S \subseteq {4, 10}
                PROVE  /\ Oob!Max({x} \cup S) \in {x} \cup S
                       /\ \A y \in {x} \cup S : Oob!Max({x} \cup S) >= y
<1>1. \E m \in {x} \cup S : \A y \in {x} \cup S : m >= y
  <2>1. CASE 10 \in S
      BY <2>1
  <2>2. CASE 10 \notin S /\ 4 \in S /\ x # 10
      BY <2>2
  <2>3. CASE 10 \notin S /\ (4 \notin S \/ x = 10)
      BY <2>3
  <2> QED BY <2>1, <2>2, <2>3
<1> QED BY <1>1 DEF Oob!Max

LEMMA OobSend == ASSUME OobInv, Oob!Send PROVE OobInv'
<1> USE FourSends DEF OobInv, OobTypeOK, Oob!Send, Oob!recvVars
<1>1. PICK s \in 0 .. 3 : s = oSends /\ oSends' = s + 1 /\ oSends < 4
    OBVIOUS
<1>2. /\ Sent = (IF s = 0 THEN 0 ELSE Oob!Ends[s]) /\ Sent' = Oob!Ends[s + 1]
      /\ oArrived < Oob!Ends[s + 1]
    BY <1>1 DEF Sent
<1>3. /\ oMarked' \subseteq {4, 10} /\ (s = 3 => 10 \in oMarked')
      /\ \A p \in 0 .. oArrived : p \in oMarked' <=> p \in oMarked
  <2>1. CASE s + 1 \in Oob!Urgent
    <3>1. PICK old \in {oMarked, {p \in oMarked : p <= oArrived}} : oMarked' = old \cup {Oob!Ends[s + 1]}
        BY <1>1, <2>1
    <3>2. CASE s = 1
      <4>1. Oob!Ends[s + 1] = 4
          BY <3>2
      <4> QED BY <1>2, <3>1, <3>2, <4>1
    <3>3. CASE s = 3
      <4>1. Oob!Ends[s + 1] = 10
          BY <3>3
      <4> QED BY <1>2, <3>1, <3>3, <4>1
    <3> QED BY <2>1, <3>2, <3>3 DEF Oob!Urgent
  <2>2. CASE s + 1 \notin Oob!Urgent
    <3>1. oMarked' = oMarked /\ s # 3
        BY <1>1, <2>2 DEF Oob!Urgent
    <3> QED BY <3>1
  <2> QED BY <2>1, <2>2
<1>4. OobTypeOK'
  <2>1. Sent <= Sent'
    <3>1. s \in {0, 1, 2, 3}
        OBVIOUS
    <3> QED BY <1>2, <3>1
  <2> QED BY <1>1, <1>2, <1>3, <2>1
<1>5. Printed'
  <2>1. \A p \in {oOob} \cup 1 .. oArrived : p \in oMarked' <=> p \in oMarked
      BY <1>3
  <2>2. oSends' = 4 => 10 \in oMarked'
      BY <1>1, <1>3
  <2>3. oConn' # "closed"
      OBVIOUS
  <2>4. 1 .. oAt \subseteq 1 .. oArrived
      OBVIOUS
  <2>5. oInline \cap oMarked' = {} /\ 1 .. oAt \subseteq oInline \cup oMarked'
      BY <2>1, <2>4 DEF Printed
  <2>6. oUrgent \subseteq oMarked' \cap 1 .. oArrived
      BY <2>1 DEF Printed
  <2>7. oOob # 0 => oOob \in oMarked'
      BY <2>1 DEF Printed
  <2> QED BY <2>2, <2>3, <2>5, <2>6, <2>7 DEF Printed
<1>6. Found'
  <2>1. Oob!Unread' = Oob!Unread
      BY <1>3 DEF Oob!Unread
  <2> QED BY <1>1, <2>1 DEF Found
<1> QED
    BY <1>4, <1>5, <1>6

LEMMA OobArrive == ASSUME OobInv, Oob!Arrive PROVE OobInv'
<1> USE DEF OobInv, OobTypeOK, Oob!Arrive, Oob!recvVars
<1>1. PICK k \in oArrived + 1 .. Oob!Sent :
         oArrived' = k /\ oOob' = Oob!Max({oOob} \cup (oMarked \cap (oArrived + 1 .. k)))
    OBVIOUS
<1>2. /\ Oob!Sent = Sent /\ Sent' = Sent /\ k \in 0 .. Sent /\ k > oArrived
      /\ oMarked' = oMarked /\ oReady' = oReady /\ oPc' = oPc /\ oConn' = oConn /\ oConn # "broken"
  <2>1. Oob!Sent = Sent /\ Sent' = Sent
      BY DEF Oob!Sent, Sent
  <2>2. Sent \in Int /\ oArrived \in Nat
    <3>1. \A s \in 1 .. 4 : Oob!Ends[s] \in Nat
        BY FourSends
    <3> QED BY <3>1 DEF Sent
  <2> QED BY <2>1, <2>2
<1>3. /\ oOob' \in {oOob} \cup (oMarked \cap (oArrived + 1 .. k))
      /\ \A y \in {oOob} \cup (oMarked \cap (oArrived + 1 .. k)) : oOob' >= y
    BY <1>1, OobMax
<1>4. OobTypeOK'
    BY <1>1, <1>2, <1>3
<1>5. Printed'
  <2>1. oArrived' = 10 => oOob' = 10 \/ 10 \in oUrgent
    <3> SUFFICES ASSUME oArrived' = 10 PROVE oOob' = 10
        OBVIOUS
    <3>1. oSends = 4 /\ k = 10
      <4>1. \A s \in 1 .. 3 : Oob!Ends[s] < 10
        <5>1. \A s \in 1 .. 3 : s = 1 \/ s = 2 \/ s = 3
            OBVIOUS
        <5> QED BY <5>1, FourSends
      <4> QED BY <1>1, <1>2, <4>1 DEF Sent
    <3>2. 10 \in oMarked \cap (oArrived + 1 .. k)
        BY <3>1, <1>2 DEF Printed
    <3>3. oOob' \in {0, 4, 10}
        BY <1>4
    <3>4. oOob' >= 10
        BY <1>3, <3>2
    <3> QED BY <3>3, <3>4
  <2>2. oOob' # 0 => oOob' \in oMarked
      BY <1>3 DEF Printed
  <2>3. 1 .. oArrived \subseteq 1 .. oArrived'
      BY <1>1, <1>2
  <2> QED BY <1>1, <1>2, <2>1, <2>2, <2>3 DEF Printed
<1>6. Found'
  <2>1. Oob!Unread \subseteq Oob!Unread'
      BY <1>1, <1>2 DEF Oob!Unread
  <2>2. oOob # 0 => oOob' # 0
      BY <1>3
  <2>3. oArrived # 10
    <3>1. k <= 10
      <4>1. \A s \in 1 .. 4 : Oob!Ends[s] <= 10
        <5>1. \A s \in 1 .. 4 : s = 1 \/ s = 2 \/ s = 3 \/ s = 4
            OBVIOUS
        <5> QED BY <5>1, FourSends
      <4> QED BY <1>2, <4>1, FourSends DEF Sent
    <3> QED BY <1>2, <3>1
  <2> QED BY <1>1, <1>2, <2>1, <2>2, <2>3 DEF Found
<1> QED
    BY <1>4, <1>5, <1>6

LEMMA OobSelect == ASSUME OobInv, Oob!Select PROVE OobInv'
<1> USE DEF OobInv, OobTypeOK, Oob!Select, Sent, Oob!Unread, Printed
<1>1. "except" \in oReady' <=> oOob # 0
    OBVIOUS
<1>2. "read" \in oReady' => Oob!Unread # {} \/ Oob!AtEnd \/ oConn = "broken"
    OBVIOUS
<1>3. Oob!AtEnd => oConn = "closed" /\ oArrived = 10
    BY FourSends DEF Oob!AtEnd
<1> QED
    BY <1>1, <1>2, <1>3 DEF Found

LEMMA OobExcept == ASSUME OobInv, Oob!Except PROVE OobInv'
<1> USE DEF OobInv, OobTypeOK, Oob!Except, Oob!RecvFails, Sent, Oob!Unread
<1>1. CASE "except" \in oReady /\ oConn # "broken"
  <2>1. /\ oUrgent' = oUrgent \cup {oOob} /\ oOob' = 0 /\ oPc' = "read" /\ oOob # 0
        /\ UNCHANGED <<oAt, oInline, oConn, oSends, oMarked, oArrived, oReady>>
      BY <1>1 DEF Found
  <2>2. oOob \in 1 .. oArrived /\ oOob \in oMarked
      BY <2>1 DEF Printed
  <2>3. OobTypeOK' /\ Printed'
      BY <2>1, <2>2 DEF Printed
  <2>4. Found'
      BY <1>1, <2>1 DEF Found
  <2> QED BY <2>3, <2>4
<1>2. CASE "except" \in oReady /\ oConn = "broken"
    BY <1>2 DEF Printed, Found
<1>3. CASE "except" \notin oReady
    BY <1>3 DEF Printed, Found
<1> QED
    BY <1>1, <1>2, <1>3

LEMMA OobRead == ASSUME OobInv, Oob!Read PROVE OobInv'
<1> USE DEF OobInv, OobTypeOK, Oob!Read, Oob!RecvFails, Sent
<1>1. ASSUME NEW p \in Oob!Unread, oConn # "broken", oAt' = p, oPc' = "select",
             oInline' = oInline \cup {q \in Oob!Unread : q <= p}, UNCHANGED <<oUrgent, oOob>>
      PROVE  OobInv'
  <2>1. p \in oAt + 1 .. oArrived /\ p \notin oMarked
      BY <1>1 DEF Oob!Unread
  <2>2. OobTypeOK' /\ Found'
      BY <1>1, <2>1 DEF Found
  <2>3. oInline' \cap oMarked = {} /\ oInline' \subseteq 1 .. p
    <3>1. \A q \in Oob!Unread : q \in oAt + 1 .. oArrived /\ q \notin oMarked
        BY DEF Oob!Unread
    <3>2. oInline \subseteq 1 .. p
        BY <2>1 DEF Printed
    <3>3. {q \in Oob!Unread : q <= p} \subseteq 1 .. p
      <4>1. oAt \in Nat /\ p \in Nat
          BY <2>1
      <4>2. ASSUME NEW q \in Oob!Unread, q <= p PROVE q \in 1 .. p
          BY <3>1, <4>1, <4>2
      <4> QED BY <4>2
    <3> QED BY <1>1, <3>1, <3>2, <3>3 DEF Printed
  <2>4. 1 .. p \subseteq oInline' \cup oMarked
    <3> SUFFICES ASSUME NEW q \in 1 .. p PROVE q \in oInline' \cup oMarked
        OBVIOUS
    <3>1. q \in 1 .. oAt \/ q \in oAt + 1 .. oArrived
        BY <2>1
    <3>2. CASE q \in 1 .. oAt
        BY <1>1, <3>2 DEF Printed
    <3>3. CASE q \in oAt + 1 .. oArrived
        BY <1>1, <3>3 DEF Oob!Unread
    <3> QED BY <3>1, <3>2, <3>3
  <2> QED BY <1>1, <2>2, <2>3, <2>4 DEF Printed
<1>2. ASSUME Oob!AtEnd, "read" \in oReady, oPc' = "end", UNCHANGED <<oAt, oInline, oUrgent, oOob>>
      PROVE  OobInv'
  <2>1. Oob!Unread = {} /\ oConn = "closed" /\ oArrived = 10
      BY <1>2, FourSends DEF Oob!AtEnd
  <2>2. 10 \in oUrgent
      BY <1>2, <2>1 DEF Found
  <2>3. 1 .. 10 \subseteq oInline \cup oMarked
      BY <2>1 DEF Printed, Oob!Unread
  <2> QED BY <1>2, <2>1, <2>2, <2>3 DEF Printed, Found, Oob!Unread
<1>3. ASSUME oPc' \in {"select", "crashed"}, UNCHANGED <<oAt, oInline, oUrgent, oOob>> PROVE OobInv'
    BY <1>3 DEF Printed, Found
<1> QED
    BY <1>1, <1>2, <1>3

LEMMA OobInductive == ASSUME OobInv, [Oob!Next]_(Oob!vars) PROVE OobInv'
<1>1. CASE Oob!Close
    BY <1>1, FourSends DEF Oob!Close, Oob!recvVars, OobInv, OobTypeOK, Sent, Printed, Found, Oob!Unread
<1>2. CASE Oob!Break
    BY <1>2 DEF Oob!Break, Oob!recvVars, OobInv, OobTypeOK, Sent, Printed, Found, Oob!Unread
<1>3. CASE UNCHANGED Oob!vars
    BY <1>3 DEF Oob!vars, Oob!recvVars, OobInv, OobTypeOK, Sent, Printed, Found, Oob!Unread
<1> QED
    BY <1>1, <1>2, <1>3, OobSend, OobArrive, OobSelect, OobExcept, OobRead
    DEF Oob!Next, Oob!Sender, Oob!Receiver

\* The inductive invariant of the out-of-band pair.
THEOREM OobInvariance == SuiteSpec => []OobInv
<1>1. SuiteInit => OobInv
  <2>1. 1 .. 0 = {}
      OBVIOUS
  <2> QED BY <2>1 DEF SuiteInit, Oob!Init, OobInv, OobTypeOK, Sent, Printed, Found
<1>2. OobInv /\ [SuiteNext]_suiteVars => OobInv'
    BY SuiteSteps, OobInductive
<1> QED
    BY <1>1, <1>2, PTL DEF SuiteSpec

\* Urgent data are seen as urgent however late they arrive (line 67 of
\* oob_recv_win.cpp), and no byte is seen twice.
THEOREM UrgentSeen == SuiteSpec => []LastUrgentSeen
<1>1. OobInv => LastUrgentSeen
    BY DEF OobInv, OobTypeOK, Printed, Found, LastUrgentSeen, Oob!LastUrgentSeen
<1> QED
    BY OobInvariance, <1>1, PTL

-----------------------------------------------------------------------------
(* The iterative echo server.  What the client has, what has been sent     *)
(* back, what has been received and what has been sent follow each other.  *)

EchoTypeOK ==
    /\ iPeer   \in [Echo!Clients -> {"idle", "up", "fin", "rst", "cut"}]
    /\ iAt     \in [Echo!Clients -> {"prompt", "recv", "end"}]
    /\ iRounds \in [Echo!Clients -> Nat]
    /\ iSent   \in [Echo!Clients -> Nat]
    /\ iDue    \in [Echo!Clients -> Nat]
    /\ iNread  \in [Echo!Clients -> Nat]
    /\ iOut    \in [Echo!Clients -> Nat]
    /\ iGot    \in [Echo!Clients -> Nat]
    /\ iSrv    \in {"accept", "recv", "send", "close", "exit"}
    /\ iServed \subseteq Echo!Clients
    /\ iLen    \in Int

Streams ==
    \A c \in Echo!Clients : iNread[c] <= iOut[c] /\ iOut[c] <= iGot[c] /\ iGot[c] <= iSent[c]

\* The states that a connection can be in, with its client and the server.
Ends ==
    \A c \in Echo!Clients :
       /\ iPeer[c] = "idle" => iAt[c] # "recv" /\ iSent[c] = 0
       /\ iPeer[c] = "up" => iAt[c] # "end"
       /\ iPeer[c] \in {"fin", "rst"} => iAt[c] = "end"
       /\ iPeer[c] \in {"idle", "cut"} => c \notin iServed
       /\ iPeer[c] = "cut" => iSrv = "exit"
       /\ c \notin iServed => iGot[c] = 0

\* A stable client waits for as much of the echo as it does not have.
Waits ==
    \A c \in Stable : iPeer[c] \in {"idle", "up"} =>
       /\ iAt[c] = "prompt" => iNread[c] = iSent[c]
       /\ iAt[c] = "recv" => iNread[c] + iDue[c] = iSent[c]

\* The client being served, and those that have been.
Turns ==
    /\ iSrv \in {"accept", "exit"} => iCur = Nobody
    /\ iSrv \notin {"accept", "exit"} => iCur \in iServed
    /\ iSrv = "recv" /\ iPeer[iCur] = "up" => iOut[iCur] = iGot[iCur]
    /\ iSrv = "send" /\ iPeer[iCur] = "up" => iLen > 0 /\ iOut[iCur] + iLen = iGot[iCur]
    /\ iSrv = "close" => iPeer[iCur] = "fin" /\ iGot[iCur] = iSent[iCur]
    /\ \A c \in iServed \ {iCur} : iPeer[c] = "rst" \/ (iPeer[c] = "fin" /\ iGot[c] = iSent[c])

EchoInv == EchoTypeOK /\ Streams /\ Ends /\ Waits /\ Turns

LEMMA EchoClients == Stable \subseteq Echo!Clients /\ Nobody \notin Echo!Clients
    BY EchoAssumption DEF Echo!Clients

LEMMA EchoInitial == Echo!Init => EchoInv
    BY EchoClients DEF Echo!Init, EchoInv, EchoTypeOK, Streams, Ends, Waits, Turns

LEMMA EchoClientStep == ASSUME EchoInv, NEW c \in Echo!Clients, Echo!Client(c) PROVE EchoInv'
<1> USE EchoClients DEF EchoInv, EchoTypeOK, Echo!serverVars
<1>1. CASE Echo!Connect(c)
    BY <1>1 DEF Echo!Connect, Streams, Ends, Waits, Turns
<1>2. CASE Echo!Send(c)
  <2>1. PICK n \in 1 .. MsgMax :
           /\ iDue' = [iDue EXCEPT ![c] = n]
           /\ iSent' = IF iPeer[c] = "up" THEN [iSent EXCEPT ![c] = @ + n] ELSE iSent
      BY <1>2 DEF Echo!Send
  <2>2. n \in Nat \ {0}
      BY EchoAssumption
  <2>3. EchoTypeOK'
      BY <1>2, <2>1, <2>2 DEF Echo!Send
  <2>4. Streams' /\ Ends'
      BY <1>2, <2>1, <2>2 DEF Echo!Send, Streams, Ends
  <2>5. Waits'
      BY <1>2, <2>1, <2>2 DEF Echo!Send, Waits
  <2>6. Turns'
    <3>1. \A d \in iServed \ {iCur} : iSent'[d] = iSent[d]
        BY <1>2, <2>1, <2>2 DEF Echo!Send, Turns
    <3>2. iSrv = "close" => iSent'[iCur] = iSent[iCur]
        BY <1>2, <2>1, <2>2 DEF Echo!Send, Turns
    <3> QED BY <1>2, <3>1, <3>2 DEF Echo!Send, Turns
  <2> QED BY <2>3, <2>4, <2>5, <2>6
<1>3. CASE Echo!SimpleRecv(c)
  <2>1. PICK k \in 1 .. iOut[c] - iNread[c] : iNread' = [iNread EXCEPT ![c] = @ + k]
      BY <1>3 DEF Echo!SimpleRecv
  <2>2. c \notin Stable
      BY <1>3, EchoAssumption DEF Echo!SimpleRecv
  <2> QED BY <1>3, <2>1, <2>2 DEF Echo!SimpleRecv, Streams, Ends, Waits, Turns
<1>4. CASE Echo!StableRecv(c)
  <2>1. PICK k \in 1 .. iOut[c] - iNread[c] :
           /\ iNread' = [iNread EXCEPT ![c] = @ + k]
           /\ iDue' = [iDue EXCEPT ![c] = IF k < @ THEN @ - k ELSE 0]
           /\ iAt' = [iAt EXCEPT ![c] = IF k < iDue[c] THEN "recv" ELSE "prompt"]
      BY <1>4 DEF Echo!StableRecv
  <2>2. iNread[c] + iDue[c] = iSent[c] /\ k <= iDue[c]
      BY <1>4, <2>1 DEF Echo!StableRecv, Streams, Waits
  <2>3. EchoTypeOK'
      BY <1>4, <2>1 DEF Echo!StableRecv
  <2> QED BY <1>4, <2>1, <2>2, <2>3 DEF Echo!StableRecv, Streams, Ends, Waits, Turns
<1>5. CASE Echo!RecvCut(c)
    BY <1>5 DEF Echo!RecvCut, Streams, Ends, Waits, Turns
<1>6. CASE Echo!Quit(c)
    BY <1>6 DEF Echo!Quit, Streams, Ends, Waits, Turns
<1> QED
    BY <1>1, <1>2, <1>3, <1>4, <1>5, <1>6 DEF Echo!Client, Echo!Receive

LEMMA EchoServerStep == ASSUME EchoInv, Echo!Server PROVE EchoInv'
<1> USE EchoClients DEF EchoInv, EchoTypeOK, Echo!clientVars
<1>1. ASSUME NEW c \in Echo!Clients, Echo!Accept(c) PROVE EchoInv'
  <2>1. iPeer[c] # "cut" /\ iOut[c] = iGot[c] /\ iOut[c] = 0
      BY <1>1 DEF Echo!Accept, Streams, Ends
  <2> QED BY <1>1 DEF Echo!Accept, Streams, Ends, Waits, Turns
<1>2. CASE Echo!Recv
    BY <1>2 DEF Echo!Recv, Streams, Ends, Waits, Turns
<1>3. CASE Echo!SendBack
    BY <1>3 DEF Echo!SendBack, Streams, Ends, Waits, Turns
<1>4. CASE Echo!Close
    BY <1>4 DEF Echo!Close, Echo!Exit, Streams, Ends, Waits, Turns
<1>5. CASE Echo!AcceptFails
    BY <1>5 DEF Echo!AcceptFails, Echo!Exit, Streams, Ends, Waits, Turns
<1> QED
    BY <1>1, <1>2, <1>3, <1>4, <1>5 DEF Echo!Server

LEMMA EchoInductive == ASSUME EchoInv, [Echo!Next]_(Echo!vars) PROVE EchoInv'
<1>1. CASE UNCHANGED Echo!vars
    BY <1>1 DEF Echo!vars, Echo!clientVars, Echo!serverVars, EchoInv, EchoTypeOK, Streams, Ends, Waits, Turns
<1> QED
    BY <1>1, EchoClientStep, EchoServerStep DEF Echo!Next

\* The inductive invariant of the iterative echo server.
THEOREM EchoInvariance == SuiteSpec => []EchoInv
<1>1. SuiteInit => EchoInv
    BY EchoInitial DEF SuiteInit
<1>2. EchoInv /\ [SuiteNext]_suiteVars => EchoInv'
    BY SuiteSteps, EchoInductive
<1> QED
    BY <1>1, <1>2, PTL DEF SuiteSpec

\* A stable client that is back at its prompt has the echo of all that it has
\* sent, and nothing is on its way (lines 61-70 of StableEchoClnt.cpp).
THEOREM WholeEcho == SuiteSpec => []StableComplete
<1>1. EchoInv => StableComplete
    BY EchoClients DEF EchoInv, EchoTypeOK, Streams, Waits, StableComplete, Echo!StableComplete
<1> QED
    BY EchoInvariance, <1>1, PTL

\* The clients of the echo server are served strictly one after the other
\* (lines 56-75 of echo_server_win.cpp).
THEOREM OneByOne == SuiteSpec => []OneAtATime
<1>1. EchoInv => OneAtATime
    BY DEF EchoInv, EchoTypeOK, Streams, Ends, Turns, OneAtATime, Echo!OneAtATime
<1> QED
    BY EchoInvariance, <1>1, PTL

-----------------------------------------------------------------------------
(* The news.  What the buffer holds follows the last piece sent, or, when  *)
(* fgets came to the end of the file without reading anything, is that     *)
(* piece once more.                                                        *)

(* A set of naturals that is not empty has a least element.  The library   *)
(* says so only of properties given as operators; here it follows from the *)
(* fact that strict inclusion is well-founded on finite sets.              *)

LEMMA Least == ASSUME NEW S, S \subseteq Nat, S # {} PROVE \E m \in S : \A k \in S : m <= k
<1> DEFINE T == {1 .. n : n \in S}
           R == StrictSubsetOrdering(Nat)
<1>1. T \subseteq FiniteSubsetsOf(Nat)
  <2> SUFFICES ASSUME NEW n \in S PROVE (1 .. n) \in FiniteSubsetsOf(Nat)
      OBVIOUS
  <2>1. n \in Int /\ 1 \in Int
      OBVIOUS
  <2> QED BY <2>1, FS_Interval DEF FiniteSubsetsOf
<1>2. T # {}
    OBVIOUS
<1>3. IsWellFoundedOn(R, FiniteSubsetsOf(Nat))
    BY FS_StrictSubsetOrderingWellFounded
<1> HIDE DEF T, R
<1>4. \E x \in T : \A y \in T : ~ (<<y, x>> \in R)
    BY <1>1, <1>2, <1>3, WFMin
<1>5. PICK m \in S : \A y \in T : ~ (<<y, 1 .. m>> \in R)
    BY <1>4 DEF T
<1>6. ASSUME NEW k \in S, k < m PROVE FALSE
  <2>1. <<1 .. k, 1 .. m>> \notin R
      BY <1>5 DEF T
  <2>2. (1 .. k) \subseteq (1 .. m) /\ m \in 1 .. m /\ m \notin 1 .. k
      BY <1>6
  <2>3. (1 .. k) \in SUBSET Nat /\ (1 .. m) \in SUBSET Nat
      OBVIOUS
  <2> QED BY <2>1, <2>2, <2>3, Zenon DEF R, StrictSubsetOrdering
<1> QED
    BY <1>6

NewsTypeOK ==
    /\ nFile   \in Files
    /\ nPos    \in 0 .. nFile.length
    /\ nEof    \in BOOLEAN
    /\ nBuf    \in Int \X Int
    /\ nPieces \in Seq(Int \X Int)
    /\ nSender \in {"loop", "send", "end"}
    /\ nReceiver \in [Receivers -> {"away", "listening", "stopped"}]

\* Every piece has room in the buffer of a receiver, so that none stops.
Small ==
    /\ Paper!Span(nBuf) <= LineSize - 1
    /\ \A i \in 1 .. Len(nPieces) : Paper!Span(nPieces[i]) <= LineSize - 1
    /\ \A r \in Receivers : nReceiver[r] # "stopped"

\* Piece i begins where the piece before it ends.
Follows(i) == nPieces[i][1] = (IF i = 1 THEN 0 ELSE nPieces[i - 1][2])

Chained == \A i \in 1 .. Len(nPieces) : Follows(i)

Fresh == nBuf[1] = (IF nPieces = <<>> THEN 0 ELSE nPieces[Len(nPieces)][2])

Again == nPieces # <<>> /\ nBuf = nPieces[Len(nPieces)]

\* The last piece was sent twice.
Doubled ==
    \E n \in 1 .. Len(nPieces) :
       /\ n = Len(nPieces) /\ n > 1 /\ nPieces[n] = nPieces[n - 1]
       /\ \A i \in 1 .. n - 1 : Follows(i)

Read ==
    /\ nBuf[2] = nPos
    /\ nEof => nPos = nFile.length
    /\ nSender = "send" => Chained /\ (Fresh \/ (nEof /\ Again))
    /\ nSender # "send" => Again \/ (nPieces = <<>> /\ nPos = 0 /\ ~nEof)
    /\ nSender # "send" => Chained \/ (nEof /\ Doubled)
    /\ nSender = "end" => nEof

NewsInv == NewsTypeOK /\ (nFile.length > 0 => Small /\ Read)

\* Where fgets stops there is a newline, or no more room, or no more file.
LEMMA Stops ==
    ASSUME NewsTypeOK, nPos < nFile.length
    PROVE  /\ Paper!LineEnd \in nPos + 1 .. nFile.length
           /\ Paper!LineEnd <= nPos + LineSize - 1
           /\ \/ Paper!LineEnd \in nFile.newlines
              \/ Paper!LineEnd = nPos + LineSize - 1
              \/ Paper!LineEnd = nFile.length
<1> DEFINE stops == nFile.newlines \cup {nPos + LineSize - 1, nFile.length}
           ahead == {k \in stops : k > nPos}
<1>1. stops \subseteq Nat /\ nPos \in Nat /\ nPos < nPos + LineSize - 1
    BY NewsAssumption DEF NewsTypeOK
<1>2. PICK m \in ahead : \A k \in ahead : m <= k
  <2>1. ahead \subseteq Nat /\ nFile.length \in ahead
      BY <1>1
  <2> QED BY <2>1, Least
<1>3. Paper!LineEnd = CHOOSE k \in stops : k > nPos /\ \A j \in stops : j > nPos => k <= j
    BY Zenon DEF Paper!LineEnd
<1>4. \E k \in stops : k > nPos /\ \A j \in stops : j > nPos => k <= j
    BY <1>2
<1>5. Paper!LineEnd \in stops /\ Paper!LineEnd > nPos
         /\ \A j \in stops : j > nPos => Paper!LineEnd <= j
    BY <1>3, <1>4, Zenon
<1>6. Paper!LineEnd <= nFile.length /\ Paper!LineEnd <= nPos + LineSize - 1
  <2>1. nFile.length \in stops /\ nPos + LineSize - 1 \in stops
      OBVIOUS
  <2> QED BY <1>1, <1>5, <2>1
<1> QED
    BY <1>1, <1>5, <1>6 DEF NewsTypeOK

LEMMA NewsInitial == Paper!Init => NewsInv
<1> SUFFICES ASSUME Paper!Init PROVE NewsInv
    OBVIOUS
<1> USE NewsAssumption DEF Paper!Init, Paper!Nothing, Paper!Garbage
<1>1. nPieces \in Seq(Int \X Int) /\ Len(nPieces) = 0
    OBVIOUS
<1>2. NewsTypeOK
  <2>1. nBuf \in Int \X Int
    <3>1. CASE nFile.length = 0
        BY <3>1
    <3>2. CASE nFile.length # 0
        BY <3>2
    <3> QED BY <3>1, <3>2
  <2>2. nPos \in 0 .. nFile.length
      OBVIOUS
  <2> QED BY <1>1, <2>1, <2>2 DEF NewsTypeOK
<1>3. nFile.length > 0 => nBuf = <<0, 0>>
    OBVIOUS
<1> QED
    BY <1>1, <1>2, <1>3 DEF NewsInv, Small, Read, Chained, Again, Paper!Span

LEMMA FgetsStep == ASSUME NewsInv, Paper!Fgets PROVE NewsInv'
<1> USE NewsAssumption DEF NewsInv
<1>1. nSender = "loop" /\ UNCHANGED <<nFile, nPieces, nReceiver>>
    BY DEF Paper!Fgets
<1>2. CASE nEof /\ nSender' = "end" /\ UNCHANGED <<nPos, nEof, nBuf>>
  <2>1. NewsTypeOK'
    <3>1. NewsTypeOK
        OBVIOUS
    <3> QED BY ONLY <1>1, <1>2, <3>1 DEF NewsTypeOK
  <2>2. nFile.length > 0 => Small' /\ Read'
      BY <1>1, <1>2 DEF Small, Read, Chained, Follows, Doubled, Again
  <2> QED BY <1>1, <2>1, <2>2
<1>3. CASE ~nEof /\ nPos < nFile.length /\ nBuf' = <<nPos, Paper!LineEnd>> /\ nPos' = Paper!LineEnd
           /\ nEof' = (Paper!LineEnd \notin nFile.newlines /\ Paper!LineEnd < nPos + LineSize - 1)
           /\ nSender' = "send"
  <2> DEFINE to == Paper!LineEnd
  <2>1. /\ to \in nPos + 1 .. nFile.length /\ to <= nPos + LineSize - 1
        /\ to \in nFile.newlines \/ to = nPos + LineSize - 1 \/ to = nFile.length
      BY <1>3, Stops, Zenon
  <2>2. nBuf' = <<nPos, to>> /\ nPos' = to /\ nEof' = (to \notin nFile.newlines /\ to < nPos + LineSize - 1)
      BY <1>3
  <2> HIDE DEF to
  <2>3. NewsTypeOK'
      BY <1>1, <1>3, <2>1, <2>2 DEF NewsTypeOK
  <2>4. nPos \in Nat /\ LineSize \in Nat /\ to \in Nat /\ nFile.length \in Nat
      BY <2>1 DEF NewsTypeOK
  <2>5. nFile.length > 0 => Small'
      BY <1>1, <2>1, <2>2, <2>4 DEF Small, Paper!Span
  <2>6. nEof' => nPos' = nFile'.length
    <3>1. nEof' => to = nFile.length
      <4>1. nEof' => to \notin nFile.newlines /\ to < nPos + LineSize - 1
          BY ONLY <2>2, Zenon
      <4> QED BY ONLY <2>1, <2>4, <4>1
    <3> QED BY ONLY <1>1, <2>2, <3>1
  <2>7. nFile.length > 0 => Chained' /\ Fresh'
    <3> SUFFICES ASSUME nFile.length > 0 PROVE Chained' /\ Fresh'
        OBVIOUS
    <3>1. Chained
        BY <1>1, <1>3 DEF Read
    <3>2. Fresh'
        BY <1>1, <1>3, <2>2 DEF Read, Fresh, Again
    <3> QED BY <1>1, <3>1, <3>2 DEF Chained, Follows
  <2>8. nFile.length > 0 => Read'
      BY <1>3, <2>2, <2>6, <2>7 DEF Read
  <2> QED BY <1>1, <2>3, <2>5, <2>8
<1>4. CASE ~nEof /\ nPos = nFile.length /\ nEof' /\ nSender' = "send" /\ UNCHANGED <<nPos, nBuf>>
  <2>1. NewsTypeOK'
      BY <1>1, <1>4 DEF NewsTypeOK, Paper!Fgets
  <2>2. nFile.length > 0 => Small' /\ Read'
      BY <1>1, <1>4 DEF Small, Read, Chained, Follows, Again
  <2> QED BY <1>1, <2>1, <2>2
<1> QED
    BY <1>1, <1>2, <1>3, <1>4 DEF Paper!Fgets

LEMMA SendtoStep == ASSUME NewsInv, Paper!Sendto PROVE NewsInv'
<1> USE NewsAssumption DEF NewsInv
<1>1. nSender = "send" /\ nSender' = "loop" /\ nPieces' = Append(nPieces, nBuf)
         /\ UNCHANGED <<nFile, nPos, nEof, nBuf, nReceiver>>
    BY DEF Paper!Sendto
<1>2. PICK n \in Nat : n = Len(nPieces)
  <2>1. nPieces \in Seq(Int \X Int)
      BY DEF NewsTypeOK
  <2> QED BY ONLY <2>1
<1>3. /\ nPieces' \in Seq(Int \X Int) /\ Len(nPieces') = n + 1 /\ nPieces'[n + 1] = nBuf
      /\ \A i \in 1 .. n : nPieces'[i] = nPieces[i]
    BY <1>1, <1>2 DEF NewsTypeOK
<1>4. NewsTypeOK'
    BY <1>1, <1>3 DEF NewsTypeOK
<1> SUFFICES ASSUME nFile.length > 0 PROVE Small' /\ Read'
    BY <1>1, <1>4
<1>5. Small'
    BY <1>1, <1>2, <1>3 DEF Small
<1>6. \A i \in 1 .. n : nPieces'[i][1] = (IF i = 1 THEN 0 ELSE nPieces'[i - 1][2])
  <2> SUFFICES ASSUME NEW i \in 1 .. n PROVE nPieces'[i][1] = (IF i = 1 THEN 0 ELSE nPieces'[i - 1][2])
      OBVIOUS
  <2>1. nPieces[i][1] = (IF i = 1 THEN 0 ELSE nPieces[i - 1][2])
      BY <1>1, <1>2 DEF Read, Chained, Follows
  <2>2. i # 1 => i - 1 \in 1 .. n
      OBVIOUS
  <2> QED BY <1>3, <2>1, <2>2
<1>7. Again'
    BY <1>1, <1>2, <1>3, SMTT(30) DEF Again
<1>8. CASE Fresh
  <2>1. nPieces'[n + 1][1] = (IF n + 1 = 1 THEN 0 ELSE nPieces'[n + 1 - 1][2])
      BY <1>2, <1>3, <1>8 DEF Fresh, NewsTypeOK
  <2>2. Chained'
      BY <1>3, <1>6, <2>1 DEF Chained, Follows
  <2> QED BY <1>1, <1>5, <1>7, <2>2 DEF Read
<1>9. CASE nEof /\ Again
  <2>1. n > 0 /\ nPieces'[n + 1] = nPieces'[n]
      BY <1>2, <1>3, <1>9, SMTT(30) DEF Again, NewsTypeOK
  <2>2. Doubled'
      BY <1>3, <1>6, <2>1 DEF Doubled, Follows
  <2> QED BY <1>1, <1>5, <1>7, <1>9, <2>2 DEF Read
<1> QED
    BY <1>1, <1>8, <1>9 DEF Read

LEMMA ReceiverStep == ASSUME NewsInv, NEW r \in Receivers, Paper!Join(r) \/ Paper!Recvfrom(r) PROVE NewsInv'
<1> USE NewsAssumption DEF NewsInv
<1>1. UNCHANGED <<nFile, nPos, nEof, nBuf, nPieces, nSender>>
    BY DEF Paper!Join, Paper!Recvfrom
<1>2. NewsTypeOK'
    BY <1>1 DEF NewsTypeOK, Paper!Join, Paper!Recvfrom
<1>3. Small => Small'
  <2> SUFFICES ASSUME Small PROVE \A s \in Receivers : nReceiver'[s] # "stopped"
      BY <1>1 DEF Small
  <2>1. DOMAIN nPieces = 1 .. Len(nPieces)
      BY DEF NewsTypeOK
  <2>2. nReceiver' = [nReceiver EXCEPT ![r] = "listening"] \/ UNCHANGED nReceiver
      BY <2>1 DEF Paper!Join, Paper!Recvfrom, Small
  <2> QED BY <2>2 DEF NewsTypeOK, Small
<1>4. Read => Read'
    BY <1>1 DEF Read, Chained, Follows, Fresh, Again, Doubled
<1> QED
    BY <1>1, <1>2, <1>3, <1>4

LEMMA NewsInductive == ASSUME NewsInv, [Paper!Next]_(Paper!vars) PROVE NewsInv'
<1>1. CASE UNCHANGED Paper!vars
    BY <1>1 DEF Paper!vars, NewsInv, NewsTypeOK, Small, Read, Chained, Follows, Fresh, Again, Doubled
<1> QED
    BY <1>1, FgetsStep, SendtoStep, ReceiverStep DEF Paper!Next, Paper!Sender

\* The inductive invariant of the news.
THEOREM NewsInvariance == SuiteSpec => []NewsInv
<1>1. SuiteInit => NewsInv
    BY NewsInitial DEF SuiteInit
<1>2. NewsInv /\ [SuiteNext]_suiteVars => NewsInv'
    BY SuiteSteps, NewsInductive
<1> QED
    BY <1>1, <1>2, PTL DEF SuiteSpec

\* The pieces of a file that is not empty follow each other, are all of the
\* file at the end, and none is too long for a receiver (line 47 of
\* news_sender_win.cpp, line 50 of news_receiver_win.cpp).
THEOREM PiecesFollow == SuiteSpec => []NewsInOrder
<1>1. NewsInv => NewsInOrder
  <2> SUFFICES ASSUME NewsInv, nFile.length > 0 PROVE NewsInOrder
      BY DEF NewsInOrder, Paper!NewsInOrder
  <2> USE DEF NewsInv
  <2>1. DOMAIN nPieces = 1 .. Len(nPieces) /\ Len(nPieces) \in Nat
      BY DEF NewsTypeOK
  <2>2. \A r \in Receivers : nReceiver[r] # "stopped"
      BY DEF Small
  <2>3. \A i \in DOMAIN nPieces : Follows(i) \/ (i = Len(nPieces) /\ i > 1 /\ nPieces[i] = nPieces[i - 1])
    <3>1. CASE Chained
        BY <2>1, <3>1 DEF Chained
    <3>2. CASE Doubled
      <4>1. PICK n \in 1 .. Len(nPieces) :
               /\ n = Len(nPieces) /\ n > 1 /\ nPieces[n] = nPieces[n - 1]
               /\ \A i \in 1 .. n - 1 : Follows(i)
          BY <3>2 DEF Doubled
      <4>2. \A i \in 1 .. n : i \in 1 .. n - 1 \/ i = n
          BY <2>1
      <4> QED BY <2>1, <4>1, <4>2
    <3> QED BY <3>1, <3>2 DEF Read
  <2>4. nSender = "end" => nPieces[Len(nPieces)][2] = nFile.length
      BY DEF Read, Again
  <2> QED BY <2>2, <2>3, <2>4 DEF NewsInOrder, Paper!NewsInOrder, Follows
<1> QED
    BY NewsInvariance, <1>1, PTL

-----------------------------------------------------------------------------
(* The calculator's ints.  Wrapped adds a multiple of 2 * Half, and numbers *)
(* that differ by such a multiple are wrapped to the same int; that is why *)
(* it does not matter whether a sum, a difference or a product is wrapped  *)
(* at every step or once at the end.                                       *)

LEMMA Division == ASSUME NEW x \in Int, NEW m \in Nat \ {0}
                  PROVE  x = (x \div m) * m + (x % m) /\ x \div m \in Int /\ x % m \in 0 .. m - 1
    OBVIOUS

LEMMA Remainder == ASSUME NEW q \in Int, NEW m \in Nat \ {0}, NEW r \in 0 .. m - 1
                   PROVE  (q * m + r) % m = r
    OBVIOUS

LEMMA Distributive == ASSUME NEW a \in Int, NEW b \in Int, NEW m \in Int
                      PROVE  (a + b) * m = a * m + b * m /\ (a * b) * m = (a * m) * b
    OBVIOUS

LEMMA SameRemainder == ASSUME NEW x \in Int, NEW q \in Int, NEW m \in Nat \ {0}
                       PROVE  (x + q * m) % m = x % m
<1>1. PICK d \in Int : x = d * m + (x % m)
    BY Division
<1>2. PICK r \in 0 .. m - 1 : r = x % m
    BY Division
<1>3. PICK e \in Int : e = d + q
    OBVIOUS
<1>4. e * m = d * m + q * m
    BY <1>3, Distributive
<1>5. d * m \in Int /\ q * m \in Int /\ e * m \in Int
    OBVIOUS
<1>6. x + q * m = e * m + r
  <2>1. PICK dm \in Int, qm \in Int, em \in Int : dm = d * m /\ qm = q * m /\ em = e * m
      BY <1>5
  <2> QED BY <1>1, <1>2, <1>4, <2>1
<1> QED
    BY <1>2, <1>6, Remainder

Width == 2 * Half

LEMMA WidthType == Width \in Nat \ {0} /\ Half \in Nat \ {0}
    BY CalcAssumption DEF Width

\* x and y stand for the same int.
Same(x, y) == \E q \in Int : x = y + q * Width

LEMMA WrappedSame == ASSUME NEW x \in Int PROVE Calc!Wrapped(x) \in Calc!Ints /\ Same(Calc!Wrapped(x), x)
<1>1. PICK r \in 0 .. Width - 1, d \in Int : r = (x + Half) % Width /\ x + Half = d * Width + r
  <2>1. x + Half \in Int
      BY WidthType
  <2>2. \A a \in Int : /\ a = (a \div Width) * Width + (a % Width)
                      /\ a \div Width \in Int /\ a % Width \in 0 .. Width - 1
      BY WidthType, Division
  <2> QED BY <2>1, <2>2, Zenon
<1>2. Calc!Wrapped(x) = r - Half
    BY <1>1 DEF Calc!Wrapped, Width
<1>3. PICK dw \in Int : dw = d * Width
    BY WidthType
<1>4. (-d) * Width = -dw /\ -d \in Int
    BY <1>3, WidthType
<1>5. Calc!Wrapped(x) = x + (-d) * Width
  <2>1. x + Half = dw + r
      BY <1>1, <1>3
  <2>2. r - Half = x + (-dw)
      BY <2>1, WidthType
  <2> QED BY <1>2, <1>4, <2>2
<1>6. Calc!Wrapped(x) \in Calc!Ints
    BY <1>1, <1>2, WidthType DEF Calc!Ints, Width
<1> QED
    BY <1>4, <1>5, <1>6, Zenon DEF Same

LEMMA SameWrapped == ASSUME NEW x \in Int, NEW y \in Int, Same(x, y) PROVE Calc!Wrapped(x) = Calc!Wrapped(y)
<1>1. PICK q \in Int : x = y + q * Width
    BY DEF Same
<1>2. PICK qw \in Int : qw = q * Width
    BY WidthType
<1>3. x + Half = (y + Half) + q * Width
    BY <1>1, <1>2, WidthType
<1>4. (x + Half) % Width = (y + Half) % Width
  <2>1. y + Half \in Int
      BY WidthType
  <2>2. ((y + Half) + q * Width) % Width = (y + Half) % Width
      BY <2>1, WidthType, SameRemainder
  <2> QED BY <1>3, <2>2
<1> QED
    BY <1>4 DEF Calc!Wrapped, Width

LEMMA WrappedInt == ASSUME NEW x \in Calc!Ints PROVE Calc!Wrapped(x) = x
<1>1. x + Half \in 0 .. Width - 1
    BY WidthType DEF Calc!Ints, Width
<1>2. (0 * Width + (x + Half)) % Width = x + Half
    BY <1>1, WidthType, Remainder
<1>3. 0 * Width + (x + Half) = x + Half
    BY <1>1, WidthType
<1> QED
    BY <1>1, <1>2, <1>3, WidthType DEF Calc!Wrapped, Calc!Ints, Width

LEMMA SameArithmetic == ASSUME NEW x \in Int, NEW y \in Int, NEW z \in Int, Same(x, y)
                        PROVE  Same(x + z, y + z) /\ Same(x - z, y - z) /\ Same(x * z, y * z)
<1>1. PICK q \in Int : x = y + q * Width
    BY DEF Same
<1>2. PICK qw \in Int : qw = q * Width
    BY WidthType
<1>3. x + z = (y + z) + q * Width /\ x - z = (y - z) + q * Width
    BY <1>1, <1>2
<1>4. x * z = y * z + (q * z) * Width
  <2>1. x * z = y * z + qw * z
      BY <1>1, <1>2, Distributive
  <2>2. (q * z) * Width = (q * Width) * z
      BY WidthType, Distributive
  <2> QED BY <1>2, <2>1, <2>2
<1>5. q * z \in Int
    OBVIOUS
<1> QED
    BY <1>3, <1>4, <1>5, Zenon DEF Same

-----------------------------------------------------------------------------
(* The calculator's result.  A fold takes the elements of a sequence from  *)
(* the last one back, so that its value on a prefix follows from its value *)
(* on the prefix before it.                                                *)

Top(s) == CHOOSE x \in s : \A y \in s : x >= y

Adds(it, b, v, S) ==
    it = [s \in SUBSET S |-> IF s = {} THEN b ELSE it[s \ {Top(s)}] + v[Top(s)]]

Multiplies(it, b, v, S) ==
    it = [s \in SUBSET S |-> IF s = {} THEN b ELSE it[s \ {Top(s)}] * v[Top(s)]]

SumOf(b, v, S)     == CHOOSE it : Adds(it, b, v, S)
ProductOf(b, v, S) == CHOOSE it : Multiplies(it, b, v, S)

LEMMA TopOf == ASSUME NEW n \in Nat, NEW s \in SUBSET (1 .. n), s # {}
               PROVE  Top(s) \in s /\ \A y \in s : Top(s) >= y
<1> DEFINE N == {n - y : y \in s}
<1>1. N \subseteq Nat /\ N # {}
  <2>1. \A y \in s : y \in Int /\ y <= n
      OBVIOUS
  <2>2. \A y \in s : n - y \in Nat
      BY <2>1
  <2>3. N # {}
      OBVIOUS
  <2> QED BY <2>2, <2>3
<1>2. PICK m \in N : \A k \in N : m <= k
  <2> HIDE DEF N
  <2> QED BY <1>1, Least
<1>3. PICK x \in s : m = n - x
    BY <1>2
<1>4. \A y \in s : x >= y
  <2> SUFFICES ASSUME NEW y \in s PROVE x >= y
      OBVIOUS
  <2>1. n - y \in N
      OBVIOUS
  <2>2. n - x <= n - y
      BY <1>2, <1>3, <2>1
  <2> QED BY <2>2
<1> QED
    BY <1>4 DEF Top

LEMMA TopOfPrefix == ASSUME NEW n \in Nat, n > 0
                     PROVE  Top(1 .. n) = n /\ (1 .. n) \ {n} = 1 .. n - 1 /\ 1 .. n # {}
<1>1. n \in 1 .. n /\ 1 .. n # {}
    OBVIOUS
<1>2. Top(1 .. n) \in 1 .. n /\ Top(1 .. n) >= n
    BY <1>1, TopOf, Zenon
<1> QED
    BY <1>1, <1>2

\* There is a fold whose values are ints, for an operation G given as a
\* function: a fold on 1 .. m - 1 is extended by one element.
FoldsWith(it, G, b, v, S) ==
    /\ it \in [SUBSET S -> Int]
    /\ \A s \in SUBSET S : it[s] = IF s = {} THEN b ELSE G[<<it[s \ {Top(s)}], v[Top(s)]>>]

LEMMA FoldExists ==
    ASSUME NEW G \in [Int \X Int -> Int], NEW b \in Int, NEW n \in Nat, NEW v, \A i \in 1 .. n : v[i] \in Int
    PROVE  \E it : FoldsWith(it, G, b, v, 1 .. n)
<1> SUFFICES ASSUME \A it : ~ FoldsWith(it, G, b, v, 1 .. n) PROVE FALSE
    OBVIOUS
<1> DEFINE T == {m \in 0 .. n : \A it : ~ FoldsWith(it, G, b, v, 1 .. m)}
<1>1. T \subseteq Nat /\ T # {}
    OBVIOUS
<1> HIDE DEF T
<1>2. PICK m \in T : \A k \in T : m <= k
    BY <1>1, Least
<1>3. m \in 0 .. n /\ \A it : ~ FoldsWith(it, G, b, v, 1 .. m)
    BY DEF T
<1>4. CASE m = 0
  <2> DEFINE g == [s \in SUBSET (1 .. m) |-> b]
  <2>1. \A s \in SUBSET (1 .. m) : s = {}
      BY <1>4
  <2>2. g \in [SUBSET (1 .. m) -> Int]
      OBVIOUS
  <2>3. FoldsWith(g, G, b, v, 1 .. m)
      BY <2>1, <2>2 DEF FoldsWith
  <2> QED BY <1>3, <2>3
<1>5. CASE m > 0
  <2>1. m - 1 \in 0 .. n /\ m - 1 \notin T /\ m \in 1 .. n
      BY <1>2, <1>3, <1>5
  <2>2. PICK h : FoldsWith(h, G, b, v, 1 .. m - 1)
      BY <2>1 DEF T
  <2> DEFINE g == [s \in SUBSET (1 .. m) |-> IF m \in s THEN G[<<h[s \ {m}], v[m]>>] ELSE h[s]]
  <2>3. ASSUME NEW s \in SUBSET (1 .. m)
        PROVE  /\ s \ {m} \in SUBSET (1 .. m - 1) /\ h[s \ {m}] \in Int
               /\ m \in s => Top(s) = m
               /\ s # {} => Top(s) \in s
    <3>1. \A x \in s \ {m} : x \in 1 .. m - 1
        BY <2>1
    <3>2. s \ {m} \in SUBSET (1 .. m - 1)
        BY <3>1
    <3>3. h[s \ {m}] \in Int
        BY <2>2, <3>2 DEF FoldsWith
    <3>4. s # {} => Top(s) \in s /\ \A y \in s : Top(s) >= y
      <4>1. m \in Nat
          BY <1>3
      <4> QED BY <4>1, <2>3, TopOf, Zenon
    <3>5. m \in s => Top(s) = m
      <4>1. \A x \in s : x \in Int /\ x <= m
          BY <2>1
      <4>2. ASSUME m \in s PROVE Top(s) \in s /\ Top(s) >= m
          BY <3>4, <4>2
      <4>3. ASSUME m \in s PROVE Top(s) = m
        <5>1. Top(s) \in Int /\ Top(s) <= m /\ Top(s) >= m /\ m \in Int
            BY <2>1, <4>1, <4>2, <4>3, Zenon
        <5> QED BY <5>1
      <4> QED BY <4>3
    <3> QED BY <3>2, <3>3, <3>4, <3>5
  <2>4. g \in [SUBSET (1 .. m) -> Int]
    <3> SUFFICES ASSUME NEW s \in SUBSET (1 .. m)
                 PROVE  (IF m \in s THEN G[<<h[s \ {m}], v[m]>>] ELSE h[s]) \in Int
        OBVIOUS
    <3>1. v[m] \in Int /\ h[s \ {m}] \in Int
        BY <2>1, <2>3
    <3>2. m \notin s => s \ {m} = s
        OBVIOUS
    <3> QED BY <3>1, <3>2
  <2>5. ASSUME NEW s \in SUBSET (1 .. m)
        PROVE  g[s] = IF s = {} THEN b ELSE G[<<g[s \ {Top(s)}], v[Top(s)]>>]
    <3>1. CASE m \in s
      <4>1. g[s \ {m}] = h[s \ {m}]
          BY <2>3
      <4>2. Top(s) = m /\ s # {}
          BY <3>1, <2>3
      <4> QED BY <3>1, <4>1, <4>2
    <3>2. CASE m \notin s
      <4>1. s \in SUBSET (1 .. m - 1)
        <5>1. s \ {m} = s
            BY <3>2
        <5> QED BY <5>1, <2>3
      <4>2. h[s] = IF s = {} THEN b ELSE G[<<h[s \ {Top(s)}], v[Top(s)]>>]
          BY <2>2, <4>1 DEF FoldsWith
      <4>3. g[s \ {Top(s)}] = h[s \ {Top(s)}]
          BY <3>2
      <4> QED BY <3>2, <4>2, <4>3
    <3> QED BY <3>1, <3>2
  <2> HIDE DEF g
  <2>6. FoldsWith(g, G, b, v, 1 .. m)
      BY <2>4, <2>5, Zenon DEF FoldsWith
  <2> QED BY <1>3, <2>6
<1> QED
    BY <1>3, <1>4, <1>5

LEMMA AddsPrefixes ==
    ASSUME NEW b \in Int, NEW n \in Nat, NEW v, \A i \in 1 .. n : v[i] \in Int
    PROVE  /\ SumOf(b, v, 1 .. n)[1 .. 0] = b
           /\ \A j \in 1 .. n :
                 SumOf(b, v, 1 .. n)[1 .. j] = SumOf(b, v, 1 .. n)[1 .. j - 1] + v[j]
<1> DEFINE G == [p \in Int \X Int |-> p[1] + p[2]]
<1>1. PICK g : FoldsWith(g, G, b, v, 1 .. n)
  <2>1. G \in [Int \X Int -> Int]
      OBVIOUS
  <2> HIDE DEF G
  <2> QED BY <2>1, FoldExists
<1>2. \E g2 : Adds(g2, b, v, 1 .. n)
  <2>1. ASSUME NEW s \in SUBSET (1 .. n)
        PROVE  g[s] = IF s = {} THEN b ELSE g[s \ {Top(s)}] + v[Top(s)]
    <3>1. CASE s = {}
        BY <1>1, <3>1 DEF FoldsWith
    <3>2. CASE s # {}
      <4>1. v[Top(s)] \in Int
          BY <3>2, TopOf
      <4>2. g[s \ {Top(s)}] \in Int /\ g[s] = G[<<g[s \ {Top(s)}], v[Top(s)]>>]
          BY <1>1, <3>2 DEF FoldsWith
      <4> QED BY <3>2, <4>1, <4>2
    <3> QED BY <3>1, <3>2
  <2>2. DOMAIN g = SUBSET (1 .. n) /\ g = [s \in DOMAIN g |-> g[s]]
      BY <1>1 DEF FoldsWith
  <2>3. Adds(g, b, v, 1 .. n)
      BY <2>1, <2>2 DEF Adds
  <2> QED BY <2>3
<1>3. PICK it : it = SumOf(b, v, 1 .. n)
    OBVIOUS
<1>4. Adds(it, b, v, 1 .. n)
    BY <1>2, <1>3, Zenon DEF SumOf
<1>5. ASSUME NEW s \in SUBSET (1 .. n)
      PROVE  it[s] = IF s = {} THEN b ELSE it[s \ {Top(s)}] + v[Top(s)]
    BY <1>4, Zenon DEF Adds
<1>6. it[1 .. 0] = b
  <2>1. 1 .. 0 = {} /\ 1 .. 0 \in SUBSET (1 .. n)
      OBVIOUS
  <2> QED BY <1>5, <2>1
<1>7. ASSUME NEW j \in 1 .. n PROVE it[1 .. j] = it[1 .. j - 1] + v[j]
  <2>1. 1 .. j \in SUBSET (1 .. n) /\ j \in Nat /\ j > 0
      OBVIOUS
  <2>2. Top(1 .. j) = j /\ (1 .. j) \ {j} = 1 .. j - 1 /\ 1 .. j # {}
      BY <2>1, TopOfPrefix
  <2> QED BY <1>5, <2>1, <2>2
<1> QED
    BY <1>3, <1>6, <1>7, Zenon

LEMMA MultipliesPrefixes ==
    ASSUME NEW b \in Int, NEW n \in Nat, NEW v, \A i \in 1 .. n : v[i] \in Int
    PROVE  /\ ProductOf(b, v, 1 .. n)[1 .. 0] = b
           /\ \A j \in 1 .. n :
                 ProductOf(b, v, 1 .. n)[1 .. j] = ProductOf(b, v, 1 .. n)[1 .. j - 1] * v[j]
<1> DEFINE G == [p \in Int \X Int |-> p[1] * p[2]]
<1>1. PICK g : FoldsWith(g, G, b, v, 1 .. n)
  <2>1. G \in [Int \X Int -> Int]
      OBVIOUS
  <2> HIDE DEF G
  <2> QED BY <2>1, FoldExists
<1>2. \E g2 : Multiplies(g2, b, v, 1 .. n)
  <2>1. ASSUME NEW s \in SUBSET (1 .. n)
        PROVE  g[s] = IF s = {} THEN b ELSE g[s \ {Top(s)}] * v[Top(s)]
    <3>1. CASE s = {}
        BY <1>1, <3>1 DEF FoldsWith
    <3>2. CASE s # {}
      <4>1. v[Top(s)] \in Int
          BY <3>2, TopOf
      <4>2. g[s \ {Top(s)}] \in Int /\ g[s] = G[<<g[s \ {Top(s)}], v[Top(s)]>>]
          BY <1>1, <3>2 DEF FoldsWith
      <4> QED BY <3>2, <4>1, <4>2
    <3> QED BY <3>1, <3>2
  <2>2. DOMAIN g = SUBSET (1 .. n) /\ g = [s \in DOMAIN g |-> g[s]]
      BY <1>1 DEF FoldsWith
  <2>3. Multiplies(g, b, v, 1 .. n)
      BY <2>1, <2>2 DEF Multiplies
  <2> QED BY <2>3
<1>3. PICK it : it = ProductOf(b, v, 1 .. n)
    OBVIOUS
<1>4. Multiplies(it, b, v, 1 .. n)
    BY <1>2, <1>3, Zenon DEF ProductOf
<1>5. ASSUME NEW s \in SUBSET (1 .. n)
      PROVE  it[s] = IF s = {} THEN b ELSE it[s \ {Top(s)}] * v[Top(s)]
    BY <1>4, Zenon DEF Multiplies
<1>6. it[1 .. 0] = b
  <2>1. 1 .. 0 = {} /\ 1 .. 0 \in SUBSET (1 .. n)
      OBVIOUS
  <2> QED BY <1>5, <2>1
<1>7. ASSUME NEW j \in 1 .. n PROVE it[1 .. j] = it[1 .. j - 1] * v[j]
  <2>1. 1 .. j \in SUBSET (1 .. n) /\ j \in Nat /\ j > 0
      OBVIOUS
  <2>2. Top(1 .. j) = j /\ (1 .. j) \ {j} = 1 .. j - 1 /\ 1 .. j # {}
      BY <2>1, TopOfPrefix
  <2> QED BY <1>5, <2>1, <2>2
<1> QED
    BY <1>3, <1>6, <1>7, Zenon

\* The arithmetic of an operator, on unbounded integers.
Plain(op, x, y) ==
    CASE op = "+" -> x + y
      [] op = "-" -> x - y
      [] op = "*" -> x * y
      [] op = "?" -> x

LEMMA PlainCases == ASSUME NEW x, NEW y
                    PROVE  /\ Plain("+", x, y) = x + y
                           /\ Plain("-", x, y) = x - y
                           /\ Plain("*", x, y) = x * y
                           /\ Plain("?", x, y) = x
    BY DEF Plain

LEMMA ApplyPlain == ASSUME NEW op \in Calc!Operators, NEW x, NEW y, op # "?"
                    PROVE  Calc!Apply(op, x, y) = Calc!Wrapped(Plain(op, x, y))
    BY DEF Calc!Apply, Plain, Calc!Operators

LEMMA ExactFolds ==
    ASSUME NEW vals
    PROVE  LET v == Tail(vals)
               S == DOMAIN Tail(vals)
           IN  /\ Calc!Exact(vals, "+") = SumOf(Head(vals), v, S)[S]
               /\ Calc!Exact(vals, "-") = Head(vals) - SumOf(0, v, S)[S]
               /\ Calc!Exact(vals, "*") = ProductOf(Head(vals), v, S)[S]
               /\ Calc!Exact(vals, "?") = Head(vals)
<1> USE DEF Calc!Exact, Calc!FoldLeft, Calc!MapThenFoldSet, Calc!Max, SumOf, ProductOf, Adds, Multiplies, Top
<1>1. Calc!Exact(vals, "+")
         = SumOf(Head(vals), Tail(vals), DOMAIN Tail(vals))[DOMAIN Tail(vals)]
    OBVIOUS
<1>2. Calc!Exact(vals, "-")
         = Head(vals) - SumOf(0, Tail(vals), DOMAIN Tail(vals))[DOMAIN Tail(vals)]
    OBVIOUS
<1>3. Calc!Exact(vals, "*")
         = ProductOf(Head(vals), Tail(vals), DOMAIN Tail(vals))[DOMAIN Tail(vals)]
    OBVIOUS
<1>4. Calc!Exact(vals, "?") = Head(vals)
    OBVIOUS
<1> HIDE DEF Calc!Exact, Calc!FoldLeft, Calc!MapThenFoldSet, Calc!Max, SumOf, ProductOf, Adds, Multiplies, Top
<1> QED
    BY <1>1, <1>2, <1>3, <1>4

\* The exact result is reached from the first operand by one operation with
\* each of the others.
Steps(E, vals, op) ==
    /\ E[1] = vals[1]
    /\ \A i \in 2 .. Len(vals) : E[i] = Plain(op, E[i - 1], vals[i])
    /\ E[Len(vals)] = Calc!Exact(vals, op)

LEMMA ExactSteps == ASSUME NEW vals \in Seq(Int), vals # <<>>, NEW op \in Calc!Operators
                    PROVE  \E E : Steps(E, vals, op)
<1> DEFINE v == Tail(vals)
<1>1. PICK n \in Nat : n + 1 = Len(vals)
  <2>1. PICK l \in Nat : l = Len(vals) /\ l # 0
      OBVIOUS
  <2>2. l - 1 \in Nat
      BY <2>1
  <2> QED BY <2>1, <2>2
<1>2. DOMAIN v = 1 .. n /\ (\A i \in 1 .. n : v[i] = vals[i + 1] /\ v[i] \in Int) /\ Head(vals) = vals[1]
    BY <1>1
<1>3. vals[1] \in Int
    BY <1>1
<1> HIDE DEF v
<1>4. /\ Calc!Exact(vals, "+") = SumOf(vals[1], v, 1 .. n)[1 .. n]
      /\ Calc!Exact(vals, "-") = vals[1] - SumOf(0, v, 1 .. n)[1 .. n]
      /\ Calc!Exact(vals, "*") = ProductOf(vals[1], v, 1 .. n)[1 .. n]
      /\ Calc!Exact(vals, "?") = vals[1]
    BY <1>2, ExactFolds DEF v
<1>5. ASSUME NEW i \in 2 .. n + 1 PROVE i - 1 \in 1 .. n /\ v[i - 1] = vals[i] /\ vals[i] \in Int
    BY <1>1, <1>2
<1>6. \A i \in 1 .. n : v[i] \in Int
    BY <1>2
<1>7. CASE op = "+"
  <2>1. PICK it : /\ it = SumOf(vals[1], v, 1 .. n)
                  /\ it[1 .. 0] = vals[1]
                  /\ \A j \in 1 .. n : it[1 .. j] = it[1 .. j - 1] + v[j]
    <3>1. PICK b \in Int : b = vals[1]
        BY <1>3
    <3>2. /\ SumOf(b, v, 1 .. n)[1 .. 0] = b
          /\ \A j \in 1 .. n : SumOf(b, v, 1 .. n)[1 .. j] = SumOf(b, v, 1 .. n)[1 .. j - 1] + v[j]
        BY <1>1, <1>6, AddsPrefixes
    <3> QED BY <3>1, <3>2
  <2> DEFINE E == [i \in 1 .. n + 1 |-> it[1 .. i - 1]]
  <2>2. E[1] = vals[1] /\ E[n + 1] = it[1 .. n]
      BY <2>1
  <2>3. ASSUME NEW i \in 2 .. n + 1 PROVE E[i] = E[i - 1] + vals[i]
    <3>1. it[1 .. i - 1] = it[1 .. i - 1 - 1] + vals[i]
        BY <1>5, <2>1
    <3> QED BY <3>1
  <2> HIDE DEF E
  <2> QED BY <1>1, <1>4, <1>7, <2>1, <2>2, <2>3, PlainCases DEF Steps
<1>8. CASE op = "*"
  <2>1. PICK it : /\ it = ProductOf(vals[1], v, 1 .. n)
                  /\ it[1 .. 0] = vals[1]
                  /\ \A j \in 1 .. n : it[1 .. j] = it[1 .. j - 1] * v[j]
    <3>1. PICK b \in Int : b = vals[1]
        BY <1>3
    <3>2. /\ ProductOf(b, v, 1 .. n)[1 .. 0] = b
          /\ \A j \in 1 .. n : ProductOf(b, v, 1 .. n)[1 .. j] = ProductOf(b, v, 1 .. n)[1 .. j - 1] * v[j]
        BY <1>1, <1>6, MultipliesPrefixes
    <3> QED BY <3>1, <3>2
  <2> DEFINE E == [i \in 1 .. n + 1 |-> it[1 .. i - 1]]
  <2>2. E[1] = vals[1] /\ E[n + 1] = it[1 .. n]
      BY <2>1
  <2>3. ASSUME NEW i \in 2 .. n + 1 PROVE E[i] = E[i - 1] * vals[i]
    <3>1. it[1 .. i - 1] = it[1 .. i - 1 - 1] * vals[i]
        BY <1>5, <2>1
    <3> QED BY <3>1
  <2> HIDE DEF E
  <2> QED BY <1>1, <1>4, <1>8, <2>1, <2>2, <2>3, PlainCases DEF Steps
<1>9. CASE op = "-"
  <2>1. PICK it : /\ it = SumOf(0, v, 1 .. n)
                  /\ it[1 .. 0] = 0
                  /\ \A j \in 1 .. n : it[1 .. j] = it[1 .. j - 1] + v[j]
    <3>1. PICK b \in Int : b = 0
        OBVIOUS
    <3>2. /\ SumOf(b, v, 1 .. n)[1 .. 0] = b
          /\ \A j \in 1 .. n : SumOf(b, v, 1 .. n)[1 .. j] = SumOf(b, v, 1 .. n)[1 .. j - 1] + v[j]
        BY <1>1, <1>6, AddsPrefixes
    <3> QED BY <3>1, <3>2
  <2>2. \A j \in 0 .. n : it[1 .. j] \in Int
    <3> SUFFICES ASSUME NEW j0 \in 0 .. n, it[1 .. j0] \notin Int PROVE FALSE
        OBVIOUS
    <3> DEFINE T == {j \in 0 .. n : it[1 .. j] \notin Int}
    <3>1. T \subseteq Nat /\ T # {}
        OBVIOUS
    <3> HIDE DEF T
    <3>2. PICK m \in T : \A k \in T : m <= k
        BY <3>1, Least
    <3>3. m \in 0 .. n /\ it[1 .. m] \notin Int /\ m # 0
        BY <2>1, <3>2 DEF T
    <3>4. m - 1 \in 0 .. n /\ m - 1 \notin T /\ m \in 1 .. n
        BY <3>2, <3>3
    <3>5. it[1 .. m - 1] \in Int
        BY <3>4 DEF T
    <3>6. it[1 .. m] = it[1 .. m - 1] + v[m] /\ v[m] \in Int
        BY <1>6, <2>1, <3>4
    <3> QED BY <3>3, <3>5, <3>6
  <2> DEFINE E == [i \in 1 .. n + 1 |-> vals[1] - it[1 .. i - 1]]
  <2>3. E[1] = vals[1] /\ E[n + 1] = vals[1] - it[1 .. n]
      BY <1>3, <2>1
  <2>4. ASSUME NEW i \in 2 .. n + 1 PROVE E[i] = E[i - 1] - vals[i]
    <3>1. PICK a \in Int : a = it[1 .. i - 1 - 1]
        BY <2>2
    <3>2. it[1 .. i - 1] = a + vals[i] /\ vals[i] \in Int
        BY <1>5, <2>1, <3>1
    <3>3. E[i - 1] = vals[1] - a /\ E[i] = vals[1] - (a + vals[i])
        BY <3>1, <3>2
    <3> HIDE DEF E
    <3> QED BY <1>3, <3>2, <3>3
  <2> HIDE DEF E
  <2> QED BY <1>1, <1>4, <1>9, <2>1, <2>3, <2>4, PlainCases DEF Steps
<1>10. CASE op = "?"
  <2> DEFINE E == [i \in 1 .. n + 1 |-> vals[1]]
  <2>1. E[1] = vals[1] /\ E[n + 1] = vals[1] /\ \A i \in 2 .. n + 1 : E[i] = E[i - 1]
      OBVIOUS
  <2> HIDE DEF E
  <2> QED BY <1>1, <1>4, <1>10, <2>1, PlainCases DEF Steps
<1> QED
    BY <1>7, <1>8, <1>9, <1>10 DEF Calc!Operators

LEMMA StepsInt == ASSUME NEW vals \in Seq(Int), vals # <<>>, NEW op \in Calc!Operators,
                         NEW E, Steps(E, vals, op)
                  PROVE  \A i \in 1 .. Len(vals) : E[i] \in Int
<1> SUFFICES ASSUME NEW i0 \in 1 .. Len(vals), E[i0] \notin Int PROVE FALSE
    OBVIOUS
<1>0. PICK n \in Nat : n = Len(vals) /\ n > 0
    OBVIOUS
<1> DEFINE T == {i \in 1 .. n : E[i] \notin Int}
<1>1. T \subseteq Nat /\ T # {}
    BY <1>0
<1> HIDE DEF T
<1>2. PICK m \in T : \A k \in T : m <= k
    BY <1>1, Least
<1>3. m \in 1 .. n /\ E[m] \notin Int
    BY DEF T
<1>4. m # 1
    BY <1>0, ElementOfSeq, <1>3 DEF Steps
<1>5. m - 1 \in 1 .. n /\ m - 1 \notin T /\ m \in 2 .. n
    BY <1>2, <1>3, <1>4
<1>6. E[m - 1] \in Int /\ vals[m] \in Int
    BY <1>0, <1>3, <1>5, ElementOfSeq DEF T
<1>7. E[m] = Plain(op, E[m - 1], vals[m])
    BY <1>0, <1>5 DEF Steps
<1> QED BY <1>3, <1>6, <1>7, PlainCases DEF Calc!Operators

LEMMA ExactInt == ASSUME NEW vals \in Seq(Int), vals # <<>>, NEW op \in Calc!Operators
                  PROVE  Calc!Exact(vals, op) \in Int
<1>1. PICK E : Steps(E, vals, op)
    BY ExactSteps
<1>2. Len(vals) \in 1 .. Len(vals)
    OBVIOUS
<1> QED
    BY <1>1, <1>2, StepsInt DEF Steps

\* Calculate wraps at every step, and comes to the same as wrapping once.
LEMMA CalculateExact ==
    ASSUME NEW vals \in Seq(Calc!Ints), vals # <<>>, NEW op \in Calc!Operators
    PROVE  Calc!Calculate(vals, op) = Calc!Wrapped(Calc!Exact(vals, op))
<1>1. PICK n \in Nat : n = Len(vals) /\ n > 0
    OBVIOUS
<1>2. Calc!Ints \subseteq Int
    BY WidthType DEF Calc!Ints
<1>3. \A i \in 1 .. n : vals[i] \in Calc!Ints /\ vals[i] \in Int
    BY <1>1, <1>2, ElementOfSeq
<1>4. PICK E : Steps(E, vals, op)
  <2>1. vals \in Seq(Int)
      BY <1>2, SeqMonotonic
  <2> QED BY <2>1, ExactSteps
<1>5. \A i \in 1 .. n : E[i] \in Int
    BY <1>1, <1>2, <1>4, StepsInt, SeqMonotonic
<1> DEFINE w == [i \in 1 .. n |-> Calc!Wrapped(E[i])]
           Takes(r) == r = [i \in 1 .. n |-> IF i = 1 THEN vals[1] ELSE Calc!Apply(op, r[i - 1], vals[i])]
<1>6. ASSUME NEW i \in 2 .. n PROVE w[i] = Calc!Apply(op, w[i - 1], vals[i])
  <2>1. i - 1 \in 1 .. n /\ i \in 1 .. n
      BY <1>1
  <2>2. PICK x \in Int, z \in Int : x = E[i - 1] /\ z = vals[i]
      BY <1>3, <1>5, <2>1
  <2>3. PICK y \in Int : y = Calc!Wrapped(x) /\ Same(y, x) /\ y \in Calc!Ints
      BY <1>2, <2>2, WrappedSame
  <2>4. E[i] = Plain(op, x, z) /\ E[i] \in Int
      BY <1>1, <1>4, <1>5, <2>1, <2>2 DEF Steps
  <2>5. w[i - 1] = y /\ w[i] = Calc!Wrapped(Plain(op, x, z))
      BY <2>1, <2>2, <2>3, <2>4
  <2> HIDE DEF w
  <2>6. CASE op = "?"
    <3>1. Calc!Apply("?", y, z) = y
        BY DEF Calc!Apply
    <3> QED BY <2>2, <2>3, <2>5, <2>6, <3>1, PlainCases
  <2>7. CASE op # "?"
    <3>1. Calc!Apply(op, y, z) = Calc!Wrapped(Plain(op, y, z))
        BY <2>7, ApplyPlain
    <3>2. Same(Plain(op, y, z), Plain(op, x, z)) /\ Plain(op, y, z) \in Int /\ Plain(op, x, z) \in Int
      <4>1. Same(y + z, x + z) /\ Same(y - z, x - z) /\ Same(y * z, x * z)
          BY <2>3, SameArithmetic
      <4> QED BY <2>7, <4>1, PlainCases DEF Calc!Operators
    <3>3. Calc!Wrapped(Plain(op, y, z)) = Calc!Wrapped(Plain(op, x, z))
        BY <3>2, SameWrapped
    <3> QED BY <2>2, <2>5, <3>1, <3>3
  <2> QED BY <2>6, <2>7
<1>7. w[1] = vals[1]
  <2>1. 1 \in 1 .. n /\ vals[1] \in Calc!Ints
      BY <1>1, <1>3
  <2> QED BY <1>4, <2>1, WrappedInt DEF Steps
<1>8. Takes(w)
  <2>1. \A i \in 1 .. n : w[i] = IF i = 1 THEN vals[1] ELSE Calc!Apply(op, w[i - 1], vals[i])
      BY <1>6, <1>7
  <2> QED BY <2>1
<1>9. PICK r : r = (CHOOSE q : Takes(q)) /\ Takes(r)
    BY <1>8
<1>10. Calc!Calculate(vals, op) = r[n]
    BY <1>1, <1>9, Zenon DEF Calc!Calculate
<1>11. \A i \in 1 .. n : r[i] = IF i = 1 THEN vals[1] ELSE Calc!Apply(op, r[i - 1], vals[i])
    BY <1>9, Zenon
<1>12. w[n] = Calc!Wrapped(Calc!Exact(vals, op))
    BY <1>1, <1>4 DEF Steps
<1> HIDE DEF w, Takes
<1>13. \A i \in 1 .. n : r[i] = w[i]
  <2> SUFFICES ASSUME NEW i0 \in 1 .. n, r[i0] # w[i0] PROVE FALSE
      OBVIOUS
  <2> DEFINE T == {i \in 1 .. n : r[i] # w[i]}
  <2>1. T \subseteq Nat /\ T # {}
      OBVIOUS
  <2> HIDE DEF T
  <2>2. PICK m \in T : \A k \in T : m <= k
      BY <2>1, Least
  <2>3. m \in 1 .. n /\ r[m] # w[m]
      BY DEF T
  <2>4. m # 1
      BY <1>7, <1>11, <2>3
  <2>5. m - 1 \in 1 .. n /\ m - 1 \notin T /\ m \in 2 .. n
      BY <2>2, <2>3, <2>4
  <2>6. r[m - 1] = w[m - 1]
      BY <2>5 DEF T
  <2> QED BY <1>6, <1>11, <2>3, <2>4, <2>5, <2>6
<1> QED
  <2>1. n \in 1 .. n
      BY <1>1
  <2> QED BY <1>10, <1>12, <1>13, <2>1

-----------------------------------------------------------------------------
(* The calculator's server.  The bytes it has received of its client are   *)
(* the count and what is in front of recvLen in its buffer, and a client   *)
(* sends no byte more than its request has.                                *)

Answers == {Calc!None, Calc!Junk} \cup {Calc!Number(v) : v \in Calc!Ints}

CalcTypeOK ==
    /\ cReq     \in [Users -> [vals : Seq(Operands), op : Calc!Operators]]
    /\ cAt      \in [Users -> {"idle", "user", "wait", "mute", "gone", "end"}]
    /\ cArrived \in [Users -> Nat]
    /\ cGot     \in [Users -> Nat]
    /\ cResult  \in [Users -> Answers]
    /\ cSrv     \in {"accept", "count", "body", "trapped", "exit"}
    /\ cServed  \subseteq Users
    /\ cOpndCnt \in Nat /\ cRecvLen \in Nat
    /\ DOMAIN cOpinfo = 0 .. MaxOps * OpSz

Requests ==
    \A c \in Users :
       /\ Len(cReq[c].vals) <= MaxOps
       /\ cAt[c] \in {"idle", "user", "mute", "gone"} => cArrived[c] = 0 /\ cResult[c] = Calc!None
       /\ cArrived[c] <= Calc!Body(c) + 1
       /\ cGot[c] <= cArrived[c]
       /\ c \notin cServed => cGot[c] = 0 /\ cResult[c] = Calc!None

\* The client being served was ended before it sent, or what has been received
\* of it is in its place.
Collected ==
    \/ cAt[cCur] = "gone" /\ cOpndCnt = 0 /\ cRecvLen = 0
    \/ /\ cGot[cCur] = cRecvLen + 1
       /\ cOpndCnt = Len(cReq[cCur].vals)
       /\ \A p \in 1 .. cRecvLen : cOpinfo[p - 1] = <<cCur, p>>

Serving ==
    /\ cSrv \in {"count", "body"} => cCur \in cServed /\ cResult[cCur] = Calc!None
    /\ cSrv = "count" => cGot[cCur] = 0 /\ cRecvLen = 0 /\ cOpndCnt = 0
    /\ cSrv = "body" => Collected

CalcInv == CalcTypeOK /\ Requests /\ Serving /\ Calc!ResultRight

LEMMA Bounds == ASSUME NEW n \in Nat, n <= MaxOps
                PROVE  n * OpSz \in Nat /\ n * OpSz <= MaxOps * OpSz
<1>1. PICK d \in Nat : MaxOps = n + d
  <2>1. MaxOps - n \in Nat /\ MaxOps = n + (MaxOps - n)
      BY CalcAssumption
  <2> QED BY <2>1
<1>2. MaxOps * OpSz = n * OpSz + d * OpSz
    BY <1>1, CalcAssumption, Distributive
<1>3. PICK a \in Nat, b \in Nat : a = n * OpSz /\ b = d * OpSz
    BY CalcAssumption
<1> QED
    BY <1>2, <1>3

LEMMA BodyType == ASSUME CalcInv, NEW c \in Users
                  PROVE  /\ Len(cReq[c].vals) \in Nat
                         /\ Calc!Body(c) \in 1 .. MaxOps * OpSz + 1
                         /\ MaxOps * OpSz \in Nat
<1>1. PICK n \in Nat : n = Len(cReq[c].vals) /\ n <= MaxOps
    BY DEF CalcInv, CalcTypeOK, Requests
<1>2. PICK a \in Nat, b \in Nat : a = n * OpSz /\ b = MaxOps * OpSz /\ a <= b
    BY <1>1, Bounds, CalcAssumption
<1> QED
    BY <1>1, <1>2 DEF Calc!Body

\* What the server finds when the condition of its loop has become false.
LEMMA CompleteFramed == ASSUME CalcInv PROVE Calc!Framed
<1> SUFFICES ASSUME cSrv = "body", Calc!Complete
             PROVE  /\ cRecvLen = Calc!Body(cCur) /\ cGot[cCur] = Calc!Body(cCur) + 1
                    /\ \A p \in 1 .. cRecvLen : cOpinfo[p - 1] = <<cCur, p>>
    BY DEF Calc!Framed
<1>1. cCur \in Users /\ Collected
    BY DEF CalcInv, CalcTypeOK, Serving
<1>2. cGot[cCur] \in Nat /\ cRecvLen \in Nat /\ Calc!Body(cCur) \in Nat
         /\ cGot[cCur] <= Calc!Body(cCur) + 1
    BY <1>1, BodyType DEF CalcInv, CalcTypeOK, Requests
<1>3. cOpndCnt * OpSz + 1 <= cRecvLen
    BY DEF Calc!Complete
<1>4. CASE cOpndCnt = 0 /\ cRecvLen = 0
    BY <1>3, <1>4, CalcAssumption
<1>5. CASE cGot[cCur] = cRecvLen + 1 /\ cOpndCnt = Len(cReq[cCur].vals)
             /\ \A p \in 1 .. cRecvLen : cOpinfo[p - 1] = <<cCur, p>>
  <2>1. Calc!Body(cCur) <= cRecvLen
      BY <1>3, <1>5 DEF Calc!Body
  <2>2. PICK r \in Nat, b \in Nat : r = cRecvLen /\ b = Calc!Body(cCur)
      BY <1>2
  <2>3. r = b
      BY <1>2, <1>5, <2>1, <2>2
  <2> QED BY <1>5, <2>2, <2>3
<1> QED
    BY <1>1, <1>4, <1>5 DEF Collected

LEMMA CalcInitial == Calc!Init => CalcInv
<1> SUFFICES ASSUME Calc!Init PROVE CalcInv
    OBVIOUS
<1> USE DEF Calc!Init
<1>1. \A c \in Users : cReq[c] = [vals |-> <<>>, op |-> "?"]
    BY DEF Calc!NoReq
<1>2. MaxOps * OpSz \in Nat
    BY CalcAssumption
<1>3. DOMAIN cOpinfo = 0 .. MaxOps * OpSz
    BY <1>2 DEF Calc!BufSize
<1>4. cReq \in [Users -> [vals : Seq(Operands), op : Calc!Operators]]
    BY DEF Calc!NoReq, Calc!Operators
<1>5. CalcTypeOK
    BY <1>3, <1>4 DEF CalcTypeOK, Answers
<1>6. Requests
  <2> SUFFICES ASSUME NEW c \in Users PROVE Len(cReq[c].vals) = 0 /\ 0 <= Calc!Body(c) + 1
      BY CalcAssumption DEF Requests
  <2>1. Len(cReq[c].vals) = 0
      BY <1>1
  <2>2. 0 * OpSz + 1 = 1
      BY CalcAssumption
  <2> QED BY <2>1, <2>2 DEF Calc!Body
<1> QED
    BY <1>1, <1>5, <1>6 DEF CalcInv, Serving, Calc!ResultRight

\* A client goes on, and nothing else changes.
LEMMA CalcElsewhere ==
    ASSUME CalcInv, NEW c \in Users, cAt[c] # "gone",
           \E w \in {"user", "mute", "gone", "end"} : cAt' = [cAt EXCEPT ![c] = w],
           cAt'[c] \in {"user", "mute", "gone"} => cAt[c] \in {"idle", "user"},
           UNCHANGED <<cReq, cArrived, cGot, cResult, cSrv, cCur, cServed, cOpndCnt, cRecvLen, cOpinfo>>
    PROVE  CalcInv'
<1> USE DEF CalcInv
<1>1. \A d \in Users : d # c => cAt'[d] = cAt[d]
    BY DEF CalcTypeOK
<1>2. cAt' \in [Users -> {"idle", "user", "wait", "mute", "gone", "end"}]
    BY DEF CalcTypeOK
<1>3. cAt'[c] \in {"user", "mute", "gone", "end"}
    BY DEF CalcTypeOK
<1>4. CalcTypeOK' /\ Calc!ResultRight'
    BY <1>2 DEF CalcTypeOK, Calc!ResultRight
<1>5. Requests'
    BY <1>1, <1>3 DEF Requests, Calc!Body
<1>6. Serving'
    BY <1>1 DEF Serving, Collected, CalcTypeOK
<1> QED
    BY <1>4, <1>5, <1>6

LEMMA CalcClientStep == ASSUME CalcInv, NEW c \in Users, Calc!Client(c) PROVE CalcInv'
<1> USE DEF CalcInv, Calc!serverVars
<1>1. CASE Calc!Connect(c)
  <2>1. /\ UNCHANGED <<cReq, cArrived, cGot, cResult, cSrv, cCur, cServed, cOpndCnt, cRecvLen, cOpinfo>>
        /\ cAt[c] # "gone" /\ \E w \in {"user", "mute", "gone", "end"} : cAt' = [cAt EXCEPT ![c] = w]
        /\ cAt'[c] \in {"user", "mute", "gone"} => cAt[c] \in {"idle", "user"}
      BY <1>1 DEF Calc!Connect, CalcTypeOK
  <2> QED BY <2>1, CalcElsewhere
<1>2. CASE Calc!Send(c)
  <2>0. PICK n \in 0 .. MaxOps, op \in Calc!Operators :
           \E vals \in [1 .. n -> Operands] : cReq' = [cReq EXCEPT ![c] = [vals |-> vals, op |-> op]]
      BY <1>2 DEF Calc!Send
  <2>1. PICK vals \in [1 .. n -> Operands] : cReq' = [cReq EXCEPT ![c] = [vals |-> vals, op |-> op]]
      BY <2>0
  <2>2. /\ UNCHANGED <<cArrived, cGot, cResult, cSrv, cCur, cServed, cOpndCnt, cRecvLen, cOpinfo>>
        /\ cAt[c] = "user" /\ cAt' = [cAt EXCEPT ![c] = "wait"]
      BY <1>2 DEF Calc!Send
  <2>3. n \in Nat /\ n <= MaxOps /\ vals \in Seq(Operands) /\ Len(vals) = n
      BY <2>1, CalcAssumption
  <2>4. cReq'[c] = [vals |-> vals, op |-> op] /\ \A d \in Users : d # c => cReq'[d] = cReq[d]
      BY <2>1 DEF CalcTypeOK
  <2>5. cArrived[c] = 0 /\ cResult[c] = Calc!None /\ cGot[c] = 0
      BY <2>2 DEF Requests, CalcTypeOK
  <2>6. CalcTypeOK'
      BY <2>1, <2>2, <2>3 DEF CalcTypeOK
  <2>7. Calc!ResultRight'
      BY <2>2, <2>4, <2>5 DEF Calc!ResultRight
  <2>8. n * OpSz + 1 \in Nat
      BY <2>3, CalcAssumption
  <2>9. Requests'
    <3> SUFFICES ASSUME NEW d \in Users
                 PROVE  /\ Len(cReq'[d].vals) <= MaxOps
                        /\ cAt'[d] \in {"idle", "user", "mute", "gone"} => cArrived'[d] = 0 /\ cResult'[d] = Calc!None
                        /\ cArrived'[d] <= Calc!Body(d)' + 1
                        /\ cGot'[d] <= cArrived'[d]
                        /\ d \notin cServed' => cGot'[d] = 0 /\ cResult'[d] = Calc!None
        BY DEF Requests
    <3>1. CASE d # c
        BY <2>2, <2>4, <3>1 DEF Requests, Calc!Body, CalcTypeOK
    <3>2. CASE d = c
        BY <2>2, <2>3, <2>4, <2>5, <2>8, <3>2 DEF Calc!Body, CalcTypeOK
    <3> QED BY <3>1, <3>2
  <2>10. Serving'
    <3>1. cSrv = "body" => cCur # c
        BY <2>2, <2>5 DEF Serving, Collected, CalcTypeOK
    <3>2. cSrv = "body" => cCur \in Users
        BY DEF Serving, CalcTypeOK
    <3>3. cSrv = "body" => cAt'[cCur] = cAt[cCur] /\ cReq'[cCur] = cReq[cCur]
        BY <2>2, <2>4, <3>1, <3>2 DEF CalcTypeOK
    <3> QED BY <2>2, <3>3 DEF Serving, Collected
  <2> QED BY <2>6, <2>7, <2>9, <2>10
<1>3. CASE Calc!Abandon(c)
  <2>1. /\ UNCHANGED <<cReq, cArrived, cGot, cResult, cSrv, cCur, cServed, cOpndCnt, cRecvLen, cOpinfo>>
        /\ cAt[c] # "gone" /\ \E w \in {"user", "mute", "gone", "end"} : cAt' = [cAt EXCEPT ![c] = w]
        /\ cAt'[c] \in {"user", "mute", "gone"} => cAt[c] \in {"idle", "user"}
      BY <1>3 DEF Calc!Abandon, CalcTypeOK
  <2> QED BY <2>1, CalcElsewhere
<1>4. CASE Calc!Receive(c)
  <2>1. /\ UNCHANGED <<cReq, cArrived, cGot, cResult, cSrv, cCur, cServed, cOpndCnt, cRecvLen, cOpinfo>>
        /\ cAt[c] # "gone" /\ \E w \in {"user", "mute", "gone", "end"} : cAt' = [cAt EXCEPT ![c] = w]
        /\ cAt'[c] \in {"user", "mute", "gone"} => cAt[c] \in {"idle", "user"}
      BY <1>4 DEF Calc!Receive, CalcTypeOK
  <2> QED BY <2>1, CalcElsewhere
<1>5. CASE Calc!Negative(c)
  <2>1. /\ UNCHANGED <<cReq, cArrived, cGot, cResult, cSrv, cCur, cServed, cOpndCnt, cRecvLen, cOpinfo>>
        /\ cAt[c] # "gone" /\ \E w \in {"user", "mute", "gone", "end"} : cAt' = [cAt EXCEPT ![c] = w]
        /\ cAt'[c] \in {"user", "mute", "gone"} => cAt[c] \in {"idle", "user"}
      BY <1>5 DEF Calc!Negative, CalcTypeOK
  <2> QED BY <2>1, CalcElsewhere
<1> QED
    BY <1>1, <1>2, <1>3, <1>4, <1>5 DEF Calc!Client

LEMMA CalcArriveStep == ASSUME CalcInv, NEW c \in Users, Calc!Arrive(c) PROVE CalcInv'
<1> USE DEF CalcInv, Calc!serverVars, Calc!clientVars
<1>1. PICK n \in cArrived[c] + 1 .. Calc!Body(c) + 1 : cArrived' = [cArrived EXCEPT ![c] = n]
    BY DEF Calc!Arrive
<1>2. /\ UNCHANGED <<cReq, cAt, cGot, cResult, cSrv, cCur, cServed, cOpndCnt, cRecvLen, cOpinfo>>
      /\ cAt[c] = "wait"
    BY DEF Calc!Arrive
<1>3. n \in Nat /\ n <= Calc!Body(c) + 1 /\ cArrived[c] <= n
  <2>1. Calc!Body(c) \in Nat /\ cArrived[c] \in Nat
      BY BodyType DEF CalcTypeOK
  <2> QED BY <1>1, <2>1
<1>4. CalcTypeOK' /\ Calc!ResultRight'
    BY <1>1, <1>2, <1>3 DEF CalcTypeOK, Calc!ResultRight
<1>5. \A d \in Users : Calc!Body(d)' = Calc!Body(d)
    BY <1>2 DEF Calc!Body
<1>6. Requests'
  <2>1. cArrived'[c] = n /\ \A d \in Users : d # c => cArrived'[d] = cArrived[d]
      BY <1>1 DEF CalcTypeOK
  <2>2. cGot[c] <= n
      BY <1>3 DEF Requests, CalcTypeOK
  <2> QED BY <1>2, <1>3, <1>5, <2>1, <2>2 DEF Requests
<1>7. Serving'
    BY <1>2 DEF Serving, Collected
<1> QED
    BY <1>4, <1>6, <1>7

LEMMA CalcAcceptStep == ASSUME CalcInv, NEW c \in Users, Calc!Accept(c) PROVE CalcInv'
<1> USE DEF CalcInv, Calc!clientVars
<1>1. /\ cCur' = c /\ cServed' = cServed \cup {c} /\ cOpndCnt' = 0 /\ cRecvLen' = 0 /\ cSrv' = "count"
      /\ UNCHANGED <<cReq, cAt, cArrived, cGot, cResult, cOpinfo>>
      /\ c \notin cServed
    BY DEF Calc!Accept
<1>2. CalcTypeOK' /\ Calc!ResultRight'
    BY <1>1 DEF CalcTypeOK, Calc!ResultRight
<1>3. Requests'
    BY <1>1 DEF Requests, Calc!Body
<1>4. Serving'
    BY <1>1 DEF Serving, Requests
<1> QED
    BY <1>2, <1>3, <1>4

LEMMA CalcAcceptFailsStep == ASSUME CalcInv, Calc!AcceptFails PROVE CalcInv'
<1>1. /\ cOpndCnt' = 0 /\ cRecvLen' = 0 /\ cSrv' = "trapped"
      /\ UNCHANGED <<cReq, cAt, cArrived, cGot, cResult, cCur, cServed, cOpinfo>>
    BY DEF Calc!AcceptFails, Calc!clientVars
<1> QED
    BY <1>1 DEF CalcInv, CalcTypeOK, Requests, Calc!Body, Serving, Calc!ResultRight

LEMMA CalcCountStep == ASSUME CalcInv, Calc!RecvCount PROVE CalcInv'
<1> USE DEF CalcInv, Calc!clientVars
<1>1. /\ cSrv = "count" /\ cSrv' = "body"
      /\ UNCHANGED <<cReq, cAt, cArrived, cResult, cCur, cServed, cRecvLen, cOpinfo>>
    BY DEF Calc!RecvCount
<1>2. cCur \in cServed /\ cCur \in Users /\ cResult[cCur] = Calc!None
         /\ cGot[cCur] = 0 /\ cRecvLen = 0 /\ cOpndCnt = 0
    BY <1>1 DEF Serving, CalcTypeOK
<1>3. CASE cArrived[cCur] > 0 /\ cOpndCnt' = Len(cReq[cCur].vals) /\ cGot' = [cGot EXCEPT ![cCur] = 1]
  <2>1. cGot'[cCur] = 1 /\ \A d \in Users : d # cCur => cGot'[d] = cGot[d]
      BY <1>2, <1>3 DEF CalcTypeOK
  <2>2. Len(cReq[cCur].vals) \in Nat
      BY <1>2, BodyType
  <2>3. CalcTypeOK' /\ Calc!ResultRight'
      BY <1>1, <1>2, <1>3, <2>2 DEF CalcTypeOK, Calc!ResultRight
  <2>4. Requests'
      BY <1>1, <1>2, <1>3, <2>1 DEF Requests, Calc!Body, CalcTypeOK
  <2>5. Serving'
      BY <1>1, <1>2, <1>3, <2>1 DEF Serving, Collected
  <2> QED BY <2>3, <2>4, <2>5
<1>4. CASE cAt[cCur] = "gone" /\ UNCHANGED <<cOpndCnt, cGot>>
  <2>1. CalcTypeOK' /\ Calc!ResultRight' /\ Requests'
      BY <1>1, <1>4 DEF CalcTypeOK, Calc!ResultRight, Requests, Calc!Body
  <2>2. Serving'
      BY <1>1, <1>2, <1>4 DEF Serving, Collected
  <2> QED BY <2>1, <2>2
<1> QED
    BY <1>3, <1>4 DEF Calc!RecvCount

LEMMA CalcBodyStep == ASSUME CalcInv, Calc!RecvBody PROVE CalcInv'
<1> USE DEF CalcInv, Calc!clientVars
<1>1. /\ cSrv = "body"
      /\ UNCHANGED <<cReq, cAt, cArrived, cResult, cSrv, cCur, cServed, cOpndCnt>>
    BY DEF Calc!RecvBody
<1>2. PICK k \in 1 .. cArrived[cCur] - cGot[cCur] :
         /\ cOpinfo' = [p \in DOMAIN cOpinfo |->
               IF p \in cRecvLen .. cRecvLen + k - 1 THEN <<cCur, cGot[cCur] + p - cRecvLen>> ELSE cOpinfo[p]]
         /\ cRecvLen' = cRecvLen + k
         /\ cGot' = [cGot EXCEPT ![cCur] = @ + k]
    BY DEF Calc!RecvBody
<1>3. cCur \in cServed /\ cCur \in Users /\ cResult[cCur] = Calc!None /\ Collected
    BY <1>1 DEF Serving, CalcTypeOK
<1>4. PICK a \in Nat, g \in Nat, r \in Nat : a = cArrived[cCur] /\ g = cGot[cCur] /\ r = cRecvLen
    BY <1>3 DEF CalcTypeOK
<1>5. k \in Nat /\ k > 0 /\ g + k <= a
    BY <1>2, <1>4
<1>6. cAt[cCur] # "gone"
    BY <1>3, <1>4, <1>5 DEF Requests
<1>7. g = r + 1 /\ cOpndCnt = Len(cReq[cCur].vals) /\ \A p \in 1 .. r : cOpinfo[p - 1] = <<cCur, p>>
    BY <1>3, <1>4, <1>6 DEF Collected
<1>8. PICK b \in Nat, m \in Nat : b = Calc!Body(cCur) /\ m = MaxOps * OpSz /\ b <= m + 1 /\ a <= b + 1
    BY <1>3, <1>4, BodyType DEF Requests
<1>9. cGot'[cCur] = g + k /\ \A d \in Users : d # cCur => cGot'[d] = cGot[d]
    BY <1>2, <1>3, <1>4 DEF CalcTypeOK
<1>10. CalcTypeOK' /\ Calc!ResultRight'
  <2>1. cGot' \in [Users -> Nat]
      BY <1>2, <1>3, <1>4, <1>5 DEF CalcTypeOK
  <2>2. cRecvLen' \in Nat /\ DOMAIN cOpinfo' = DOMAIN cOpinfo
      BY <1>2, <1>4, <1>5
  <2> QED BY <1>1, <2>1, <2>2 DEF CalcTypeOK, Calc!ResultRight
<1>11. Requests'
    BY <1>1, <1>3, <1>4, <1>5, <1>9 DEF Requests, Calc!Body
<1>12. \A p \in 1 .. r + k : cOpinfo'[p - 1] = <<cCur, p>>
  <2> SUFFICES ASSUME NEW p \in 1 .. r + k PROVE cOpinfo'[p - 1] = <<cCur, p>>
      OBVIOUS
  <2>1. p - 1 \in 0 .. m
      BY <1>5, <1>7, <1>8
  <2>2. p - 1 \in DOMAIN cOpinfo
      BY <1>8, <2>1 DEF CalcTypeOK
  <2>3. CASE p <= r
    <3>1. p - 1 \notin r .. r + k - 1 /\ p \in 1 .. r
        BY <1>5, <2>3
    <3> QED BY <1>2, <1>4, <1>7, <2>2, <3>1
  <2>4. CASE p > r
    <3>1. p \in Int /\ p <= r + k /\ k \in Nat /\ r \in Nat /\ g = r + 1
        BY <1>4, <1>5, <1>7
    <3>2. p - 1 \in r .. r + k - 1 /\ g + (p - 1) - r = p
        BY ONLY <2>4, <3>1
    <3> QED BY <1>2, <1>4, <2>2, <3>2
  <2> QED BY <2>3, <2>4
<1>13. Serving'
    BY <1>1, <1>2, <1>3, <1>4, <1>5, <1>7, <1>9, <1>12 DEF Serving, Collected
<1> QED
    BY <1>10, <1>11, <1>13

LEMMA CalcReplyStep == ASSUME CalcInv, Calc!Reply PROVE CalcInv'
<1> USE DEF CalcInv, Calc!clientVars
<1>1. /\ cSrv = "body" /\ Calc!Complete /\ cSrv' \in {"accept", "exit"}
      /\ UNCHANGED <<cReq, cAt, cArrived, cGot, cServed, cOpndCnt, cRecvLen, cOpinfo>>
    BY DEF Calc!Reply
<1>2. PICK c \in Users : c = cCur /\ c \in cServed /\ Collected
    BY <1>1 DEF Serving, CalcTypeOK
<1>3. PICK x : x = (IF cOpndCnt > 0 /\ Calc!InPlace
                    THEN Calc!Number(Calc!Calculate(cReq[c].vals, cReq[c].op)) ELSE Calc!Junk)
    OBVIOUS
<1>4. cResult' = [cResult EXCEPT ![c] = x]
    BY <1>2, <1>3 DEF Calc!Reply
<1>5. cRecvLen = Calc!Body(c) /\ \A p \in 1 .. cRecvLen : cOpinfo[p - 1] = <<c, p>>
    BY <1>1, <1>2, CompleteFramed DEF Calc!Framed
<1>6. cAt[c] # "gone" /\ cOpndCnt = Len(cReq[c].vals)
  <2>1. ~ (cOpndCnt = 0 /\ cRecvLen = 0)
      BY <1>1, CalcAssumption DEF Calc!Complete
  <2>2. cOpndCnt = Len(cReq[c].vals) /\ cGot[c] = cRecvLen + 1
      BY <1>2, <2>1 DEF Collected
  <2> QED BY <2>2 DEF Requests, CalcTypeOK
<1>7. cArrived[c] > 0
  <2>1. cGot[c] = cRecvLen + 1
      BY <1>2, <1>6 DEF Collected
  <2> QED BY <2>1 DEF Requests, CalcTypeOK
<1>8. cReq[c].vals \in Seq(Calc!Ints) /\ cReq[c].op \in Calc!Operators
  <2>1. cReq[c].vals \in Seq(Operands) /\ Operands \subseteq Calc!Ints
      BY CalcAssumption DEF CalcTypeOK, Calc!Ints
  <2> QED BY <2>1, SeqMonotonic DEF CalcTypeOK
<1>9. cReq[c].vals # <<>> => x = Calc!Number(Calc!Wrapped(Calc!Exact(cReq[c].vals, cReq[c].op)))
  <2> SUFFICES ASSUME cReq[c].vals # <<>>
               PROVE  x = Calc!Number(Calc!Wrapped(Calc!Exact(cReq[c].vals, cReq[c].op)))
      OBVIOUS
  <2>1. cOpndCnt > 0
      BY <1>6, <1>8
  <2>2. PICK b \in Nat : b = cOpndCnt * OpSz
      BY CalcAssumption DEF CalcTypeOK
  <2>3. cRecvLen = b + 1
      BY <1>5, <1>6, <2>2 DEF Calc!Body
  <2>4. Calc!InPlace
    <3>1. \A p \in 1 .. b : p \in 1 .. cRecvLen
        BY <2>3
    <3>2. \A p \in 1 .. b : cOpinfo[p - 1] = <<c, p>>
        BY <1>5, <3>1
    <3>3. cRecvLen \in 1 .. cRecvLen
        BY <2>3
    <3>4. cOpinfo[cRecvLen - 1] = <<c, b + 1>>
        BY <1>5, <2>3, <3>3
    <3> QED BY <1>2, <2>2, <3>2, <3>4 DEF Calc!InPlace
  <2>5. Calc!Calculate(cReq[c].vals, cReq[c].op) = Calc!Wrapped(Calc!Exact(cReq[c].vals, cReq[c].op))
      BY <1>8, CalculateExact
  <2> QED BY <1>3, <2>1, <2>4, <2>5
<1>10. x \in Answers
  <2>1. CASE x = Calc!Junk
      BY <2>1 DEF Answers
  <2>2. CASE cOpndCnt > 0
    <3>1. cReq[c].vals # <<>>
        BY <1>6, <2>2
    <3>2. cReq[c].vals \in Seq(Int)
      <4>1. Calc!Ints \subseteq Int
          BY WidthType DEF Calc!Ints
      <4> QED BY <1>8, <4>1, SeqMonotonic
    <3>3. Calc!Exact(cReq[c].vals, cReq[c].op) \in Int
        BY <1>8, <3>1, <3>2, ExactInt
    <3>4. Calc!Wrapped(Calc!Exact(cReq[c].vals, cReq[c].op)) \in Calc!Ints
        BY <3>3, WrappedSame
    <3> QED BY <1>9, <3>1, <3>4 DEF Answers
  <2> QED BY <1>3, <2>1, <2>2
<1>11. CalcTypeOK'
    BY <1>1, <1>4, <1>10 DEF CalcTypeOK
<1>12. cResult'[c] = x /\ \A d \in Users : d # c => cResult'[d] = cResult[d]
    BY <1>4 DEF CalcTypeOK
<1>13. Requests'
  <2>1. cAt[c] \notin {"idle", "user", "mute", "gone"}
      BY <1>7 DEF Requests
  <2> QED BY <1>1, <1>2, <1>12, <2>1 DEF Requests, Calc!Body
<1>14. Serving'
    BY <1>1 DEF Serving
<1>15. Calc!ResultRight'
    BY <1>1, <1>9, <1>12 DEF Calc!ResultRight
<1> QED
    BY <1>11, <1>13, <1>14, <1>15

LEMMA CalcInductive == ASSUME CalcInv, [Calc!Next]_(Calc!vars) PROVE CalcInv'
<1>1. CASE UNCHANGED Calc!vars
  <2>1. UNCHANGED <<cReq, cAt, cArrived, cGot, cResult, cSrv, cCur, cServed, cOpndCnt, cRecvLen, cOpinfo>>
      BY <1>1 DEF Calc!vars, Calc!clientVars, Calc!serverVars
  <2> QED BY <2>1 DEF CalcInv, CalcTypeOK, Requests, Calc!Body, Serving, Collected, Calc!ResultRight
<1> QED
    BY <1>1, CalcClientStep, CalcArriveStep, CalcAcceptStep, CalcAcceptFailsStep, CalcCountStep,
       CalcBodyStep, CalcReplyStep
    DEF Calc!Next, Calc!Server

\* The inductive invariant of the calculator.
THEOREM CalcInvariance == SuiteSpec => []CalcInv
<1>1. SuiteInit => CalcInv
    BY CalcInitial DEF SuiteInit
<1>2. CalcInv /\ [SuiteNext]_suiteVars => CalcInv'
    BY SuiteSteps, CalcInductive
<1> QED
    BY <1>1, <1>2, PTL DEF SuiteSpec

\* However the stream is cut, the server has the request of its client whole
\* when it calculates (lines 59-63 of Op_server_win.cpp), and what it answers
\* is the result of the arithmetic on unbounded integers, wrapped once (lines
\* 73-90), for ints of any width.
THEOREM AnswersRight == SuiteSpec => []CalcRight
<1>1. CalcInv => CalcRight
    BY CompleteFramed DEF CalcInv, CalcRight
<1> QED
    BY CalcInvariance, <1>1, PTL
=============================================================================
