--------------------------- MODULE SelectServerProofs ---------------------------
(***************************************************************************)
(* Proofs about SelectServer, for any set of clients and any FD_SETSIZE.   *)
(*                                                                         *)
(* What the hang-up closes is an entry of the copy at an index into reads. *)
(* The listener is safe from it because it can only be the first entry of  *)
(* the copy, and a client is never the first one of reads; a client is, as *)
(* long as select reports no other, because the two arrays then agree      *)
(* where they are used.                                                    *)
(***************************************************************************)
EXTENDS SelectServer, FiniteSetTheorems, TLAPS

\* The listener is open and first in reads, which has no socket twice; a client
\* in there has been accepted.
Watching ==
    /\ sock[ServSock] = "open" /\ Len(reads) > 0 /\ reads[1] = ServSock
    /\ \A j, k \in 1 .. Len(reads) : reads[j] = reads[k] => j = k
    /\ \A k \in 1 .. Len(reads) : reads[k] \in Clients => sock[reads[k]] # "none"

\* The copy holds sockets; the listener can only be the first of them.
Copied ==
    /\ \A k \in 1 .. Len(cpy) : cpy[k] # NoSock /\ (cpy[k] \in Clients => sock[cpy[k]] # "none")
    /\ \A k \in 2 .. Len(cpy) : cpy[k] # ServSock

\* What is in the copy is not behind its end in reads, so that an index into
\* reads is one into the copy.
Within == \A k \in 1 .. Len(reads) : (\E j \in 1 .. Len(cpy) : cpy[j] = reads[k]) => k <= Len(cpy)

\* A client that select has reported alone has one index in both arrays.
Paired ==
    Crowd \/ \A k \in i .. Len(reads) : reads[k] \in Clients /\ IsSet(reads[k]) => cpy[k] = reads[k]

Scanning == Copied /\ Within /\ Paired

Safe == pc # "exit" => Watching /\ (pc = "scan" => Scanning)

IInv == TypeOK /\ Safe

LEMMA Initial == Init => IInv
<1> SUFFICES ASSUME Init PROVE IInv
    OBVIOUS
<1> USE DEF Init
<1>1. TypeOK
    BY SelectAssumption DEF TypeOK, Sockets
<1>2. Watching
    BY SelectAssumption DEF Watching
<1> QED
    BY <1>1, <1>2 DEF IInv, Safe

LEMMA Offset ==
    ASSUME NEW n \in Nat, NEW j \in 1 .. n, NEW k \in j .. n - 1
    PROVE  \E m \in 1 .. n - j : m = k - (j - 1) /\ m + j = k + 1
<1>1. k - (j - 1) \in 1 .. n - j /\ (k - (j - 1)) + j = k + 1
    OBVIOUS
<1> QED
    BY <1>1

\* The array without its entry at j.
LEMMA Without ==
    ASSUME NEW S, NEW s \in Seq(S), NEW j \in 1 .. Len(s)
    PROVE  /\ RemoveAt(s, j) \in Seq(S) /\ Len(RemoveAt(s, j)) = Len(s) - 1
           /\ \A k \in 1 .. Len(s) - 1 : RemoveAt(s, j)[k] = IF k < j THEN s[k] ELSE s[k + 1]
<1>1. PICK n \in Nat : n = Len(s) /\ n > 0
    OBVIOUS
<1>2. PICK a, b : a = SubSeq(s, 1, j - 1) /\ b = SubSeq(s, j + 1, n)
    OBVIOUS
<1>3. /\ a \in Seq(S) /\ Len(a) = j - 1 /\ \A k \in 1 .. j - 1 : a[k] = s[k]
      /\ b \in Seq(S) /\ Len(b) = n - j /\ \A k \in 1 .. n - j : b[k] = s[k + j]
    BY <1>1, <1>2
<1>4. RemoveAt(s, j) = a \o b
    BY <1>1, <1>2 DEF RemoveAt
<1>5. /\ a \o b \in Seq(S) /\ Len(a \o b) = n - 1
      /\ \A k \in 1 .. n - 1 : (a \o b)[k] = IF k < j THEN a[k] ELSE b[k - (j - 1)]
    BY <1>1, <1>3
<1>6. \A k \in 1 .. n - 1 : k >= j => b[k - (j - 1)] = s[k + 1]
  <2> SUFFICES ASSUME NEW k \in 1 .. n - 1, k >= j PROVE b[k - (j - 1)] = s[k + 1]
      OBVIOUS
  <2>1. PICK m \in 1 .. n - j : m = k - (j - 1) /\ m + j = k + 1
      BY <1>1, Offset
  <2> QED
      BY <1>3, <2>1
<1> QED
    BY <1>1, <1>3, <1>4, <1>5, <1>6

LEMMA Cleared ==
    ASSUME reads \in Seq(Sockets), i \in 1 .. Len(reads)
    PROVE  /\ RemoveAt(reads, i) \in Seq(Sockets) /\ Len(RemoveAt(reads, i)) = Len(reads) - 1
           /\ \A k \in 1 .. Len(reads) - 1 :
                 RemoveAt(reads, i)[k] = IF k < i THEN reads[k] ELSE reads[k + 1]
<1>1. \E r \in Seq(Sockets) : \E j \in 1 .. Len(r) : r = reads /\ j = i
    BY Zenon
<1>2. PICK r \in Seq(Sockets) : \E j \in 1 .. Len(r) : r = reads /\ j = i
    BY <1>1
<1>3. PICK j \in 1 .. Len(r) : r = reads /\ j = i
    BY <1>2
<1>4. /\ RemoveAt(r, j) \in Seq(Sockets) /\ Len(RemoveAt(r, j)) = Len(r) - 1
      /\ \A k \in 1 .. Len(r) - 1 : RemoveAt(r, j)[k] = IF k < j THEN r[k] ELSE r[k + 1]
    BY Without
<1> QED
    BY <1>3, <1>4

\* A step of a client.
LEMMA ClientStep ==
    ASSUME IInv, NEW c \in Clients, Connect(c) \/ Write(c) \/ Fin(c) \/ Reset(c)
    PROVE  IInv'
<1>1. UNCHANGED <<out, got, sock, reads, cpy, nReady, i, pc>>
    BY DEF Connect, Write, Fin, Reset, ServerState, setVars
<1>2. sent' \in [Clients -> 0 .. MaxBytes] /\ peer' \in [Clients -> {"idle", "up", "fin", "rst"}]
  <2>1. CASE Write(c)
      BY <2>1, SelectAssumption DEF IInv, TypeOK, Write
  <2>2. CASE Connect(c) \/ Fin(c) \/ Reset(c)
      BY <2>2 DEF IInv, TypeOK, Connect, Fin, Reset
  <2> QED
      BY <2>1, <2>2
<1>3. TypeOK'
    BY <1>1, <1>2 DEF IInv, TypeOK
<1>4. Safe'
    BY <1>1, SMTT(40) DEF IInv, Safe, Watching, Scanning, Copied, Within, Paired, Crowd, IsSet
<1> QED
    BY <1>3, <1>4 DEF IInv

\* select packs what is ready to the front.
LEMMA SelectStep == ASSUME IInv, Select PROVE IInv'
<1>1. /\ pc = "select" /\ pc' = "scan" /\ i' = 1
      /\ UNCHANGED <<sent, peer, out, got, sock, reads>>
      /\ \A s \in Range(reads) : ~Invalid(s)
    BY DEF Select, clientVars
<1>2. PICK n \in Nat : n = Len(reads) /\ n \in 1 .. FdSetSize /\ reads \in Seq(Sockets)
    BY DEF IInv, TypeOK
<1>3. PICK ready : ready = {k \in DOMAIN reads : Ready(reads[k])}
    OBVIOUS
<1>4. ready \subseteq 1 .. n
    BY <1>2, <1>3
<1>5. PICK count \in 0 .. n : count = Cardinality(ready)
  <2>0. 1 \in Int /\ n \in Int /\ n >= 1
      BY <1>2
  <2>1. IsFiniteSet(1 .. n) /\ Cardinality(1 .. n) = n
      BY <2>0, FS_Interval
  <2>2. IsFiniteSet(ready) /\ Cardinality(ready) <= n
      BY <1>4, <2>1, FS_Subset
  <2> QED
      BY <1>2, <2>2, FS_CardinalityType
<1>6. PICK at \in [1 .. count -> ready] :
         /\ \A j, k \in 1 .. count : j < k => at[j] < at[k]
         /\ cpy' = [k \in 1 .. Len(reads) |-> reads[IF k <= count THEN at[k] ELSE k]]
    BY <1>3, <1>5 DEF Select
<1>7. nReady' = count
    BY <1>3, <1>5 DEF Select
<1>8. \A k \in 1 .. count : at[k] \in 1 .. n
    BY <1>4, <1>6
<1>9. \A k \in 1 .. n : reads[k] \in Sockets
    BY <1>2
<1>10. /\ cpy' \in Seq(Sockets) /\ Len(cpy') = n
       /\ \A k \in 1 .. count : cpy'[k] = reads[at[k]]
       /\ \A k \in 1 .. n : k > count => cpy'[k] = reads[k]
  <2>1. cpy' = [k \in 1 .. n |-> reads[IF k <= count THEN at[k] ELSE k]]
      BY <1>2, <1>6
  <2>2. \A k \in 1 .. n : cpy'[k] = IF k <= count THEN reads[at[k]] ELSE reads[k]
      BY <2>1
  <2>3. \A k \in 1 .. n : cpy'[k] \in Sockets
      BY <1>8, <1>9, <2>2
  <2>4. cpy' \in [1 .. n -> Sockets]
      BY <2>1, <2>3
  <2>5. cpy' \in Seq(Sockets) /\ Len(cpy') = n
      BY <2>1, <2>4
  <2> QED
      BY <2>2, <2>5
<1>11. TypeOK'
  <2>1. nReady' \in 0 .. Len(cpy') /\ i' \in 1 .. FdSetSize + 1
      BY <1>1, <1>7, <1>10, SelectAssumption
  <2> QED
      BY <1>1, <1>10, <2>1 DEF IInv, TypeOK
<1>12. Watching
    BY <1>1 DEF IInv, Safe
<1>13. \A k \in 1 .. n : reads[k] # NoSock /\ (reads[k] \in Clients => sock[reads[k]] # "none")
  <2> SUFFICES ASSUME NEW k \in 1 .. n PROVE reads[k] # NoSock
      BY <1>2, <1>12 DEF Watching
  <2>1. reads[k] \in Range(reads)
      BY <1>2 DEF Range
  <2>2. ~Invalid(reads[k])
      BY <1>1, <2>1
  <2> QED
      BY <2>2, SelectAssumption DEF Invalid, IInv, TypeOK
\* Each entry of the copy is one of reads, and none but the first is the first.
<1>14. \A k \in 1 .. n : \E m \in 1 .. n : cpy'[k] = reads[m] /\ (k # 1 => m # 1)
  <2> SUFFICES ASSUME NEW k \in 1 .. n
               PROVE  \E m \in 1 .. n : cpy'[k] = reads[m] /\ (k # 1 => m # 1)
      OBVIOUS
  <2>1. CASE k > count
      BY <1>10, <2>1
  <2>2. CASE k \in 1 .. count
    <3>1. PICK m \in 1 .. n : m = at[k]
        BY <1>8, <2>2
    <3>2. k # 1 => m # 1
      <4> SUFFICES ASSUME k # 1 PROVE m # 1
          OBVIOUS
      <4>1. 1 \in 1 .. count /\ 1 < k
          BY <2>2
      <4>2. PICK l \in 1 .. n : l = at[1]
          BY <1>8, <4>1
      <4>3. l < m
          BY <1>6, <2>2, <3>1, <4>1, <4>2
      <4> QED
          BY <4>3
    <3> QED
        BY <1>10, <2>2, <3>1, <3>2
  <2> QED
      BY <1>5, <2>1, <2>2
<1>15. Copied'
  <2> SUFFICES ASSUME NEW k \in 1 .. n
               PROVE  /\ cpy'[k] # NoSock /\ (cpy'[k] \in Clients => sock'[cpy'[k]] # "none")
                      /\ k # 1 => cpy'[k] # ServSock
      BY <1>2, <1>10 DEF Copied
  <2>1. PICK m \in 1 .. n : cpy'[k] = reads[m] /\ (k # 1 => m # 1)
      BY <1>14
  <2>2. m # 1 => reads[m] # ServSock
      BY <1>2, <1>12 DEF Watching
  <2> QED
      BY <1>1, <1>13, <2>1, <2>2
<1>16. Within'
    BY <1>1, <1>2, <1>10 DEF Within
<1>17. Paired'
  <2> SUFFICES ASSUME ~Crowd', NEW k \in 1 .. n, reads[k] \in Clients, IsSet(reads[k])'
               PROVE  cpy'[k] = reads[k]
      BY <1>1, <1>2 DEF Paired
  <2>1. CASE k > count
      BY <1>10, <2>1
  <2>2. CASE k \in 1 .. count
    <3>1. k # 1
        BY <1>12, SelectAssumption DEF Watching
    <3>2. PICK d \in Sockets : d = cpy'[k]
        BY <1>9, <1>14
    <3>3. d \in Clients
        BY <1>10, <1>15, <3>1, <3>2 DEF Copied, Sockets
    <3>4. IsSet(d)'
        BY <1>7, <2>2, <3>2 DEF IsSet
    <3>5. PICK e \in Clients : e = reads[k]
        OBVIOUS
    <3>6. IsSet(e)'
        BY <1>1, <3>5 DEF IsSet
    <3>7. d = e
        BY <3>3, <3>4, <3>6 DEF Crowd
    <3> QED
        BY <3>2, <3>5, <3>7
  <2> QED
      BY <1>5, <2>1, <2>2
<1>18. Watching'
    BY <1>1, <1>12 DEF Watching
<1> QED
    BY <1>11, <1>15, <1>16, <1>17, <1>18 DEF IInv, Safe, Scanning

\* FD_SET appends, or does nothing.
LEMMA Appended ==
    ASSUME NEW s, NEW set
    PROVE  \/ FdSet(s, set) = set /\ (s \in Range(set) \/ Len(set) >= FdSetSize)
           \/ /\ s \notin Range(set) /\ ~(Len(set) >= FdSetSize)
              /\ FdSet(s, set) = Append(set, s)
    BY DEF FdSet

\* The client accepted is new to both arrays.
LEMMA AcceptStep == ASSUME IInv, Accept PROVE IInv'
<1>1. /\ pc = "scan" /\ i <= Len(reads) /\ reads[i] = ServSock
      /\ UNCHANGED <<sent, peer, out, got, cpy, nReady, pc>> /\ i' = i + 1
    BY DEF Accept, At, clientVars
<1>2. PICK c \in Clients, x \in Clients \cup {NoSock}, v \in {"open", "closed"} :
         x \in {c, NoSock} /\ sock[c] = "none" /\ sock' = [sock EXCEPT ![c] = v] /\ reads' = FdSet(x, reads)
    BY DEF Accept, Waiting
<1>3. Watching /\ Copied /\ Within /\ Paired
    BY <1>1 DEF IInv, Safe, Scanning
<1>4. PICK n \in Nat, l \in Nat :
         n = Len(reads) /\ n \in 1 .. FdSetSize /\ reads \in Seq(Sockets)
         /\ l = Len(cpy) /\ nReady \in 0 .. l /\ i \in 1 .. n
    BY <1>1, SelectAssumption DEF IInv, TypeOK
<1>5. /\ sock' \in [Clients \cup {ServSock} -> {"none", "open", "closed"}]
      /\ \A s \in Clients \cup {ServSock} : s # c => sock'[s] = sock[s]
      /\ sock'[c] # "none" /\ c # ServSock /\ x # ServSock /\ x \in Sockets
    BY <1>2, SelectAssumption DEF IInv, TypeOK, Sockets
<1>6. \A k \in 1 .. l : cpy[k] # x
    BY <1>2, <1>3, <1>4 DEF Copied
<1>7. /\ reads' \in Seq(Sockets) /\ Len(reads') \in {n, n + 1} /\ Len(reads') \in 1 .. FdSetSize
      /\ \A k \in 1 .. n : reads'[k] = reads[k] /\ (Len(reads') = n + 1 => reads[k] # x)
      /\ Len(reads') = n + 1 => reads'[n + 1] = x
  <2>1. CASE reads' = reads
      BY <1>4, <2>1
  <2>2. CASE x \notin Range(reads) /\ ~(Len(reads) >= FdSetSize) /\ reads' = Append(reads, x)
    <3>1. \A k \in 1 .. n : reads[k] # x
        BY <1>4, <2>2 DEF Range
    <3> QED
        BY <1>4, <1>5, <2>2, <3>1, SelectAssumption
  <2> QED
      BY <1>2, <2>1, <2>2, Appended
<1>8. TypeOK'
  <2>1. i' \in 1 .. FdSetSize + 1
      BY <1>1, <1>4, SelectAssumption
  <2> QED
      BY <1>1, <1>5, <1>7, <2>1 DEF IInv, TypeOK
<1>9. \A k \in 1 .. Len(reads') : k \in 1 .. n \/ (k = n + 1 /\ Len(reads') = n + 1)
    BY <1>4, <1>7
<1>10. Watching'
  <2>1. \A j, k \in 1 .. Len(reads') : reads'[j] = reads'[k] => j = k
      BY <1>3, <1>4, <1>7, <1>9 DEF Watching
  <2>2. \A k \in 1 .. Len(reads') : reads'[k] \in Clients => sock'[reads'[k]] # "none"
      BY <1>2, <1>3, <1>4, <1>5, <1>7, <1>9, SelectAssumption DEF Watching
  <2>3. sock'[ServSock] = "open" /\ Len(reads') > 0 /\ reads'[1] = ServSock
      BY <1>3, <1>4, <1>5, <1>7 DEF Watching
  <2> QED
      BY <2>1, <2>2, <2>3 DEF Watching
<1>11. Copied'
    BY <1>1, <1>3, <1>5 DEF Copied
<1>12. Within'
    BY <1>1, <1>3, <1>4, <1>6, <1>7, <1>9 DEF Within
<1>13. Paired'
  <2>1. (Crowd' <=> Crowd) /\ \A s : IsSet(s)' <=> IsSet(s)
      BY <1>1 DEF Crowd, IsSet
  <2>2. ~IsSet(x)
      BY <1>4, <1>6 DEF IsSet
  <2> SUFFICES ASSUME ~Crowd, NEW k \in i' .. Len(reads'), reads'[k] \in Clients, IsSet(reads'[k])
               PROVE  cpy[k] = reads'[k]
      BY <1>1, <2>1 DEF Paired
  <2>3. k \in 1 .. n /\ k \in i .. n
      BY <1>1, <1>4, <1>7, <1>9, <2>2
  <2> QED
      BY <1>3, <1>4, <1>7, <2>3 DEF Paired
<1> QED
    BY <1>1, <1>8, <1>10, <1>11, <1>12, <1>13 DEF IInv, Safe, Scanning

\* The entry closed is a client, and the index is one of both arrays.
LEMMA Closes ==
    ASSUME IInv, NEW c \in Clients, HangUp(c)
    PROVE  /\ pc = "scan" /\ Watching /\ Copied /\ Within /\ Paired
           /\ i \in 2 .. Len(reads) /\ reads[i] = c /\ i \in 1 .. Len(cpy) /\ IsSet(c)
           /\ cpy[i] \in Clients
           /\ ~Crowd => cpy[i] = c
<1>1. pc = "scan" /\ i <= Len(reads) /\ reads[i] = c /\ IsSet(c)
    BY DEF HangUp, At
<1>2. Watching /\ Copied /\ Within /\ Paired
    BY <1>1 DEF IInv, Safe, Scanning
<1>3. PICK n \in Nat, l \in Nat : n = Len(reads) /\ l = Len(cpy) /\ nReady \in 0 .. l /\ i \in 1 .. n
    BY <1>1 DEF IInv, TypeOK
<1>4. i # 1
    BY <1>1, <1>2, SelectAssumption DEF Watching
<1>5. i \in 1 .. l
  <2>1. PICK j \in 1 .. nReady : cpy[j] = c
      BY <1>1 DEF IsSet
  <2>2. j \in 1 .. l
      BY <1>3
  <2> QED
      BY <1>1, <1>2, <1>3, <2>1, <2>2 DEF Within
<1>6. cpy[i] \in Clients
  <2>1. cpy[i] \in Sockets
      BY <1>3, <1>5 DEF IInv, TypeOK
  <2>2. cpy[i] # NoSock /\ cpy[i] # ServSock
      BY <1>2, <1>3, <1>4, <1>5 DEF Copied
  <2> QED
      BY <2>1, <2>2 DEF Sockets
<1>7. ~Crowd => cpy[i] = c
    BY <1>1, <1>2, <1>3 DEF Paired
<1> QED
    BY <1>1, <1>2, <1>3, <1>4, <1>5, <1>6, <1>7

LEMMA HangUpStep == ASSUME IInv, NEW c \in Clients, HangUp(c) PROVE IInv'
<1>1. /\ UNCHANGED <<sent, peer, out, got, cpy, nReady, pc>> /\ i' = i + 1
      /\ reads' = RemoveAt(reads, i) /\ sock' = [sock EXCEPT ![cpy[i]] = "closed"]
    BY DEF HangUp, clientVars
<1>2. /\ pc = "scan" /\ Watching /\ Copied /\ Within /\ Paired
      /\ i \in 2 .. Len(reads) /\ reads[i] = c /\ i \in 1 .. Len(cpy) /\ IsSet(c)
      /\ cpy[i] \in Clients
    BY Closes
<1>3. PICK n \in Nat, l \in Nat :
         n = Len(reads) /\ n \in 1 .. FdSetSize /\ reads \in Seq(Sockets) /\ l = Len(cpy)
    BY DEF IInv, TypeOK
<1>4. /\ reads' \in Seq(Sockets) /\ Len(reads') = n - 1
      /\ \A k \in 1 .. n - 1 : reads'[k] = IF k < i THEN reads[k] ELSE reads[k + 1]
  <2>1. reads \in Seq(Sockets) /\ i \in 1 .. Len(reads)
      BY <1>2, <1>3
  <2> QED
      BY <1>1, <1>3, <2>1, Cleared
\* Where each entry was before.
<1>5. \A k \in 1 .. n - 1 : \E m \in 1 .. n : /\ reads'[k] = reads[m] /\ m # i /\ k <= m
                                             /\ m = IF k < i THEN k ELSE k + 1
    BY <1>2, <1>3, <1>4
<1>6. /\ sock' \in [Clients \cup {ServSock} -> {"none", "open", "closed"}]
      /\ \A s \in Clients \cup {ServSock} : sock[s] # "none" => sock'[s] # "none"
      /\ sock'[ServSock] = sock[ServSock]
    BY <1>1, <1>2, SelectAssumption DEF IInv, TypeOK
<1>7. TypeOK'
  <2>1. i' \in 1 .. FdSetSize + 1 /\ Len(reads') \in 1 .. FdSetSize
      BY <1>1, <1>2, <1>3, <1>4, SelectAssumption
  <2> QED
      BY <1>1, <1>4, <1>6, <2>1 DEF IInv, TypeOK
<1>8. Watching'
  <2>1. \A j, k \in 1 .. Len(reads') : reads'[j] = reads'[k] => j = k
    <3> SUFFICES ASSUME NEW j \in 1 .. n - 1, NEW k \in 1 .. n - 1, reads'[j] = reads'[k]
                 PROVE  j = k
        BY <1>4
    <3>1. PICK a \in 1 .. n : reads'[j] = reads[a] /\ a = IF j < i THEN j ELSE j + 1
        BY <1>5
    <3>2. PICK b \in 1 .. n : reads'[k] = reads[b] /\ b = IF k < i THEN k ELSE k + 1
        BY <1>5
    <3>3. a = b
        BY <1>2, <1>3, <3>1, <3>2 DEF Watching
    <3> QED
        BY <1>2, <1>3, <3>1, <3>2, <3>3
  <2>2. \A k \in 1 .. Len(reads') : reads'[k] \in Clients => sock'[reads'[k]] # "none"
    <3> SUFFICES ASSUME NEW k \in 1 .. n - 1, reads'[k] \in Clients PROVE sock'[reads'[k]] # "none"
        BY <1>4
    <3>1. PICK m \in 1 .. n : reads'[k] = reads[m]
        BY <1>5
    <3> QED
        BY <1>2, <1>3, <1>6, <3>1 DEF Watching
  <2>3. Len(reads') > 0 /\ reads'[1] = reads[1]
      BY <1>2, <1>3, <1>4
  <2> QED
      BY <1>2, <1>6, <2>1, <2>2, <2>3 DEF Watching
<1>9. Copied'
    BY <1>1, <1>2, <1>6 DEF Copied
<1>10. Within'
  <2> SUFFICES ASSUME NEW k \in 1 .. n - 1, NEW j \in 1 .. l, cpy[j] = reads'[k] PROVE k <= l
      BY <1>1, <1>3, <1>4 DEF Within
  <2>1. PICK m \in 1 .. n : reads'[k] = reads[m] /\ k <= m
      BY <1>5
  <2>2. m <= l
      BY <1>2, <1>3, <2>1 DEF Within
  <2> QED
      BY <1>3, <2>1, <2>2
<1>11. Paired'
  <2>1. (Crowd' <=> Crowd) /\ \A s : IsSet(s)' <=> IsSet(s)
      BY <1>1 DEF Crowd, IsSet
  <2> SUFFICES ASSUME ~Crowd, NEW k \in i' .. Len(reads'), reads'[k] \in Clients, IsSet(reads'[k])
               PROVE  FALSE
      BY <2>1 DEF Paired
  <2>2. k \in 1 .. n - 1
      BY <1>1, <1>2, <1>3, <1>4
  <2>3. PICK m \in 1 .. n : reads'[k] = reads[m] /\ m # i
      BY <1>5, <2>2
  <2>4. reads[m] = c
      BY <1>2, <2>3 DEF Crowd
  <2> QED
      BY <1>2, <1>3, <2>3, <2>4 DEF Watching
<1> QED
    BY <1>1, <1>2, <1>7, <1>8, <1>9, <1>10, <1>11 DEF IInv, Safe, Scanning

\* The steps of the pass that change no set.
LEMMA PassStep ==
    ASSUME IInv, ScanSkip \/ (\E c \in Clients : Echo(c) \/ RecvFails(c))
    PROVE  IInv'
<1>1. UNCHANGED <<sent, peer, sock, reads, cpy, nReady, pc>> /\ i' = i + 1
      /\ pc = "scan" /\ i <= Len(reads)
    BY DEF ScanSkip, Echo, RecvFails, At, clientVars, setVars
<1>2. got' \in [Clients -> 0 .. MaxBytes] /\ out' \in [Clients -> Seq(1 .. MaxBytes)]
  <2>1. CASE UNCHANGED <<out, got>>
      BY <2>1 DEF IInv, TypeOK
  <2>2. ASSUME NEW c \in Clients, Echo(c)
        PROVE  got' \in [Clients -> 0 .. MaxBytes] /\ out' \in [Clients -> Seq(1 .. MaxBytes)]
    <3>1. PICK k \in 1 .. BufSize :
             /\ got[c] + k <= sent[c]
             /\ got' = [got EXCEPT ![c] = @ + k]
             /\ out' = [out EXCEPT ![c] = @ \o [j \in 1 .. k |-> got[c] + j]]
        BY <2>2 DEF Echo
    <3>2. PICK g \in Nat : g = got[c] /\ g + k \in 0 .. MaxBytes /\ k \in Nat
        BY <3>1, SelectAssumption DEF IInv, TypeOK
    <3>3. PICK new : new = [j \in 1 .. k |-> g + j]
        OBVIOUS
    <3>4. new \in Seq(1 .. MaxBytes)
      <4>1. \A j \in 1 .. k : g + j \in 1 .. MaxBytes
          BY <3>2, SelectAssumption
      <4> QED
          BY <3>2, <3>3, <4>1
    <3>5. PICK both : both = out[c] \o new /\ both \in Seq(1 .. MaxBytes)
      <4>1. PICK had \in Seq(1 .. MaxBytes) : had = out[c]
          BY DEF IInv, TypeOK
      <4>2. had \o new \in Seq(1 .. MaxBytes)
          BY <3>4
      <4> QED
          BY <4>1, <4>2
    <3>6. out' = [out EXCEPT ![c] = both]
        BY <3>1, <3>2, <3>3, <3>5 DEF IInv, TypeOK
    <3>7. got' = [got EXCEPT ![c] = g + k]
        BY <3>1, <3>2 DEF IInv, TypeOK
    <3> QED
        BY <3>2, <3>5, <3>6, <3>7 DEF IInv, TypeOK
  <2> QED
      BY <2>1, <2>2 DEF ScanSkip, RecvFails
<1>3. TypeOK'
  <2>1. i' \in 1 .. FdSetSize + 1
      BY <1>1, SelectAssumption DEF IInv, TypeOK
  <2> QED
      BY <1>1, <1>2, <2>1 DEF IInv, TypeOK
<1>4. Paired'
  <2>1. (Crowd' <=> Crowd) /\ \A s : IsSet(s)' <=> IsSet(s)
      BY <1>1 DEF Crowd, IsSet
  <2>2. \A k \in i' .. Len(reads) : k \in i .. Len(reads)
      BY <1>1 DEF IInv, TypeOK
  <2>3. Paired
      BY <1>1 DEF IInv, Safe, Scanning
  <2> QED
      BY <1>1, <2>1, <2>2, <2>3 DEF Paired
<1>5. Safe'
    BY <1>1, <1>4 DEF IInv, Safe, Watching, Scanning, Copied, Within
<1> QED
    BY <1>3, <1>5 DEF IInv

\* The end of a pass, the end of the program, and steps that change nothing.
LEMMA EndStep == ASSUME IInv, ScanEnd \/ SelectFails \/ UNCHANGED vars PROVE IInv'
<1>1. CASE SelectFails
  <2>1. UNCHANGED <<sent, peer, out, got, reads, cpy, nReady, i>> /\ pc' = "exit"
      /\ sock' = [s \in DOMAIN sock |-> "closed"]
      BY <1>1 DEF SelectFails, clientVars, setVars
  <2>2. TypeOK'
      BY <2>1 DEF IInv, TypeOK
  <2> QED
      BY <2>1, <2>2 DEF IInv, Safe
<1>2. CASE ScanEnd \/ UNCHANGED vars
  <2>1. UNCHANGED <<sent, peer, out, got, sock, reads, cpy, nReady, i>>
        /\ (pc' = pc \/ (pc = "scan" /\ pc' = "select"))
      BY <1>2 DEF ScanEnd, vars, clientVars, setVars
  <2>2. TypeOK'
      BY <2>1 DEF IInv, TypeOK
  <2>3. Safe'
      BY <2>1 DEF IInv, Safe, Watching, Scanning, Copied, Within, Paired, Crowd, IsSet
  <2> QED
      BY <2>2, <2>3 DEF IInv
<1> QED
    BY <1>1, <1>2

LEMMA Inductive == ASSUME IInv, [Next]_vars PROVE IInv'
    BY ClientStep, SelectStep, AcceptStep, HangUpStep, PassStep, EndStep DEF Next, Server

-----------------------------------------------------------------------------

\* The inductive invariant.
THEOREM Invariance == Spec => []IInv
<1> QED
    BY Initial, Inductive, PTL DEF Spec

\* The variables take the values that their declarations promise; the pass
\* stays within the arrays of the two sets (lines 67-91).
THEOREM TypeCorrect == Spec => []TypeOK
<1>1. IInv => TypeOK
    BY DEF IInv
<1> QED
    BY Invariance, <1>1, PTL

\* Whatever is removed from one array and closed by the other, the listening
\* socket stays open and watched as long as the server runs (lines 83-84).
THEOREM ListenerStays == Spec => []ListenerSurvives
<1>1. IInv => ListenerSurvives
    BY DEF IInv, Safe, Watching, ListenerSurvives
<1> QED
    BY Invariance, <1>1, PTL

\* A step loses no client from reads but one that has left, or one accepted
\* when the set is full (lines 75 and 83).
THEOREM NobodyLost == Spec => Watched
<1> DEFINE A == \A c \in Clients : sock'[c] = "open" /\ c \notin Range(reads') =>
                   \/ peer[c] = "fin"
                   \/ sock[c] = "open" /\ c \notin Range(reads)
                   \/ sock[c] # "open" /\ Len(reads) = FdSetSize
<1>1. IInv /\ [Next]_vars => [A]_vars
  <2> SUFFICES ASSUME IInv, Next, NEW c \in Clients, sock'[c] = "open", c \notin Range(reads')
               PROVE  \/ peer[c] = "fin"
                      \/ sock[c] = "open" /\ c \notin Range(reads)
                      \/ sock[c] # "open" /\ Len(reads) = FdSetSize
      OBVIOUS
  <2>1. CASE UNCHANGED <<sock, reads>>
      BY <2>1
  <2>2. CASE SelectFails
      BY <2>2 DEF SelectFails, IInv, TypeOK
  <2>3. CASE Accept
    <3>1. PICK d \in Clients, x \in Clients \cup {NoSock}, v \in {"open", "closed"} :
             /\ x \in {d, NoSock} /\ sock[d] = "none" /\ sock' = [sock EXCEPT ![d] = v] /\ reads' = FdSet(x, reads)
             /\ v = "open" => x = d
        BY <2>3 DEF Accept, Waiting
    <3>2. PICK n \in Nat : n = Len(reads) /\ n \in 1 .. FdSetSize /\ reads \in Seq(Sockets)
        BY DEF IInv, TypeOK
    <3>3. Range(reads) \subseteq Range(reads') /\ (x \in Range(reads') \/ n = FdSetSize)
      <4>1. CASE reads' = reads /\ (x \in Range(reads) \/ Len(reads) >= FdSetSize)
          BY <3>2, <4>1, SelectAssumption
      <4>2. CASE reads' = Append(reads, x)
        <5>1. DOMAIN reads' = 1 .. n + 1 /\ DOMAIN reads = 1 .. n /\ reads'[n + 1] = x
              /\ \A k \in 1 .. n : reads'[k] = reads[k]
            BY <3>1, <3>2, <4>2
        <5>2. \A k \in 1 .. n : k \in 1 .. n + 1
            BY <3>2
        <5>3. n + 1 \in 1 .. n + 1
            BY <3>2
        <5> QED
            BY <5>1, <5>2, <5>3 DEF Range
      <4> QED
          BY <3>1, <4>1, <4>2, Appended
    <3>4. CASE c = d
        BY <3>1, <3>2, <3>3, <3>4 DEF IInv, TypeOK
    <3>5. CASE c # d
        BY <3>1, <3>3, <3>5 DEF IInv, TypeOK
    <3> QED
        BY <3>4, <3>5
  <2>4. ASSUME NEW d \in Clients, HangUp(d)
        PROVE  peer[c] = "fin" \/ (sock[c] = "open" /\ c \notin Range(reads))
    <3>1. /\ reads' = RemoveAt(reads, i) /\ sock' = [sock EXCEPT ![cpy[i]] = "closed"]
          /\ peer[d] = "fin"
        BY <2>4 DEF HangUp
    <3>2. i \in 2 .. Len(reads) /\ reads[i] = d
        BY <2>4, Closes
    <3>3. PICK n \in Nat : n = Len(reads) /\ reads \in Seq(Sockets)
        BY DEF IInv, TypeOK
    <3>4. sock[c] = "open"
        BY <3>1 DEF IInv, TypeOK
    <3>5. /\ reads' \in Seq(Sockets) /\ Len(reads') = n - 1
          /\ \A k \in 1 .. n - 1 : reads'[k] = IF k < i THEN reads[k] ELSE reads[k + 1]
      <4>1. reads \in Seq(Sockets) /\ i \in 1 .. Len(reads)
          BY <3>2, <3>3
      <4> QED
          BY <3>1, <3>3, <4>1, Cleared
    <3>6. \A k \in 1 .. n : k # i => reads[k] \in Range(reads')
      <4> SUFFICES ASSUME NEW k \in 1 .. n, k # i PROVE reads[k] \in Range(reads')
          OBVIOUS
      <4>1. PICK m \in 1 .. n - 1 : m = IF k < i THEN k ELSE k - 1
        <5>1. CASE k < i
            BY <3>2, <3>3, <5>1
        <5>2. CASE k > i
          <6>1. k - 1 \in 1 .. n - 1
              BY <3>2, <3>3, <5>2
          <6> QED
              BY <3>2, <3>3, <5>2, <6>1
        <5> QED
            BY <3>2, <3>3, <5>1, <5>2
      <4>2. reads'[m] = reads[k]
          BY <3>2, <3>3, <3>5, <4>1
      <4>3. m \in DOMAIN reads'
          BY <3>3, <3>5
      <4> QED
          BY <4>2, <4>3 DEF Range
    <3>7. c \in Range(reads) => c = d
        BY <3>2, <3>3, <3>6 DEF Range
    <3> QED
        BY <3>1, <3>4, <3>7
  <2> QED
      BY <2>1, <2>2, <2>3, <2>4
         DEF Next, Server, Select, ScanSkip, ScanEnd, Echo, RecvFails, Connect, Write, Fin, Reset,
             ServerState, setVars
<1> QED
    BY Invariance, <1>1, PTL DEF Spec, Watched

\* The socket of a client that is there is closed by mistake only after a
\* select that has reported several clients (line 84).
THEOREM CutOffInCrowd == Spec => CutOffNeedsCrowd
<1>1. IInv /\ [Next]_vars => [\A c \in Clients : CutOff(c) => Crowd]_vars
  <2> SUFFICES ASSUME IInv, Next, NEW c \in Clients, CutOff(c) PROVE Crowd
      OBVIOUS
  <2>0. sock[c] = "open" /\ sock'[c] = "closed" /\ peer[c] = "up" /\ pc' # "exit"
      BY DEF CutOff
  <2>1. CASE UNCHANGED sock
      BY <2>0, <2>1
  <2>2. CASE SelectFails
      BY <2>0, <2>2 DEF SelectFails
  <2>3. CASE Accept
      BY <2>0, <2>3 DEF Accept, Waiting, IInv, TypeOK
  <2>4. ASSUME NEW d \in Clients, HangUp(d) PROVE Crowd
    <3>1. sock' = [sock EXCEPT ![cpy[i]] = "closed"] /\ peer[d] = "fin"
        BY <2>4 DEF HangUp
    <3>2. c = cpy[i]
        BY <2>0, <3>1 DEF IInv, TypeOK
    <3>3. ~Crowd => cpy[i] = d
        BY <2>4, Closes
    <3> QED
        BY <2>0, <3>1, <3>2, <3>3
  <2> QED
      BY <2>1, <2>2, <2>3, <2>4
         DEF Next, Server, Select, ScanSkip, ScanEnd, Echo, RecvFails, Connect, Write, Fin, Reset,
             ServerState, setVars
<1> QED
    BY Invariance, <1>1, PTL DEF Spec, CutOffNeedsCrowd
=============================================================================
