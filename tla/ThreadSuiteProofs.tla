--------------------------- MODULE ThreadSuiteProofs ---------------------------
(***************************************************************************)
(* Proofs about the thread examples of ThreadSuite, and about the prime    *)
(* search of PrimeWorkers, for any threads, any inputs and any sizes that  *)
(* their assumptions allow.                                                *)
(*                                                                         *)
(* A step of the suite is a step of one program and leaves the variables   *)
(* of the others alone, so that what every step of a program preserves is  *)
(* preserved by the suite.                                                 *)
(***************************************************************************)
EXTENDS ThreadSuite, PrimeWorkers, Functions, FiniteSetTheorems, WellFoundedInduction, TLAPS

LEMMA SuiteSteps == ASSUME [SuiteNext]_suiteVars
                    PROVE  /\ program' = program
                           /\ [Sema!Next]_(Sema!vars)
                           /\ [Event!Next]_(Event!vars)
                           /\ [Racy!Next]_(Racy!vars)
                           /\ [Locks!Next]_(Locks!vars)
                           /\ program = "race" => [Count!RaceNext]_(Count!vars)
                           /\ program # "race" => [Count!Next]_(Count!vars)
                           /\ [Torn!Next]_(Torn!vars)
<1> USE DEF semaVars, countVars, tornVars, lockVars, eventVars, primeVars,
            Sema!vars, Sema!readVars, Sema!accuVars, Event!vars, Racy!vars, Count!vars,
            Torn!vars, Locks!vars
<1>1. CASE InSema(Sema!Next)
    BY <1>1 DEF InSema
<1>2. CASE InCount(Count!Next)
    BY <1>2 DEF InCount
<1>3. CASE InRace(Count!RaceNext)
    BY <1>3 DEF InRace
<1>4. CASE InLocks(Locks!Next)
    BY <1>4 DEF InLocks
<1>5. CASE InEvent(Event!Next)
    BY <1>5 DEF InEvent
<1>6. CASE InRacy(Racy!Next)
    BY <1>6 DEF InRacy
<1>7. CASE InTorn(Torn!Next)
    BY <1>7 DEF InTorn
<1>8. CASE UNCHANGED suiteVars
    BY <1>8 DEF suiteVars
<1> QED
    BY <1>1, <1>2, <1>3, <1>4, <1>5, <1>6, <1>7, <1>8 DEF SuiteNext

-----------------------------------------------------------------------------
(* The semaphores: there is one baton.  It is a unit of sTwo, then with    *)
(* Read, then a unit of sOne, then with Accu, and where it is tells how    *)
(* the counters and the sums of the two threads differ.                    *)

\* Where the baton can be.
AtSemTwo == sTwo = 1 /\ sOne = 0 /\ sPcR \in {"wait", "done"} /\ sPcA \in {"wait", "done"}
AtScan   == sTwo = 0 /\ sOne = 0 /\ sPcR = "scan" /\ sPcA = "wait"
AtReadPost == sTwo = 0 /\ sOne = 0 /\ sPcR = "post" /\ sPcA = "wait"
AtSemOne == sTwo = 0 /\ sOne = 1 /\ sPcR \in {"wait", "done"} /\ sPcA = "wait"
AtAdd    == sTwo = 0 /\ sOne = 0 /\ sPcR \in {"wait", "done"} /\ sPcA = "add"
AtAccuPost == sTwo = 0 /\ sOne = 0 /\ sPcR \in {"wait", "done"} /\ sPcA = "post"

Baton ==
    \/ (AtSemTwo \/ AtScan) /\ sIR = sIA /\ sTotal = sSum
    \/ AtReadPost /\ sIR = sIA /\ sTotal = sSum + sNum
    \/ (AtSemOne \/ AtAdd) /\ sIR = sIA + 1 /\ sTotal = sSum + sNum
    \/ AtAccuPost /\ sIR = sIA + 1 /\ sTotal = sSum

\* A thread is done after its last round and not before.
Counted == (sPcR = "done" <=> sIR = Numbers) /\ (sPcA = "done" <=> sIA = Numbers)

SemaInv == Sema!TypeOK /\ Baton /\ Counted

\* In the initial state the baton is the one unit of sTwo.
LEMMA SemaInitial == Sema!Init => SemaInv
    BY SemaphoresAssumption DEF Sema!Init, SemaInv, Sema!TypeOK, Baton, AtSemTwo, Counted, Sema!Round

\* A step of either thread passes the baton on or leaves it where it is.
LEMMA SemaInductive == SemaInv /\ [Sema!Next]_(Sema!vars) => SemaInv'
<1> SUFFICES ASSUME SemaInv, [Sema!Next]_(Sema!vars) PROVE SemaInv'
    OBVIOUS
<1> USE SemaphoresAssumption DEF SemaInv, Sema!TypeOK, Counted, Baton, AtSemTwo, AtScan,
                                 AtReadPost, AtSemOne, AtAdd, AtAccuPost
<1>1. CASE Sema!ReadWait
    BY <1>1 DEF Sema!ReadWait, Sema!accuVars
<1>2. CASE Sema!Scan
    BY <1>2 DEF Sema!Scan, Sema!accuVars
<1>3. CASE Sema!ReadPost
    BY <1>3 DEF Sema!ReadPost, Sema!Round, Sema!accuVars
<1>4. CASE Sema!AccuWait
    BY <1>4 DEF Sema!AccuWait, Sema!readVars
<1>5. CASE Sema!Add
    BY <1>5 DEF Sema!Add, Sema!readVars
<1>6. CASE Sema!AccuPost
    BY <1>6 DEF Sema!AccuPost, Sema!Round, Sema!readVars
<1>7. CASE UNCHANGED Sema!vars
    BY <1>7 DEF Sema!vars, Sema!readVars, Sema!accuVars
<1> QED
    BY <1>1, <1>2, <1>3, <1>4, <1>5, <1>6, <1>7 DEF Sema!Next, Sema!Read, Sema!Accu

\* There is one baton in every reachable state.
THEOREM OneBaton == SuiteSpec => []SemaInv
<1>1. SuiteInit => SemaInv
    BY SemaInitial DEF SuiteInit
<1>2. SemaInv /\ [SuiteNext]_suiteVars => SemaInv'
    BY SuiteSteps, SemaInductive
<1> QED
    BY <1>1, <1>2, PTL DEF SuiteSpec

\* Each number stored is added exactly once, before the next is stored (lines
\* 35-37 and 47-49 of SyncSema_win.cpp).
THEOREM HandOver == SuiteSpec => []HandedOver
<1>1. SemaInv => HandedOver
    BY DEF SemaInv, Sema!TypeOK, HandedOver, Sema!HandedOver, Sema!OnItsWay, Baton, AtSemTwo,
           AtScan, AtReadPost, AtSemOne, AtAdd, AtAccuPost
<1> QED
    BY OneBaton, <1>1, PTL

\* No ReleaseSemaphore fails (lines 37 and 49 of SyncSema_win.cpp).
THEOREM ReleasesCount == SuiteSpec => []Sema!NoLostRelease
<1>1. SemaInv => Sema!NoLostRelease
    BY DEF SemaInv, Sema!NoLostRelease, Baton, AtSemTwo, AtScan, AtReadPost, AtSemOne, AtAdd,
           AtAccuPost
<1> QED
    BY OneBaton, <1>1, PTL

\* The result printed at line 51 of SyncSema_win.cpp is the sum of the numbers
\* that were stored.
THEOREM ResultCorrect == SuiteSpec => []Sema!ResultExact
<1>1. SemaInv => Sema!ResultExact
    BY SemaphoresAssumption DEF SemaInv, Sema!TypeOK, Sema!ResultExact, Counted, Baton,
       AtSemTwo, AtScan, AtReadPost, AtSemOne, AtAdd, AtAccuPost
<1> QED
    BY OneBaton, <1>1, PTL

-----------------------------------------------------------------------------
(* The prime search without locks: how far lost updates can throw it back. *)

RacyTypeOK ==
    /\ pNum \in Nat
    /\ pPc \in [Searchers -> {"read", "load", "store", "test", "push", "exit", "crashed"}]
    /\ pN \in [Searchers -> Nat]
    /\ pVal \in [Searchers -> Nat]

\* Nobody works with the 0 that stands for "not read yet".
Positive ==
    /\ pNum > 0
    /\ \A t \in Searchers : /\ pPc[t] = "load" => pN[t] > 0
                            /\ pPc[t] = "store" => pVal[t] > 0

RacyInv == RacyTypeOK /\ Positive

LEMMA RacyInitial == Racy!Init => RacyInv
    BY DEF Racy!Init, RacyTypeOK, Positive, RacyInv

LEMMA RacyInductive == ASSUME RacyInv, [Racy!Next]_(Racy!vars) PROVE RacyInv'
<1>1. ASSUME NEW t \in Searchers, Racy!Read(t) PROVE RacyInv'
    BY <1>1 DEF RacyInv, RacyTypeOK, Positive, Racy!Read
<1>2. ASSUME NEW t \in Searchers, Racy!Load(t) PROVE RacyInv'
    BY <1>2 DEF RacyInv, RacyTypeOK, Positive, Racy!Load
<1>3. ASSUME NEW t \in Searchers, Racy!Store(t) PROVE RacyInv'
    BY <1>3 DEF RacyInv, RacyTypeOK, Positive, Racy!Store
<1>4. ASSUME NEW t \in Searchers, Racy!Test(t) PROVE RacyInv'
    BY <1>4 DEF RacyInv, RacyTypeOK, Positive, Racy!Test
<1>5. ASSUME NEW t \in Searchers, Racy!Push(t) PROVE RacyInv'
    BY <1>5 DEF RacyInv, RacyTypeOK, Positive, Racy!Push
<1>6. CASE UNCHANGED Racy!vars
    BY <1>6 DEF RacyInv, RacyTypeOK, Positive, Racy!vars
<1> QED
    BY <1>1, <1>2, <1>3, <1>4, <1>5, <1>6 DEF Racy!Next, Racy!Step

\* A value stored to num is one more than a value that is not below k: every
\* such value was read from num, or from another of its kind.
LEMMA Forward == ASSUME RacyInv, NEW k \in Nat, Racy!NoneBelow(k), [Racy!Next]_(Racy!vars)
                 PROVE  Racy!NoneBelow(k)'
<1> USE DEF RacyInv, RacyTypeOK, Racy!NoneBelow
<1>1. ASSUME NEW t \in Searchers, Racy!Read(t) PROVE Racy!NoneBelow(k)'
    BY <1>1 DEF Racy!Read
<1>2. ASSUME NEW t \in Searchers, Racy!Load(t) PROVE Racy!NoneBelow(k)'
    BY <1>2 DEF Racy!Load
<1>3. ASSUME NEW t \in Searchers, Racy!Store(t) PROVE Racy!NoneBelow(k)'
  <2>1. pVal[t] >= k
      BY <1>3 DEF Racy!Store, Positive
  <2> QED
      BY <1>3, <2>1 DEF Racy!Store
<1>4. ASSUME NEW t \in Searchers, Racy!Test(t) PROVE Racy!NoneBelow(k)'
    BY <1>4 DEF Racy!Test
<1>5. ASSUME NEW t \in Searchers, Racy!Push(t) PROVE Racy!NoneBelow(k)'
    BY <1>5 DEF Racy!Push
<1>6. CASE UNCHANGED Racy!vars
    BY <1>6 DEF Racy!vars
<1> QED
    BY <1>1, <1>2, <1>3, <1>4, <1>5, <1>6 DEF Racy!Next, Racy!Step

LEMMA RacyInvariance == SuiteSpec => []RacyInv
<1>1. SuiteInit => RacyInv
    BY RacyInitial DEF SuiteInit
<1>2. RacyInv /\ [SuiteNext]_suiteVars => RacyInv'
    BY SuiteSteps, RacyInductive
<1> QED
    BY <1>1, <1>2, PTL DEF SuiteSpec

\* Whatever all threads have left behind stays behind, for any number of
\* threads (line 60 of Prime_number_multiThread.cpp).
THEOREM StaysBehind == SuiteSpec => NeverFurtherBack
<1> DEFINE Step == \A k \in 1 .. Limit : Racy!NoneBelow(k) => Racy!NoneBelow(k)'
<1>1. RacyInv /\ [SuiteNext]_suiteVars => [Step]_(Racy!vars)
  <2> SUFFICES ASSUME RacyInv, [SuiteNext]_suiteVars, NEW k \in 1 .. Limit, Racy!NoneBelow(k)
               PROVE  Racy!NoneBelow(k)'
      OBVIOUS
  <2>1. k \in Nat
      OBVIOUS
  <2> QED
      BY <2>1, SuiteSteps, Forward
<1> QED
    BY <1>1, RacyInvariance, PTL DEF SuiteSpec, NeverFurtherBack, Racy!NeverFurtherBack

-----------------------------------------------------------------------------
(* Sums of a function over a finite set, which the library defines by a    *)
(* fold: it takes the elements in an order of its own.  That the order     *)
(* does not matter is shown by taking a smallest set for which it would.   *)

\* The element that a sum takes first, and what the fold is by its definition.
ChosenOf(s) == CHOOSE x \in s : TRUE

Solves(it, f, S) ==
    it = [s \in SUBSET S |-> IF s = {} THEN 0 ELSE f[ChosenOf(s)] + it[s \ {ChosenOf(s)}]]

LEMMA Unfold == ASSUME NEW f, NEW S
                PROVE SumFunctionOnSet(f, S) = (CHOOSE it : Solves(it, f, S))[S]
    BY DEF SumFunctionOnSet, FoldFunctionOnSet, MapThenFoldSet, Solves, ChosenOf

\* A non-empty set of finite sets has a smallest one.
LEMMA Smallest == ASSUME NEW D, NEW T, T \subseteq FiniteSubsetsOf(D), T # {}
                  PROVE  \E S \in T : \A s \in SUBSET S : s # S => s \notin T
<1> DEFINE R == StrictSubsetOrdering(D)
<1>1. IsWellFoundedOn(R, FiniteSubsetsOf(D))
    BY FS_StrictSubsetOrderingWellFounded
<1> HIDE DEF R
<1>2. PICK S \in T : \A s \in T : ~ (<<s, S>> \in R)
    BY <1>1, WFMin
<1>3. ASSUME NEW s \in SUBSET S, s # S, s \in T PROVE FALSE
  <2>1. s \in SUBSET D /\ S \in SUBSET D
      BY <1>3 DEF FiniteSubsetsOf
  <2> QED BY <1>2, <1>3, <2>1 DEF R, StrictSubsetOrdering
<1> QED BY <1>3

LEMMA SolvesOn == ASSUME NEW it, NEW f, NEW S, Solves(it, f, S), NEW s \in SUBSET S
                  PROVE  it[s] = IF s = {} THEN 0 ELSE f[ChosenOf(s)] + it[s \ {ChosenOf(s)}]
    BY Zenon DEF Solves

LEMMA ChosenIn == ASSUME NEW s, s # {} PROVE ChosenOf(s) \in s
    BY DEF ChosenOf

\* Two solutions agree where both are defined.
LEMMA Agree == ASSUME NEW f, NEW A, NEW B, NEW it, NEW jt, Solves(it, f, A), Solves(jt, f, B),
                      NEW S \in SUBSET (A \cap B), IsFiniteSet(S)
               PROVE  it[S] = jt[S]
<1> SUFFICES ASSUME it[S] # jt[S] PROVE FALSE
    OBVIOUS
<1> DEFINE T == {s \in SUBSET S : it[s] # jt[s]}
<1>1. T \subseteq FiniteSubsetsOf(S) /\ T # {}
    BY FS_Subset DEF FiniteSubsetsOf
<1> HIDE DEF T
<1>2. PICK s \in T : \A r \in SUBSET s : r # s => r \notin T
    BY <1>1, Smallest
<1>3. s \in SUBSET S /\ it[s] # jt[s]
    BY DEF T
<1>4. it[s] = IF s = {} THEN 0 ELSE f[ChosenOf(s)] + it[s \ {ChosenOf(s)}]
    BY <1>3, SolvesOn
<1>5. jt[s] = IF s = {} THEN 0 ELSE f[ChosenOf(s)] + jt[s \ {ChosenOf(s)}]
    BY <1>3, SolvesOn, ZenonT(60)
<1>6. CASE s = {}
    BY <1>3, <1>4, <1>5, <1>6, Zenon
<1>7. CASE s # {}
  <2>1. ChosenOf(s) \in s
      BY <1>7, ChosenIn
  <2>2. s \ {ChosenOf(s)} \notin T
      BY <1>2, <2>1
  <2>3. it[s \ {ChosenOf(s)}] = jt[s \ {ChosenOf(s)}]
      BY <2>2, <1>3 DEF T
  <2> QED BY <1>3, <1>4, <1>5, <1>7, <2>3, Zenon
<1> QED BY <1>6, <1>7

\* There is a solution for every finite set.
LEMMA Solvable == ASSUME NEW f, NEW S, IsFiniteSet(S) PROVE \E it : Solves(it, f, S)
<1> SUFFICES ASSUME \A it : ~ Solves(it, f, S) PROVE FALSE
    OBVIOUS
<1> DEFINE T == {s \in SUBSET S : \A it : ~ Solves(it, f, s)}
<1>1. T \subseteq FiniteSubsetsOf(S) /\ T # {}
    BY FS_Subset DEF FiniteSubsetsOf
<1> HIDE DEF T
<1>2. PICK A \in T : \A r \in SUBSET A : r # A => r \notin T
    BY <1>1, Smallest
<1>3. A \in SUBSET S /\ \A it : ~ Solves(it, f, A)
    BY DEF T
<1>4. IsFiniteSet(A)
    BY <1>3, FS_Subset
<1> DEFINE h(s) == CHOOSE it : Solves(it, f, s)
<1>5. ASSUME NEW s \in SUBSET A, s # A PROVE Solves(h(s), f, s)
  <2>1. \E it : Solves(it, f, s)
      BY <1>2, <1>3, <1>5 DEF T
  <2> QED BY <2>1
<1> HIDE DEF h
<1> DEFINE last == IF A = {} THEN 0 ELSE f[ChosenOf(A)] + h(A \ {ChosenOf(A)})[A \ {ChosenOf(A)}]
           g == [s \in SUBSET A |-> IF s = A THEN last ELSE h(s)[s]]
<1>6. ASSUME NEW s \in SUBSET A
      PROVE g[s] = IF s = {} THEN 0 ELSE f[ChosenOf(s)] + g[s \ {ChosenOf(s)}]
  <2>1. CASE s = {} /\ s = A
      BY <2>1
  <2>2. CASE s = {} /\ s # A
    <3>1. h(s)[s] = 0
        BY <2>2, <1>5, SolvesOn
    <3> QED BY <2>2, <3>1
  <2>3. CASE s # {}
    <3> DEFINE r == s \ {ChosenOf(s)}
    <3>1. ChosenOf(s) \in s
        BY <2>3, ChosenIn
    <3>2. r \in SUBSET A /\ r # A /\ r \in SUBSET s /\ IsFiniteSet(r)
        BY <3>1, <1>4, FS_Subset
    <3>3. g[r] = h(r)[r]
        BY <3>2
    <3>4. g[s] = f[ChosenOf(s)] + h(r)[r]
      <4>1. CASE s = A
          BY <4>1, <2>3
      <4>2. CASE s # A
        <5>1. Solves(h(s), f, s) /\ Solves(h(r), f, r)
            BY <4>2, <1>5, <3>2
        <5>2. h(s)[s] = f[ChosenOf(s)] + h(s)[r]
            BY <5>1, <2>3, SolvesOn
        <5>3. r \in SUBSET (s \cap r)
            BY <3>2
        <5> HIDE DEF r
        <5>4. h(s)[r] = h(r)[r]
            BY <5>1, <5>3, <3>2, Agree
        <5> QED BY <5>2, <5>4, <4>2
      <4> QED BY <4>1, <4>2
    <3> HIDE DEF g, r
    <3>5. g[s] = f[ChosenOf(s)] + g[r]
        BY <3>3, <3>4
    <3> QED BY <2>3, <3>5 DEF r
  <2> QED BY <2>1, <2>2, <2>3
<1>7. Solves(g, f, A)
  <2> DEFINE e(s) == IF s = {} THEN 0 ELSE f[ChosenOf(s)] + g[s \ {ChosenOf(s)}]
  <2>1. \A s \in SUBSET A : g[s] = e(s)
      BY <1>6
  <2>2. g = [s \in SUBSET A |-> g[s]]
      OBVIOUS
  <2> HIDE DEF g, e
  <2>3. g = [s \in SUBSET A |-> e(s)]
      BY <2>1, <2>2
  <2> QED BY <2>3, Zenon DEF e, Solves
<1> QED BY <1>3, <1>7

\* What a sum is, without the fold.
LEMMA SumChosen == ASSUME NEW f, NEW S, IsFiniteSet(S)
                   PROVE SumFunctionOnSet(f, S) = IF S = {} THEN 0
                         ELSE f[ChosenOf(S)] + SumFunctionOnSet(f, S \ {ChosenOf(S)})
<1> DEFINE h(s) == CHOOSE it : Solves(it, f, s)
           r == S \ {ChosenOf(S)}
<1>1. Solves(h(S), f, S) /\ Solves(h(r), f, r)
  <2>1. IsFiniteSet(r)
      BY FS_Subset
  <2>2. \E it : Solves(it, f, S)
      BY Solvable
  <2>3. \E it : Solves(it, f, r)
      BY <2>1, Solvable
  <2> QED BY <2>2, <2>3
<1>2. SumFunctionOnSet(f, S) = h(S)[S] /\ SumFunctionOnSet(f, r) = h(r)[r]
    BY Unfold
<1> HIDE DEF h
<1>3. h(S)[S] = IF S = {} THEN 0 ELSE f[ChosenOf(S)] + h(S)[r]
    BY <1>1, SolvesOn
<1>4. h(S)[r] = h(r)[r]
  <2>1. r \in SUBSET (S \cap r) /\ IsFiniteSet(r)
      BY FS_Subset
  <2> HIDE DEF r
  <2> QED BY <1>1, <2>1, Agree
<1> QED BY <1>2, <1>3, <1>4

\* Sums of integers are integers, and any element may be taken first.
LEMMA SumType == ASSUME NEW S, IsFiniteSet(S), NEW f, \A x \in S : f[x] \in Int
                 PROVE SumFunctionOnSet(f, S) \in Int
<1> SUFFICES ASSUME SumFunctionOnSet(f, S) \notin Int PROVE FALSE
    OBVIOUS
<1> DEFINE T == {s \in SUBSET S : SumFunctionOnSet(f, s) \notin Int}
<1>1. T \subseteq FiniteSubsetsOf(S) /\ T # {}
    BY FS_Subset DEF FiniteSubsetsOf
<1> HIDE DEF T
<1>2. PICK s \in T : \A r \in SUBSET s : r # s => r \notin T
    BY <1>1, Smallest
<1>3. s \in SUBSET S /\ SumFunctionOnSet(f, s) \notin Int
    BY DEF T
<1>4. IsFiniteSet(s)
    BY <1>3, FS_Subset
<1>5. SumFunctionOnSet(f, s) = IF s = {} THEN 0
                  ELSE f[ChosenOf(s)] + SumFunctionOnSet(f, s \ {ChosenOf(s)})
    BY <1>4, SumChosen
<1>6. s # {}
    BY <1>3, <1>5
<1>7. ChosenOf(s) \in s
    BY <1>6, ChosenIn
<1>8. f[ChosenOf(s)] \in Int
    BY <1>3, <1>7
<1>9. SumFunctionOnSet(f, s \ {ChosenOf(s)}) \in Int
    BY <1>2, <1>3, <1>7 DEF T
<1> QED BY <1>3, <1>5, <1>6, <1>8, <1>9

LEMMA SumTake == ASSUME NEW S, IsFiniteSet(S), NEW f, \A x \in S : f[x] \in Int, NEW x \in S
                 PROVE SumFunctionOnSet(f, S) = f[x] + SumFunctionOnSet(f, S \ {x})
<1> DEFINE Sum(s) == SumFunctionOnSet(f, s)
           T == {s \in SUBSET S : \E y \in s : Sum(s) # f[y] + Sum(s \ {y})}
<1> SUFFICES ASSUME S \in T PROVE FALSE
    OBVIOUS
<1>1. T \subseteq FiniteSubsetsOf(S) /\ T # {}
    BY FS_Subset DEF FiniteSubsetsOf
<1> HIDE DEF T
<1>2. PICK s \in T : \A r \in SUBSET s : r # s => r \notin T
    BY <1>1, Smallest
<1>3. s \in SUBSET S
    BY DEF T
<1>4. PICK y \in s : Sum(s) # f[y] + Sum(s \ {y})
    BY DEF T
<1>5. \A r \in SUBSET S : IsFiniteSet(r) /\ Sum(r) \in Int
    BY FS_Subset, SumType
<1> DEFINE z == ChosenOf(s)
<1>6. z \in s
    BY ChosenIn
<1>7. Sum(s) = f[z] + Sum(s \ {z})
    BY <1>3, <1>5, SumChosen
<1> HIDE DEF z, Sum
<1>8. z # y
    BY <1>4, <1>7
<1>9. Sum(s \ {z}) = f[y] + Sum((s \ {z}) \ {y})
  <2>1. s \ {z} \notin T /\ y \in s \ {z} /\ s \ {z} \in SUBSET S
      BY <1>2, <1>3, <1>6, <1>8
  <2> QED BY <2>1 DEF T
<1>10. Sum(s \ {y}) = f[z] + Sum((s \ {y}) \ {z})
  <2>1. s \ {y} \notin T /\ z \in s \ {y} /\ s \ {y} \in SUBSET S
      BY <1>2, <1>3, <1>6, <1>8
  <2> QED BY <2>1 DEF T
<1>11. (s \ {y}) \ {z} = (s \ {z}) \ {y}
    OBVIOUS
<1>12. f[y] \in Int /\ f[z] \in Int /\ Sum((s \ {z}) \ {y}) \in Int
    BY <1>3, <1>5, <1>6
<1>13. ASSUME NEW a \in Int, NEW b \in Int, NEW c \in Int PROVE a + (b + c) = b + (a + c)
    OBVIOUS
<1>14. f[z] + (f[y] + Sum((s \ {z}) \ {y})) = f[y] + (f[z] + Sum((s \ {z}) \ {y}))
    BY <1>12, <1>13, Zenon
<1>15. Sum(s) = f[y] + Sum(s \ {y})
    BY <1>7, <1>9, <1>10, <1>11, <1>14, Zenon
<1> QED BY <1>4, <1>15, Zenon

\* Only the summed values count.
LEMMA SumEqual == ASSUME NEW S, IsFiniteSet(S), NEW f, NEW g, \A x \in S : f[x] = g[x]
                  PROVE SumFunctionOnSet(f, S) = SumFunctionOnSet(g, S)
<1> DEFINE T == {s \in SUBSET S : SumFunctionOnSet(f, s) # SumFunctionOnSet(g, s)}
<1> SUFFICES ASSUME S \in T PROVE FALSE
    OBVIOUS
<1>1. T \subseteq FiniteSubsetsOf(S) /\ T # {}
    BY FS_Subset DEF FiniteSubsetsOf
<1> HIDE DEF T
<1>2. PICK s \in T : \A r \in SUBSET s : r # s => r \notin T
    BY <1>1, Smallest
<1>3. s \in SUBSET S /\ SumFunctionOnSet(f, s) # SumFunctionOnSet(g, s) /\ IsFiniteSet(s)
    BY FS_Subset DEF T
<1> DEFINE z == ChosenOf(s)
<1>4. SumFunctionOnSet(f, s) = IF s = {} THEN 0 ELSE f[z] + SumFunctionOnSet(f, s \ {z})
    BY <1>3, SumChosen
<1>5. SumFunctionOnSet(g, s) = IF s = {} THEN 0 ELSE g[z] + SumFunctionOnSet(g, s \ {z})
    BY <1>3, SumChosen
<1>6. s # {}
    BY <1>3, <1>4, <1>5
<1>7. z \in s
    BY <1>6, ChosenIn
<1> HIDE DEF z
<1>8. SumFunctionOnSet(f, s \ {z}) = SumFunctionOnSet(g, s \ {z})
    BY <1>2, <1>3, <1>7 DEF T
<1>9. f[z] = g[z]
    BY <1>3, <1>7
<1> QED BY <1>3, <1>4, <1>5, <1>6, <1>8, <1>9

LEMMA SumEmpty == ASSUME NEW f PROVE SumFunctionOnSet(f, {}) = 0
    BY SumChosen, FS_EmptySet

\* Nothing but zeros.
LEMMA SumZero == ASSUME NEW S, IsFiniteSet(S), NEW f, \A t \in S : f[t] = 0
                 PROVE  SumFunctionOnSet(f, S) = 0
<1> DEFINE Bad == {T \in SUBSET S : SumFunctionOnSet(f, T) # 0}
<1> SUFFICES ASSUME Bad # {} PROVE FALSE
    OBVIOUS
<1>1. Bad \subseteq FiniteSubsetsOf(S)
    BY FS_Subset DEF FiniteSubsetsOf
<1> HIDE DEF Bad
<1>2. PICK T \in Bad : \A r \in SUBSET T : r # T => r \notin Bad
    BY <1>1, Smallest
<1>3. T \in SUBSET S /\ SumFunctionOnSet(f, T) # 0 /\ IsFiniteSet(T)
    BY FS_Subset DEF Bad
<1> DEFINE z == ChosenOf(T)
<1>4. SumFunctionOnSet(f, T) = IF T = {} THEN 0 ELSE f[z] + SumFunctionOnSet(f, T \ {z})
    BY <1>3, SumChosen
<1>5. T # {}
    BY <1>3, <1>4
<1>6. z \in T
    BY <1>5, ChosenIn
<1> HIDE DEF z
<1>7. SumFunctionOnSet(f, T \ {z}) = 0
    BY <1>2, <1>3, <1>6 DEF Bad
<1> QED BY <1>3, <1>4, <1>5, <1>6, <1>7

\* One of the values changes.
LEMMA SumStep == ASSUME NEW S, IsFiniteSet(S), NEW f, NEW g, NEW t,
                        \A u \in S : f[u] \in Int,
                        \A u \in S \ {t} : f[u] = g[u],
                        t \in S => g[t] \in Int
                 PROVE  /\ SumFunctionOnSet(f, S) \in Int
                        /\ SumFunctionOnSet(g, S) = IF t \in S THEN SumFunctionOnSet(f, S) + (g[t] - f[t])
                                                               ELSE SumFunctionOnSet(f, S)
<1>1. IsFiniteSet(S \ {t})
    BY FS_Subset
<1>2. CASE t \in S
  <2>1. SumFunctionOnSet(f, S) = f[t] + SumFunctionOnSet(f, S \ {t})
      BY <1>2, SumTake
  <2>2. SumFunctionOnSet(g, S) = g[t] + SumFunctionOnSet(g, S \ {t})
    <3>1. \A u \in S : g[u] \in Int
        BY <1>2
    <3> QED BY <1>2, <3>1, SumTake
  <2>3. SumFunctionOnSet(f, S \ {t}) = SumFunctionOnSet(g, S \ {t})
      BY <1>1, SumEqual
  <2>4. PICK r \in Int, v \in Int, w \in Int : r = SumFunctionOnSet(f, S \ {t}) /\ v = f[t] /\ w = g[t]
      BY <1>1, <1>2, SumType
  <2>5. w + r = (v + r) + (w - v) /\ v + r \in Int
      OBVIOUS
  <2> QED BY <1>2, <2>1, <2>2, <2>3, <2>4, <2>5, Zenon
<1>3. CASE t \notin S
  <2>1. \A u \in S : f[u] = g[u]
      BY <1>3
  <2> QED BY <1>3, <2>1, SumEqual, SumType
<1> QED BY <1>2, <1>3

-----------------------------------------------------------------------------
(* The counting threads. *)

LEMMA CountSum == ASSUME NEW f, NEW S
                  PROVE Count!SumFunctionOnSet(f, S) = SumFunctionOnSet(f, S)
    BY DEF Count!SumFunctionOnSet, Count!FoldFunctionOnSet, Count!MapThenFoldSet,
           SumFunctionOnSet, FoldFunctionOnSet, MapThenFoldSet

\* What the rounds of a loop add up to.
LEMMA Loops ==
    /\ Count!SumTo(0) = 0
    /\ \A k \in 0 .. Rounds : Count!SumTo(k) \in Int
    /\ \A k \in 0 .. Rounds - 1 : Count!SumTo(k + 1) = Count!SumTo(k) + Amount[k]
<1> USE CountAssumption
<1> DEFINE Sum(S) == SumFunctionOnSet(Amount, S)
<1>1. \A k : Count!SumTo(k) = Sum(0 .. k - 1)
    BY CountSum DEF Count!SumTo
<1>2. Count!SumTo(0) = 0
  <2>1. 0 .. 0 - 1 = {}
      OBVIOUS
  <2> QED BY <1>1, <2>1, SumEmpty, Zenon
<1>3. ASSUME NEW k \in 0 .. Rounds PROVE IsFiniteSet(0 .. k - 1) /\ \A x \in 0 .. k - 1 : Amount[x] \in Int
  <2>1. k - 1 \in Int /\ 0 \in Int
      OBVIOUS
  <2> QED BY <2>1, FS_Interval
<1>4. ASSUME NEW k \in 0 .. Rounds PROVE Count!SumTo(k) \in Int
  <2>1. Sum(0 .. k - 1) \in Int
      BY <1>3, SumType
  <2> QED BY <1>1, <2>1, Zenon
<1>5. ASSUME NEW k \in 0 .. Rounds - 1 PROVE Count!SumTo(k + 1) = Count!SumTo(k) + Amount[k]
  <2>1. k + 1 \in 0 .. Rounds /\ k \in 0 .. Rounds /\ k + 1 - 1 = k /\ k \in 0 .. k
      OBVIOUS
  <2>2. (0 .. k) \ {k} = 0 .. k - 1
      OBVIOUS
  <2>3. IsFiniteSet(0 .. k) /\ \A x \in 0 .. k : Amount[x] \in Int
      BY <1>3, <2>1
  <2>4. Sum(0 .. k) = Amount[k] + Sum((0 .. k) \ {k})
      BY <2>1, <2>3, SumTake
  <2>5. Count!SumTo(k + 1) = Sum(0 .. k) /\ Count!SumTo(k) = Sum(0 .. k - 1)
      BY <1>1, <2>1
  <2>6. Count!SumTo(k + 1) = Amount[k] + Count!SumTo(k)
      BY <2>2, <2>4, <2>5, Zenon
  <2>7. Amount[k] \in Int /\ Count!SumTo(k) \in Int
      BY <2>1, <1>4
  <2>8. PICK a \in Int, b \in Int : a = Amount[k] /\ b = Count!SumTo(k)
      BY <2>7
  <2>9. a + b = b + a
      OBVIOUS
  <2> QED BY <2>6, <2>8, <2>9, Zenon
<1> QED BY <1>2, <1>4, <1>5

\* Under the lock.  Base is what the threads that are through have made of num:
\* the owner of the lock adds its rounds to it, one by one.
Base == (Cardinality(Count!Done(Up)) - Cardinality(Count!Done(Down))) * Count!SumTo(Rounds)

\* What the rounds of thread t so far have made of num.
Share(t) == IF t \in Up THEN Count!SumTo(cI[t]) ELSE 0 - Count!SumTo(cI[t])

LockInv ==
    /\ Count!TypeOK
    /\ \A t \in Count!Threads : cPc[t] \in {"load", "store"} => t = cOwner
    /\ cOwner = Nobody => cNum = Base
    /\ \A t \in Count!Threads :
          /\ cPc[t] = "wait" => cI[t] = 0
          /\ cOwner = t => /\ cPc[t] \in {"load", "store"}
                           /\ cNum = Base + Share(t)
                           /\ cPc[t] = "store" \/ cI[t] > 0 => cReg[t] = cNum
                           /\ cPc[t] = "store" => cI[t] < Rounds

\* Without it.  Whatever a thread has loaded was num at some time, and num has
\* never been out of the bounds, which only grow.
Within(v) == 0 - Count!Made(Down) <= v /\ v <= Count!Made(Up)

RaceInv ==
    /\ Count!TypeOK
    /\ Within(cNum) /\ \A t \in Count!Threads : Within(cReg[t])
    /\ \A t \in Count!Threads : cPc[t] = "store" => cI[t] < Rounds

\* Without it, and with two words.  Each word that a thread has loaded was, at
\* some time, the low word of a number within such bounds, or a high word within
\* the bounds of the carries; the carry that a thread has in hand is not yet
\* counted.
LowIn(x) ==
    \E v \in Int, q \in Int :
       /\ v = x + q * Word
       /\ 0 - Torn!Made(Takers) <= v /\ v <= Torn!Made(Adders)

HighIn(x) == 0 - Torn!HighStores(Takers) <= x /\ x <= Torn!HighStores(Adders)

TornInv ==
    /\ Torn!TypeOK
    /\ LowIn(tLow) /\ \A t \in Torn!Threads : LowIn(tRegLow[t])
    /\ HighIn(tHigh) /\ \A t \in Torn!Threads : HighIn(tRegHigh[t])
    /\ \A t \in Torn!Threads :
          /\ tPcLow[t] # "load" \/ tPcHigh[t] # "load" => tI[t] < Rounds
          /\ tCarry[t] = 0 \/ tCarry[t] = IF t \in Adders THEN 1 ELSE -1

CountInv == (IF program = "race" THEN RaceInv ELSE LockInv) /\ TornInv

-----------------------------------------------------------------------------
(* The event. *)

EventTypeOK ==
    /\ eLine \in Seq({"A", "x", "nl"})
    /\ eStr \in Seq({"A", "x", "nl"})
    /\ eEvent \in BOOLEAN
    /\ eMain \in {"fgets", "set", "join", "end"}
    /\ ePc \in [Event!Threads -> {"wait", "count", "done"}]
    /\ eI \in [Event!Threads -> Nat \ {0}]
    /\ eCnt \in [Event!Threads -> Nat]
    /\ eShown \in [Event!Threads -> Int]

\* Those of the first k characters of str that thread t counts.
Seen(t, k) == {j \in 1 .. k : Event!Counts(t, eStr[j])}

\* No thread starts before the line is there, and each counts as it goes.
EventInv ==
    /\ EventTypeOK
    /\ \A k \in 1 .. Len(eLine) : eLine[k] = "nl" => k = Len(eLine)
    /\ eStr = IF eMain = "fgets" THEN <<>> ELSE Event!Kept
    /\ eMain \in {"fgets", "set"} => ~ eEvent
    /\ \A t \in Event!Threads :
          /\ eI[t] <= Len(eStr) + 1
          /\ eCnt[t] = Cardinality(Seen(t, eI[t] - 1))
          /\ eMain \in {"fgets", "set"} => ePc[t] = "wait"
          /\ eMain = "end" => ePc[t] = "done"
          /\ ePc[t] = "wait" => eI[t] = 1
          /\ ePc[t] = "done" =>
                /\ eI[t] = Len(eStr) + 1
                /\ eShown[t] = IF t = "NumberOfA" THEN eCnt[t] ELSE eCnt[t] - 1

-----------------------------------------------------------------------------
(* With the lock. *)

LEMMA BaseType ==
    \A S : S \subseteq Count!Threads =>
        IsFiniteSet(S) /\ IsFiniteSet(Count!Done(S)) /\ Cardinality(Count!Done(S)) \in Nat
<1> SUFFICES ASSUME NEW S, S \subseteq Count!Threads
             PROVE  IsFiniteSet(S) /\ IsFiniteSet(Count!Done(S)) /\ Cardinality(Count!Done(S)) \in Nat
    OBVIOUS
<1>1. IsFiniteSet(Count!Threads)
    BY CountAssumption, FS_Union DEF Count!Threads
<1>2. IsFiniteSet(S)
    BY <1>1, FS_Subset
<1>3. Count!Done(S) \subseteq S
    BY DEF Count!Done
<1>4. IsFiniteSet(Count!Done(S))
    BY <1>2, <1>3, FS_Subset
<1> QED BY <1>2, <1>4, FS_CardinalityType

LEMMA LoopsAdd == ASSUME NEW a \in Nat, NEW b \in Nat, NEW s \in Int
                  PROVE  /\ (a - b) * s \in Int
                         /\ (a + 1 - b) * s = (a - b) * s + s
                         /\ (a - (b + 1)) * s = (a - b) * s + (0 - s)
<1>1. PICK d \in Int : d = a - b
    OBVIOUS
<1>2. a + 1 - b = d + 1 /\ a - (b + 1) = d - 1
    BY <1>1
<1>3. d * s \in Int /\ (d + 1) * s = d * s + s /\ (d - 1) * s = d * s + (0 - s)
    OBVIOUS
<1> QED BY <1>1, <1>2, <1>3, Zenon

\* Only leaving changes who is through.
LEMMA SameBase == ASSUME Count!TypeOK, Count!TypeOK',
                         \A t \in Count!Threads : cPc[t] = "done" <=> cPc'[t] = "done"
                  PROVE  Base' = Base
<1>1. Count!Done(Up)' = Count!Done(Up) /\ Count!Done(Down)' = Count!Done(Down)
    BY DEF Count!Done, Count!Threads
<1> QED BY <1>1 DEF Base, Count!SumTo

LEMMA BaseLeave == ASSUME Count!TypeOK, NEW t \in Count!Threads, Count!Leave(t)
                   PROVE  /\ Base \in Int
                          /\ Base' = Base + (IF t \in Up THEN Count!SumTo(Rounds) ELSE 0 - Count!SumTo(Rounds))
<1> DEFINE up == Count!Done(Up)
           down == Count!Done(Down)
<1>1. IsFiniteSet(up) /\ IsFiniteSet(down)
    BY BaseType DEF Count!Threads
<1>2. PICK a \in Nat, b \in Nat, s \in Int :
         a = Cardinality(up) /\ b = Cardinality(down) /\ s = Count!SumTo(Rounds)
    BY BaseType, Loops, CountAssumption DEF Count!Threads
<1>3. Base = (a - b) * s
    BY <1>2 DEF Base
<1>4. t \notin up /\ t \notin down
    BY DEF Count!Leave, Count!Done
<1>5. Base' = (Cardinality(up') - Cardinality(down')) * s
    BY <1>2 DEF Base, Count!SumTo
<1>6. CASE t \in Up
  <2>1. up' = up \cup {t} /\ down' = down
      BY <1>6, CountAssumption DEF Count!Leave, Count!Done, Count!TypeOK, Count!Threads
  <2>2. Cardinality(up') = a + 1 /\ Cardinality(down') = b
      BY <2>1, <1>1, <1>2, <1>4, FS_AddElement
  <2> QED BY <1>3, <1>5, <1>6, <2>2, <1>2, LoopsAdd
<1>7. CASE t \notin Up
  <2>1. up' = up /\ down' = down \cup {t}
      BY <1>7, CountAssumption DEF Count!Leave, Count!Done, Count!TypeOK, Count!Threads
  <2>2. Cardinality(up') = a /\ Cardinality(down') = b + 1
      BY <2>1, <1>1, <1>2, <1>4, FS_AddElement
  <2> QED BY <1>3, <1>5, <1>7, <2>2, <1>2, LoopsAdd
<1> QED BY <1>6, <1>7

LEMMA BaseInt == Base \in Int
<1>1. PICK a \in Nat, b \in Nat, s \in Int :
         a = Cardinality(Count!Done(Up)) /\ b = Cardinality(Count!Done(Down)) /\ s = Count!SumTo(Rounds)
    BY BaseType, Loops, CountAssumption DEF Count!Threads
<1> QED BY <1>1, LoopsAdd DEF Base

LEMMA CountTypes == ASSUME Count!TypeOK, program # "race" => LockInv, program = "race" => RaceInv,
                           Count!Next \/ Count!RaceNext
                    PROVE  Count!TypeOK'
<1> USE CountAssumption DEF Count!TypeOK
<1>1. ASSUME NEW t \in Count!Threads, Count!Enter(t) PROVE Count!TypeOK'
    BY <1>1 DEF Count!Enter
<1>2. ASSUME NEW t \in Count!Threads, Count!Load(t) PROVE Count!TypeOK'
    BY <1>2 DEF Count!Load
<1>3. ASSUME NEW t \in Count!Threads, Count!Store(t) PROVE Count!TypeOK'
  <2>1. cI[t] \in 0 .. Rounds - 1
      BY <1>3 DEF Count!Store, LockInv, RaceInv
  <2>2. Amount[cI[t]] \in Int
      BY <2>1
  <2>3. PICK v \in Int : v = cNum'
      BY <1>3, <2>2 DEF Count!Store
  <2> QED BY <1>3, <2>1, <2>3 DEF Count!Store
<1>4. ASSUME NEW t \in Count!Threads, Count!Leave(t) PROVE Count!TypeOK'
    BY <1>4 DEF Count!Leave
<1> QED
    BY <1>1, <1>2, <1>3, <1>4 DEF Count!Next, Count!RaceNext, Count!Step, Count!RaceStep

LEMMA LockInitial == Count!Init => LockInv
<1> SUFFICES ASSUME Count!Init PROVE LockInv
    OBVIOUS
<1>1. Count!TypeOK
    BY CountAssumption DEF Count!Init, Count!TypeOK
<1>2. Cardinality(Count!Done(Up)) = 0 /\ Cardinality(Count!Done(Down)) = 0
  <2>1. Count!Done(Up) = {} /\ Count!Done(Down) = {}
      BY DEF Count!Init, Count!Done, Count!Threads
  <2> QED BY <2>1, FS_EmptySet
<1>3. Base = 0
  <2>1. PICK s \in Int : s = Count!SumTo(Rounds)
      BY Loops, CountAssumption
  <2>2. (0 - 0) * s = 0
      OBVIOUS
  <2> QED BY <1>2, <2>1, <2>2, Zenon DEF Base
<1> QED BY <1>1, <1>3, CountAssumption DEF LockInv, Count!Init, Count!Threads

LEMMA LockInductive == ASSUME LockInv, program # "race", [Count!Next]_(Count!vars)
                       PROVE  LockInv'
<1>0. CASE UNCHANGED Count!vars
    BY <1>0 DEF Count!vars, LockInv, Count!TypeOK, Base, Share, Count!SumTo, Count!Done
<1> SUFFICES ASSUME Count!Next PROVE LockInv'
    BY <1>0
<1>1. Count!TypeOK /\ Count!TypeOK'
    BY CountTypes DEF LockInv
<1>2. Nobody \notin Count!Threads
    BY CountAssumption DEF Count!Threads
<1>3. ASSUME NEW t \in Count!Threads, Count!Enter(t) PROVE LockInv'
  <2>1. Base' = Base
      BY <1>1, <1>3, SameBase DEF Count!Enter, Count!TypeOK
  <2>2. cI[t] = 0 /\ Share(t)' = 0
      BY <1>3, Loops DEF Count!Enter, LockInv, Share, Count!SumTo
  <2>3. cNum' = Base' + Share(t)'
      BY <1>3, <2>1, <2>2, BaseInt DEF Count!Enter, LockInv
  <2> QED BY <1>1, <1>2, <1>3, <2>1, <2>2, <2>3 DEF Count!Enter, LockInv, Count!TypeOK
<1>4. ASSUME NEW t \in Count!Threads, Count!Load(t) PROVE LockInv'
  <2>1. Base' = Base
      BY <1>1, <1>4, SameBase DEF Count!Load, Count!TypeOK
  <2>2. cOwner = t /\ cOwner' = t /\ Share(t)' = Share(t)
      BY <1>4 DEF Count!Load, LockInv, Share, Count!SumTo
  <2>3. cReg'[t] = cNum /\ cNum' = cNum
      BY <1>1, <1>4, <2>2 DEF Count!Load, LockInv, Count!TypeOK
  <2> QED BY <1>1, <1>2, <1>4, <2>1, <2>2, <2>3 DEF Count!Load, LockInv, Count!TypeOK
<1>5. ASSUME NEW t \in Count!Threads, Count!Store(t) PROVE LockInv'
  <2>1. Base' = Base
      BY <1>1, <1>5, SameBase DEF Count!Store, Count!TypeOK
  <2>2. cOwner = t /\ cOwner' = t /\ cI[t] \in 0 .. Rounds - 1 /\ cReg[t] = Base + Share(t)
    <3>1. cOwner = t /\ cOwner' = t
        BY <1>5 DEF Count!Store, LockInv
    <3>2. cI[t] \in 0 .. Rounds /\ cI[t] < Rounds /\ cReg[t] = cNum /\ cNum = Base + Share(t)
        BY <1>1, <1>5, <3>1 DEF Count!Store, LockInv, Count!TypeOK
    <3> QED BY <3>1, <3>2, CountAssumption
  <2>3. PICK k \in 0 .. Rounds - 1, a \in Nat, s \in Int, b \in Int :
           k = cI[t] /\ a = Amount[k] /\ s = Count!SumTo(k) /\ b = Base
      BY <2>2, Loops, CountAssumption, BaseInt
  <2>4. cI'[t] = k + 1 /\ Count!SumTo(k + 1) = s + a
      BY <1>1, <1>5, <2>3, Loops DEF Count!Store, Count!TypeOK
  <2>5. cNum' = Base' + Share(t)'
    <3>1. CASE t \in Up
      <4>1. Share(t) = s /\ Share(t)' = s + a
          BY <2>3, <2>4, <3>1 DEF Share, Count!SumTo
      <4>2. cNum' = (b + s) + a
          BY <1>5, <2>2, <2>3, <3>1, <4>1 DEF Count!Store
      <4> QED BY <2>1, <2>3, <4>1, <4>2
    <3>2. CASE t \notin Up
      <4>1. Share(t) = 0 - s /\ Share(t)' = 0 - (s + a)
          BY <2>3, <2>4, <3>2 DEF Share, Count!SumTo
      <4>2. cNum' = (b + (0 - s)) - a
          BY <1>5, <2>2, <2>3, <3>2, <4>1 DEF Count!Store
      <4> QED BY <2>1, <2>3, <4>1, <4>2
    <3> QED BY <3>1, <3>2
  <2>6. cReg'[t] = cNum'
      BY <1>1, <1>5 DEF Count!Store, Count!TypeOK
  <2> QED BY <1>1, <1>2, <1>5, <2>1, <2>2, <2>5, <2>6 DEF Count!Store, LockInv, Count!TypeOK
<1>6. ASSUME NEW t \in Count!Threads, Count!Leave(t) PROVE LockInv'
  <2>1. Base' = Base + (IF t \in Up THEN Count!SumTo(Rounds) ELSE 0 - Count!SumTo(Rounds))
      BY <1>1, <1>6, BaseLeave
  <2>2. cOwner = t /\ cI[t] = Rounds
      BY <1>6 DEF Count!Leave, LockInv
  <2>3. cNum' = Base'
      BY <1>6, <2>1, <2>2 DEF Count!Leave, LockInv, Share
  <2> QED BY <1>1, <1>2, <1>6, <2>2, <2>3 DEF Count!Leave, LockInv, Count!TypeOK
<1> QED
    BY <1>3, <1>4, <1>5, <1>6 DEF Count!Next, Count!Step

-----------------------------------------------------------------------------
(* Without the lock. *)

LEMMA MadeSum == ASSUME NEW S, S \subseteq Count!Threads
                 PROVE  /\ Count!Made(S) = SumFunctionOnSet([t \in S |-> Count!SumTo(cI[t])], S)
                        /\ Count!Made(S)' = SumFunctionOnSet([t \in S |-> Count!SumTo(cI'[t])], S)
<1>1. ASSUME NEW f PROVE Count!SumFunction(f) = SumFunctionOnSet(f, DOMAIN f)
    BY CountSum DEF Count!SumFunction
<1>2. DOMAIN [t \in S |-> Count!SumTo(cI[t])] = S /\ DOMAIN [t \in S |-> Count!SumTo(cI'[t])] = S
    OBVIOUS
<1>3. Count!SumFunction([t \in S |-> Count!SumTo(cI'[t])]) = SumFunctionOnSet([t \in S |-> Count!SumTo(cI'[t])], S)
    BY <1>1, <1>2, Zenon
<1>4. Count!Made(S)' = Count!SumFunction([t \in S |-> Count!SumTo(cI'[t])])
    BY DEF Count!Made, Count!SumTo
<1> QED BY <1>1, <1>2, <1>3, <1>4, Zenon DEF Count!Made

\* A store adds its round to what its group of threads has made.
LEMMA MadeStore == ASSUME Count!TypeOK, NEW t \in Count!Threads, Count!Store(t), cI[t] < Rounds,
                          NEW S, S \subseteq Count!Threads
                   PROVE  /\ Count!Made(S) \in Int
                          /\ Count!Made(S)' = IF t \in S THEN Count!Made(S) + Amount[cI[t]] ELSE Count!Made(S)
<1> DEFINE f == [u \in S |-> Count!SumTo(cI[u])]
           g == [u \in S |-> Count!SumTo(cI'[u])]
<1>1. IsFiniteSet(S) /\ (\A u \in S : f[u] \in Int) /\ (\A u \in S \ {t} : f[u] = g[u])
    BY BaseType, Loops DEF Count!TypeOK, Count!Store
<1>2. PICK k \in 0 .. Rounds - 1, a \in Nat : k = cI[t] /\ a = Amount[k]
    BY CountAssumption DEF Count!TypeOK
<1>3. t \in S => g[t] = f[t] + a
    BY <1>2, Loops DEF Count!Store, Count!TypeOK
<1> HIDE DEF f, g
<1>4. /\ SumFunctionOnSet(f, S) \in Int
      /\ SumFunctionOnSet(g, S) = IF t \in S THEN SumFunctionOnSet(f, S) + a ELSE SumFunctionOnSet(f, S)
  <2>1. t \in S => g[t] \in Int /\ g[t] - f[t] = a
      BY <1>1, <1>2, <1>3
  <2> QED BY <1>1, <2>1, SumStep
<1> QED BY <1>2, <1>4, MadeSum DEF f, g

LEMMA MadeInt == ASSUME Count!TypeOK, NEW S, S \subseteq Count!Threads
                 PROVE  Count!Made(S) \in Int
<1> DEFINE f == [u \in S |-> Count!SumTo(cI[u])]
<1>1. IsFiniteSet(S) /\ \A u \in S : f[u] \in Int
    BY Loops, BaseType DEF Count!TypeOK
<1> HIDE DEF f
<1>2. SumFunctionOnSet(f, S) \in Int
    BY <1>1, SumType
<1> QED BY <1>2, MadeSum DEF f

LEMMA RaceInitial == Count!RaceInit => RaceInv
<1> SUFFICES ASSUME Count!RaceInit PROVE RaceInv
    OBVIOUS
<1>1. Count!TypeOK
    BY CountAssumption DEF Count!RaceInit, Count!TypeOK
<1>2. ASSUME NEW S, S \subseteq Count!Threads PROVE Count!Made(S) = 0
  <2> DEFINE f == [t \in S |-> Count!SumTo(cI[t])]
  <2>1. \A t \in S : f[t] = 0
      BY <1>2, Loops DEF Count!RaceInit
  <2>2. IsFiniteSet(S)
      BY <1>2, BaseType
  <2> HIDE DEF f
  <2>3. SumFunctionOnSet(f, S) = 0
      BY <2>1, <2>2, SumZero
  <2> QED BY <1>2, <2>3, MadeSum DEF f
<1>3. Count!Made(Up) = 0 /\ Count!Made(Down) = 0
    BY <1>2 DEF Count!Threads
<1> QED BY <1>1, <1>3 DEF RaceInv, Within, Count!RaceInit

LEMMA RaceInductive == ASSUME RaceInv, program = "race", [Count!RaceNext]_(Count!vars)
                       PROVE  RaceInv'
<1>0. CASE UNCHANGED Count!vars
    BY <1>0 DEF Count!vars, RaceInv, Count!TypeOK, Within, Count!Made, Count!SumTo
<1> SUFFICES ASSUME Count!RaceNext PROVE RaceInv'
    BY <1>0
<1>1. Count!TypeOK /\ Count!TypeOK'
    BY CountTypes DEF RaceInv
<1>2. Up \subseteq Count!Threads /\ Down \subseteq Count!Threads
    BY DEF Count!Threads
<1>3. PICK lo \in Int, hi \in Int : lo = Count!Made(Down) /\ hi = Count!Made(Up)
    BY <1>1, <1>2, MadeInt
<1>4. ASSUME NEW t \in Count!Threads, Count!Load(t) PROVE RaceInv'
  <2>1. Count!Made(Up)' = Count!Made(Up) /\ Count!Made(Down)' = Count!Made(Down)
      BY <1>4 DEF Count!Load, Count!Made, Count!SumTo
  <2> QED BY <1>1, <1>4, <2>1 DEF RaceInv, Within, Count!Load, Count!TypeOK
<1>5. ASSUME NEW t \in Count!Threads, Count!Leave(t) PROVE RaceInv'
  <2>1. Count!Made(Up)' = Count!Made(Up) /\ Count!Made(Down)' = Count!Made(Down)
      BY <1>5 DEF Count!Leave, Count!Made, Count!SumTo
  <2> QED BY <1>1, <1>5, <2>1 DEF RaceInv, Within, Count!Leave, Count!TypeOK
<1>6. ASSUME NEW t \in Count!Threads, Count!Store(t) PROVE RaceInv'
  <2>1. cI[t] < Rounds /\ cI[t] \in 0 .. Rounds - 1
      BY <1>1, <1>6, CountAssumption DEF RaceInv, Count!Store, Count!TypeOK
  <2>2. PICK a \in Nat : a = Amount[cI[t]]
      BY <2>1, CountAssumption
  <2>3. /\ Count!Made(Up)' = IF t \in Up THEN hi + a ELSE hi
        /\ Count!Made(Down)' = IF t \in Down THEN lo + a ELSE lo
      BY <1>1, <1>2, <1>3, <1>6, <2>1, <2>2, MadeStore
  <2>4. PICK v \in Int : v = cReg[t] /\ 0 - lo <= v /\ v <= hi
      BY <1>1, <1>3 DEF RaceInv, Within, Count!TypeOK
  <2>5. cNum' = IF t \in Up THEN v + a ELSE v - a
      BY <1>6, <2>2, <2>4 DEF Count!Store
  <2>6. (t \in Up /\ t \notin Down) \/ (t \notin Up /\ t \in Down)
      BY CountAssumption DEF Count!Threads
  <2>7. Within(cNum)'
      BY <2>3, <2>4, <2>5, <2>6 DEF Within
  <2>8. \A u \in Count!Threads : Within(cReg[u])'
    <3> SUFFICES ASSUME NEW u \in Count!Threads PROVE Within(cReg[u])'
        OBVIOUS
    <3>1. CASE u = t
        BY <1>1, <1>6, <3>1, <2>7 DEF Count!Store, Count!TypeOK, Within
    <3>2. CASE u # t
      <4>1. PICK w \in Int : w = cReg[u] /\ 0 - lo <= w /\ w <= hi
          BY <1>1, <1>3 DEF RaceInv, Within, Count!TypeOK
      <4>2. cReg'[u] = w
          BY <1>1, <1>6, <3>2, <4>1 DEF Count!Store, Count!TypeOK
      <4> QED BY <2>3, <4>1, <4>2 DEF Within
    <3> QED BY <3>1, <3>2
  <2>9. \A u \in Count!Threads : cPc'[u] = "store" => cI'[u] < Rounds
      BY <1>1, <1>6 DEF RaceInv, Count!Store, Count!TypeOK
  <2> QED BY <1>1, <2>7, <2>8, <2>9 DEF RaceInv
<1> QED
    BY <1>4, <1>5, <1>6 DEF Count!RaceNext, Count!RaceStep

-----------------------------------------------------------------------------
(* Without the lock, and with a number of two words. *)

LEMMA TornSum == ASSUME NEW f, NEW S
                 PROVE  Torn!SumFunctionOnSet(f, S) = SumFunctionOnSet(f, S)
    BY DEF Torn!SumFunctionOnSet, Torn!FoldFunctionOnSet, Torn!MapThenFoldSet,
           SumFunctionOnSet, FoldFunctionOnSet, MapThenFoldSet

LEMMA TornLoops == \A k : Torn!SumTo(k) = Count!SumTo(k)
    BY CountSum, TornSum DEF Torn!SumTo, Count!SumTo

LEMMA TornFinite == ASSUME NEW S, S \subseteq Torn!Threads PROVE IsFiniteSet(S)
<1>1. IsFiniteSet(Torn!Threads)
    BY TornAssumption, FS_Union DEF Torn!Threads
<1> QED BY <1>1, FS_Subset

\* What the bounds are sums of.
MadeBy == [t \in Torn!Threads |-> Count!SumTo(Torn!Begun(t))]
StoredBy == [t \in Torn!Threads |-> Torn!Stored(t)]

LEMMA TornBounds == ASSUME NEW S, S \subseteq Torn!Threads
                    PROVE  /\ Torn!Made(S) = SumFunctionOnSet(MadeBy, S)
                           /\ Torn!Made(S)' = SumFunctionOnSet(MadeBy', S)
                           /\ Torn!HighStores(S) = SumFunctionOnSet(StoredBy, S)
                           /\ Torn!HighStores(S)' = SumFunctionOnSet(StoredBy', S)
<1>1. IsFiniteSet(S)
    BY TornFinite
<1>2. ASSUME NEW f PROVE Torn!SumFunction(f) = SumFunctionOnSet(f, DOMAIN f)
    BY TornSum DEF Torn!SumFunction
<1>3. Torn!Made(S) = SumFunctionOnSet(MadeBy, S)
  <2> DEFINE f == [t \in S |-> Torn!SumTo(Torn!Begun(t))]
  <2>1. DOMAIN f = S /\ \A t \in S : f[t] = MadeBy[t]
      BY TornLoops DEF MadeBy
  <2> QED BY <1>1, <1>2, <2>1, SumEqual DEF Torn!Made
<1>4. Torn!Made(S)' = SumFunctionOnSet(MadeBy', S)
  <2> DEFINE f == [t \in S |-> Torn!SumTo(Torn!Begun(t)')]
  <2>1. DOMAIN f = S /\ \A t \in S : f[t] = MadeBy'[t]
      BY TornLoops DEF MadeBy, Count!SumTo
  <2>2. Torn!Made(S)' = Torn!SumFunction(f)
      BY DEF Torn!Made, Torn!SumTo
  <2> QED BY <1>1, <1>2, <2>1, <2>2, SumEqual
<1>5. Torn!HighStores(S) = SumFunctionOnSet(StoredBy, S)
  <2> DEFINE f == [t \in S |-> Torn!Stored(t)]
  <2>1. DOMAIN f = S /\ \A t \in S : f[t] = StoredBy[t]
      BY DEF StoredBy
  <2> QED BY <1>1, <1>2, <2>1, SumEqual DEF Torn!HighStores
<1>6. Torn!HighStores(S)' = SumFunctionOnSet(StoredBy', S)
  <2> DEFINE f == [t \in S |-> Torn!Stored(t)']
  <2>1. DOMAIN f = S /\ \A t \in S : f[t] = StoredBy'[t]
      BY DEF StoredBy
  <2>2. Torn!HighStores(S)' = Torn!SumFunction(f)
      BY DEF Torn!HighStores
  <2> QED BY <1>1, <1>2, <2>1, <2>2, SumEqual
<1> QED BY <1>3, <1>4, <1>5, <1>6

LEMMA TornTypes == ASSUME TornInv, NEW t \in Torn!Threads, Torn!Step(t) PROVE Torn!TypeOK'
<1> USE TornAssumption DEF TornInv, Torn!TypeOK
<1>1. CASE Torn!LoadLow(t)
  <2>1. PICK v \in Torn!Taken(t, tLow, tRegLow) :
           LET d == IF t \in Adders THEN v + Amount[tI[t]] ELSE v - Amount[tI[t]]
           IN  /\ tRegLow' = [tRegLow EXCEPT ![t] = d - Torn!Carry(d) * Word]
               /\ tCarry' = [tCarry EXCEPT ![t] = Torn!Carry(d)]
      BY <1>1 DEF Torn!LoadLow
  <2>2. PICK a \in Nat : a = Amount[tI[t]] /\ a < Word
      BY <1>1, CountAssumption DEF Torn!LoadLow
  <2>3. v \in 0 .. Word - 1
      BY DEF Torn!Taken
  <2>4. PICK d \in Int : d = (IF t \in Adders THEN v + a ELSE v - a) /\ 0 - Word < d /\ d < Word + Word
      BY <2>2, <2>3
  <2>5. Torn!Carry(d) \in {-1, 0, 1} /\ d - Torn!Carry(d) * Word \in 0 .. Word - 1
      BY <2>4 DEF Torn!Carry
  <2>6. tRegLow' \in [Torn!Threads -> 0 .. Word - 1] /\ tCarry' \in [Torn!Threads -> {-1, 0, 1}]
      BY <2>1, <2>2, <2>4, <2>5
  <2> QED BY <1>1, <2>6 DEF Torn!LoadLow
<1>2. CASE Torn!LoadHigh(t)
    BY <1>2 DEF Torn!LoadHigh, Torn!Taken
<1>3. CASE Torn!StoreLow(t)
    BY <1>3 DEF Torn!StoreLow
<1>4. CASE Torn!StoreHigh(t)
    BY <1>4 DEF Torn!StoreHigh
<1>5. CASE Torn!NextRound(t)
  <2>1. tI[t] \in 0 .. Rounds /\ tI[t] < Rounds
      BY <1>5 DEF Torn!NextRound
  <2>2. tI[t] + 1 \in 0 .. Rounds
      BY <2>1, CountAssumption
  <2> QED BY <1>5, <2>2 DEF Torn!NextRound
<1> QED
    BY <1>1, <1>2, <1>3, <1>4, <1>5 DEF Torn!Step

\* Loading the low word adds its round to what its group of threads has made,
\* storing the high word adds one to its stores, and nothing else does.
LEMMA MadeGrows == ASSUME TornInv, NEW t \in Torn!Threads, Torn!Step(t),
                          NEW S, S \subseteq Torn!Threads
                   PROVE  /\ Torn!Made(S) \in Int
                          /\ Torn!LoadLow(t) =>
                                Torn!Made(S)' = IF t \in S THEN Torn!Made(S) + Amount[tI[t]] ELSE Torn!Made(S)
                          /\ ~ Torn!LoadLow(t) => Torn!Made(S)' = Torn!Made(S)
<1> USE CountAssumption DEF TornInv, Torn!TypeOK
<1>1. IsFiniteSet(S)
    BY TornFinite
<1>2. \A u \in Torn!Threads : Torn!Begun(u) \in 0 .. Rounds
    BY DEF Torn!Begun
<1>3. \A u \in S : MadeBy[u] \in Int
    BY <1>2, Loops DEF MadeBy
<1>4. CASE Torn!LoadLow(t)
  <2>1. \A u \in S \ {t} : MadeBy[u] = MadeBy'[u]
      BY <1>4 DEF MadeBy, Torn!LoadLow, Torn!Begun, Count!SumTo
  <2>2. PICK k \in 0 .. Rounds - 1, a \in Nat : k = tI[t] /\ a = Amount[k]
      BY <1>4 DEF Torn!LoadLow
  <2>3. Torn!Begun(t) = k /\ Torn!Begun(t)' = k + 1
      BY <1>4, <2>2 DEF Torn!LoadLow, Torn!Begun
  <2>4. t \in S => MadeBy'[t] = MadeBy[t] + a
    <3>1. MadeBy'[t] = Count!SumTo(k + 1) /\ MadeBy[t] = Count!SumTo(k)
        BY <2>3 DEF MadeBy, Count!SumTo
    <3> QED BY <2>2, <3>1, Loops
  <2>5. /\ SumFunctionOnSet(MadeBy, S) \in Int
        /\ SumFunctionOnSet(MadeBy', S) = IF t \in S THEN SumFunctionOnSet(MadeBy, S) + a
                                                     ELSE SumFunctionOnSet(MadeBy, S)
    <3>1. t \in S => MadeBy'[t] \in Int /\ MadeBy'[t] - MadeBy[t] = a
        BY <1>3, <2>2, <2>4
    <3>2. PICK f, g : f = MadeBy /\ g = MadeBy'
        OBVIOUS
    <3>3. /\ SumFunctionOnSet(f, S) \in Int
          /\ SumFunctionOnSet(g, S) = IF t \in S THEN SumFunctionOnSet(f, S) + (g[t] - f[t])
                                                 ELSE SumFunctionOnSet(f, S)
        BY <1>1, <1>3, <2>1, <3>1, <3>2, SumStep
    <3> QED BY <3>1, <3>2, <3>3
  <2> QED BY <1>4, <2>2, <2>5, TornBounds
<1>5. CASE ~ Torn!LoadLow(t)
  <2>1. \A u \in Torn!Threads : Torn!Begun(u)' = Torn!Begun(u)
      BY <1>5, ZenonT(60) DEF Torn!Step, Torn!LoadHigh, Torn!StoreLow, Torn!StoreHigh, Torn!NextRound, Torn!Begun
  <2>2. MadeBy' = MadeBy
      BY <2>1 DEF MadeBy, Count!SumTo
  <2>3. SumFunctionOnSet(MadeBy, S) \in Int
      BY <1>1, <1>3, SumType
  <2> QED BY <1>5, <2>2, <2>3, TornBounds
<1> QED BY <1>4, <1>5

LEMMA StoredGrows == ASSUME TornInv, NEW t \in Torn!Threads, Torn!Step(t),
                            NEW S, S \subseteq Torn!Threads
                     PROVE  /\ Torn!HighStores(S) \in Int
                            /\ Torn!StoreHigh(t) =>
                                  Torn!HighStores(S)' = IF t \in S THEN Torn!HighStores(S) + 1 ELSE Torn!HighStores(S)
                            /\ ~ Torn!StoreHigh(t) => Torn!HighStores(S)' = Torn!HighStores(S)
<1> USE DEF TornInv, Torn!TypeOK
<1>1. IsFiniteSet(S)
    BY TornFinite
<1>2. \A u \in S : StoredBy[u] \in Int
    BY DEF StoredBy, Torn!Stored
<1>3. CASE Torn!StoreHigh(t)
  <2>1. \A u \in S \ {t} : StoredBy[u] = StoredBy'[u]
      BY <1>3 DEF StoredBy, Torn!StoreHigh, Torn!Stored
  <2>2. t \in S => StoredBy'[t] = StoredBy[t] + 1
      BY <1>3 DEF StoredBy, Torn!StoreHigh, Torn!Stored
  <2>3. /\ SumFunctionOnSet(StoredBy, S) \in Int
        /\ SumFunctionOnSet(StoredBy', S) = IF t \in S THEN SumFunctionOnSet(StoredBy, S) + 1
                                                       ELSE SumFunctionOnSet(StoredBy, S)
    <3>1. t \in S => StoredBy'[t] \in Int /\ StoredBy'[t] - StoredBy[t] = 1
        BY <1>2, <2>2
    <3>2. PICK f, g : f = StoredBy /\ g = StoredBy'
        OBVIOUS
    <3>3. /\ SumFunctionOnSet(f, S) \in Int
          /\ SumFunctionOnSet(g, S) = IF t \in S THEN SumFunctionOnSet(f, S) + (g[t] - f[t])
                                                 ELSE SumFunctionOnSet(f, S)
        BY <1>1, <1>2, <2>1, <3>1, <3>2, SumStep
    <3> QED BY <3>1, <3>2, <3>3
  <2> QED BY <1>3, <2>3, TornBounds
<1>4. CASE ~ Torn!StoreHigh(t)
  <2>1. \A u \in Torn!Threads : Torn!Stored(u)' = Torn!Stored(u)
      BY <1>4 DEF Torn!Step, Torn!LoadLow, Torn!LoadHigh, Torn!StoreLow, Torn!NextRound, Torn!Stored
  <2>2. StoredBy' = StoredBy
      BY <2>1 DEF StoredBy
  <2>3. SumFunctionOnSet(StoredBy, S) \in Int
      BY <1>1, <1>2, SumType
  <2> QED BY <1>4, <2>2, <2>3, TornBounds
<1> QED BY <1>3, <1>4

LEMMA TornInt == ASSUME TornInv, NEW S, S \subseteq Torn!Threads
                 PROVE  Torn!Made(S) \in Int /\ Torn!HighStores(S) \in Int
<1>1. \A t \in S : MadeBy[t] \in Int /\ StoredBy[t] \in Int
    BY Loops, CountAssumption DEF TornInv, Torn!TypeOK, MadeBy, StoredBy, Torn!Begun, Torn!Stored
<1> QED BY <1>1, TornFinite, TornBounds, SumType

LEMMA TornInitial == Torn!Init => TornInv
<1> SUFFICES ASSUME Torn!Init PROVE TornInv
    OBVIOUS
<1> USE DEF Torn!Init
<1>1. Torn!TypeOK
    BY TornAssumption, CountAssumption DEF Torn!TypeOK
<1>2. ASSUME NEW S, S \subseteq Torn!Threads PROVE Torn!Made(S) = 0 /\ Torn!HighStores(S) = 0
  <2>1. \A t \in S : MadeBy[t] = 0 /\ StoredBy[t] = 0
      BY <1>2, Loops DEF MadeBy, StoredBy, Torn!Begun, Torn!Stored
  <2> QED BY <1>2, <2>1, TornFinite, TornBounds, SumZero
<1>3. /\ Torn!Made(Adders) = 0 /\ Torn!Made(Takers) = 0
      /\ Torn!HighStores(Adders) = 0 /\ Torn!HighStores(Takers) = 0
    BY <1>2 DEF Torn!Threads
<1>4. LowIn(0)
  <2>1. 0 = 0 + 0 * Word
      BY TornAssumption
  <2> QED BY <1>3, <2>1 DEF LowIn
<1> QED
    BY <1>1, <1>3, <1>4 DEF TornInv, HighIn

LEMMA TornInductive == ASSUME TornInv, [Torn!Next]_(Torn!vars) PROVE TornInv'
<1>0. CASE UNCHANGED Torn!vars
    BY <1>0 DEF Torn!vars, TornInv, Torn!TypeOK, LowIn, HighIn, Torn!Made, Torn!HighStores, Torn!Begun,
                Torn!Stored, Torn!SumTo
<1> SUFFICES ASSUME NEW t \in Torn!Threads, Torn!Step(t) PROVE TornInv'
    BY <1>0 DEF Torn!Next
<1>1. Torn!TypeOK /\ Torn!TypeOK'
    BY TornTypes DEF TornInv
<1>2. Adders \subseteq Torn!Threads /\ Takers \subseteq Torn!Threads
    BY DEF Torn!Threads
<1>3. t \in Adders <=> t \notin Takers
    BY TornAssumption DEF Torn!Threads
<1>4. PICK below \in Int, above \in Int, down \in Int, up \in Int :
         /\ below = Torn!Made(Takers) /\ above = Torn!Made(Adders)
         /\ down = Torn!HighStores(Takers) /\ up = Torn!HighStores(Adders)
    BY <1>2, MadeGrows, StoredGrows
\* What was within the bounds stays there.
<1>5. \A x : LowIn(x) => LowIn(x)'
  <2>1. Torn!Made(Takers)' \in Int /\ Torn!Made(Adders)' \in Int
        /\ below <= Torn!Made(Takers)' /\ above <= Torn!Made(Adders)'
    <3>1. CASE Torn!LoadLow(t)
      <4>1. Amount[tI[t]] \in Nat
          BY <1>1, <3>1, CountAssumption DEF Torn!LoadLow, Torn!TypeOK
      <4> QED BY <1>2, <1>4, <3>1, <4>1, MadeGrows
    <3>2. CASE ~ Torn!LoadLow(t)
        BY <1>2, <1>4, <3>2, MadeGrows
    <3> QED BY <3>1, <3>2
  <2> QED BY <1>4, <2>1 DEF LowIn
<1>6. \A x \in Int : HighIn(x) => HighIn(x)'
  <2>1. Torn!HighStores(Takers)' \in Int /\ Torn!HighStores(Adders)' \in Int
        /\ down <= Torn!HighStores(Takers)' /\ up <= Torn!HighStores(Adders)'
      BY <1>2, <1>4, StoredGrows
  <2> QED BY <1>4, <2>1 DEF HighIn
<1>7. CASE Torn!LoadLow(t)
  <2>1. PICK v \in Torn!Taken(t, tLow, tRegLow) :
           LET d == IF t \in Adders THEN v + Amount[tI[t]] ELSE v - Amount[tI[t]]
           IN  /\ tRegLow' = [tRegLow EXCEPT ![t] = d - Torn!Carry(d) * Word]
               /\ tCarry' = [tCarry EXCEPT ![t] = Torn!Carry(d)]
      BY <1>7 DEF Torn!LoadLow
  <2>2. PICK a \in Nat : a = Amount[tI[t]] /\ a < Word
      BY <1>1, <1>7, CountAssumption, TornAssumption DEF Torn!LoadLow, Torn!TypeOK
  <2>3. v \in 0 .. Word - 1 /\ LowIn(v)
      BY <1>1 DEF Torn!Taken, TornInv, Torn!TypeOK
  <2>4. PICK d \in Int : d = IF t \in Adders THEN v + a ELSE v - a
      BY <2>2, <2>3
  <2>5. PICK c \in {-1, 0, 1} : c = Torn!Carry(d) /\ (c = 0 \/ c = IF t \in Adders THEN 1 ELSE -1)
      BY <2>2, <2>3, <2>4, TornAssumption DEF Torn!Carry
  <2>6. tRegLow' = [tRegLow EXCEPT ![t] = d - c * Word] /\ tCarry' = [tCarry EXCEPT ![t] = c]
      BY <2>1, <2>2, <2>4, <2>5
  <2>7. LowIn(d - c * Word)'
    <3>1. PICK w \in Int, q \in Int : w = v + q * Word /\ 0 - below <= w /\ w <= above
        BY <1>4, <2>3 DEF LowIn
    <3>2. PICK e \in Int : e = IF t \in Adders THEN w + a ELSE w - a
        BY <2>2
    <3>3. e = (d - c * Word) + (q + c) * Word /\ q + c \in Int
      <4>1. PICK m \in Int, k \in Int : m = q * Word /\ k = c * Word
          BY TornAssumption
      <4>2. (q + c) * Word = m + k
          BY <4>1, TornAssumption
      <4>3. e = d + m
          BY <2>3, <2>4, <3>1, <3>2, <4>1
      <4> QED BY <4>1, <4>2, <4>3
    <3>4. 0 - Torn!Made(Takers)' <= e /\ e <= Torn!Made(Adders)'
        BY <1>2, <1>3, <1>4, <1>7, <2>2, <3>1, <3>2, MadeGrows
    <3> QED BY <3>2, <3>3, <3>4 DEF LowIn
  <2>8. LowIn(tLow)' /\ \A u \in Torn!Threads : LowIn(tRegLow[u])'
    <3>1. ASSUME NEW u \in Torn!Threads, NEW x, x = tRegLow'[u] PROVE LowIn(x)'
      <4>1. CASE u = t
        <5>1. x = d - c * Word
            BY <1>1, <2>6, <3>1, <4>1 DEF Torn!TypeOK
        <5> QED BY <2>7, <5>1
      <4>2. CASE u # t
        <5>1. x = tRegLow[u]
            BY <1>1, <2>6, <3>1, <4>2 DEF Torn!TypeOK
        <5> QED BY <1>5, <5>1 DEF TornInv
      <4> QED BY <4>1, <4>2
    <3>2. \A u \in Torn!Threads : LowIn(tRegLow[u])'
        BY <3>1 DEF LowIn
    <3> QED BY <1>5, <1>7, <3>2 DEF TornInv, Torn!LoadLow
  <2>9. HighIn(tHigh)' /\ \A u \in Torn!Threads : HighIn(tRegHigh[u])'
      BY <1>1, <1>6, <1>7 DEF TornInv, Torn!LoadLow, Torn!TypeOK
  <2> QED BY <1>1, <1>7, <2>5, <2>6, <2>8, <2>9 DEF TornInv, Torn!LoadLow, Torn!TypeOK
<1>8. CASE Torn!LoadHigh(t)
  <2>1. PICK v \in {tHigh, tRegHigh[t]} : tRegHigh' = [tRegHigh EXCEPT ![t] = v]
      BY <1>8 DEF Torn!LoadHigh, Torn!Taken
  <2>2. \A u \in Torn!Threads : HighIn(tRegHigh'[u])
      BY <1>1, <2>1 DEF TornInv, Torn!TypeOK
  <2>3. HighIn(tHigh)' /\ \A u \in Torn!Threads : HighIn(tRegHigh[u])'
      BY <1>1, <1>6, <1>8, <2>2 DEF TornInv, Torn!LoadHigh, Torn!TypeOK
  <2> QED BY <1>1, <1>5, <1>8, <2>3 DEF TornInv, Torn!LoadHigh, Torn!TypeOK
<1>9. CASE Torn!StoreLow(t)
  <2>1. LowIn(tLow)'
      BY <1>5, <1>9 DEF TornInv, Torn!StoreLow
  <2> QED BY <1>1, <1>5, <1>6, <1>9, <2>1 DEF TornInv, Torn!StoreLow, Torn!TypeOK
<1>10. CASE Torn!StoreHigh(t)
  <2>1. PICK v \in Int, c \in {-1, 0, 1} : v = tRegHigh[t] /\ c = tCarry[t]
      BY <1>1 DEF Torn!TypeOK
  <2>2. tHigh' = v + c /\ tRegHigh' = [tRegHigh EXCEPT ![t] = v + c]
      BY <1>10, <2>1 DEF Torn!StoreHigh
  <2>3. HighIn(v + c)'
    <3>1. 0 - down <= v /\ v <= up /\ (c = 0 \/ c = IF t \in Adders THEN 1 ELSE -1)
        BY <1>4, <2>1 DEF TornInv, HighIn
    <3>2. /\ Torn!HighStores(Adders)' = IF t \in Adders THEN up + 1 ELSE up
          /\ Torn!HighStores(Takers)' = IF t \in Takers THEN down + 1 ELSE down
        BY <1>2, <1>4, <1>10, StoredGrows
    <3> QED BY <1>3, <2>1, <3>1, <3>2 DEF HighIn
  <2>4. ASSUME NEW u \in Torn!Threads, NEW x, x = tRegHigh'[u] PROVE HighIn(x)'
    <3>1. CASE u = t
      <4>1. x = v + c
          BY <1>1, <2>2, <2>4, <3>1 DEF Torn!TypeOK
      <4> QED BY <2>3, <4>1
    <3>2. CASE u # t
      <4>1. x = tRegHigh[u] /\ x \in Int
          BY <1>1, <2>2, <2>4, <3>2 DEF Torn!TypeOK
      <4> QED BY <1>6, <4>1 DEF TornInv
    <3> QED BY <3>1, <3>2
  <2>5. HighIn(tHigh)' /\ \A u \in Torn!Threads : HighIn(tRegHigh[u])'
      BY <2>2, <2>3, <2>4 DEF HighIn
  <2> QED BY <1>1, <1>5, <1>10, <2>5 DEF TornInv, Torn!StoreHigh, Torn!TypeOK
<1>11. CASE Torn!NextRound(t)
    BY <1>1, <1>5, <1>6, <1>11 DEF TornInv, Torn!NextRound, Torn!TypeOK
<1> QED
    BY <1>7, <1>8, <1>9, <1>10, <1>11 DEF Torn!Step

\* The inductive invariant of the counting threads.
THEOREM CountInvariance == SuiteSpec => []CountInv
<1>1. SuiteInit => CountInv
    BY LockInitial, RaceInitial, TornInitial DEF SuiteInit, CountInv
<1>2. CountInv /\ [SuiteNext]_suiteVars => CountInv'
    BY SuiteSteps, LockInductive, RaceInductive, TornInductive DEF CountInv
<1> QED BY <1>1, <1>2, PTL DEF SuiteSpec

LEMMA Remainder == ASSUME NEW q \in Int, NEW m \in Nat \ {0}, NEW x \in 0 .. m - 1
                   PROVE  (q * m + x) % m = x
    OBVIOUS

\* For any number of threads and rounds: under the lock no update of num is lost
\* or seen by half (line 35 of SyncMutex_win.cpp); without it none is made up
\* where num is one word, and none in either of its words where it is two (lines
\* 10 and 40 of thread_win3.cpp).
THEOREM CountsRight == SuiteSpec => []Counts
<1>1. CountInv => Counts
  <2> SUFFICES ASSUME CountInv PROVE Counts
      OBVIOUS
  <2>1. ASSUME program = "race" PROVE Count!OnlyLost
    <3>1. Count!TypeOK /\ Within(cNum)
        BY <2>1 DEF CountInv, RaceInv
    <3>2. PICK lo \in Int : lo = Count!Made(Down)
        BY <3>1, MadeInt DEF Count!Threads
    <3>3. -lo = 0 - lo
        OBVIOUS
    <3> QED BY <3>1, <3>2, <3>3 DEF Count!OnlyLost, Within
  <2>2. ASSUME program = "counters" PROVE Count!WholeLoops
    <3>1. cOwner = Nobody => cNum = Base
        BY <2>2 DEF CountInv, LockInv
    <3>2. \A S : Count!Cardinality(S) = Cardinality(S)
        BY DEF Count!Cardinality, Cardinality
    <3> QED BY <3>1, <3>2, Zenon DEF Count!WholeLoops, Base
  <2>3. Torn!WordsOnlyLose
    <3>1. TornInv /\ Word \in Nat \ {0} /\ tLow \in 0 .. Word - 1
        BY TornAssumption DEF CountInv, TornInv, Torn!TypeOK
    <3>2. PICK v \in Int, q \in Int :
             v = tLow + q * Word /\ 0 - Torn!Made(Takers) <= v /\ v <= Torn!Made(Adders)
        BY <3>1 DEF TornInv, LowIn
    <3>3. Torn!Made(Takers) \in Int /\ Torn!Made(Adders) \in Int /\ Torn!HighStores(Takers) \in Int
        BY <3>1, TornInt DEF Torn!Threads
    <3>4. tLow = v % Word
      <4>1. (q * Word + tLow) % Word = tLow
          BY <3>1, Remainder
      <4>2. PICK m \in Int : m = q * Word
          BY <3>1
      <4>3. tLow + m = m + tLow
          BY <3>1
      <4> QED BY <3>2, <4>1, <4>2, <4>3, Zenon
    <3>5. v \in -Torn!Made(Takers) .. Torn!Made(Adders)
        BY <3>2, <3>3
    <3>6. -Torn!HighStores(Takers) <= tHigh /\ tHigh <= Torn!HighStores(Adders)
        BY <3>1, <3>3 DEF TornInv, HighIn
    <3> QED BY <3>4, <3>5, <3>6 DEF Torn!WordsOnlyLose
  <2> QED BY <2>1, <2>2, <2>3 DEF Counts
<1> QED BY <1>1, CountInvariance, PTL

-----------------------------------------------------------------------------
(* The line read by the event example. *)

LEMMA EventCard == \A S : Event!Cardinality(S) = Cardinality(S)
    BY DEF Event!Cardinality, Cardinality

\* Without its NUL, what str takes is the beginning of the line.
LEMMA KeptStart == ASSUME EventTypeOK
                   PROVE  /\ Event!Kept \in Seq({"A", "x", "nl"})
                          /\ Len(Event!Kept) \in 0 .. Len(eLine)
                          /\ \A k \in 1 .. Len(Event!Kept) : Event!Kept[k] = eLine[k]
<1> DEFINE m == IF Len(eLine) < StrLen THEN Len(eLine) ELSE StrLen - 1
<1>1. m \in 0 .. Len(eLine)
    BY EventAssumption DEF EventTypeOK
<1>2. Event!Kept = SubSeq(eLine, 1, m)
    BY DEF Event!Kept
<1> HIDE DEF m
<1> QED BY <1>1, <1>2 DEF EventTypeOK

\* Reading on by one character.
LEMMA SeenNext == ASSUME EventTypeOK, NEW t \in Event!Threads, NEW k \in Nat, NEW c \in Nat,
                         c = Cardinality(Seen(t, k))
                  PROVE  Cardinality(Seen(t, k + 1)) = IF Event!Counts(t, eStr[k + 1]) THEN c + 1 ELSE c
<1>1. IsFiniteSet(Seen(t, k))
  <2>1. 1 \in Int /\ k \in Int /\ Seen(t, k) \subseteq 1 .. k
      BY DEF Seen
  <2>2. IsFiniteSet(1 .. k)
      BY <2>1, FS_Interval
  <2> QED BY <2>1, <2>2, FS_Subset
<1>2. CASE Event!Counts(t, eStr[k + 1])
  <2>1. Seen(t, k + 1) = Seen(t, k) \cup {k + 1} /\ k + 1 \notin Seen(t, k)
      BY <1>2 DEF Seen
  <2> QED BY <1>1, <1>2, <2>1, FS_AddElement
<1>3. CASE ~ Event!Counts(t, eStr[k + 1])
  <2>1. Seen(t, k + 1) = Seen(t, k)
    <3>1. \A j \in 1 .. k + 1 : j \in 1 .. k \/ j = k + 1
        OBVIOUS
    <3>2. 1 .. k \subseteq 1 .. k + 1
        OBVIOUS
    <3> QED BY <1>3, <3>1, <3>2, Zenon DEF Seen
  <2> QED BY <1>3, <2>1
<1> QED BY <1>2, <1>3

LEMMA EventInitial == Event!Init => EventInv
<1> SUFFICES ASSUME Event!Init PROVE EventInv
    OBVIOUS
<1>1. EventTypeOK
  <2>1. eLine \in Seq({"A", "x", "nl"}) /\ eStr = <<>>
      BY EventAssumption DEF Event!Init
  <2>2. <<>> \in Seq({"A", "x", "nl"})
      OBVIOUS
  <2>3. eStr \in Seq({"A", "x", "nl"})
      BY <2>1, <2>2, Zenon
  <2>4. /\ eEvent \in BOOLEAN /\ eMain \in {"fgets", "set", "join", "end"}
        /\ ePc \in [Event!Threads -> {"wait", "count", "done"}]
        /\ eI \in [Event!Threads -> Nat \ {0}]
        /\ eCnt \in [Event!Threads -> Nat]
        /\ eShown \in [Event!Threads -> Int]
    <3>1. 1 \in Nat \ {0} /\ 0 \in Nat /\ 0 \in Int
        OBVIOUS
    <3> QED BY <3>1, Zenon DEF Event!Init
  <2> QED BY <2>1, <2>3, <2>4, Zenon DEF EventTypeOK
<1>2. \A t : Seen(t, 1 - 1) = {}
    BY DEF Seen
<1>3. \A t : Cardinality(Seen(t, 1 - 1)) = 0
    BY <1>2, FS_EmptySet
<1> QED BY <1>1, <1>3, EventAssumption DEF EventInv, Event!Init

LEMMA EventInductive == ASSUME EventInv, [Event!Next]_(Event!vars) PROVE EventInv'
<1>1. CASE Event!Fgets
  <2>1. EventTypeOK'
      BY <1>1, KeptStart DEF EventInv, EventTypeOK, Event!Fgets
  <2>2. Event!Kept' = Event!Kept
      BY <1>1 DEF Event!Fgets, Event!Kept
  <2>3. \A t \in Event!Threads : Cardinality(Seen(t, eI[t] - 1))' = 0
    <3>1. \A t \in Event!Threads : eI'[t] - 1 = 0
        BY <1>1 DEF Event!Fgets, EventInv
    <3>2. \A t \in Event!Threads : Seen(t, eI[t] - 1)' = {}
        BY <3>1 DEF Seen
    <3> QED BY <3>2, FS_EmptySet
  <2>4. \A t \in Event!Threads : eCnt[t] = 0
    <3>1. \A t \in Event!Threads : eI[t] - 1 = 0
        BY <1>1 DEF Event!Fgets, EventInv
    <3>2. \A t \in Event!Threads : Seen(t, eI[t] - 1) = {}
        BY <3>1 DEF Seen
    <3>3. \A t \in Event!Threads : Cardinality(Seen(t, eI[t] - 1)) = 0
        BY <3>2, FS_EmptySet
    <3> QED BY <3>3 DEF EventInv
  <2> QED BY <1>1, <2>1, <2>2, <2>3, <2>4 DEF EventInv, EventTypeOK, Event!Fgets
<1>2. CASE Event!SetEvent
    BY <1>2, ZenonT(60) DEF EventInv, EventTypeOK, Event!SetEvent, Event!Kept, Seen, Event!Counts
<1>3. CASE Event!Join
    BY <1>3, ZenonT(60) DEF EventInv, EventTypeOK, Event!Join, Event!Kept, Seen, Event!Counts
<1>4. ASSUME NEW t \in Event!Threads, Event!Wait(t) PROVE EventInv'
  <2>1. EventTypeOK' /\ Event!Kept' = Event!Kept
      BY <1>4 DEF EventInv, EventTypeOK, Event!Wait, Event!Kept
  <2>2. \A u \in Event!Threads : Seen(u, eI[u] - 1)' = Seen(u, eI[u] - 1)
      BY <1>4 DEF Event!Wait, Seen, Event!Counts
  <2> QED BY <1>4, <2>1, <2>2 DEF EventInv, EventTypeOK, Event!Wait
<1>5. ASSUME NEW t \in Event!Threads, Event!Count(t) PROVE EventInv'
  <2>1. PICK k \in Nat, c \in Nat :
           eI[t] = k + 1 /\ k = eI[t] - 1 /\ c = eCnt[t] /\ c = Cardinality(Seen(t, k))
    <3>1. eI[t] \in Nat \ {0} /\ eCnt[t] \in Nat
        BY DEF EventInv, EventTypeOK
    <3>2. PICK k \in Nat : eI[t] = k + 1 /\ k = eI[t] - 1
        BY <3>1
    <3> QED BY <3>1, <3>2 DEF EventInv
  <2>2. eI'[t] = k + 2 /\ eI'[t] - 1 = k + 1
      BY <1>5, <2>1 DEF Event!Count, EventInv, EventTypeOK
  <2>3. eCnt'[t] = IF Event!Counts(t, eStr[k + 1]) THEN c + 1 ELSE c
      BY <1>5, <2>1 DEF Event!Count, EventInv, EventTypeOK
  <2>4. eCnt'[t] = Cardinality(Seen(t, k + 1))
      BY <2>1, <2>3, SeenNext DEF EventInv
  <2>5. EventTypeOK'
      BY <1>5, <2>1, <2>2, <2>3 DEF Event!Count, EventInv, EventTypeOK
  <2>6. \A u : \A j : Seen(u, j)' = Seen(u, j)
      BY <1>5 DEF Event!Count, Seen, Event!Counts
  <2>7. \A u \in Event!Threads \ {t} : eI'[u] = eI[u] /\ eCnt'[u] = eCnt[u]
      BY <1>5 DEF Event!Count, EventInv, EventTypeOK
  <2>8. \A u \in Event!Threads : eCnt'[u] = Cardinality(Seen(u, eI[u] - 1))'
    <3> SUFFICES ASSUME NEW u \in Event!Threads PROVE eCnt'[u] = Cardinality(Seen(u, eI[u] - 1))'
        OBVIOUS
    <3>1. CASE u = t
        BY <3>1, <1>5, <2>2, <2>4 DEF Seen, Event!Counts, Event!Count
    <3>2. CASE u # t
        BY <3>2, <1>5, <2>7 DEF Seen, Event!Counts, Event!Count, EventInv
    <3> QED BY <3>1, <3>2
  <2>9. eI'[t] <= Len(eStr) + 1
      BY <1>5, <2>1, <2>2 DEF Event!Count, EventInv, EventTypeOK
  <2> QED BY <1>5, <2>1, <2>2, <2>5, <2>7, <2>8, <2>9 DEF Event!Count, EventInv, EventTypeOK, Event!Kept
<1>6. ASSUME NEW t \in Event!Threads, Event!Show(t) PROVE EventInv'
  <2>1. eI[t] = Len(eStr) + 1
      BY <1>6 DEF Event!Show, EventInv, EventTypeOK
  <2>2. EventTypeOK' /\ Event!Kept' = Event!Kept
      BY <1>6 DEF EventInv, EventTypeOK, Event!Show, Event!Kept
  <2>3. \A u \in Event!Threads : Seen(u, eI[u] - 1)' = Seen(u, eI[u] - 1)
      BY <1>6 DEF Event!Show, Seen, Event!Counts
  <2>4. eShown'[t] = IF t = "NumberOfA" THEN eCnt[t] ELSE eCnt[t] - 1
      BY <1>6 DEF EventInv, EventTypeOK, Event!Show
  <2> QED BY <1>6, <2>1, <2>2, <2>3, <2>4 DEF EventInv, EventTypeOK, Event!Show
<1>7. CASE UNCHANGED Event!vars
  <2>1. EventTypeOK' /\ Event!Kept' = Event!Kept
      BY <1>7 DEF EventInv, EventTypeOK, Event!vars, Event!Kept
  <2>2. \A u \in Event!Threads : Seen(u, eI[u] - 1)' = Seen(u, eI[u] - 1)
      BY <1>7 DEF Event!vars, Seen, Event!Counts
  <2> QED BY <1>7, <2>1, <2>2 DEF EventInv, EventTypeOK, Event!vars
<1> QED
    BY <1>1, <1>2, <1>3, <1>4, <1>5, <1>6, <1>7 DEF Event!Next, Event!Main, Event!Step

\* The inductive invariant of the event example.
THEOREM EventInvariance == SuiteSpec => []EventInv
<1>1. SuiteInit => EventInv
    BY EventInitial DEF SuiteInit
<1>2. EventInv /\ [SuiteNext]_suiteVars => EventInv'
    BY SuiteSteps, EventInductive
<1> QED BY <1>1, <1>2, PTL DEF SuiteSpec

\* What both threads have counted when main ends, for any line and any STR_LEN:
\* the newline is at most one, so that taking one off the count of the others
\* makes it one too low when it was not kept (line 57 of SyncEvent_window.cpp).
THEOREM LineCounted == SuiteSpec => []CountsOfLine
<1> SUFFICES ASSUME EventInv, eMain = "end"
             PROVE  /\ eShown["NumberOfA"] = Event!Number("A")
                    /\ eShown["NumberOfOthers"] = Event!Number("x") - (IF Event!Number("nl") = 1 THEN 0 ELSE 1)
  <2>1. EventInv => CountsOfLine
      BY DEF CountsOfLine, Event!CountsOfLine
  <2> QED BY <2>1, EventInvariance, PTL
<1> DEFINE Of(char) == {k \in DOMAIN Event!Kept : Event!Kept[k] = char}
           len == Len(eStr)
<1>1. EventTypeOK /\ eStr = Event!Kept /\ DOMAIN Event!Kept = 1 .. len /\ len \in Nat
    BY KeptStart DEF EventInv, EventTypeOK
<1>2. \A char : Event!Number(char) = Cardinality(Of(char))
    BY EventCard DEF Event!Number
<1>3. /\ "NumberOfA" \in Event!Threads /\ "NumberOfOthers" \in Event!Threads
      /\ \A t \in Event!Threads : eCnt[t] = Cardinality(Seen(t, len))
  <2>1. \A t \in Event!Threads : eI[t] - 1 = len
      BY <1>1 DEF EventInv
  <2> QED BY <2>1 DEF EventInv, Event!Threads
<1>4. eShown["NumberOfA"] = eCnt["NumberOfA"] /\ eShown["NumberOfOthers"] = eCnt["NumberOfOthers"] - 1
    BY <1>3 DEF EventInv
<1>5. Seen("NumberOfA", len) = Of("A")
    BY <1>1 DEF Seen, Event!Counts
<1>6. Seen("NumberOfOthers", len) = Of("x") \cup Of("nl") /\ Of("x") \cap Of("nl") = {}
  <2>1. \A j \in 1 .. len : Event!Kept[j] \in {"A", "x", "nl"}
      BY <1>1 DEF EventTypeOK
  <2>2. \A j \in 1 .. len : Event!Counts("NumberOfOthers", Event!Kept[j]) <=> Event!Kept[j] \in {"x", "nl"}
      BY <2>1 DEF Event!Counts
  <2> QED BY <1>1, <2>2 DEF Seen
<1>7. Of("nl") \subseteq {Len(eLine)}
    BY <1>1, KeptStart DEF EventInv
<1>8. IsFiniteSet(Of("x")) /\ IsFiniteSet(Of("nl"))
  <2>1. IsFiniteSet(1 .. len)
      BY <1>1, FS_Interval
  <2>2. Of("x") \subseteq 1 .. len /\ Of("nl") \subseteq 1 .. len
      BY <1>1
  <2> QED BY <2>1, <2>2, FS_Subset
<1>9. Cardinality(Of("nl")) \in 0 .. 1
  <2>1. Of("nl") = {} \/ Of("nl") = {Len(eLine)}
      BY <1>7
  <2>2. Cardinality({}) = 0 /\ Cardinality({Len(eLine)}) = 1
      BY FS_EmptySet, FS_Singleton
  <2>3. 0 \in 0 .. 1 /\ 1 \in 0 .. 1
      OBVIOUS
  <2> HIDE DEF Of
  <2> QED BY <2>1, <2>2, <2>3, Zenon
<1> HIDE DEF Of, len
<1>10. Cardinality(Seen("NumberOfOthers", len)) = Cardinality(Of("x")) + Cardinality(Of("nl"))
  <2>1. Cardinality(Of("x") \cup Of("nl")) = Cardinality(Of("x")) + Cardinality(Of("nl")) - Cardinality(Of("x") \cap Of("nl"))
      BY <1>8, FS_Union
  <2>2. Cardinality(Of("x") \cap Of("nl")) = 0
      BY <1>6, FS_EmptySet
  <2>3. PICK a \in Nat, b \in Nat : a = Cardinality(Of("x")) /\ b = Cardinality(Of("nl"))
      BY <1>8, FS_CardinalityType
  <2>4. a + b - 0 = a + b
      OBVIOUS
  <2> QED BY <1>6, <2>1, <2>2, <2>3, <2>4, Zenon
<1>11. Cardinality(Of("x")) \in Nat
    BY <1>8, FS_CardinalityType
<1> QED BY <1>2, <1>3, <1>4, <1>5, <1>9, <1>10, <1>11

-----------------------------------------------------------------------------
(* The two locks.  Whoever is between its Enter and its Exit of a section  *)
(* owns it, so that both threads wait only when each is in front of the    *)
(* section that the other one is in.                                       *)

InFirst  == {"load", "store", "lock2", "load2", "store2", "leave2", "leave"}
InSecond == {"load2", "store2", "leave2"}

LocksInv ==
    /\ Locks!TypeOK
    /\ \A t \in Locks!Threads :
          /\ dOwner[Locks!First(t)] = t <=> dPc[t] \in InFirst
          /\ dOwner[Locks!Second(t)] = t <=> dPc[t] \in InSecond
          /\ dPc[t] = "store" => dReg[t] = dVal[Locks!First(t)]
          /\ dPc[t] = "store2" => dReg[t] = dVal[Locks!Second(t)]

\* Thread t is at a section that the other one owns.
Barred(t) ==
    \/ dPc[t] = "lock" /\ dOwner[Locks!First(t)] \notin {"nobody", t}
    \/ dPc[t] = "lock2" /\ dOwner[Locks!Second(t)] \notin {"nobody", t}

LEMMA LocksInitial == Locks!Init => LocksInv
    BY LocksAssumption DEF Locks!Init, LocksInv, Locks!TypeOK, Locks!Threads, Locks!Ints, Locks!First, Locks!Second, InFirst, InSecond

\* The sections are where the threads are, and who stores what it has loaded
\* under a section stores the successor of what is there.
LEMMA LocksInductive == LocksInv /\ [Locks!Next]_(Locks!vars) => LocksInv'
<1> SUFFICES ASSUME LocksInv, [Locks!Next]_(Locks!vars) PROVE LocksInv'
    OBVIOUS
<1> USE LocksAssumption DEF LocksInv, Locks!TypeOK, Locks!Threads, Locks!Ints, Locks!First, Locks!Second, InFirst, InSecond
<1>1. CASE UNCHANGED Locks!vars
    BY <1>1 DEF Locks!vars
<1>2. ASSUME NEW t \in Locks!Threads,
             \/ Locks!Go(t, "lock", "load") /\ Locks!Enter(t, Locks!First(t))
             \/ Locks!Go(t, "lock2", "load2") /\ Locks!Enter(t, Locks!Second(t))
      PROVE  LocksInv'
    BY <1>2 DEF Locks!Go, Locks!Enter
<1>3. ASSUME NEW t \in Locks!Threads,
             \/ Locks!Go(t, "load", "store") /\ Locks!Load(t, Locks!First(t))
             \/ Locks!Go(t, "load2", "store2") /\ Locks!Load(t, Locks!Second(t))
      PROVE  LocksInv'
    BY <1>3 DEF Locks!Go, Locks!Load
<1>4. ASSUME NEW t \in Locks!Threads,
             \/ Locks!Go(t, "store", "lock2") /\ Locks!Store(t, Locks!First(t))
             \/ Locks!Go(t, "store2", "leave2") /\ Locks!Store(t, Locks!Second(t))
      PROVE  LocksInv'
    BY <1>4 DEF Locks!Go, Locks!Store
<1>5. ASSUME NEW t \in Locks!Threads,
             \/ Locks!Go(t, "leave2", "leave") /\ Locks!Exit(Locks!Second(t))
             \/ Locks!Go(t, "leave", "lock") /\ Locks!Exit(Locks!First(t))
      PROVE  LocksInv'
    BY <1>5 DEF Locks!Go, Locks!Exit
<1> QED
    BY <1>1, <1>2, <1>3, <1>4, <1>5 DEF Locks!Next, Locks!Step

LEMMA LocksInvariance == SuiteSpec => []LocksInv
<1>1. SuiteInit => LocksInv
    BY LocksInitial DEF SuiteInit
<1>2. LocksInv /\ [SuiteNext]_suiteVars => LocksInv'
    BY SuiteSteps, LocksInductive
<1> QED
    BY <1>1, <1>2, PTL DEF SuiteSpec

\* Both threads are kept out at once in one state only: each is in its first
\* section and in front of the other's (lines 68-70 and 80-82 of
\* Deadlock-Example.cpp).
THEOREM OneWayToStop == SuiteSpec => [](Locks!Stuck <=> \A t \in Locks!Threads : Barred(t))
<1>1. LocksInv => (Locks!Stuck <=> \A t \in Locks!Threads : Barred(t))
    BY DEF LocksInv, Locks!TypeOK, Locks!Stuck, Barred, Locks!Threads, Locks!Ints, Locks!First, Locks!Second,
           InFirst, InSecond
<1> QED
    BY <1>1, LocksInvariance, PTL

\* From there they do not come out again.
THEOREM StuckForGood == SuiteSpec => [](Locks!Stuck => []Locks!Stuck)
<1>1. LocksInv /\ Locks!Stuck /\ [SuiteNext]_suiteVars => Locks!Stuck'
  <2> SUFFICES ASSUME LocksInv, Locks!Stuck, [Locks!Next]_(Locks!vars) PROVE Locks!Stuck'
      BY SuiteSteps
  <2>1. CASE UNCHANGED Locks!vars
      BY <2>1 DEF Locks!vars, Locks!Stuck
  <2>2. ASSUME NEW t \in Locks!Threads, Locks!Step(t) PROVE FALSE
    <3>1. dPc[t] = "lock2"
        BY DEF Locks!Stuck
    <3>2. dOwner[Locks!Second(t)] \in {"nobody", t}
        BY <2>2, <3>1 DEF Locks!Step, Locks!Go, Locks!Enter
    <3>3. \A u \in Locks!Threads : dOwner[Locks!First(u)] = u
        BY DEF LocksInv, Locks!Stuck, InFirst
    <3> QED
        BY <3>2, <3>3 DEF Locks!Threads, Locks!First, Locks!Second
  <2> QED BY <2>1, <2>2 DEF Locks!Next
<1> QED
    BY <1>1, LocksInvariance, PTL DEF SuiteSpec

-----------------------------------------------------------------------------
(* The prime search with its locks.  Every number below num is accounted   *)
(* for: it has been rejected, is in the vector, or is in the hands of      *)
(* exactly one worker.                                                     *)

Busy(w) == pc[w] \in {"test", "push"}

\* Workers hold different numbers, all of them given out already.
Held ==
    /\ \A w \in Workers : Busy(w) => n[w] \in 1 .. num - 1
    /\ \A v, w \in Workers : Busy(v) /\ Busy(w) /\ n[v] = n[w] => v = w

\* A worker about to append holds a number that passed the test.
Tested == \A w \in Workers : pc[w] = "push" => n[w] \in Below /\ IsPrimeNumber(n[w])

\* The vector holds numbers that passed, each once, and none still in work.
Sound ==
    /\ \A i \in DOMAIN primes : primes[i] \in Below /\ primes[i] < num /\ IsPrimeNumber(primes[i])
    /\ \A i, j \in DOMAIN primes : primes[i] = primes[j] => i = j
    /\ \A w \in Workers, i \in DOMAIN primes : Busy(w) => primes[i] # n[w]

\* A number given out that the test accepts is in the vector or in work.
Covered ==
    \A k \in Below :
       k < num /\ IsPrimeNumber(k) =>
          (\E i \in DOMAIN primes : primes[i] = k) \/ (\E w \in Workers : Busy(w) /\ n[w] = k)

\* A worker ends only after the last number below MaxCount was given out.
Over == \A w \in Workers : pc[w] = "exit" => num > MaxCount

PrimesInv == TypeOK /\ Held /\ Tested /\ Sound /\ Covered /\ Over

\* The initial state satisfies the inductive invariant (num = 1, no primes).
LEMMA PrimesInit == Init => PrimesInv
<1> SUFFICES ASSUME Init PROVE PrimesInv
    OBVIOUS
<1> USE PrimeAssumption
<1>1. TypeOK
    BY DEF Init, TypeOK
<1>2. Held /\ Tested /\ Over
    BY DEF Init, Held, Tested, Over, Busy
<1>3. Sound
    BY DEF Init, Sound, Busy
<1>4. Covered
    BY DEF Init, Covered, Below
<1> QED
    BY <1>1, <1>2, <1>3, <1>4 DEF PrimesInv

\* Taking a number (lines 60-64) keeps the account of the numbers complete.
LEMMA TakeStep == ASSUME PrimesInv, NEW w \in Workers, Take(w) PROVE PrimesInv'
<1> USE PrimeAssumption DEF PrimesInv, Take, Busy
<1>1. TypeOK'
    BY DEF TypeOK
<1>2. Held'
    BY DEF TypeOK, Held
<1>3. Tested'
    BY DEF TypeOK, Tested
<1>4. Sound'
    BY DEF TypeOK, Sound
<1>5. Covered'
  <2> SUFFICES ASSUME NEW k \in Below, k < num + 1, IsPrimeNumber(k)
               PROVE  (\E i \in DOMAIN primes : primes[i] = k)
                      \/ (\E v \in Workers : pc'[v] \in {"test", "push"} /\ n'[v] = k)
      BY DEF Covered, TypeOK
  <2>1. CASE k = num
      BY <2>1 DEF TypeOK
  <2>2. CASE k < num
      BY <2>2 DEF TypeOK, Covered
  <2> QED
      BY <2>1, <2>2 DEF TypeOK, Below
<1>6. Over'
    BY DEF TypeOK, Over
<1> QED
    BY <1>1, <1>2, <1>3, <1>4, <1>5, <1>6

\* The test (lines 65-70) drops a number only if it is too large or rejected.
LEMMA TestStep == ASSUME PrimesInv, NEW w \in Workers, Test(w) PROVE PrimesInv'
<1> USE PrimeAssumption DEF PrimesInv, Test, Busy
<1>1. TypeOK'
    BY DEF TypeOK
<1>2. Held'
    BY DEF TypeOK, Held
<1>3. Tested'
    BY DEF TypeOK, Tested, Held, Below
<1>4. Sound'
    BY DEF TypeOK, Sound
<1>5. Covered'
  <2> SUFFICES ASSUME NEW k \in Below, k < num, IsPrimeNumber(k)
               PROVE  (\E i \in DOMAIN primes : primes[i] = k)
                      \/ (\E v \in Workers : pc'[v] \in {"test", "push"} /\ n[v] = k)
      BY DEF Covered, TypeOK
  <2>1. CASE \E i \in DOMAIN primes : primes[i] = k
      BY <2>1
  <2>2. ASSUME NEW v \in Workers, pc[v] \in {"test", "push"}, n[v] = k
        PROVE  pc'[v] \in {"test", "push"}
      BY <2>2 DEF TypeOK, Below
  <2> QED
      BY <2>1, <2>2 DEF Covered
<1>6. Over'
    BY DEF TypeOK, Over, Held
<1> QED
    BY <1>1, <1>2, <1>3, <1>4, <1>5, <1>6

\* Appending (lines 70-75) moves a number from a worker to the vector.
LEMMA PushStep == ASSUME PrimesInv, NEW w \in Workers, Push(w) PROVE PrimesInv'
<1> USE PrimeAssumption DEF PrimesInv, Push, Busy
<1>0. /\ primes' = Append(primes, n[w])
      /\ DOMAIN primes' = 1 .. Len(primes) + 1
      /\ DOMAIN primes = 1 .. Len(primes)
      /\ Len(primes) \in Nat
      /\ \A i \in DOMAIN primes : primes'[i] = primes[i]
      /\ primes'[Len(primes) + 1] = n[w]
      /\ n[w] \in Below /\ n[w] < num /\ n[w] \in 1 .. num - 1
      /\ IsPrimeNumber(n[w])
    BY DEF TypeOK, Tested, Held
<1>1. TypeOK'
    BY <1>0 DEF TypeOK, Below
<1>2. Held'
    BY DEF TypeOK, Held
<1>3. Tested'
    BY DEF TypeOK, Tested
<1>4. Sound'
  <2>1. \A i \in DOMAIN primes' : primes'[i] \in Below /\ primes'[i] < num /\ IsPrimeNumber(primes'[i])
      BY <1>0 DEF Sound
  <2>2. \A i, j \in DOMAIN primes' : primes'[i] = primes'[j] => i = j
      BY <1>0 DEF Sound
  <2>3. \A v \in Workers, i \in DOMAIN primes' : pc'[v] \in {"test", "push"} => primes'[i] # n[v]
    <3> SUFFICES ASSUME NEW v \in Workers, NEW i \in DOMAIN primes', pc'[v] \in {"test", "push"}
                 PROVE  primes'[i] # n[v]
        OBVIOUS
    <3>1. v # w /\ pc[v] \in {"test", "push"}
        BY DEF TypeOK
    <3>2. CASE i \in DOMAIN primes
        BY <1>0, <3>1, <3>2 DEF Sound
    <3>3. CASE i = Len(primes) + 1
        BY <1>0, <3>1, <3>3 DEF Held
    <3> QED
        BY <1>0, <3>2, <3>3
  <2> QED
      BY <2>1, <2>2, <2>3 DEF Sound
<1>5. Covered'
  <2> SUFFICES ASSUME NEW k \in Below, k < num, IsPrimeNumber(k)
               PROVE  (\E i \in DOMAIN primes' : primes'[i] = k)
                      \/ (\E v \in Workers : pc'[v] \in {"test", "push"} /\ n[v] = k)
      BY DEF Covered, TypeOK
  <2>1. CASE \E i \in DOMAIN primes : primes[i] = k
      BY <1>0, <2>1
  <2>2. CASE n[w] = k
      BY <1>0, <2>2
  <2>3. ASSUME NEW v \in Workers, pc[v] \in {"test", "push"}, v # w
        PROVE  pc'[v] \in {"test", "push"}
      BY <2>3 DEF TypeOK
  <2> QED
      BY <2>1, <2>2, <2>3 DEF Covered
<1>6. Over'
    BY DEF TypeOK, Over
<1> QED
    BY <1>1, <1>2, <1>3, <1>4, <1>5, <1>6

\* Stuttering steps keep the invariant.
LEMMA StutterStep == ASSUME PrimesInv, UNCHANGED vars PROVE PrimesInv'
    BY DEF PrimesInv, TypeOK, Held, Tested, Sound, Covered, Over, Busy, vars

\* Every number below num stays accounted for in every reachable state.
THEOREM PrimesInvariance == Spec => []PrimesInv
<1>1. PrimesInv /\ [Next]_vars => PrimesInv'
    BY TakeStep, TestStep, PushStep, StutterStep DEF Next, Work
<1> QED
    BY PrimesInit, <1>1, PTL DEF Spec

\* The type invariant: in particular the vector holds numbers below MaxCount.
THEOREM PrimesTypeCorrect == Spec => []TypeOK
<1>1. PrimesInv => TypeOK
    BY DEF PrimesInv
<1> QED
    BY PrimesInvariance, <1>1, PTL

\* No number is found twice or held by two workers (the two mutexes, lines 61
\* and 72).
THEOREM EachOnce == Spec => []FoundOnce
<1>1. PrimesInv => FoundOnce
    BY DEF PrimesInv, FoundOnce, Held, Sound, Busy, Range
<1> QED
    BY PrimesInvariance, <1>1, PTL

\* The test leaves out the divisor k - 1, which divides no number above 2, and so
\* accepts the primes and nothing else (lines 25-49).
LEMMA Neighbour == ASSUME NEW k \in Nat, k > 2 PROVE k % (k - 1) = 1
    BY SMTT(20)

LEMMA TestIsPrimality == ASSUME NEW k \in Nat, k > 0 PROVE IsPrimeNumber(k) <=> IsPrime(k)
<1>1. CASE k <= 3
  <2>1. k \in {1, 2, 3} /\ 3 % 2 = 1
      BY <1>1, SMT
  <2> QED
      BY <1>1, <2>1 DEF IsPrimeNumber, IsPrime
<1>2. CASE k > 3
  <2>1. ASSUME IsPrimeNumber(k), NEW d \in 1 .. k, k % d = 0 PROVE d \in {1, k}
    <3>1. d \notin 2 .. k - 2
        BY <1>2, <2>1 DEF IsPrimeNumber
    <3>2. d # k - 1
        BY <1>2, <2>1, Neighbour
    <3> QED
        BY <3>1, <3>2
  <2>2. ASSUME IsPrime(k), NEW d \in 2 .. k - 2 PROVE k % d # 0
    <3>1. d \in 1 .. k /\ d # 1 /\ d # k
        BY <1>2
    <3> QED
        BY <2>2, <3>1 DEF IsPrime
  <2>3. IsPrimeNumber(k) => IsPrime(k)
      BY <1>2, <2>1 DEF IsPrime
  <2> QED
      BY <1>2, <2>2, <2>3 DEF IsPrimeNumber
<1> QED
    BY <1>1, <1>2

\* When main has joined all threads the vector holds exactly the primes below
\* MaxCount.
THEOREM SearchComplete == Spec => []NothingMissed
<1>1. PrimesInv => NothingMissed
  <2> SUFFICES ASSUME PrimesInv, Workers # {}, Joined
               PROVE  Range(primes) = {k \in Below : IsPrimeNumber(k)}
      BY TestIsPrimality, PrimeAssumption DEF NothingMissed, Below
  <2>1. Range(primes) \subseteq {k \in Below : IsPrimeNumber(k)}
      BY DEF PrimesInv, Sound, Range
  <2>2. num > MaxCount
      BY DEF PrimesInv, Over, Joined
  <2>3. ASSUME NEW k \in Below, IsPrimeNumber(k) PROVE k \in Range(primes)
    <3>1. k < num
        BY <2>2, PrimeAssumption DEF Below, PrimesInv, TypeOK
    <3>2. ~\E w \in Workers : Busy(w)
        BY DEF Joined, Busy
    <3> QED
        BY <2>3, <3>1, <3>2 DEF PrimesInv, Covered, Range
  <2> QED
      BY <2>1, <2>3
<1> QED
    BY PrimesInvariance, <1>1, PTL
=============================================================================
