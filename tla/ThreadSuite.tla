------------------------------ MODULE ThreadSuite ------------------------------
(***************************************************************************)
(* The thread examples together: the semaphores (SyncSema), the counting   *)
(* threads with and without their lock (SyncCounter), the latter also with *)
(* a number of two words (TornCounter), the two lock orders                *)
(* (DeadlockExample), the event (SyncEvent) and the prime search without   *)
(* locks (RacyPrimes).  They have nothing in common at run time: which of  *)
(* them runs is chosen in the initial state, and the others stay in        *)
(* theirs.                                                                 *)
(***************************************************************************)
EXTENDS Integers, Sequences, FiniteSets

CONSTANTS
    Numbers, Inputs,             \* SyncSema: how many numbers, and which
    Up, Down, Nobody,            \* SyncCounter: its threads, no thread,
    Rounds, Amount,              \*   the rounds and what each adds or takes
    Adders, Takers, Word,        \* TornCounter: its threads, and the size of a word
    Wrap,                        \* DeadlockExample: where its ints wrap
    Lines, StrLen,               \* SyncEvent: the lines, the size of str
    Searchers, Limit             \* RacyPrimes: its threads, the end of the search

\* The counting threads are two disjoint groups, and no round takes away from
\* what it is to add (the loop variable itself, or 1).
ASSUME CountAssumption ==
    /\ IsFiniteSet(Up) /\ IsFiniteSet(Down)
    /\ Up \cap Down = {} /\ Nobody \notin Up \cup Down
    /\ Rounds \in Nat /\ Amount \in [0 .. Rounds - 1 -> Nat]

\* What a round adds or takes fits into the low word.
ASSUME TornAssumption ==
    /\ IsFiniteSet(Adders) /\ IsFiniteSet(Takers) /\ Adders \cap Takers = {}
    /\ Word \in Nat \ {0}
    /\ \A k \in 0 .. Rounds - 1 : Amount[k] < Word

ASSUME LocksAssumption == Wrap \in Nat \ {0}

ASSUME SemaphoresAssumption == Numbers \in Nat /\ Inputs \subseteq Int

\* fgets ends a line at its newline.
ASSUME EventAssumption ==
    /\ StrLen \in Nat \ {0}
    /\ \A w \in Lines : /\ w \in Seq({"A", "x", "nl"})
                        /\ \A k \in 1 .. Len(w) : w[k] = "nl" => k = Len(w)

VARIABLES
    program,   \* the program that runs
    sOne, sTwo, sNum, sSum, sPcR, sIR, sPcA, sIA, sTotal,
    cNum, cOwner, cPc, cI, cReg,
    tLow, tHigh, tPcLow, tPcHigh, tI, tRegLow, tRegHigh, tCarry,
    dVal, dOwner, dPc, dReg,
    eLine, eStr, eEvent, eMain, ePc, eI, eCnt, eShown,
    pNum, pPrimes, pPc, pN, pVal

semaVars  == <<sOne, sTwo, sNum, sSum, sPcR, sIR, sPcA, sIA, sTotal>>
countVars == <<cNum, cOwner, cPc, cI, cReg>>
tornVars  == <<tLow, tHigh, tPcLow, tPcHigh, tI, tRegLow, tRegHigh, tCarry>>
lockVars  == <<dVal, dOwner, dPc, dReg>>
eventVars == <<eLine, eStr, eEvent, eMain, ePc, eI, eCnt, eShown>>
primeVars == <<pNum, pPrimes, pPc, pN, pVal>>
suiteVars == <<program, semaVars, countVars, tornVars, lockVars, eventVars, primeVars>>

Sema == INSTANCE SyncSema WITH
    Rounds <- Numbers,
    semOne <- sOne, semTwo <- sTwo, num <- sNum, sum <- sSum, pcR <- sPcR, iR <- sIR,
    pcA <- sPcA, iA <- sIA, total <- sTotal

\* SyncMutex_win.cpp, SyncCS_win.cpp and the x64 build of thread_win3.cpp.
Count == INSTANCE SyncCounter WITH
    Inc <- Up, Dec <- Down, num <- cNum, owner <- cOwner, pc <- cPc, i <- cI, reg <- cReg

\* The x86 build of thread_win3.cpp.
Torn == INSTANCE TornCounter WITH
    Inc <- Adders, Dec <- Takers, low <- tLow, high <- tHigh, pcLow <- tPcLow, pcHigh <- tPcHigh,
    i <- tI, regLow <- tRegLow, regHigh <- tRegHigh, carry <- tCarry

Locks == INSTANCE DeadlockExample WITH
    val <- dVal, owner <- dOwner, pc <- dPc, reg <- dReg

Event == INSTANCE SyncEvent WITH
    line <- eLine, str <- eStr, hEvent <- eEvent, main <- eMain, pc <- ePc,
    i <- eI, cnt <- eCnt, shown <- eShown

Racy == INSTANCE RacyPrimes WITH
    Threads <- Searchers, MaxCount <- Limit,
    num <- pNum, primes <- pPrimes, pc <- pPc, n <- pN, val <- pVal

InSema(A)  == program = "semaphores" /\ A /\ UNCHANGED <<program, countVars, tornVars, lockVars, eventVars, primeVars>>
InCount(A) == program = "counters" /\ A /\ UNCHANGED <<program, semaVars, tornVars, lockVars, eventVars, primeVars>>
InRace(A)  == program = "race" /\ A /\ UNCHANGED <<program, semaVars, tornVars, lockVars, eventVars, primeVars>>
InTorn(A)  == program = "two words" /\ A /\ UNCHANGED <<program, semaVars, countVars, lockVars, eventVars, primeVars>>
InLocks(A) == program = "two locks" /\ A /\ UNCHANGED <<program, semaVars, countVars, tornVars, eventVars, primeVars>>
InEvent(A) == program = "event" /\ A /\ UNCHANGED <<program, semaVars, countVars, tornVars, lockVars, primeVars>>
InRacy(A)  == program = "racy primes" /\ A /\ UNCHANGED <<program, semaVars, countVars, tornVars, lockVars, eventVars>>

\* A program that does not run has one initial state only.
AnyOf(S) == CHOOSE x \in S : TRUE

SuiteInit ==
    /\ program \in {"semaphores", "counters", "race", "two words", "two locks", "event", "racy primes"}
    /\ Sema!Init /\ Torn!Init /\ Locks!Init /\ Racy!Init
    /\ IF program = "race" THEN Count!RaceInit ELSE Count!Init
    /\ Event!Init /\ (program = "event" \/ eLine = AnyOf(Lines))

SuiteNext ==
    \/ InSema(Sema!Next) \/ InCount(Count!Next) \/ InRace(Count!RaceNext)
    \/ InTorn(Torn!Next) \/ InLocks(Locks!Next) \/ InEvent(Event!Next) \/ InRacy(Racy!Next)

SuiteSpec == SuiteInit /\ [][SuiteNext]_suiteVars

\* The threads of the program that runs are scheduled.
SuiteFairness ==
    /\ WF_suiteVars(InSema(Sema!Read)) /\ WF_suiteVars(InSema(Sema!Accu))
    /\ \A t \in Count!Threads :
          WF_suiteVars(InCount(Count!Step(t))) /\ WF_suiteVars(InRace(Count!RaceStep(t)))
    /\ \A t \in Torn!Threads : WF_suiteVars(InTorn(Torn!Step(t)))
    /\ \A t \in Locks!Threads : WF_suiteVars(InLocks(Locks!Step(t)))
    /\ WF_suiteVars(InEvent(Event!Main))
    /\ \A t \in Event!Threads : WF_suiteVars(InEvent(Event!Step(t)))
    /\ \A t \in Searchers : WF_suiteVars(InRacy(Racy!Step(t)))

SuiteFairSpec == SuiteSpec /\ SuiteFairness

-----------------------------------------------------------------------------
(* Properties. *)

\* Every number that Read stores is added once and before the next one
\* (SyncSema!HandedOver, lines 35-37 and 47-49 of SyncSema_win.cpp).
HandedOver == Sema!HandedOver

\* With the lock no update of num is lost or seen by half
\* (SyncCounter!WholeLoops, line 35 of SyncMutex_win.cpp).  Without it updates
\* are lost, but not made up, where num is one word (SyncCounter!OnlyLost, line 40
\* of thread_win3.cpp); where it is two, this is so of each word by itself, not of
\* the number (TornCounter!WordsOnlyLose, lines 10 and 40).
Counts ==
    /\ program = "counters" => Count!WholeLoops
    /\ program = "race" => Count!OnlyLost
    /\ program = "two words" => Torn!WordsOnlyLose

\* However the threads of the event example run they count the whole line
\* (SyncEvent!CountsOfLine, lines 43-57 of SyncEvent_window.cpp).
CountsOfLine == Event!CountsOfLine

\* Lost updates do not throw the racing prime search back behind what all its
\* threads have passed (RacyPrimes!NeverFurtherBack, line 60 of
\* Prime_number_multiThread.cpp).
NeverFurtherBack == Racy!NeverFurtherBack

\* Neither thread of the semaphore example waits for ever (SyncSema!Termination,
\* lines 32-53 of SyncSema_win.cpp), the waits of main for the counting threads
\* and for the readers of the event end, and so does the racing prime search
\* (SyncCounter!AllEnd, TornCounter!AllEnd, SyncEvent!MainEnds,
\* RacyPrimes!RacySearchEnds).  The lock example, which should not end, stops in
\* one way only, each thread in its first section
\* (DeadlockExample!OnlyOppositeOrder).
ThreadsEnd ==
    /\ program = "semaphores" => Sema!Termination
    /\ program \in {"counters", "race"} => Count!AllEnd
    /\ program = "two words" => Torn!AllEnd
    /\ program = "event" => Event!MainEnds
    /\ program = "racy primes" => Racy!RacySearchEnds
    /\ program = "two locks" => Locks!OnlyOppositeOrder
=============================================================================
