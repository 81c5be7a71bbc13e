------------------------- MODULE OrchestratorProofs -------------------------
(***************************************************************************)
(* Proofs about Orchestrator for every number of cases and every width of  *)
(* the semaphore, the gate and the pool.  Inv (with TypeOK) is inductive:  *)
(* TypeOK alone is not, since the counters stay in range only because of   *)
(* Accounts, and Folder needs OneReporter, which needs Phases.             *)
(***************************************************************************)
EXTENDS Orchestrator, FiniteSetTheorems, TLAPS

LEMMA CaseFinite == \A S \in SUBSET Case : IsFiniteSet(S) /\ Cardinality(S) \in Nat
<1>1. IsFiniteSet(Case)
  BY FS_Interval, SizesAssumption DEF Case
<1>2. QED
  BY <1>1, FS_Subset, FS_CardinalityType

\* Adding or removing one case changes the count by one.
LEMMA Plus == ASSUME NEW S \in SUBSET Case, NEW c \in Case, c \notin S
              PROVE  Cardinality(S \union {c}) = Cardinality(S) + 1
  BY FS_AddElement, CaseFinite

LEMMA Minus == ASSUME NEW S \in SUBSET Case, NEW c \in S
               PROVE  Cardinality(S \ {c}) = Cardinality(S) - 1
  BY FS_RemoveElement, CaseFinite

LEMMA Empty == Cardinality({}) = 0
  BY FS_EmptySet

LEMMA Smaller == ASSUME NEW S \in SUBSET Case, NEW T \in SUBSET S
                 PROVE  Cardinality(T) <= Cardinality(S)
  BY FS_Subset, CaseFinite

\* A counter that pays one for every case that joins S, and is refunded one for
\* every case that leaves it, always adds up with S to the same total.
Balanced(S, T, n, m) ==
  \/ T = S /\ m = n
  \/ \E c \in Case \ S : T = S \union {c} /\ n > 0 /\ m = n - 1
  \/ \E c \in S : T = S \ {c} /\ m = n + 1

LEMMA BalancedSum ==
  ASSUME NEW S \in SUBSET Case, NEW T \in SUBSET Case,
         NEW n \in Nat, NEW m, NEW total \in Nat,
         n + Cardinality(S) = total, Balanced(S, T, n, m)
  PROVE  m \in 0..total /\ m + Cardinality(T) = total
<1>1. Cardinality(S) \in Nat /\ Cardinality(T) \in Nat
  BY CaseFinite
<1>2. CASE T = S /\ m = n
  BY <1>1, <1>2
<1>3. ASSUME NEW c \in Case \ S, T = S \union {c}, n > 0, m = n - 1
      PROVE  m \in 0..total /\ m + Cardinality(T) = total
  <2>1. Cardinality(T) = Cardinality(S) + 1
    BY <1>3, Plus
  <2>2. QED
    BY <1>1, <1>3, <2>1
<1>4. ASSUME NEW c \in S, T = S \ {c}, m = n + 1
      PROVE  m \in 0..total /\ m + Cardinality(T) = total
  <2>1. Cardinality(T) = Cardinality(S) - 1
    BY <1>4, Minus
  <2>2. QED
    BY <1>1, <1>4, <2>1
<1>5. QED
  BY <1>2, <1>3, <1>4 DEF Balanced

-----------------------------------------------------------------------------
(* What one step does to the three counters.                               *)

USE DEF Chatting, Reporting, slots, pool, out

LEMMA SemStep ==
  ASSUME TypeOK, Phases, Next
  PROVE  \/ Balanced(Holders, Holders', sem, sem')
         \/ Holders' = {} /\ sem' = Conc
<1> USE DEF TypeOK, Holders, Balanced, TaskState
<1>1. ASSUME NEW c \in Case, Admit(c)
      PROVE  Balanced(Holders, Holders', sem, sem')
  BY <1>1 DEF Admit, TaskGo
<1>2. ASSUME NEW c \in Case, Reported(c)
      PROVE  Balanced(Holders, Holders', sem, sem')
  BY <1>2 DEF Reported, TaskGo
<1>3. ASSUME NEW c \in Case, FailTask(c)
      PROVE  Balanced(Holders, Holders', sem, sem')
  BY <1>3 DEF FailTask
<1>4. ASSUME NEW c \in Case, StaggerLock(c) \/ Submit(c) \/ BeginWrite(c)
                               \/ EndWrite(c) \/ LockReport(c)
      PROVE  Balanced(Holders, Holders', sem, sem')
  BY <1>4 DEF StaggerLock, Submit, BeginWrite, EndWrite, LockReport, TaskGo,
              Phases, LoopFree
<1>5. ASSUME NEW c \in Case, ThreadStep(c)
      PROVE  Balanced(Holders, Holders', sem, sem')
  BY <1>5 DEF ThreadStep, PickSession, AskOtp, EnterGate, LeaveGate, SkipOtp,
              FinishCase, RaiseCase, PickReport, WritePages, WriteIndex,
              RaiseReport
<1>6. CASE Abort
  BY <1>6 DEF Abort
<1>7. CASE Raise \/ Return \/ Tick
  BY <1>7 DEF Raise, Return, Tick
<1>8. QED
  BY <1>1, <1>2, <1>3, <1>4, <1>5, <1>6, <1>7 DEF Next, LoopStep

LEMMA GateStep ==
  ASSUME TypeOK, Phases, Next
  PROVE  Balanced(Windows, Windows', gate, gate')
<1> USE DEF TypeOK, Windows, Balanced, ThreadState, ThreadGo
<1>1. ASSUME NEW c \in Case, EnterGate(c)
      PROVE  Balanced(Windows, Windows', gate, gate')
  BY <1>1 DEF EnterGate
<1>2. ASSUME NEW c \in Case, LeaveGate(c)
      PROVE  Balanced(Windows, Windows', gate, gate')
  BY <1>2 DEF LeaveGate
<1>3. ASSUME NEW c \in Case, PickSession(c) \/ AskOtp(c) \/ SkipOtp(c)
                \/ FinishCase(c) \/ RaiseCase(c) \/ PickReport(c)
                \/ WritePages(c) \/ WriteIndex(c) \/ RaiseReport(c)
      PROVE  Balanced(Windows, Windows', gate, gate')
  BY <1>3 DEF PickSession, AskOtp, SkipOtp, FinishCase, RaiseCase, PickReport,
              WritePages, WriteIndex, RaiseReport
<1>4. ASSUME NEW c \in Case, Submit(c)
      PROVE  Balanced(Windows, Windows', gate, gate')
  BY <1>4 DEF Submit, Phases, LoopFree
<1>5. ASSUME NEW c \in Case, LockReport(c)
      PROVE  Balanced(Windows, Windows', gate, gate')
  BY <1>5 DEF LockReport, TaskGo, Phases, LoopFree
<1>6. ASSUME NEW c \in Case, Admit(c) \/ StaggerLock(c) \/ BeginWrite(c)
                \/ EndWrite(c) \/ Reported(c) \/ FailTask(c)
      PROVE  Balanced(Windows, Windows', gate, gate')
  BY <1>6 DEF Admit, StaggerLock, BeginWrite, EndWrite, Reported, FailTask
<1>7. CASE Abort \/ Raise \/ Return \/ Tick
  BY <1>7 DEF Abort, Raise, Return, Tick
<1>8. QED
  BY <1>1, <1>2, <1>3, <1>4, <1>5, <1>6, <1>7 DEF Next, LoopStep, ThreadStep

LEMMA IdleStep ==
  ASSUME TypeOK, Phases, Next
  PROVE  Balanced(Busies, Busies', idle, idle')
<1> USE DEF TypeOK, Busies, Balanced, ThreadState, ThreadGo
<1>1. ASSUME NEW c \in Case, PickSession(c) \/ PickReport(c)
      PROVE  Balanced(Busies, Busies', idle, idle')
  BY <1>1 DEF PickSession, PickReport
<1>2. ASSUME NEW c \in Case,
             FinishCase(c) \/ RaiseCase(c) \/ WriteIndex(c) \/ RaiseReport(c)
      PROVE  Balanced(Busies, Busies', idle, idle')
  BY <1>2 DEF FinishCase, RaiseCase, WriteIndex, RaiseReport
<1>3. ASSUME NEW c \in Case, AskOtp(c) \/ EnterGate(c) \/ LeaveGate(c)
                \/ SkipOtp(c) \/ WritePages(c)
      PROVE  Balanced(Busies, Busies', idle, idle')
  BY <1>3 DEF AskOtp, EnterGate, LeaveGate, SkipOtp, WritePages
<1>4. ASSUME NEW c \in Case, Submit(c)
      PROVE  Balanced(Busies, Busies', idle, idle')
  BY <1>4 DEF Submit, Phases, LoopFree
<1>5. ASSUME NEW c \in Case, LockReport(c)
      PROVE  Balanced(Busies, Busies', idle, idle')
  BY <1>5 DEF LockReport, TaskGo, Phases, LoopFree
<1>6. ASSUME NEW c \in Case, Admit(c) \/ StaggerLock(c) \/ BeginWrite(c)
                \/ EndWrite(c) \/ Reported(c) \/ FailTask(c)
      PROVE  Balanced(Busies, Busies', idle, idle')
  BY <1>6 DEF Admit, StaggerLock, BeginWrite, EndWrite, Reported, FailTask
<1>7. CASE Abort \/ Raise \/ Return \/ Tick
  BY <1>7 DEF Abort, Raise, Return, Tick
<1>8. QED
  BY <1>1, <1>2, <1>3, <1>4, <1>5, <1>6, <1>7 DEF Next, LoopStep, ThreadStep

\* The pool keeps its width.
LEMMA WidthStays == ASSUME [Next]_vars PROVE width' = width
<1>1. ASSUME NEW c \in Case, LoopStep(c) PROVE width' = width
  BY <1>1 DEF LoopStep, Admit, StaggerLock, Submit, BeginWrite, EndWrite, LockReport, Reported,
              FailTask
<1>2. ASSUME NEW c \in Case, ThreadStep(c) PROVE width' = width
  BY <1>2 DEF ThreadStep, PickSession, AskOtp, EnterGate, LeaveGate, SkipOtp, FinishCase,
              RaiseCase, PickReport, WritePages, WriteIndex, RaiseReport
<1>3. CASE Abort \/ Raise \/ Return \/ Tick
  BY <1>3 DEF Abort, Raise, Return, Tick
<1>4. CASE UNCHANGED vars
  BY <1>4 DEF vars
<1>5. QED
  BY <1>1, <1>2, <1>3, <1>4 DEF Next

LEMMA AccountsStep ==
  ASSUME TypeOK, Phases, Accounts, Next
  PROVE  /\ Accounts'
         /\ sem' \in 0..Conc /\ gate' \in 0..OtpConc /\ idle' \in 0..width /\ width' = width
<1>1. /\ Holders \in SUBSET Case /\ Holders' \in SUBSET Case
      /\ Windows \in SUBSET Case /\ Windows' \in SUBSET Case
      /\ Busies \in SUBSET Case /\ Busies' \in SUBSET Case
  BY DEF Holders, Windows, Busies
<1>2. sem \in Nat /\ gate \in Nat /\ idle \in Nat
  BY DEF TypeOK
<1>3. Conc \in Nat /\ OtpConc \in Nat /\ width \in Nat /\ width' = width
  BY SizesAssumption, WidthStays DEF TypeOK
<1>4. /\ sem + Cardinality(Holders) = Conc
      /\ gate + Cardinality(Windows) = OtpConc
      /\ idle + Cardinality(Busies) = width
  BY DEF Accounts
<1>5. sem' \in 0..Conc /\ sem' + Cardinality(Holders') = Conc
  <2>1. CASE Balanced(Holders, Holders', sem, sem')
    BY ONLY <1>1, <1>2, <1>3, <1>4, <2>1, BalancedSum
  <2>2. CASE Holders' = {} /\ sem' = Conc
    BY <1>3, <2>2, Empty
  <2>3. QED
    BY <2>1, <2>2, SemStep
<1>6. gate' \in 0..OtpConc /\ gate' + Cardinality(Windows') = OtpConc
  <2>1. Balanced(Windows, Windows', gate, gate')
    BY GateStep
  <2>2. QED
    BY ONLY <1>1, <1>2, <1>3, <1>4, <2>1, BalancedSum
<1>7. idle' \in 0..width /\ idle' + Cardinality(Busies') = width
  <2>1. Balanced(Busies, Busies', idle, idle')
    BY IdleStep
  <2>2. QED
    BY ONLY <1>1, <1>2, <1>3, <1>4, <2>1, BalancedSum
<1>8. QED
  BY <1>3, <1>5, <1>6, <1>7 DEF Accounts

-----------------------------------------------------------------------------
(* The other parts of the invariant, one step at a time.                   *)

LEMMA TypeStep ==
  ASSUME TypeOK, Phases, Accounts, Next
  PROVE  TypeOK'
<1>0. sem' \in 0..Conc /\ gate' \in 0..OtpConc /\ idle' \in 0..width /\ width' = width
  BY AccountsStep
<1>1. Stagger \in Nat /\ NoCase \notin Case
  BY SizesAssumption DEF NoCase, Case
<1> USE <1>0, <1>1 DEF TypeOK, TaskState, ThreadState, FileState
<1>2. ASSUME NEW c \in Case, LoopStep(c)
      PROVE  TypeOK'
  BY <1>2 DEF LoopStep, Admit, StaggerLock, Submit, BeginWrite, EndWrite,
              LockReport, Reported, FailTask, TaskGo, ThreadGo
<1>3. ASSUME NEW c \in Case, ThreadStep(c)
      PROVE  TypeOK'
  BY <1>3 DEF ThreadStep, PickSession, AskOtp, EnterGate, LeaveGate, SkipOtp,
              FinishCase, RaiseCase, PickReport, WritePages, WriteIndex,
              RaiseReport, ThreadGo
<1>4. CASE Abort
  BY <1>4 DEF Abort
<1>5. CASE Raise \/ Return \/ Tick
  BY <1>5 DEF Raise, Return, Tick
<1>6. QED
  BY <1>2, <1>3, <1>4, <1>5 DEF Next

LEMMA PhasesStep ==
  ASSUME TypeOK, Phases, Next
  PROVE  Phases'
<1>1. NoCase \notin Case
  BY SizesAssumption DEF NoCase, Case
<1> USE <1>1 DEF TypeOK, TaskState, ThreadState, Phases, Busies
<1>2. ASSUME NEW c \in Case, Admit(c) \/ StaggerLock(c) \/ Submit(c)
      PROVE  Phases'
  BY <1>2 DEF Admit, StaggerLock, Submit, TaskGo, LoopFree
<1>3. ASSUME NEW c \in Case, BeginWrite(c) \/ EndWrite(c)
      PROVE  Phases'
  BY <1>3 DEF BeginWrite, EndWrite, TaskGo, ThreadGo, LoopFree
<1>4. ASSUME NEW c \in Case, LockReport(c) \/ Reported(c) \/ FailTask(c)
      PROVE  Phases'
  BY <1>4 DEF LockReport, Reported, FailTask, TaskGo, ThreadGo, LoopFree
<1>5. ASSUME NEW c \in Case, PickSession(c) \/ AskOtp(c) \/ EnterGate(c)
                \/ LeaveGate(c) \/ SkipOtp(c) \/ FinishCase(c) \/ RaiseCase(c)
      PROVE  Phases'
  BY <1>5 DEF PickSession, AskOtp, EnterGate, LeaveGate, SkipOtp, FinishCase,
              RaiseCase, ThreadGo
<1>6. ASSUME NEW c \in Case, PickReport(c) \/ WritePages(c) \/ WriteIndex(c)
                               \/ RaiseReport(c)
      PROVE  Phases'
  BY <1>6 DEF PickReport, WritePages, WriteIndex, RaiseReport, ThreadGo
<1>7. CASE Abort
  BY <1>7 DEF Abort, LoopFree
<1>8. CASE Raise \/ Return \/ Tick
  BY <1>8 DEF Raise, Return, Tick
<1>9. QED
  BY <1>2, <1>3, <1>4, <1>5, <1>6, <1>7, <1>8 DEF Next, LoopStep, ThreadStep

LEMMA OneReporterStep ==
  ASSUME TypeOK, Phases, OneReporter, Next
  PROVE  OneReporter'
<1> USE DEF TypeOK, TaskState, ThreadState, OneReporter
<1>1. ASSUME NEW c \in Case, LoopStep(c)
      PROVE  OneReporter'
  BY <1>1 DEF LoopStep, Admit, StaggerLock, Submit, BeginWrite, EndWrite,
              LockReport, Reported, FailTask, TaskGo, ThreadGo
<1>2. ASSUME NEW c \in Case, PickReport(c)
      PROVE  OneReporter'
  <2>1. batch = "running" /\ task[c] = "reporting"
    BY <1>2 DEF PickReport, ThreadGo, Phases
  <2>2. \A d \in Case : thread[d] \in Reporting => d = c
    BY <2>1 DEF Phases
  <2>3. QED
    BY <1>2, <2>2 DEF PickReport, ThreadGo
<1>3. ASSUME NEW c \in Case, WritePages(c) \/ WriteIndex(c) \/ RaiseReport(c)
      PROVE  OneReporter'
  BY <1>3 DEF WritePages, WriteIndex, RaiseReport, ThreadGo
<1>4. ASSUME NEW c \in Case, PickSession(c) \/ AskOtp(c) \/ EnterGate(c)
                \/ LeaveGate(c) \/ SkipOtp(c) \/ FinishCase(c) \/ RaiseCase(c)
      PROVE  OneReporter'
  BY <1>4 DEF PickSession, AskOtp, EnterGate, LeaveGate, SkipOtp, FinishCase,
              RaiseCase, ThreadGo
<1>5. CASE Abort \/ Raise \/ Return \/ Tick
  BY <1>5 DEF Abort, Raise, Return, Tick
<1>6. QED
  BY <1>1, <1>2, <1>3, <1>4, <1>5 DEF Next, LoopStep, ThreadStep

\* Once the batch aborts, no thread begins a session.
LEMMA OrphansStep ==
  ASSUME TypeOK, Phases, Accounts, OrphansBounded, Next
  PROVE  OrphansBounded'
<1>1. Sessions \in SUBSET Case /\ Sessions' \in SUBSET Case /\ Conc \in Nat
  BY SizesAssumption DEF Sessions
<1>2. CASE batch = "running" /\ batch' # "running"
  <2>1. Sessions' \in SUBSET Holders
    <3>1. CASE Abort
      BY <1>2, <3>1 DEF Abort, LoopFree, Phases, TypeOK, TaskState, Sessions, Holders
    <3>2. CASE Return
      BY <1>2, <3>2 DEF Return, Phases, TypeOK, Sessions, Holders
    <3>3. QED
      BY <1>2, <3>1, <3>2
         DEF Next, LoopStep, ThreadStep, Admit, StaggerLock, Submit, BeginWrite,
             EndWrite, LockReport, Reported, FailTask, PickSession, AskOtp,
             EnterGate, LeaveGate, SkipOtp, FinishCase, RaiseCase, PickReport,
             WritePages, WriteIndex, RaiseReport, Raise, Tick
  <2>2. Holders \in SUBSET Case
    BY DEF Holders
  <2>3. Cardinality(Sessions') <= Cardinality(Holders)
    BY <2>1, <2>2, Smaller
  <2>4. /\ sem \in Nat /\ Cardinality(Holders) \in Nat /\ Cardinality(Sessions') \in Nat
        /\ sem + Cardinality(Holders) = Conc
    BY <1>1, <2>2, CaseFinite DEF TypeOK, Accounts
  <2>5. QED
    BY <1>1, <2>3, <2>4 DEF OrphansBounded
<1>3. CASE batch # "running"
  <2>1. Sessions' \in SUBSET Sessions
    <3>1. ASSUME NEW c \in Case, LoopStep(c)
          PROVE  Sessions' \in SUBSET Sessions
      BY <1>3, <3>1
         DEF LoopStep, Admit, StaggerLock, Submit, BeginWrite, EndWrite,
             LockReport, Reported, FailTask, LoopFree, TaskGo, ThreadGo, TypeOK,
             Phases, Sessions
    <3>2. ASSUME NEW c \in Case, ThreadStep(c)
          PROVE  Sessions' \in SUBSET Sessions
      BY <1>3, <3>2
         DEF ThreadStep, PickSession, AskOtp, EnterGate, LeaveGate, SkipOtp,
             FinishCase, RaiseCase, PickReport, WritePages, WriteIndex,
             RaiseReport, ThreadGo, TypeOK, Phases, Sessions
    <3>3. CASE Abort \/ Raise \/ Return \/ Tick
      BY <1>3, <3>3 DEF Abort, LoopFree, Raise, Return, Tick, Sessions
    <3>4. QED
      BY <3>1, <3>2, <3>3 DEF Next
  <2>2. Cardinality(Sessions') <= Cardinality(Sessions)
    BY <1>1, <2>1, Smaller
  <2>3. Cardinality(Sessions) <= Conc
    BY <1>3 DEF OrphansBounded
  <2>4. Cardinality(Sessions) \in Nat /\ Cardinality(Sessions') \in Nat
    BY <1>1, CaseFinite
  <2>5. QED
    BY <1>1, <2>2, <2>3, <2>4 DEF OrphansBounded
<1>4. QED
  BY <1>2, <1>3 DEF OrphansBounded

LEMMA FolderStep ==
  ASSUME TypeOK, Phases, OneReporter, Folder, Next
  PROVE  Folder'
<1> USE DEF TypeOK, TaskState, ThreadState, FileState, Folder
<1>1. ASSUME NEW c \in Case, Admit(c) \/ StaggerLock(c) \/ Submit(c)
      PROVE  Folder'
  BY <1>1 DEF Admit, StaggerLock, Submit, TaskGo, Phases, LoopFree
<1>2. ASSUME NEW c \in Case, BeginWrite(c)
      PROVE  Folder'
  BY <1>2 DEF BeginWrite, TaskGo, ThreadGo, Phases, LoopFree
<1>3. ASSUME NEW c \in Case, EndWrite(c)
      PROVE  Folder'
  BY <1>3 DEF EndWrite, TaskGo, Phases
<1>4. ASSUME NEW c \in Case, LockReport(c) \/ Reported(c) \/ FailTask(c)
      PROVE  Folder'
  BY <1>4 DEF LockReport, Reported, FailTask, TaskGo, ThreadGo, Phases, LoopFree
<1>5. ASSUME NEW c \in Case, PickSession(c) \/ AskOtp(c) \/ EnterGate(c)
                \/ LeaveGate(c) \/ SkipOtp(c) \/ FinishCase(c) \/ RaiseCase(c)
      PROVE  Folder'
  BY <1>5 DEF PickSession, AskOtp, EnterGate, LeaveGate, SkipOtp, FinishCase,
              RaiseCase, ThreadGo
<1>6. ASSUME NEW c \in Case, PickReport(c)
      PROVE  Folder'
  BY <1>6 DEF PickReport, ThreadGo, Phases
<1>7. ASSUME NEW c \in Case, WritePages(c)
      PROVE  Folder'
  BY <1>7 DEF WritePages, ThreadGo, OneReporter
<1>8. ASSUME NEW c \in Case, WriteIndex(c)
      PROVE  Folder'
  BY <1>8 DEF WriteIndex, ThreadGo, OneReporter
<1>9. ASSUME NEW c \in Case, RaiseReport(c)
      PROVE  Folder'
  BY <1>9 DEF RaiseReport, ThreadGo
<1>10. CASE Abort
  BY <1>10 DEF Abort, LoopFree
<1>11. CASE Raise \/ Return \/ Tick
  BY <1>11 DEF Raise, Return, Tick
<1>12. QED
  BY <1>1, <1>2, <1>3, <1>4, <1>5, <1>6, <1>7, <1>8, <1>9, <1>10, <1>11
     DEF Next, LoopStep, ThreadStep

-----------------------------------------------------------------------------
(* The theorems.                                                           *)

LEMMA InitInv == Init => TypeOK /\ Inv
<1> SUFFICES ASSUME Init PROVE TypeOK /\ Inv
  OBVIOUS
<1>1. TypeOK
  BY SizesAssumption DEF Init, TypeOK, TaskState, ThreadState, FileState
<1>2. Accounts
  <2>1. Holders = {} /\ Windows = {} /\ Busies = {}
    BY DEF Init, Holders, Windows, Busies
  <2>2. QED
    BY <2>1, Empty, SizesAssumption DEF Init, Accounts
<1>3. Phases /\ OneReporter /\ OrphansBounded /\ Folder
  BY SizesAssumption
     DEF Init, Phases, OneReporter, OrphansBounded, Folder, NoCase, Case
<1>4. QED
  BY <1>1, <1>2, <1>3 DEF Inv

LEMMA StepInv == TypeOK /\ Inv /\ [Next]_vars => (TypeOK /\ Inv)'
<1> SUFFICES ASSUME TypeOK, Inv, [Next]_vars PROVE (TypeOK /\ Inv)'
  OBVIOUS
<1>1. CASE Next
  BY <1>1, AccountsStep, TypeStep, PhasesStep, OneReporterStep, OrphansStep,
     FolderStep DEF Inv
<1>2. CASE UNCHANGED vars
  BY <1>2 DEF vars, TypeOK, Inv, Accounts, Phases, OneReporter, OrphansBounded,
              Folder, Holders, Sessions, Windows, Busies
<1>3. QED
  BY <1>1, <1>2

\* Every variable keeps its type, whatever the sizes.
THEOREM TypeCorrect == Spec => []TypeOK
  BY InitInv, StepInv, PTL DEF Spec

\* The inductive invariant: slots are accounted for, phases and locks agree,
\* one report runs at a time and the index is built from complete files.
THEOREM Invariance == Spec => []Inv
  BY InitInv, StepInv, PTL DEF Spec

\* At most Conc chats are open, aborted batches included (_drive's `sem`).
THEOREM SessionsBounded == Spec => []SessionBound
<1>1. TypeOK /\ Inv => SessionBound
  <2> SUFFICES ASSUME TypeOK, Inv PROVE Cardinality(Sessions) <= Conc
    BY DEF SessionBound
  <2>1. CASE batch = "running"
    <3>1. Sessions \in SUBSET Holders /\ Holders \in SUBSET Case
      BY <2>1 DEF Inv, Phases, TypeOK, TaskState, Sessions, Holders
    <3>2. Cardinality(Sessions) <= Cardinality(Holders)
      BY <3>1, Smaller
    <3>3. Cardinality(Sessions) \in Nat /\ Cardinality(Holders) \in Nat
      BY <3>1, CaseFinite DEF Sessions
    <3>4. sem \in Nat /\ Conc \in Nat /\ sem + Cardinality(Holders) = Conc
      BY SizesAssumption DEF TypeOK, Inv, Accounts
    <3>5. QED
      BY <3>2, <3>3, <3>4
  <2>2. CASE batch # "running"
    BY <2>2 DEF Inv, OrphansBounded
  <2>3. QED
    BY <2>1, <2>2
<1>2. QED
  BY <1>1, InitInv, StepInv, PTL DEF Spec

\* At most OtpConc sessions are inside wait_for_otp (_gate_provider).
THEOREM OtpWindowsBounded == Spec => []OtpWindowBound
<1>1. TypeOK /\ Inv => OtpWindowBound
  <2> SUFFICES ASSUME TypeOK, Inv PROVE Cardinality(Windows) <= OtpConc
    BY DEF OtpWindowBound
  <2>1. Cardinality(Windows) \in Nat
    BY CaseFinite DEF Windows
  <2>2. gate \in Nat /\ OtpConc \in Nat /\ gate + Cardinality(Windows) = OtpConc
    BY SizesAssumption DEF TypeOK, Inv, Accounts
  <2>3. QED
    BY <2>1, <2>2
<1>2. QED
  BY <1>1, InitInv, StepInv, PTL DEF Spec

\* Neither width is exceeded, on any path through failures and aborts.
THEOREM WidthsHold == Spec => []WidthsKept
<1>1. SessionBound /\ OtpWindowBound => WidthsKept
  BY DEF WidthsKept
<1> QED
  BY <1>1, SessionsBounded, OtpWindowsBounded, PTL

\* A batch that returns has a complete Result, pages and index row per case.
THEOREM ReturnsComplete == Spec => []ReturnComplete
<1>1. TypeOK /\ Inv => ReturnComplete
  BY DEF TypeOK, Inv, Phases, Folder, ReturnComplete
<1>2. QED
  BY <1>1, InitInv, StepInv, PTL DEF Spec

-----------------------------------------------------------------------------
(* Orchestrator implements ResultFeed.                                     *)

Landed == {c \in Case : files[c] = "full"}

LEMMA FeedInit == Init => Feed!Init
  BY DEF Init, Feed!Init

LEMMA FeedStep ==
  TypeOK /\ Inv /\ [Next]_vars => [Feed!Next]_(Feed!feedVars)
<1> SUFFICES ASSUME TypeOK, Inv, [Next]_vars
             PROVE  Feed!Next \/ UNCHANGED Feed!feedVars
  OBVIOUS
<1> USE DEF Feed!feedVars, TypeOK
<1>1. ASSUME NEW c \in Case, EndWrite(c)
      PROVE  Feed!Land(c)
  <2>1. batch = "running" /\ batch' = "running" /\ index' = index
    BY <1>1 DEF EndWrite, TaskGo, Inv, Phases
  <2>2. Landed' = Landed \union {c}
    BY <1>1 DEF EndWrite, TaskGo, Landed
  <2>3. QED
    BY <2>1, <2>2 DEF Feed!Land, Landed
<1>2. ASSUME NEW c \in Case, BeginWrite(c)
      PROVE  UNCHANGED Feed!feedVars
  <2>1. Landed' = Landed /\ UNCHANGED <<index, batch>>
    BY <1>2 DEF BeginWrite, TaskGo, ThreadGo, Inv, Folder, Landed, FileState
  <2>2. QED
    BY <2>1 DEF Landed
<1>3. ASSUME NEW c \in Case, WriteIndex(c)
      PROVE  Feed!Show
  <2>1. batch \in {"running", "aborting"} /\ batch' = batch /\ files' = files
    BY <1>3 DEF WriteIndex, ThreadGo, Inv, Phases, Busies
  <2>2. index \subseteq index' /\ index' \in SUBSET Landed
    BY <1>3 DEF WriteIndex, ThreadGo, Inv, Folder, Landed
  <2>3. QED
    BY <2>1, <2>2 DEF Feed!Show, Landed
<1>4. ASSUME NEW c \in Case, Admit(c) \/ StaggerLock(c) \/ Submit(c)
                \/ LockReport(c) \/ Reported(c) \/ FailTask(c) \/ PickSession(c)
                \/ AskOtp(c) \/ EnterGate(c) \/ LeaveGate(c) \/ SkipOtp(c)
                \/ FinishCase(c) \/ RaiseCase(c) \/ PickReport(c)
                \/ WritePages(c) \/ RaiseReport(c)
      PROVE  UNCHANGED Feed!feedVars
  BY <1>4 DEF Admit, StaggerLock, Submit, LockReport, Reported, FailTask,
              PickSession, AskOtp, EnterGate, LeaveGate, SkipOtp, FinishCase,
              RaiseCase, PickReport, WritePages, RaiseReport
<1>5. CASE Abort
  BY <1>5 DEF Abort, LoopFree
<1>6. CASE Raise
  BY <1>6 DEF Raise, Feed!Next, Feed!Raise
<1>7. CASE Return
  <2>1. Landed = Case /\ index = Case
    BY <1>7 DEF Return, Inv, Folder, Landed
  <2>2. QED
    BY <1>7, <2>1 DEF Return, Feed!Next, Feed!Return, Landed
<1>8. CASE Tick
  BY <1>8 DEF Tick
<1>9. CASE UNCHANGED vars
  BY <1>9 DEF vars
<1>10. QED
  BY <1>1, <1>2, <1>3, <1>4, <1>5, <1>6, <1>7, <1>8, <1>9
     DEF Next, LoopStep, ThreadStep, Feed!Next

\* Whatever the interleaving, what lands in the run folder is what ResultFeed
\* promises: a growing index over landed Results, frozen once run_batch ends.
THEOREM Refinement == Spec => ImplementsFeed
<1>1. QED
  BY FeedInit, FeedStep, InitInv, StepInv, PTL
     DEF Spec, ImplementsFeed, Feed!Safety

\* No rebuild of the index drops a case (report_lock in _drive).
THEOREM IndexMonotone == Spec => IndexGrows
<1>1. TypeOK /\ Inv /\ [Next]_vars => [index \subseteq index']_vars
  <2> SUFFICES ASSUME TypeOK, Inv, [Next]_vars PROVE index \subseteq index'
    OBVIOUS
  <2>1. ASSUME NEW c \in Case, WriteIndex(c)
        PROVE  index \subseteq index'
    BY <2>1 DEF WriteIndex, ThreadGo, Inv, Folder, TypeOK
  <2>2. CASE ~ \E c \in Case : WriteIndex(c)
    BY <2>2 DEF vars, Next, LoopStep, ThreadStep, Admit, StaggerLock, Submit,
                BeginWrite, EndWrite, LockReport, Reported, FailTask,
                PickSession, AskOtp, EnterGate, LeaveGate, SkipOtp, FinishCase,
                RaiseCase, PickReport, WritePages, RaiseReport, Abort, Raise,
                Return, Tick
  <2>3. QED
    BY <2>1, <2>2
<1>2. QED
  BY <1>1, InitInv, StepInv, PTL DEF Spec, IndexGrows

-----------------------------------------------------------------------------
(* Staggered starts, when the pool is at least as wide as --conc.          *)

\* The clock of the last submission and the clock of the last session start
\* agree, except in the instant between a submission and its pick-up.
StaggerClocks ==
  width >= Conc /\ batch = "running" =>
    /\ \A c \in Case : thread[c] = "queued" => since = 0 /\ gap = Stagger
    /\ \A c, d \in Case :
         thread[c] = "queued" /\ thread[d] = "queued" => c = d \/ Stagger = 0
    /\ (\A c \in Case : thread[c] # "queued") => gap = since
    /\ starter # NoCase => since + wake = Stagger
    /\ starter = NoCase => wake = 0

\* While a session waits for a thread, some thread is idle.
LEMMA PoolKeepsUp ==
  ASSUME TypeOK, Inv, width >= Conc, batch = "running",
         NEW c \in Case, thread[c] = "queued"
  PROVE  idle > 0
<1>1. Holders \in SUBSET Case /\ Busies \in SUBSET (Holders \ {c}) /\ c \in Holders
  BY DEF Inv, Phases, TypeOK, TaskState, Holders, Busies
<1>2. /\ Cardinality(Busies) <= Cardinality(Holders \ {c})
      /\ Cardinality(Holders \ {c}) = Cardinality(Holders) - 1
  BY <1>1, Smaller, Minus
<1>3. Cardinality(Busies) \in Nat /\ Cardinality(Holders) \in Nat
  BY <1>1, CaseFinite
<1>4. /\ sem \in Nat /\ idle \in Nat /\ Conc \in Nat /\ width \in Nat
      /\ sem + Cardinality(Holders) = Conc
      /\ idle + Cardinality(Busies) = width
  BY SizesAssumption DEF TypeOK, Inv, Accounts
<1>5. QED
  BY <1>2, <1>3, <1>4

LEMMA ClocksStep ==
  ASSUME TypeOK, Inv, StaggerClocks, [Next]_vars
  PROVE  StaggerClocks'
<1> SUFFICES ASSUME width >= Conc PROVE StaggerClocks'
  BY WidthStays DEF StaggerClocks
<1>1. Stagger \in Nat /\ NoCase \notin Case /\ width' = width
  BY SizesAssumption, WidthStays DEF NoCase, Case
<1> USE <1>1 DEF StaggerClocks, TypeOK, ThreadState
<1>2. ASSUME NEW c \in Case, StaggerLock(c)
      PROVE  StaggerClocks'
  BY <1>2 DEF StaggerLock
<1>3. ASSUME NEW c \in Case, Submit(c)
      PROVE  StaggerClocks'
  <2>1. since = Stagger /\ wake = 0
    BY <1>3 DEF Submit, LoopFree
  <2>2. QED
    BY <1>3, <2>1 DEF Submit, LoopFree
<1>4. ASSUME NEW c \in Case, PickSession(c)
      PROVE  StaggerClocks'
  BY <1>4 DEF PickSession, ThreadGo
<1>5. ASSUME NEW c \in Case, Admit(c) \/ EndWrite(c)
      PROVE  StaggerClocks'
  BY <1>5 DEF Admit, EndWrite
<1>6. ASSUME NEW c \in Case, BeginWrite(c) \/ LockReport(c) \/ Reported(c)
                               \/ FailTask(c)
      PROVE  StaggerClocks'
  BY <1>6 DEF BeginWrite, LockReport, Reported, FailTask, TaskGo, ThreadGo,
              Inv, Phases
<1>7. ASSUME NEW c \in Case, AskOtp(c) \/ EnterGate(c) \/ LeaveGate(c)
                \/ SkipOtp(c) \/ FinishCase(c) \/ RaiseCase(c) \/ PickReport(c)
                \/ WritePages(c) \/ WriteIndex(c) \/ RaiseReport(c)
      PROVE  StaggerClocks'
  BY <1>7 DEF AskOtp, EnterGate, LeaveGate, SkipOtp, FinishCase, RaiseCase,
              PickReport, WritePages, WriteIndex, RaiseReport, ThreadGo
<1>8. CASE Tick
  <2>1. \A c \in Case : thread[c] # "queued"
    BY <1>8, PoolKeepsUp DEF Tick
  <2>2. QED
    BY <1>8, <2>1 DEF Tick
<1>9. CASE Abort \/ Raise \/ Return
  BY <1>9 DEF Abort, Raise, Return
<1>10. CASE UNCHANGED vars
  BY <1>10 DEF vars
<1>11. QED
  BY <1>2, <1>3, <1>4, <1>5, <1>6, <1>7, <1>8, <1>9, <1>10
     DEF Next, LoopStep, ThreadStep

\* _stagger keeps sessions apart whenever the pool is not the bottleneck.
THEOREM StaggerHolds == Spec => SessionsStaggered
<1>1. Init => StaggerClocks
  BY SizesAssumption DEF Init, StaggerClocks
<1>2. TypeOK /\ Inv /\ StaggerClocks /\ [Next]_vars => StaggerClocks'
  BY ClocksStep
<1>3. TypeOK /\ Inv /\ StaggerClocks /\ [Next]_vars =>
        [\A c \in Case : width >= Conc /\ thread[c] = "queued" /\ thread'[c] = "chat"
                           => gap >= Stagger]_vars
  <2> SUFFICES ASSUME TypeOK, Inv, StaggerClocks, width >= Conc, NEW c \in Case,
                      thread[c] = "queued"
               PROVE  gap >= Stagger
    OBVIOUS
  <2>1. batch = "running"
    BY DEF Inv, Phases, TypeOK
  <2>2. QED
    BY <2>1, SizesAssumption DEF StaggerClocks
<1>4. QED
  BY <1>1, <1>2, <1>3, InitInv, StepInv, PTL DEF Spec, SessionsStaggered

=============================================================================
