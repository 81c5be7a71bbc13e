---------------------------- MODULE Orchestrator ----------------------------
(***************************************************************************)
(* runner/orchestrator.py: run_batch drives the selected use-cases through *)
(* run_case on one asyncio loop and the loop's default thread pool.        *)
(*                                                                         *)
(* Three kinds of step interleave:                                         *)
(*   - steps of the coroutine one(uc), between two awaits, on the loop     *)
(*     thread (the loop is blocked while write_result writes its file);    *)
(*   - steps of a pool thread running run_case: the chat, the wait at the  *)
(*     OTP gate, the OTP window, the rest of the chat and the judge;       *)
(*   - steps of a pool thread running _write_incremental_reports.          *)
(* A task and its thread are separate: when gather raises, asyncio.run     *)
(* cancels the tasks, while a thread that is already running goes on.      *)
(***************************************************************************)
EXTENDS Naturals, FiniteSets

CONSTANTS
  N,         \* number of selected cases; tasks are created in order 1..N
  Conc,      \* width of the asyncio session semaphore (--conc)
  OtpConc,   \* width of the OTP gate (--otp-conc)
  Workers,   \* the widths the loop's default executor may have
  Stagger    \* clock ticks between two session submissions (--stagger)

ASSUME SizesAssumption ==
  /\ N \in Nat \ {0}
  /\ Conc \in Nat \ {0}
  /\ OtpConc \in Nat \ {0}
  /\ Workers # {} /\ Workers \subseteq Nat \ {0}
  /\ Stagger \in Nat

Case == 1..N
NoCase == 0

VARIABLES
  task,      \* progress of the coroutine one(uc)
  thread,    \* progress of the work item the coroutine handed to the pool
  sem,       \* free slots of the session semaphore
  starter,   \* holder of the stagger lock
  wake,      \* ticks the holder still sleeps
  since,     \* ticks since last[0] was set, capped at Stagger
  width,     \* threads of the pool, as the machine has cores
  idle,      \* idle pool threads
  gate,      \* free slots of the OTP gate
  gap,       \* ticks since a pool thread last began a session, capped
  reporter,  \* holder of report_lock
  files,     \* state of each <id>.result.json
  pages,     \* cases whose evidence and quality pages are written
  listed,    \* the names the glob of each running report found
  index,     \* cases shown by index.html, bot-issues.html, quality-index.html
  batch      \* "running", "aborting", then "returned" or "raised"

slots == <<sem, starter, wake, since>>
pool  == <<width, idle, gate, gap>>
out   == <<files, pages, listed, index>>
vars  == <<task, thread, slots, pool, reporter, out, batch>>

TaskState == {"new", "stagger", "running", "writing", "reportlock",
              "reporting", "done", "failed", "cancelled"}
Chatting  == {"chat", "gate", "otp", "judge"}
Reporting == {"page", "index"}
ThreadState ==
  {"none", "queued", "landed", "raised", "rqueued", "rlanded", "rraised"}
    \union Chatting \union Reporting
FileState == {"absent", "partial", "full"}

Init ==
  /\ task = [c \in Case |-> "new"]
  /\ thread = [c \in Case |-> "none"]
  /\ sem = Conc
  /\ starter = NoCase
  /\ wake = 0
  /\ since = Stagger
  /\ width \in Workers
  /\ idle = width
  /\ gate = OtpConc
  /\ gap = Stagger
  /\ reporter = NoCase
  /\ files = [c \in Case |-> "absent"]
  /\ pages = {}
  /\ listed = [c \in Case |-> {}]
  /\ index = {}
  /\ batch = "running"

TaskGo(c, from, to) == task[c] = from /\ task' = [task EXCEPT ![c] = to]
ThreadGo(c, from, to) ==
  thread[c] \in from /\ thread' = [thread EXCEPT ![c] = to]

-----------------------------------------------------------------------------
(* The coroutine one(uc), on the loop thread.                              *)

\* write_text is synchronous: while it runs no other coroutine does.
LoopFree == batch = "running" /\ \A c \in Case : task[c] # "writing"

\* async with sem: FIFO, and the tasks were created in catalog order.
Admit(c) ==
  /\ LoopFree
  /\ TaskGo(c, "new", "stagger")
  /\ \A d \in 1..(c - 1) : task[d] # "new"
  /\ sem > 0
  /\ sem' = sem - 1
  /\ UNCHANGED <<thread, starter, wake, since, pool, reporter, out, batch>>

\* async with lock (FIFO): compute how long to sleep since the last start.
StaggerLock(c) ==
  /\ LoopFree
  /\ task[c] = "stagger"
  /\ starter = NoCase
  /\ \A d \in 1..(c - 1) : task[d] # "stagger"
  /\ starter' = c
  /\ wake' = Stagger - since
  /\ UNCHANGED <<task, thread, sem, since, pool, reporter, out, batch>>

\* Faulty variant: last[0] is never updated, so nobody ever sleeps.
SubmitKeepingLast(c) ==
  /\ LoopFree
  /\ starter = c
  /\ wake = 0
  /\ starter' = NoCase
  /\ task' = [task EXCEPT ![c] = "running"]
  /\ thread' = [thread EXCEPT ![c] = "queued"]
  /\ UNCHANGED <<sem, wake, since, pool, reporter, out, batch>>

\* The sleep is over: set last[0], release the lock, hand run_case to the pool.
Submit(c) ==
  /\ LoopFree
  /\ starter = c
  /\ wake = 0
  /\ since' = 0
  /\ starter' = NoCase
  /\ task' = [task EXCEPT ![c] = "running"]
  /\ thread' = [thread EXCEPT ![c] = "queued"]
  /\ UNCHANGED <<sem, wake, pool, reporter, out, batch>>

\* run_case returned: write_result truncates the file ...
BeginWrite(c) ==
  /\ LoopFree
  /\ TaskGo(c, "running", "writing")
  /\ ThreadGo(c, {"landed"}, "none")
  /\ files' = [files EXCEPT ![c] = "partial"]
  /\ UNCHANGED <<slots, pool, reporter, pages, listed, index, batch>>

\* ... and fills it; the coroutine goes on to report_lock.
EndWrite(c) ==
  /\ TaskGo(c, "writing", "reportlock")
  /\ files' = [files EXCEPT ![c] = "full"]
  /\ UNCHANGED <<thread, slots, pool, reporter, pages, listed, index, batch>>

\* async with report_lock: hand _write_incremental_reports to the pool.
LockReport(c) ==
  /\ LoopFree
  /\ TaskGo(c, "reportlock", "reporting")
  /\ reporter = NoCase
  /\ reporter' = c
  /\ thread' = [thread EXCEPT ![c] = "rqueued"]
  /\ UNCHANGED <<slots, pool, out, batch>>

\* The report is written: both locks are released and the task is done.
Reported(c) ==
  /\ LoopFree
  /\ TaskGo(c, "reporting", "done")
  /\ ThreadGo(c, {"rlanded"}, "none")
  /\ reporter' = NoCase
  /\ sem' = sem + 1
  /\ UNCHANGED <<starter, wake, since, pool, out, batch>>

\* run_case or the report raised: the coroutine fails, its locks released.
FailTask(c) ==
  /\ LoopFree
  /\ \/ task[c] = "running" /\ thread[c] = "raised"
     \/ task[c] = "reporting" /\ thread[c] = "rraised"
  /\ task' = [task EXCEPT ![c] = "failed"]
  /\ thread' = [thread EXCEPT ![c] = "none"]
  /\ reporter' = IF reporter = c THEN NoCase ELSE reporter
  /\ sem' = sem + 1
  /\ UNCHANGED <<starter, wake, since, pool, out, batch>>

-----------------------------------------------------------------------------
(* A pool thread running run_case.                                         *)

PickSession(c) ==
  /\ ThreadGo(c, {"queued"}, "chat")
  /\ idle > 0
  /\ idle' = idle - 1
  /\ gap' = 0
  /\ UNCHANGED <<task, slots, width, gate, reporter, out, batch>>

\* The bot asks for the code: gated_wait blocks on the gate.
AskOtp(c) ==
  /\ ThreadGo(c, {"chat"}, "gate")
  /\ UNCHANGED <<task, slots, pool, reporter, out, batch>>

\* Faulty variant: the provider is used without its gate.
EnterGateUngated(c) ==
  /\ ThreadGo(c, {"gate"}, "otp")
  /\ UNCHANGED <<task, slots, pool, reporter, out, batch>>

EnterGate(c) ==
  /\ ThreadGo(c, {"gate"}, "otp")
  /\ gate > 0
  /\ gate' = gate - 1
  /\ UNCHANGED <<task, slots, width, idle, gap, reporter, out, batch>>

\* Faulty variant: the slot is released on return only, not when the wait raises.
LeaveGateLeaking(c) ==
  /\ ThreadGo(c, {"otp"}, "judge")
  /\ gate' \in {gate, gate + 1}
  /\ UNCHANGED <<task, slots, width, idle, gap, reporter, out, batch>>

\* wait_for_otp returns a code or raises: `with gate` releases either way, and
\* run_flow turns the exception into a Result with harness.error.
LeaveGate(c) ==
  /\ ThreadGo(c, {"otp"}, "judge")
  /\ gate' = gate + 1
  /\ UNCHANGED <<task, slots, width, idle, gap, reporter, out, batch>>

\* The chat ends without an OTP wait (no ask, an outage, a driver error).
SkipOtp(c) ==
  /\ ThreadGo(c, {"chat"}, "judge")
  /\ UNCHANGED <<task, slots, pool, reporter, out, batch>>

FinishCase(c) ==
  /\ ThreadGo(c, {"judge"}, "landed")
  /\ idle' = idle + 1
  /\ UNCHANGED <<task, slots, width, gate, gap, reporter, out, batch>>

\* start_session raises out of run_flow, or validate_result out of run_case.
RaiseCase(c) ==
  /\ ThreadGo(c, {"chat", "judge"}, "raised")
  /\ idle' = idle + 1
  /\ UNCHANGED <<task, slots, width, gate, gap, reporter, out, batch>>

-----------------------------------------------------------------------------
(* A pool thread running _write_incremental_reports.                       *)

PickReport(c) ==
  /\ ThreadGo(c, {"rqueued"}, "page")
  /\ idle > 0
  /\ idle' = idle - 1
  /\ UNCHANGED <<task, slots, width, gate, gap, reporter, out, batch>>

\* The case's two pages, then the glob of every result file present.
WritePages(c) ==
  /\ ThreadGo(c, {"page"}, "index")
  /\ pages' = pages \union {c}
  /\ listed' = [listed EXCEPT ![c] = {d \in Case : files[d] # "absent"}]
  /\ UNCHANGED <<task, slots, pool, reporter, files, index, batch>>

\* Parse each listed file (an unparsable, half-written one is skipped) and
\* rewrite the three index pages from what was parsed.
WriteIndex(c) ==
  /\ ThreadGo(c, {"index"}, "rlanded")
  /\ index' = {d \in listed[c] : files[d] = "full"}
  /\ listed' = [listed EXCEPT ![c] = {}]
  /\ idle' = idle + 1
  /\ UNCHANGED <<task, slots, width, gate, gap, reporter, files, pages, batch>>

RaiseReport(c) ==
  /\ ThreadGo(c, Reporting, "rraised")
  /\ idle' = idle + 1
  /\ UNCHANGED <<task, slots, width, gate, gap, reporter, out, batch>>

-----------------------------------------------------------------------------
(* gather, asyncio.run and time.                                           *)

\* gather re-raises the first failure out of _drive; asyncio.run cancels every
\* unfinished task.  A queued work item is cancelled with its future and a
\* result that no task has taken yet is dropped; a running thread goes on.
Abort ==
  /\ LoopFree
  /\ \E c \in Case : task[c] = "failed"
  /\ batch' = "aborting"
  /\ task' = [c \in Case |-> IF task[c] \in {"done", "failed"}
                             THEN task[c] ELSE "cancelled"]
  /\ thread' = [c \in Case |-> IF thread[c] \in Chatting \union Reporting
                               THEN thread[c] ELSE "none"]
  /\ sem' = Conc
  /\ starter' = NoCase
  /\ wake' = 0
  /\ reporter' = NoCase
  /\ UNCHANGED <<since, pool, out>>

\* Faulty variant: run_batch raises without joining the pool.
RaiseUnjoined ==
  /\ batch = "aborting"
  /\ batch' = "raised"
  /\ UNCHANGED <<task, thread, slots, pool, reporter, out>>

\* asyncio.run joins the pool (shutdown_default_executor) before it raises.
Raise ==
  /\ batch = "aborting"
  /\ \A c \in Case : thread[c] \notin Chatting \union Reporting
  /\ batch' = "raised"
  /\ UNCHANGED <<task, thread, slots, pool, reporter, out>>

Return ==
  /\ batch = "running"
  /\ \A c \in Case : task[c] = "done"
  /\ batch' = "returned"
  /\ UNCHANGED <<task, thread, slots, pool, reporter, out>>

\* Time does not pass while an idle thread has a work item to take.
Tick ==
  /\ batch = "running"
  /\ wake > 0 \/ since < Stagger \/ gap < Stagger
  /\ idle = 0 \/ \A c \in Case : thread[c] \notin {"queued", "rqueued"}
  /\ wake' = IF wake > 0 THEN wake - 1 ELSE 0
  /\ since' = IF since < Stagger THEN since + 1 ELSE Stagger
  /\ gap' = IF gap < Stagger THEN gap + 1 ELSE Stagger
  /\ UNCHANGED <<task, thread, sem, starter, width, idle, gate,
                 reporter, out, batch>>

LoopStep(c) ==
  \/ Admit(c) \/ StaggerLock(c) \/ Submit(c) \/ BeginWrite(c) \/ EndWrite(c)
  \/ LockReport(c) \/ Reported(c) \/ FailTask(c)

ThreadStep(c) ==
  \/ PickSession(c) \/ AskOtp(c) \/ EnterGate(c) \/ LeaveGate(c) \/ SkipOtp(c)
  \/ FinishCase(c) \/ RaiseCase(c)
  \/ PickReport(c) \/ WritePages(c) \/ WriteIndex(c) \/ RaiseReport(c)

Next ==
  \/ \E c \in Case : LoopStep(c) \/ ThreadStep(c)
  \/ Abort
  \/ Raise
  \/ Return
  \/ Tick

\* The loop, each pool thread and the clock keep going.  wait_for_otp, the
\* chat's reply wait and the Bedrock retries are all bounded by timeouts, so a
\* thread never stays in one state for ever.
Fairness ==
  /\ \A c \in Case : WF_vars(LoopStep(c)) /\ WF_vars(ThreadStep(c))
  /\ WF_vars(Abort) /\ WF_vars(Raise) /\ WF_vars(Return) /\ WF_vars(Tick)

Spec == Init /\ [][Next]_vars
FairSpec == Spec /\ Fairness

-----------------------------------------------------------------------------
(* Properties.                                                             *)

TypeOK ==
  /\ task \in [Case -> TaskState]
  /\ thread \in [Case -> ThreadState]
  /\ sem \in 0..Conc
  /\ starter \in Case \union {NoCase}
  /\ wake \in 0..Stagger
  /\ since \in 0..Stagger
  /\ width \in Workers
  /\ idle \in 0..width
  /\ gate \in 0..OtpConc
  /\ gap \in 0..Stagger
  /\ reporter \in Case \union {NoCase}
  /\ files \in [Case -> FileState]
  /\ pages \in SUBSET Case
  /\ listed \in [Case -> SUBSET Case]
  /\ index \in SUBSET Case
  /\ batch \in {"running", "aborting", "returned", "raised"}

\* Coroutines that hold a session slot, open chats, OTP waits, busy threads.
Holders == {c \in Case : task[c] \in {"stagger", "running", "writing",
                                     "reportlock", "reporting"}}
Sessions == {c \in Case : thread[c] \in Chatting}
Windows == {c \in Case : thread[c] = "otp"}
Busies == {c \in Case : thread[c] \in Chatting \union Reporting}

\* No slot is ever lost or handed out twice.
Accounts ==
  /\ sem + Cardinality(Holders) = Conc
  /\ gate + Cardinality(Windows) = OtpConc
  /\ idle + Cardinality(Busies) = width

\* Which work item goes with which point of the coroutine, and who holds what.
Phases ==
  \A c \in Case :
    /\ batch = "running" =>
         /\ task[c] \in {"new", "stagger", "writing", "reportlock", "done",
                         "failed"} => thread[c] = "none"
         /\ task[c] = "running" =>
              thread[c] \in {"queued", "landed", "raised"} \union Chatting
         /\ task[c] = "reporting" =>
              /\ thread[c] \in {"rqueued", "rlanded", "rraised"} \union Reporting
              /\ reporter = c
         /\ reporter = c => task[c] = "reporting"
         /\ starter = c => task[c] = "stagger"
         /\ task[c] # "cancelled"
    /\ batch # "running" =>
         /\ task[c] \in {"done", "failed", "cancelled"}
         /\ thread[c] \notin {"queued", "rqueued"}
    /\ batch = "returned" => task[c] = "done" /\ thread[c] = "none"
    /\ batch = "raised" => c \notin Busies

\* At most one thread writes the index, even one that outlives its task.
OneReporter ==
  \A c, d \in Case :
    thread[c] \in Reporting /\ thread[d] \in Reporting => c = d

\* The threads that outlive an abort are no more than there were sessions.
OrphansBounded ==
  batch # "running" =>
    Cardinality(Sessions) <= Conc

\* What is on disk at each point of a case, and what the index was built from.
Folder ==
 \A c \in Case :
    /\ task[c] \in {"new", "stagger", "running"} => files[c] = "absent"
    /\ task[c] \in {"reportlock", "reporting", "done"} => files[c] = "full"
    /\ files[c] = "partial" => task[c] = "writing"
    /\ thread[c] \in Reporting => files[c] = "full"
    /\ thread[c] = "index" => c \in listed[c] /\ c \in pages /\ index \subseteq listed[c]
    /\ thread[c] = "rlanded" \/ task[c] = "done" => c \in index /\ c \in pages
    /\ c \in index => files[c] = "full"

\* The inductive invariant behind the safety properties below.
Inv == Accounts /\ Phases /\ OneReporter /\ OrphansBounded /\ Folder

\* At most Conc chats are open, the threads that outlive an abort included.
SessionBound == Cardinality(Sessions) <= Conc

\* At most OtpConc sessions are inside the OTP window at once, whatever the
\* waits end with and even while an aborted batch winds down.
OtpWindowBound == Cardinality(Windows) <= OtpConc

\* No width is exceeded, on any path through failures and aborts.
WidthsKept == SessionBound /\ OtpWindowBound

\* When run_batch returns, every case has a complete Result and its pages, and
\* the index shows all of them: no report overwrote a newer one.
ReturnComplete ==
  batch = "returned" =>
    /\ \A c \in Case : files[c] = "full"
    /\ pages = Case
    /\ index = Case

\* A rebuild never drops a case the index already shows, although the rebuild
\* reads the folder while other coroutines are writing into it.
IndexGrows == [][index \subseteq index']_vars

\* With a thread for each session two of them never begin less than Stagger ticks
\* apart.  In a narrower pool they may, as they queue for a thread after they were
\* spaced.
SessionsStaggered ==
  [][\A c \in Case :
       width >= Conc /\ thread[c] = "queued" /\ thread'[c] = "chat" => gap >= Stagger]_vars

\* The batch implements ResultFeed: Results only accumulate, the index follows
\* them, and once run_batch has returned or raised nothing touches the folder.
Feed == INSTANCE ResultFeed WITH
  landed <- {c \in Case : files[c] = "full"},
  shown <- index,
  outcome <- IF batch = "aborting" THEN "running" ELSE batch

ImplementsFeed == Feed!Safety

\* run_batch ends: no slot, lock or thread is lost on any path.
BatchEnds == <>(batch \in {"returned", "raised"})

=============================================================================
