-------------------------------- MODULE UiJobs --------------------------------
(***************************************************************************)
(* The control panel of ui/server.py: the page starts a run, a worker      *)
(* thread drives the command line's run, metrics and analyze one after the *)
(* other, and the page asks for the job every 1.5 s until it has ended.    *)
(* The registry of jobs is shared under _JOBS_LOCK, which /api/job keeps   *)
(* while it sends its answer; the subprocesses and the run folders outlive *)
(* a server that is stopped.                                               *)
(*                                                                         *)
(* A log is the kinds of its lines; a subprocess prints what the worker    *)
(* looks for, and its other lines are left out.                            *)
(***************************************************************************)
EXTENDS Naturals, Sequences

CONSTANTS
  Job,          \* the jobs the page starts, each with an id of its own
  Case,         \* the cases of a run
  Cell,         \* the product, env and feed of each job
  Pipeline,     \* the jobs that go on with metrics and analyze
  Watched,      \* the jobs whose page stays open
  MaxPolls,     \* bound on the questions of one page under way
  LastSecond,   \* bound on the clock
  MaxRestarts,  \* bound on the restarts of the server
  Null

Step == {"run", "metrics", "analyze"}
Poll == Job \X (1 .. MaxPolls)

VARIABLES
  second,    \* the clock that run folders are named by
  restarts,  \* how often the server was restarted
  jobs,      \* _JOBS
  lock,      \* _JOBS_LOCK: Null, or the poll whose answer is being sent
  worker,    \* where the thread of a job is, and its step
  proc,      \* the subprocess of a job, what it printed and the folder it was given
  exits,     \* the exit codes of a job's subprocesses
  out,       \* the folder the run of a job writes to, and since when
  disk,      \* the run folders: who wrote the result of a case, the metrics
  poll,      \* the questions of the pages and their answers
  page       \* the pages

vars == <<second, restarts, jobs, lock, worker, proc, exits, out, disk, poll, page>>
server == <<jobs, lock, worker>>
command == <<proc, exits, out, disk>>
browser == <<poll, page>>
world == <<second, restarts>>

NoProc == [is |-> "none", pipe |-> <<>>, dir |-> Null]
Idle == [is |-> "idle", answer |-> Null]
Unknown == [status |-> "unknown"]
Lost == [at |-> "lost", step |-> "run"]

\* Faulty variant: a folder for the day.
RunDirOfDay(j) == [cell |-> Cell[j], time |-> 0]

\* The names of the run folders: the cell and the second.
NewRunDir(j) == [cell |-> Cell[j], time |-> second]

RunDir == [cell : {Cell[j] : j \in Job}, time : 0 .. LastSecond]
NewFolder == [results |-> [c \in Case |-> Null], metrics |-> Null, analysis |-> Null]

\* What a run writes to, once it has named it.
Output == [dir : RunDir, since : 0 .. LastSecond, left : SUBSET Case]

\* A run without cases ends before it names a folder (RunNothing).
ASSUME UiAssumption ==
  /\ Pipeline \subseteq Job /\ Watched \subseteq Job /\ Case # {}
  /\ MaxPolls \in Nat /\ LastSecond \in Nat /\ MaxRestarts \in Nat
  /\ Null \notin Job \cup RunDir \cup Poll \cup {0, 1}
  /\ Null \notin Output

Init ==
  /\ second = 0 /\ restarts = 0
  /\ jobs = [j \in {} |-> Null] /\ lock = Null
  /\ worker = [j \in Job |-> [at |-> "none", step |-> "run"]]
  /\ proc = [j \in Job |-> NoProc]
  /\ exits = [j \in Job |-> [s \in Step |-> Null]]
  /\ out = [j \in Job |-> Null]
  /\ disk = [f \in RunDir |-> NewFolder]
  /\ poll = [p \in Poll |-> Idle]
  /\ page = [j \in Job |-> [is |-> "none", saw |-> <<>>, overtaken |-> FALSE, runs |-> {}]]

-----------------------------------------------------------------------------
(* The worker thread: _run_job and, for every subprocess, _exec.             *)

Free == lock = Null
At(j, place) == worker[j].at = place
Go(j, place) == worker' = [worker EXCEPT ![j].at = place]
Push(j, line) == jobs' = [jobs EXCEPT ![j].log = Append(@, line)]

\* The command goes into the log, and the subprocess is started or is not; the
\* reports are given the folder the run named.
PushCmd(j) ==
  /\ At(j, "cmd") /\ Free
  /\ Push(j, "$ " \o worker[j].step)
  /\ \/ /\ proc' = [proc EXCEPT ![j] = [is |-> "alive", pipe |-> <<>>, dir |-> jobs[j].run_dir]]
        /\ Go(j, "read")
     \/ /\ Go(j, "failed")
        /\ UNCHANGED proc
  /\ UNCHANGED <<lock, exits, out, disk, browser, world>>

\* A line of its output.
PushLine(j) ==
  /\ At(j, "read") /\ proc[j].pipe # <<>> /\ Free
  /\ Push(j, Head(proc[j].pipe))
  /\ proc' = [proc EXCEPT ![j].pipe = Tail(@)]
  /\ Go(j, IF Head(proc[j].pipe) = "-> results" THEN "dir" ELSE "read")
  /\ UNCHANGED <<lock, exits, out, disk, browser, world>>

\* The line named the run folder.
SetRunDir(j) ==
  /\ At(j, "dir") /\ Free
  /\ jobs' = [jobs EXCEPT ![j].run_dir = out[j].dir]
  /\ Go(j, "read")
  /\ UNCHANGED <<lock, command, browser, world>>

\* What comes after a subprocess: metrics and analyze, if the job is to go on
\* and the run exited with 0 and named its folder.
AfterExit(j) ==
  CASE worker[j].step = "run" /\ j \in Pipeline /\ exits[j].run = 0 /\ jobs[j].run_dir # Null ->
         [at |-> "title", step |-> "metrics"]
    [] worker[j].step = "metrics" -> [at |-> "title", step |-> "analyze"]
    [] OTHER -> [at |-> "final", step |-> worker[j].step]

\* Faulty variant: the job is done when its run is.
PushExitDone(j) ==
  /\ At(j, "read") /\ proc[j].pipe = <<>> /\ proc[j].is = "ended" /\ Free
  /\ jobs' = [jobs EXCEPT ![j].log = Append(@, "[exit]"),
                          ![j].status = IF exits[j].run = 0 THEN "done" ELSE "error"]
  /\ worker' = [worker EXCEPT ![j] = AfterExit(j)]
  /\ UNCHANGED <<lock, command, browser, world>>

PushExit(j) ==
  /\ At(j, "read") /\ proc[j].pipe = <<>> /\ proc[j].is = "ended" /\ Free
  /\ Push(j, "[exit]")
  /\ worker' = [worker EXCEPT ![j] = AfterExit(j)]
  /\ UNCHANGED <<lock, command, browser, world>>

PushTitle(j) ==
  /\ At(j, "title") /\ Free
  /\ Push(j, "--- " \o worker[j].step)
  /\ Go(j, "cmd")
  /\ UNCHANGED <<lock, command, browser, world>>

\* The status is that of the run.
Finish(j) ==
  /\ At(j, "final") /\ Free
  /\ jobs' = [jobs EXCEPT ![j].status = IF exits[j].run = 0 THEN "done" ELSE "error",
                          ![j].returncode = exits[j].run]
  /\ Go(j, "gone")
  /\ UNCHANGED <<lock, command, browser, world>>

\* Faulty variant: it only says so.
PushFailedOnly(j) ==
  /\ At(j, "failed") /\ Free
  /\ Push(j, "[FAILED]")
  /\ Go(j, "gone")
  /\ UNCHANGED <<lock, command, browser, world>>

\* The exception handler says so first and sets the status after.
PushFailed(j) ==
  /\ At(j, "failed") /\ Free
  /\ Push(j, "[FAILED]")
  /\ Go(j, "error")
  /\ UNCHANGED <<lock, command, browser, world>>

FinishFailed(j) ==
  /\ At(j, "error") /\ Free
  /\ jobs' = [jobs EXCEPT ![j].status = "error"]
  /\ Go(j, "gone")
  /\ UNCHANGED <<lock, command, browser, world>>

Work(j) ==
  \/ PushCmd(j) \/ PushLine(j) \/ SetRunDir(j) \/ PushExit(j) \/ PushTitle(j)
  \/ Finish(j) \/ PushFailed(j) \/ FinishFailed(j)

-----------------------------------------------------------------------------
(* The subprocess.  Its output has no reader once the server was restarted:  *)
(* the next line its main thread prints ends it.                             *)

Running(j, step) == proc[j].is = "alive" /\ worker[j].step = step
Read(j) == ~At(j, "lost")
Exit(j, step, rc) ==
  /\ proc' = [proc EXCEPT ![j].is = "ended"]
  /\ exits' = [exits EXCEPT ![j][step] = rc]

\* run: the registry does not resolve, or there is no case to run.
RunNothing(j) ==
  /\ Running(j, "run") /\ out[j] = Null
  /\ Exit(j, "run", 1)
  /\ UNCHANGED <<out, disk, server, browser, world>>

\* run names its folder, which run_batch creates.
RunNames(j) ==
  /\ Running(j, "run") /\ Read(j) /\ out[j] = Null
  /\ out' = [out EXCEPT ![j] = [dir |-> NewRunDir(j), since |-> second, left |-> Case]]
  /\ proc' = [proc EXCEPT ![j].pipe = Append(@, "-> results")]
  /\ UNCHANGED <<exits, disk, server, browser, world>>

\* A Result lands in the folder.
RunWrites(j) ==
  /\ Running(j, "run") /\ out[j] # Null
  /\ \E c \in out[j].left :
       /\ disk' = [disk EXCEPT ![out[j].dir].results[c] = j]
       /\ out' = [out EXCEPT ![j].left = @ \ {c}]
  /\ UNCHANGED <<proc, exits, server, browser, world>>

\* The batch returned, whatever its verdicts.
RunReturns(j) ==
  /\ Running(j, "run") /\ out[j] # Null /\ out[j].left = {}
  /\ Exit(j, "run", IF Read(j) THEN 0 ELSE 1)
  /\ UNCHANGED <<out, disk, server, browser, world>>

\* Faulty variant: the exception is swallowed.
RunAbortsQuietly(j) ==
  /\ Running(j, "run") /\ out[j] # Null
  /\ Exit(j, "run", 0)
  /\ UNCHANGED <<out, disk, server, browser, world>>

\* The batch was aborted by an exception.
RunAborts(j) ==
  /\ Running(j, "run") /\ out[j] # Null
  /\ Exit(j, "run", 1)
  /\ UNCHANGED <<out, disk, server, browser, world>>

\* metrics and analyze read the results of the folder they are given, write
\* their report and only then print.
Reports(j, step) ==
  /\ Running(j, step)
  /\ \/ /\ disk' = [disk EXCEPT ![proc[j].dir][IF step = "metrics" THEN "metrics" ELSE "analysis"] =
                      [by |-> j, of |-> disk[proc[j].dir].results]]
        /\ Exit(j, step, IF Read(j) THEN 0 ELSE 1)
     \/ /\ Exit(j, step, 1)
        /\ UNCHANGED disk
  /\ UNCHANGED <<out, server, browser, world>>

Command(j) ==
  \/ RunNothing(j) \/ RunNames(j) \/ RunWrites(j) \/ RunReturns(j) \/ RunAborts(j)
  \/ \E step \in {"metrics", "analyze"} : Reports(j, step)

-----------------------------------------------------------------------------
(* The handlers and the page.                                                *)

\* POST /api/run: the job is registered, its thread started, its id answered.
StartRun(j) ==
  /\ page[j].is = "none" /\ Free
  /\ jobs' = [k \in DOMAIN jobs \cup {j} |->
                IF k = j THEN [status |-> "running", log |-> <<>>, run_dir |-> Null,
                               returncode |-> Null]
                ELSE jobs[k]]
  /\ worker' = [worker EXCEPT ![j].at = "cmd"]
  /\ page' = [page EXCEPT ![j].is = IF j \in Watched THEN "polling" ELSE "closed"]
  /\ UNCHANGED <<lock, command, poll, world>>

\* The interval asks again, whether or not the last question is answered.
Tick(p) ==
  /\ page[p[1]].is = "polling" /\ poll[p].is = "idle"
  /\ poll' = [poll EXCEPT ![p].is = "asked"]
  /\ UNCHANGED <<page, server, command, world>>

\* GET /api/job: a copy of the job, sent before the lock is released.
Answer(p) ==
  /\ poll[p].is = "asked" /\ Free
  /\ lock' = p
  /\ poll' = [poll EXCEPT ![p] = [is |-> "sending",
                                  answer |-> IF p[1] \in DOMAIN jobs THEN jobs[p[1]] ELSE Unknown]]
  /\ UNCHANGED <<jobs, worker, page, command, world>>

Sent(p) ==
  /\ poll[p].is = "sending"
  /\ lock' = Null
  /\ poll' = [poll EXCEPT ![p].is = "sent"]
  /\ UNCHANGED <<jobs, worker, page, command, world>>

\* The page has its final answer; what it shows until then is left out.
Stopped(j) == page[j].is \in {"ended", "listed"}
Final(answer) == answer.status \in {"done", "error"}

\* Faulty variant: only a job that is done ends the questions.
ArriveDone(p) ==
  LET j == p[1]
      a == poll[p].answer
  IN  /\ poll[p].is = "sent"
      /\ poll' = [poll EXCEPT ![p] = Idle]
      /\ page' = IF a = Unknown THEN page
                 ELSE [page EXCEPT ![j].saw = IF Final(a) \/ Stopped(j) THEN a.log ELSE @,
                                   ![j].overtaken = Stopped(j) /\ ~Final(a),
                                   ![j].is = IF a.status = "done" THEN "ended" ELSE @]
      /\ UNCHANGED <<server, command, world>>

\* The page shows the log it was answered, and stops asking when the job has
\* ended; of an unknown job it has no log, and the exception keeps it asking.
\* An answer that was overtaken by the final one is shown all the same.
Arrive(p) ==
  LET j == p[1]
      a == poll[p].answer
  IN  /\ poll[p].is = "sent"
      /\ poll' = [poll EXCEPT ![p] = Idle]
      /\ page' = IF a = Unknown THEN page
                 ELSE [page EXCEPT ![j].saw = IF Final(a) \/ Stopped(j) THEN a.log ELSE @,
                                   ![j].overtaken = Stopped(j) /\ ~Final(a),
                                   ![j].is = IF Final(a) THEN "ended" ELSE @]
      /\ UNCHANGED <<server, command, world>>

\* _runs: the folders with a result, each with the results it has.
Listed == {[dir |-> f, results |-> disk[f].results] :
             f \in {g \in RunDir : \E c \in Case : disk[g].results[c] # Null}}

\* /api/runs, which the page asks for when the job has ended.
LoadRuns(j) ==
  /\ page[j].is = "ended"
  /\ page' = [page EXCEPT ![j].is = "listed", ![j].runs = Listed]
  /\ UNCHANGED <<poll, server, command, world>>

\* The tab is closed: what was being sent to it raises, and the lock is free.
Close(j) ==
  /\ page[j].is \in {"polling", "ended", "listed"}
  /\ page' = [page EXCEPT ![j].is = "closed"]
  /\ poll' = [p \in Poll |-> IF p[1] = j THEN Idle ELSE poll[p]]
  /\ lock' = IF lock # Null /\ lock \in {p \in Poll : p[1] = j} THEN Null ELSE lock
  /\ UNCHANGED <<jobs, worker, command, world>>

\* The server is stopped and started: its registry and threads are gone, and
\* so are the questions under way.
Restart ==
  /\ restarts < MaxRestarts
  /\ restarts' = restarts + 1
  /\ jobs' = [j \in {} |-> Null] /\ lock' = Null
  /\ worker' = [j \in Job |-> IF At(j, "none") THEN worker[j] ELSE [worker[j] EXCEPT !.at = "lost"]]
  /\ poll' = [p \in Poll |-> IF poll[p].is = "sent" THEN poll[p] ELSE Idle]
  /\ UNCHANGED <<second, command, page>>

Clock ==
  /\ second < LastSecond
  /\ second' = second + 1
  /\ UNCHANGED <<restarts, server, command, browser>>

Next ==
  \/ \E j \in Job : StartRun(j) \/ Work(j) \/ Command(j) \/ LoadRuns(j) \/ Close(j)
  \/ \E p \in Poll : Tick(p) \/ Answer(p) \/ Sent(p) \/ Arrive(p)
  \/ Restart \/ Clock

\* Threads and questions get the lock in the end if it comes free again and
\* again; a subprocess ends.  Nothing ends the sending of an answer: the server
\* sets no timeout, and a tab may be connected and not read.
Fairness ==
  /\ \A j \in Job : SF_vars(Work(j)) /\ WF_vars(Command(j))
  /\ \A p \in Poll : WF_vars(Tick(p)) /\ SF_vars(Answer(p)) /\ WF_vars(Arrive(p))

Spec == Init /\ [][Next]_vars /\ Fairness

-----------------------------------------------------------------------------
(* The properties.                                                           *)

Registered == DOMAIN jobs

\* Every variable keeps to its range, the lock is held just while an answer is
\* sent, and a job is running just as long as it has its thread, whichever way
\* the thread ends.
TypeOK ==
  /\ second \in 0 .. LastSecond /\ restarts \in 0 .. MaxRestarts
  /\ Registered \subseteq Job /\ lock \in Poll \cup {Null}
  /\ \A j \in Registered : /\ jobs[j].status \in {"running", "done", "error"}
                           /\ jobs[j].run_dir \in RunDir \cup {Null}
                           /\ jobs[j].returncode \in {0, 1, Null}
  /\ \A j \in Job : /\ worker[j].step \in Step
                    /\ exits[j] \in [Step -> {0, 1, Null}]
                    /\ page[j].is \in {"none", "polling", "ended", "listed", "closed"}
  /\ (lock # Null) <=> \E p \in Poll : poll[p].is = "sending"
  /\ \A j \in Registered :
       (jobs[j].status = "running") <=> worker[j].at \notin {"none", "gone", "lost"}

\* A job is done only after its run exited with 0 and wrote every case of the
\* folder the job names, and, if it was to go on, both reports were tried.
DoneIsEarned ==
  \A j \in Registered : jobs[j].status = "done" =>
    /\ exits[j].run = 0 /\ jobs[j].run_dir = out[j].dir /\ out[j].left = {}
    /\ j \in Pipeline => exits[j].metrics # Null /\ exits[j].analyze # Null

\* The list a page loads when its job is done has the job's folder, with a
\* result for every case.
DoneIsListed ==
  \A j \in Registered : page[j].is = "listed" /\ jobs[j].status = "done" =>
    \E run \in page[j].runs :
      run.dir = jobs[j].run_dir /\ \A c \in Case : run.results[c] # Null

\* A job says "done" only for work that is whole, in the folder and on the page.
DoneIsWhole == DoneIsEarned /\ DoneIsListed

\* A page that stopped asking shows the whole log: nothing is added to it after
\* the answer that made it stop.  Excepted is a page that was shown an overtaken
\* answer after that one, which puts an older log in its place.
EndedPageSawAll ==
  \A j \in Registered :
    Stopped(j) /\ ~page[j].overtaken => page[j].saw = jobs[j].log

\* The reports of a job are of its own results, unless another run of the cell
\* began in the same second.
ReportsOfOwnRun ==
  \A report \in {disk[f].metrics : f \in RunDir} \cup {disk[f].analysis : f \in RunDir} :
    report # Null =>
      \A c \in Case :
        LET j == report.by
            k == report.of[c]
        IN  /\ k # Null
            /\ j # k => Cell[j] = Cell[k] /\ out[j].since = out[k].since

\* As long as the lock of the registry comes free again and again, a page that
\* stays open hears of the end of its job, however the job ended, unless the
\* server went down.  The code does not see to the premise: a tab that stays
\* connected and does not read keeps the lock, and with it every job, for ever.
PageSeesEnd ==
  []<>(lock = Null) =>
    \A j \in Watched : (page[j].is = "polling") ~> (page[j].is # "polling" \/ restarts > 0)
=============================================================================
