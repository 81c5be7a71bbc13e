----------------------------- MODULE UiJobsProofs -----------------------------
(***************************************************************************)
(* A job of the panel and its page, for any number of jobs, of questions   *)
(* under way and of restarts.  The inductive invariant says what each      *)
(* point of a job's thread goes with (Threads), what is on disk (Folders)  *)
(* and what the pages were told (Pages).                                   *)
(***************************************************************************)
EXTENDS UiJobs, TLAPS

Places == {"none", "cmd", "read", "dir", "title", "final", "failed", "error", "gone", "lost"}
Report == [by : Job, of : [Case -> Job \cup {Null}]]
Folder == [results : [Case -> Job \cup {Null}], metrics : Report \cup {Null},
           analysis : Report \cup {Null}]
Named == "-> results"
Code == {0, 1, Null}
Process == [is : {"none", "alive", "ended"}, pipe : {<<>>, <<Named>>}, dir : RunDir \cup {Null}]

-----------------------------------------------------------------------------
(* The inductive invariant, part by part.                                    *)

\* The fields of every variable.
Types ==
  /\ second \in 0 .. LastSecond /\ restarts \in 0 .. MaxRestarts
  /\ Registered \subseteq Job
  /\ \A j \in Registered : /\ DOMAIN jobs[j] = {"status", "log", "run_dir", "returncode"}
                           /\ jobs[j].status \in {"running", "done", "error"}
                           /\ jobs[j].run_dir \in RunDir \cup {Null}
                           /\ jobs[j].returncode \in Code
  /\ worker \in [Job -> [at : Places, step : Step]]
  /\ proc \in [Job -> Process]
  /\ exits \in [Job -> [Step -> Code]]
  /\ out \in [Job -> Output \cup {Null}]
  /\ disk \in [RunDir -> Folder]

\* A job that goes on after a run that succeeded has tried both reports.
Tried(j) ==
  exits[j].run = 0 /\ j \in Pipeline => exits[j].metrics # Null /\ exits[j].analyze # Null

\* Where a thread is goes with its subprocess, its exit codes and its job.
Thread(j) ==
  /\ j \in Registered <=> ~At(j, "none") /\ ~At(j, "lost")
  /\ page[j].is = "none" <=> At(j, "none")
  /\ At(j, "none") => proc[j].is = "none"
  /\ proc[j].is = "none" => out[j] = Null /\ worker[j].step = "run" /\ exits[j].run = Null
  /\ worker[j].at \notin {"read", "dir", "lost"} => proc[j].is # "alive"
  /\ worker[j].at \in {"read", "dir"} => proc[j].is # "none"
  /\ proc[j].is = "alive" \/ worker[j].at \in {"cmd", "title"} => exits[j][worker[j].step] = Null
  /\ worker[j].at \in {"read", "dir"} /\ proc[j].is = "ended" => exits[j][worker[j].step] # Null
  /\ worker[j].step = "run" => exits[j].metrics = Null /\ exits[j].analyze = Null
  /\ worker[j].step = "metrics" => exits[j].analyze = Null
  /\ worker[j].step = "analyze" => exits[j].metrics # Null
  /\ worker[j].step # "run" => exits[j].run = 0
  /\ exits[j].run = 0 => out[j] # Null /\ out[j].left = {}
  /\ At(j, "final") => Tried(j)

\* And with the folder it looks for in the output, and the one it gives to the
\* reports.
Heard(j) ==
  /\ proc[j].is = "alive" /\ worker[j].step # "run" => proc[j].dir = out[j].dir
  /\ proc[j].pipe # <<>> \/ At(j, "dir") => out[j] # Null /\ worker[j].step = "run"
  /\ j \in Registered =>
       /\ proc[j].pipe # <<>> => At(j, "read")
       /\ out[j] = Null => jobs[j].run_dir = Null
       /\ out[j] # Null /\ proc[j].pipe = <<>> /\ ~At(j, "dir") => jobs[j].run_dir = out[j].dir

\* The status of a job.
Status(j) ==
  j \in Registered =>
    /\ jobs[j].status = "running" <=> ~At(j, "gone")
    /\ jobs[j].status = "done" => exits[j].run = 0 /\ Tried(j) /\ jobs[j].run_dir = out[j].dir

Control(j) == Thread(j) /\ Heard(j) /\ Status(j)

\* Results and reports are those of the runs that write to their folder.
Names(k, f) == k \in Job /\ out[k] # Null /\ out[k].dir = f

Own(report) ==
  report # Null =>
    /\ report.by \in Job /\ out[report.by] # Null
    /\ \A c \in Case : Names(report.of[c], out[report.by].dir)

Folders ==
  /\ \A j \in Job : out[j] # Null =>
       /\ out[j].dir = [cell |-> Cell[j], time |-> out[j].since]
       /\ \A c \in Case \ out[j].left : disk[out[j].dir].results[c] # Null
  /\ \A f \in RunDir :
       /\ \A c \in Case : disk[f].results[c] # Null => Names(disk[f].results[c], f)
       /\ Own(disk[f].metrics) /\ Own(disk[f].analysis)

\* What is on its way to a page, and what a page shows, is the end of its job if
\* it says so.
Question(p) ==
  /\ DOMAIN poll[p] = {"is", "answer"}
  /\ poll[p].is \in {"idle", "asked", "sending", "sent"}
  /\ page[p[1]].is = "none" => poll[p].is = "idle"
  /\ poll[p].is = "sending" => lock = p
  /\ poll[p].is \in {"sending", "sent"} /\ Final(poll[p].answer) /\ p[1] \in Registered =>
       Final(jobs[p[1]]) /\ jobs[p[1]].log = poll[p].answer.log

PageFields == {"is", "saw", "overtaken", "runs"}

Pages ==
  /\ DOMAIN page = Job /\ DOMAIN poll = Poll
  /\ \A j \in Job : /\ DOMAIN page[j] = PageFields
                    /\ page[j].is \in {"none", "polling", "ended", "listed", "closed"}
  /\ \A p \in Poll : Question(p)
  /\ lock \in Poll \cup {Null}
  /\ lock # Null => poll[lock].is = "sending"
  /\ EndedPageSawAll
  /\ \A j \in Registered : page[j].is \in {"ended", "listed"} => Final(jobs[j])
  /\ DoneIsListed

IInv == Types /\ (\A j \in Job : Control(j)) /\ Folders /\ Pages

-----------------------------------------------------------------------------
(* What a step of a thread does.                                             *)

Fields == {"status", "log", "run_dir", "returncode"}
Goes(j, place) == worker'[j] = [at |-> place, step |-> worker[j].step]
SameProc(j) == proc'[j] = proc[j]
Keeps(j) == jobs'[j].status = jobs[j].status /\ jobs'[j].run_dir = jobs[j].run_dir

Moves(j) ==
  \/ /\ At(j, "cmd") /\ Keeps(j) /\ Goes(j, "read")
     /\ proc'[j] = [is |-> "alive", pipe |-> <<>>, dir |-> jobs[j].run_dir]
  \/ At(j, "cmd") /\ Keeps(j) /\ Goes(j, "failed") /\ SameProc(j)
  \/ /\ At(j, "read") /\ proc[j].pipe = <<Named>> /\ Keeps(j) /\ Goes(j, "dir")
     /\ proc'[j] = [is |-> proc[j].is, pipe |-> <<>>, dir |-> proc[j].dir]
  \/ /\ At(j, "dir") /\ jobs'[j].status = jobs[j].status /\ jobs'[j].run_dir = out[j].dir
     /\ Goes(j, "read") /\ SameProc(j)
  \/ /\ At(j, "read") /\ proc[j].pipe = <<>> /\ proc[j].is = "ended" /\ Keeps(j)
     /\ worker'[j] = AfterExit(j) /\ SameProc(j)
  \/ At(j, "title") /\ Keeps(j) /\ Goes(j, "cmd") /\ SameProc(j)
  \/ /\ At(j, "final") /\ jobs'[j].status = (IF exits[j].run = 0 THEN "done" ELSE "error")
     /\ jobs'[j].run_dir = jobs[j].run_dir /\ Goes(j, "gone") /\ SameProc(j)
  \/ At(j, "failed") /\ Keeps(j) /\ Goes(j, "error") /\ SameProc(j)
  \/ /\ At(j, "error") /\ jobs'[j].status = "error" /\ jobs'[j].run_dir = jobs[j].run_dir
     /\ Goes(j, "gone") /\ SameProc(j)

\* A thread goes on to the next place.
LEMMA GoMeans ==
  ASSUME Types, NEW j \in Job, NEW place, Go(j, place)
  PROVE  Goes(j, place) /\ DOMAIN worker' = Job /\ \A k \in Job \ {j} : worker'[k] = worker[k]
BY DEF Types, Go, Goes

\* A line is added to the log, and nothing else is changed.
LEMMA PushMeans ==
  ASSUME Types, NEW j \in Registered, NEW line, Push(j, line)
  PROVE  /\ Registered' = Registered /\ \A k \in Registered \ {j} : jobs'[k] = jobs[k]
         /\ Keeps(j) /\ jobs'[j].returncode = jobs[j].returncode /\ DOMAIN jobs'[j] = DOMAIN jobs[j]
<1>1. jobs' = [jobs EXCEPT ![j] = [jobs[j] EXCEPT !.log = Append(jobs[j].log, line)]]
  BY DEF Push
<1>2. DOMAIN jobs[j] = {"status", "log", "run_dir", "returncode"}
  BY DEF Types
<1>3. jobs'[j] = [jobs[j] EXCEPT !.log = Append(jobs[j].log, line)]
  BY <1>1 DEF Registered
<1>4. /\ DOMAIN jobs'[j] = DOMAIN jobs[j]
      /\ \A f \in DOMAIN jobs[j] : f # "log" => jobs'[j][f] = jobs[j][f]
  BY <1>3
<1>5. DOMAIN jobs' = DOMAIN jobs /\ \A k \in Registered \ {j} : jobs'[k] = jobs[k]
  BY <1>1 DEF Registered
<1> QED
  BY <1>2, <1>4, <1>5 DEF Registered, Keeps

\* Where a thread goes after a subprocess is one of the places.
LEMMA AfterExitTyped ==
  ASSUME Types, NEW j \in Job
  PROVE  AfterExit(j) \in [at : Places, step : Step]
BY DEF Types, AfterExit, Places, Step

\* The fields of a job that a step of its thread changes keep their types.
JobTyped(j) ==
  /\ DOMAIN jobs'[j] = Fields
  /\ jobs'[j].status \in {"running", "done", "error"}
  /\ jobs'[j].run_dir \in RunDir \cup {Null}
  /\ jobs'[j].returncode \in Code

\* A step of a thread is one of its moves, and leaves the others alone.
LEMMA WorkMeans ==
  ASSUME Types, NEW j \in Job, Control(j), Work(j)
  PROVE  /\ UNCHANGED <<second, restarts, exits, out, disk, lock, poll, page>>
         /\ lock = Null /\ j \in Registered /\ Registered' = Registered
         /\ \A k \in Registered \ {j} : jobs'[k] = jobs[k]
         /\ DOMAIN worker' = Job /\ \A k \in Job \ {j} : worker'[k] = worker[k]
         /\ DOMAIN proc' = Job /\ \A k \in Job \ {j} : proc'[k] = proc[k]
         /\ JobTyped(j) /\ Moves(j)
<1> DEFINE Others == /\ Registered' = Registered
                     /\ \A k \in Registered \ {j} : jobs'[k] = jobs[k]
                     /\ DOMAIN worker' = Job /\ \A k \in Job \ {j} : worker'[k] = worker[k]
                     /\ DOMAIN proc' = Job /\ \A k \in Job \ {j} : proc'[k] = proc[k]
<1>1. UNCHANGED <<second, restarts, exits, out, disk, lock, poll, page>> /\ lock = Null
  BY DEF Work, PushCmd, PushLine, SetRunDir, PushExit, PushTitle, Finish, PushFailed, FinishFailed,
         command, world, browser, Free
<1>2. j \in Registered
  BY DEF Work, PushCmd, PushLine, SetRunDir, PushExit, PushTitle, Finish, PushFailed, FinishFailed,
         Control, Thread, At
<1>3. DOMAIN proc = Job /\ DOMAIN jobs[j] = Fields /\ proc[j].pipe \in {<<>>, <<Named>>}
  BY <1>2 DEF Types, Process, Fields
<1>4. ASSUME NEW line, Push(j, line) PROVE JobTyped(j) /\ Keeps(j)
  BY <1>2, <1>3, <1>4, PushMeans DEF Types, JobTyped, Keeps
<1>5. CASE PushCmd(j)
  <2>1. At(j, "cmd") /\ Push(j, "$ " \o worker[j].step)
    BY <1>5 DEF PushCmd
  <2>2. CASE /\ proc' = [proc EXCEPT ![j] = [is |-> "alive", pipe |-> <<>>, dir |-> jobs[j].run_dir]]
             /\ Go(j, "read")
    <3>1. proc'[j] = [is |-> "alive", pipe |-> <<>>, dir |-> jobs[j].run_dir] /\ DOMAIN proc' = Job
          /\ \A k \in Job \ {j} : proc'[k] = proc[k]
      BY <1>3, <2>2
    <3>2. Others
      BY <1>2, <2>1, <2>2, <3>1, GoMeans, PushMeans
    <3>3. JobTyped(j) /\ Moves(j)
      BY <1>4, <2>1, <2>2, <3>1, GoMeans DEF Moves
    <3> QED
      BY <1>1, <1>2, <3>2, <3>3
  <2>3. CASE Go(j, "failed") /\ proc' = proc
    <3>1. Others
      BY <1>2, <1>3, <2>1, <2>3, GoMeans, PushMeans
    <3>2. JobTyped(j) /\ Moves(j)
      BY <1>4, <2>1, <2>3, GoMeans DEF Moves, SameProc
    <3> QED
      BY <1>1, <1>2, <3>1, <3>2
  <2> QED
    BY <1>5, <2>2, <2>3 DEF PushCmd
<1>6. CASE PushLine(j)
  <2>1. /\ At(j, "read") /\ proc[j].pipe = <<Named>> /\ Push(j, Head(proc[j].pipe))
        /\ proc' = [proc EXCEPT ![j].pipe = Tail(@)]
        /\ Go(j, IF Head(proc[j].pipe) = "-> results" THEN "dir" ELSE "read")
    BY <1>3, <1>6 DEF PushLine
  <2>2. Go(j, "dir")
    <3>1. Head(<<Named>>) = "-> results"
      BY DEF Named
    <3> QED
      BY <2>1, <3>1
  <2>3. proc'[j] = [is |-> proc[j].is, pipe |-> <<>>, dir |-> proc[j].dir] /\ DOMAIN proc' = Job
        /\ \A k \in Job \ {j} : proc'[k] = proc[k]
    <3>1. Tail(<<Named>>) = <<>>
      OBVIOUS
    <3>2. proc[j] = [is |-> proc[j].is, pipe |-> <<Named>>, dir |-> proc[j].dir]
      BY <2>1 DEF Types, Process
    <3>3. proc' = [proc EXCEPT ![j] = [proc[j] EXCEPT !.pipe = <<>>]]
      BY <2>1, <3>1
    <3>4. [proc[j] EXCEPT !.pipe = <<>>] = [is |-> proc[j].is, pipe |-> <<>>, dir |-> proc[j].dir]
      BY <3>2
    <3> QED
      BY <1>3, <3>3, <3>4
  <2>4. Others
    BY <1>2, <2>1, <2>2, <2>3, GoMeans, PushMeans
  <2>5. JobTyped(j) /\ Moves(j)
    BY <1>4, <2>1, <2>2, <2>3, GoMeans DEF Moves
  <2> QED
    BY <1>1, <1>2, <2>4, <2>5
<1>7. CASE SetRunDir(j)
  <2>1. /\ At(j, "dir") /\ jobs' = [jobs EXCEPT ![j] = [jobs[j] EXCEPT !.run_dir = out[j].dir]]
        /\ Go(j, "read") /\ proc' = proc
    BY <1>7 DEF SetRunDir, command
  <2>2. out[j].dir \in RunDir
    BY <2>1 DEF Types, Control, Heard, Output
  <2>3. /\ Registered' = Registered /\ \A k \in Registered \ {j} : jobs'[k] = jobs[k]
        /\ jobs'[j] = [jobs[j] EXCEPT !.run_dir = out[j].dir]
    BY <1>2, <2>1 DEF Registered
  <2>4. jobs'[j].status = jobs[j].status /\ jobs'[j].run_dir = out[j].dir /\ JobTyped(j)
    BY <1>2, <1>3, <2>2, <2>3 DEF Types, JobTyped, Fields
  <2>5. Others
    BY <1>3, <2>1, <2>3, GoMeans
  <2>6. Moves(j)
    BY <2>1, <2>4, GoMeans DEF Moves, SameProc
  <2> QED
    BY <1>1, <1>2, <2>4, <2>5, <2>6
<1>8. CASE PushExit(j)
  <2>1. /\ At(j, "read") /\ proc[j].pipe = <<>> /\ proc[j].is = "ended" /\ Push(j, "[exit]")
        /\ worker' = [worker EXCEPT ![j] = AfterExit(j)] /\ proc' = proc
    BY <1>8 DEF PushExit, command
  <2>2. worker'[j] = AfterExit(j) /\ DOMAIN worker' = Job
        /\ \A k \in Job \ {j} : worker'[k] = worker[k]
    BY <2>1 DEF Types
  <2>3. Others
    BY <1>2, <1>3, <2>1, <2>2, PushMeans
  <2>4. JobTyped(j) /\ Moves(j)
    BY <1>4, <2>1, <2>2 DEF Moves, SameProc
  <2> QED
    BY <1>1, <1>2, <2>3, <2>4
<1>9. CASE PushTitle(j)
  <2>1. At(j, "title") /\ Push(j, "--- " \o worker[j].step) /\ Go(j, "cmd") /\ proc' = proc
    BY <1>9 DEF PushTitle, command
  <2>2. Others
    BY <1>2, <1>3, <2>1, GoMeans, PushMeans
  <2>3. JobTyped(j) /\ Moves(j)
    BY <1>4, <2>1, GoMeans DEF Moves, SameProc
  <2> QED
    BY <1>1, <1>2, <2>2, <2>3
<1>10. CASE Finish(j)
  <2>1. /\ At(j, "final") /\ Go(j, "gone") /\ proc' = proc
        /\ jobs' = [jobs EXCEPT ![j] = [jobs[j] EXCEPT !.status = IF exits[j].run = 0 THEN "done" ELSE "error",
                                                       !.returncode = exits[j].run]]
    BY <1>10 DEF Finish, command
  <2>2. /\ Registered' = Registered /\ \A k \in Registered \ {j} : jobs'[k] = jobs[k]
        /\ jobs'[j] = [jobs[j] EXCEPT !.status = IF exits[j].run = 0 THEN "done" ELSE "error",
                                      !.returncode = exits[j].run]
    BY <1>2, <2>1 DEF Registered
  <2>3. exits[j].run \in Code
    BY DEF Types, Step
  <2>4. /\ jobs'[j].status = (IF exits[j].run = 0 THEN "done" ELSE "error")
        /\ jobs'[j].run_dir = jobs[j].run_dir /\ JobTyped(j)
    BY <1>2, <1>3, <2>2, <2>3 DEF Types, JobTyped, Fields
  <2>5. Others
    BY <1>3, <2>1, <2>2, GoMeans
  <2>6. Moves(j)
    BY <2>1, <2>4, GoMeans DEF Moves, SameProc
  <2> QED
    BY <1>1, <1>2, <2>4, <2>5, <2>6
<1>11. CASE PushFailed(j)
  <2>1. At(j, "failed") /\ Push(j, "[FAILED]") /\ Go(j, "error") /\ proc' = proc
    BY <1>11 DEF PushFailed, command
  <2>2. Others
    BY <1>2, <1>3, <2>1, GoMeans, PushMeans
  <2>3. JobTyped(j) /\ Moves(j)
    BY <1>4, <2>1, GoMeans DEF Moves, SameProc
  <2> QED
    BY <1>1, <1>2, <2>2, <2>3
<1>12. CASE FinishFailed(j)
  <2>1. /\ At(j, "error") /\ Go(j, "gone") /\ proc' = proc
        /\ jobs' = [jobs EXCEPT ![j] = [jobs[j] EXCEPT !.status = "error"]]
    BY <1>12 DEF FinishFailed, command
  <2>2. /\ Registered' = Registered /\ \A k \in Registered \ {j} : jobs'[k] = jobs[k]
        /\ jobs'[j] = [jobs[j] EXCEPT !.status = "error"]
    BY <1>2, <2>1 DEF Registered
  <2>3. jobs'[j].status = "error" /\ jobs'[j].run_dir = jobs[j].run_dir /\ JobTyped(j)
    BY <1>2, <1>3, <2>2 DEF Types, JobTyped, Fields
  <2>4. Others
    BY <1>3, <2>1, <2>2, GoMeans
  <2>5. Moves(j)
    BY <2>1, <2>3, GoMeans DEF Moves, SameProc
  <2> QED
    BY <1>1, <1>2, <2>3, <2>4, <2>5
<1> QED
  BY <1>5, <1>6, <1>7, <1>8, <1>9, <1>10, <1>11, <1>12 DEF Work

-----------------------------------------------------------------------------
(* Steps of a thread keep the invariant.                                     *)

\* A job of which nothing changed.
Untouched(j) ==
  /\ worker'[j] = worker[j] /\ proc'[j] = proc[j] /\ exits'[j] = exits[j] /\ out'[j] = out[j]
  /\ j \in Registered <=> j \in Registered'
  /\ j \in Registered => jobs'[j] = jobs[j]
  /\ page'[j].is = "none" <=> page[j].is = "none"

\* A job of which nothing changed keeps its part of the invariant.
LEMMA ControlStays ==
  ASSUME NEW j, Untouched(j), Control(j)
  PROVE  Control(j)'
BY DEF Untouched, Control, Thread, Heard, Status, Tried, At

\* A step of a thread keeps the types.
LEMMA TypesOfWork ==
  ASSUME Types, NEW j \in Job, Control(j), Work(j)
  PROVE  Types'
<1>1. /\ UNCHANGED <<second, restarts, exits, out, disk>>
      /\ j \in Registered /\ Registered' = Registered
      /\ \A k \in Registered \ {j} : jobs'[k] = jobs[k]
      /\ DOMAIN worker' = Job /\ \A k \in Job \ {j} : worker'[k] = worker[k]
      /\ DOMAIN proc' = Job /\ \A k \in Job \ {j} : proc'[k] = proc[k]
      /\ JobTyped(j) /\ Moves(j)
  BY WorkMeans
<1>2. worker'[j] \in [at : Places, step : Step]
  BY <1>1, AfterExitTyped DEF Moves, Goes, Types, Places
<1>3. proc'[j] \in Process
  BY <1>1 DEF Moves, SameProc, Types, Process
<1>4. worker' \in [Job -> [at : Places, step : Step]]
  <2>1. worker' = [k \in Job |-> worker'[k]]
    BY DEF Types, Work, PushCmd, PushLine, SetRunDir, PushExit, PushTitle, Finish, PushFailed,
           FinishFailed, Go
  <2> QED
    BY <1>1, <1>2, <2>1 DEF Types
<1>5. proc' \in [Job -> Process]
  <2>1. proc' = [k \in Job |-> proc'[k]]
    BY DEF Types, Work, PushCmd, PushLine, SetRunDir, PushExit, PushTitle, Finish, PushFailed,
           FinishFailed, command
  <2> QED
    BY <1>1, <1>3, <2>1 DEF Types
<1>6. /\ Registered' \subseteq Job
      /\ \A k \in Registered' : /\ DOMAIN jobs'[k] = Fields
                                /\ jobs'[k].status \in {"running", "done", "error"}
                                /\ jobs'[k].run_dir \in RunDir \cup {Null}
                                /\ jobs'[k].returncode \in Code
  BY <1>1 DEF Types, JobTyped, Fields
<1> QED
  BY <1>1, <1>4, <1>5, <1>6 DEF Types, Fields

\* Where a thread goes after a subprocess that ended.
LEMMA AfterExitMeans ==
  ASSUME Types, NEW j \in Job, Control(j), At(j, "read"), proc[j].pipe = <<>>, proc[j].is = "ended"
  PROVE  \/ AfterExit(j) = [at |-> "title", step |-> "metrics"] /\ worker[j].step = "run"
              /\ exits[j].run = 0
         \/ AfterExit(j) = [at |-> "title", step |-> "analyze"] /\ worker[j].step = "metrics"
              /\ exits[j].metrics # Null
         \/ AfterExit(j) = [at |-> "final", step |-> worker[j].step] /\ Tried(j)
<1>1. worker[j].step \in Step /\ exits[j][worker[j].step] # Null
  BY DEF Types, Control, Thread, At
<1>2. j \in Registered
  BY DEF Control, Thread, At
<1>3. CASE worker[j].step = "metrics"
  BY <1>1, <1>3 DEF AfterExit
<1>4. CASE worker[j].step = "analyze"
  BY <1>1, <1>4 DEF AfterExit, Tried, Control, Thread
<1>5. CASE worker[j].step = "run"
  <2>1. CASE j \in Pipeline /\ exits[j].run = 0
    <3>1. out[j] # Null /\ jobs[j].run_dir = out[j].dir
      BY <1>2, <2>1 DEF Control, Thread, Heard, At
    <3>2. jobs[j].run_dir # Null
      BY <3>1, UiAssumption DEF Types, Output
    <3> QED
      BY <1>5, <2>1, <3>2 DEF AfterExit
  <2>2. CASE ~(j \in Pipeline /\ exits[j].run = 0)
    BY <1>5, <2>2 DEF AfterExit, Tried
  <2> QED
    BY <2>1, <2>2
<1> QED
  BY <1>1, <1>3, <1>4, <1>5 DEF Step

\* A step of a thread leaves each job at a point it may be at.
LEMMA ControlOfWork ==
  ASSUME Types, NEW j \in Job, \A k \in Job : Control(k), Work(j), NEW k \in Job
  PROVE  Control(k)'
<1>0. Control(j)
  OBVIOUS
<1>1. /\ UNCHANGED <<exits, out, page>>
      /\ j \in Registered /\ Registered' = Registered
      /\ \A l \in Registered \ {j} : jobs'[l] = jobs[l]
      /\ \A l \in Job \ {j} : worker'[l] = worker[l]
      /\ \A l \in Job \ {j} : proc'[l] = proc[l]
      /\ Moves(j)
  BY <1>0, WorkMeans
<1>2. CASE k # j
  BY <1>1, <1>2, ControlStays DEF Untouched
<1>3. Control(j)'
  <2> DEFINE w == worker[j].at
             s == worker[j].step
  <2>1. worker[j] = [at |-> w, step |-> s] /\ s \in Step
        /\ proc[j] = [is |-> proc[j].is, pipe |-> proc[j].pipe, dir |-> proc[j].dir]
    BY DEF Types, Process
  <2>2. /\ worker'[j].at \in Places /\ worker'[j].step \in Step
    BY <1>0, TypesOfWork DEF Types
  <2>3. Tried(j)' <=> Tried(j)
    BY <1>1 DEF Tried
  <2>4. CASE /\ At(j, "cmd") /\ Keeps(j) /\ Goes(j, "read")
             /\ proc'[j] = [is |-> "alive", pipe |-> <<>>, dir |-> jobs[j].run_dir]
    <3>1. s # "run" => jobs[j].run_dir = out[j].dir
      BY <1>0, <1>1, <2>4 DEF Control, Thread, Heard, At
    <3> QED
      BY <1>0, <1>1, <2>1, <2>3, <2>4, <3>1 DEF Keeps, Goes, Control, Thread, Heard, Status, At
  <2>5. CASE At(j, "cmd") /\ Keeps(j) /\ Goes(j, "failed") /\ SameProc(j)
    BY <1>0, <1>1, <2>1, <2>3, <2>5 DEF Keeps, Goes, SameProc, Control, Thread, Heard, Status, At
  <2>6. CASE /\ At(j, "read") /\ proc[j].pipe = <<Named>> /\ Keeps(j) /\ Goes(j, "dir")
             /\ proc'[j] = [is |-> proc[j].is, pipe |-> <<>>, dir |-> proc[j].dir]
    BY <1>0, <1>1, <2>1, <2>3, <2>6 DEF Keeps, Goes, Control, Thread, Heard, Status, At
  <2>7. CASE /\ At(j, "dir") /\ jobs'[j].status = jobs[j].status /\ jobs'[j].run_dir = out[j].dir
             /\ Goes(j, "read") /\ SameProc(j)
    BY <1>0, <1>1, <2>1, <2>3, <2>7 DEF Goes, SameProc, Control, Thread, Heard, Status, At
  <2>8. CASE /\ At(j, "read") /\ proc[j].pipe = <<>> /\ proc[j].is = "ended" /\ Keeps(j)
             /\ worker'[j] = AfterExit(j) /\ SameProc(j)
    BY <1>0, <1>1, <2>1, <2>3, <2>8, AfterExitMeans
       DEF Keeps, SameProc, Control, Thread, Heard, Status, At
  <2>9. CASE At(j, "title") /\ Keeps(j) /\ Goes(j, "cmd") /\ SameProc(j)
    BY <1>0, <1>1, <2>1, <2>3, <2>9 DEF Keeps, Goes, SameProc, Control, Thread, Heard, Status, At
  <2>10. CASE /\ At(j, "final") /\ jobs'[j].status = (IF exits[j].run = 0 THEN "done" ELSE "error")
              /\ jobs'[j].run_dir = jobs[j].run_dir /\ Goes(j, "gone") /\ SameProc(j)
    BY <1>0, <1>1, <2>1, <2>3, <2>10 DEF Goes, SameProc, Control, Thread, Heard, Status, At
  <2>11. CASE At(j, "failed") /\ Keeps(j) /\ Goes(j, "error") /\ SameProc(j)
    BY <1>0, <1>1, <2>1, <2>3, <2>11 DEF Keeps, Goes, SameProc, Control, Thread, Heard, Status, At
  <2>12. CASE /\ At(j, "error") /\ jobs'[j].status = "error" /\ jobs'[j].run_dir = jobs[j].run_dir
              /\ Goes(j, "gone") /\ SameProc(j)
    BY <1>0, <1>1, <2>1, <2>3, <2>12 DEF Goes, SameProc, Control, Thread, Heard, Status, At
  <2> QED
    BY <1>1, <2>4, <2>5, <2>6, <2>7, <2>8, <2>9, <2>10, <2>11, <2>12 DEF Moves
<1> QED
  BY <1>2, <1>3

\* A thread of which the page heard the end is gone.
LEMMA PagesOfWork ==
  ASSUME Types, NEW j \in Job, Control(j), Work(j), Pages
  PROVE  Pages'
<1>1. /\ UNCHANGED <<lock, poll, page>>
      /\ j \in Registered /\ Registered' = Registered
      /\ \A k \in Registered \ {j} : jobs'[k] = jobs[k]
      /\ Moves(j)
  BY WorkMeans
<1>2. jobs[j].status = "running"
  BY <1>1 DEF Control, Status, Moves, At
<1>3. ~Final(jobs[j])
  BY <1>2 DEF Final
<1>4. page[j].is \notin {"ended", "listed"}
  BY <1>1, <1>3 DEF Pages
<1>5. \A k \in Registered : page[k].is \in {"ended", "listed"} => jobs'[k] = jobs[k]
  BY <1>1, <1>4
<1>6. ASSUME NEW p \in Poll, poll[p].is \in {"sending", "sent"}, Final(poll[p].answer),
             p[1] \in Registered
      PROVE  Final(jobs'[p[1]]) /\ jobs'[p[1]].log = poll[p].answer.log
  <2>1. Final(jobs[p[1]]) /\ jobs[p[1]].log = poll[p].answer.log
    BY <1>6 DEF Pages, Question
  <2> QED
    BY <1>1, <1>3, <1>6, <2>1
<1>7. EndedPageSawAll'
  BY <1>1, <1>5 DEF Pages, EndedPageSawAll, Stopped
<1>8. DoneIsListed'
  BY <1>1, <1>5 DEF Pages, DoneIsListed
<1>9. \A k \in Registered' : page'[k].is \in {"ended", "listed"} => Final(jobs'[k])
  BY <1>1, <1>5 DEF Pages
<1>10. \A p \in Poll : poll'[p].is \in {"sending", "sent"} /\ Final(poll'[p].answer)
                          /\ p[1] \in Registered' =>
                        Final(jobs'[p[1]]) /\ jobs'[p[1]].log = poll'[p].answer.log
  BY <1>1, <1>6
<1> QED
  BY <1>1, <1>7, <1>8, <1>9, <1>10 DEF Pages, Question, Final

-----------------------------------------------------------------------------
(* Steps of a subprocess keep the invariant.                                 *)

Ends(j, step, rc) ==
  /\ proc'[j] = [is |-> "ended", pipe |-> proc[j].pipe, dir |-> proc[j].dir]
  /\ exits'[j] \in [Step -> Code] /\ exits'[j][step] = rc
  /\ \A s \in Step \ {step} : exits'[j][s] = exits[j][s]

\* A subprocess ends with an exit code.
LEMMA ExitMeans ==
  ASSUME Types, NEW j \in Job, NEW step \in Step, NEW rc \in {0, 1}, Exit(j, step, rc)
  PROVE  /\ Ends(j, step, rc)
         /\ \A k \in Job \ {j} : proc'[k] = proc[k] /\ exits'[k] = exits[k]
         /\ proc' \in [Job -> Process]
         /\ exits' \in [Job -> [Step -> Code]]
<1>1. /\ proc' = [proc EXCEPT ![j] = [proc[j] EXCEPT !.is = "ended"]]
      /\ exits' = [exits EXCEPT ![j] = [exits[j] EXCEPT ![step] = rc]]
  BY DEF Exit
<1>2. [proc[j] EXCEPT !.is = "ended"] = [is |-> "ended", pipe |-> proc[j].pipe, dir |-> proc[j].dir]
  BY DEF Types, Process
<1>3. [exits[j] EXCEPT ![step] = rc] \in [Step -> Code]
  BY DEF Types, Code
<1> QED
  BY <1>1, <1>2, <1>3 DEF Types, Process, Ends

\* The batch is over, or its subprocess never got to it.
RunEnds(j) ==
  \E rc \in {0, 1} : /\ Running(j, "run") /\ Exit(j, "run", rc)
                     /\ rc = 0 => out[j] # Null /\ out[j].left = {}
                     /\ UNCHANGED <<out, disk, server, browser, world>>

\* All ways a run ends, with what it has when it exits with 0.
LEMMA RunEndsMeans ==
  ASSUME NEW j \in Job, RunNothing(j) \/ RunReturns(j) \/ RunAborts(j)
  PROVE  RunEnds(j)
<1>1. CASE RunNothing(j)
  BY <1>1 DEF RunNothing, RunEnds
<1>2. CASE RunReturns(j)
  BY <1>2 DEF RunReturns, RunEnds
<1>3. CASE RunAborts(j)
  BY <1>3 DEF RunAborts, RunEnds
<1> QED
  BY <1>1, <1>2, <1>3

\* What a report is made of, and where it is put.
ReportOf(j, of) == [by |-> j, of |-> of]

\* What a folder is after a report.
Reported(folder, step, report) ==
  IF step = "metrics" THEN [folder EXCEPT !.metrics = report] ELSE [folder EXCEPT !.analysis = report]

\* A report reads the folder of the run it follows, which is whole, whether or not
\* the server is still there to hear of it.
LEMMA ReportsMeans ==
  ASSUME Types, NEW j \in Job, Control(j), NEW step \in {"metrics", "analyze"}, Reports(j, step)
  PROVE  /\ out[j] # Null /\ out[j].dir \in RunDir /\ exits[j].run = 0 /\ out[j].left = {}
         /\ \E rc \in {0, 1} : Exit(j, step, rc)
         /\ \/ disk' = disk
            \/ disk' = [disk EXCEPT ![out[j].dir] =
                         Reported(disk[out[j].dir], step, ReportOf(j, disk[out[j].dir].results))]
<1>1. proc[j].is = "alive" /\ worker[j].step = step
  BY DEF Reports, Running
<1>2. exits[j].run = 0 /\ out[j] # Null /\ out[j].left = {}
  BY <1>1 DEF Control, Thread
<1>3. proc[j].dir = out[j].dir /\ out[j].dir \in RunDir
  BY <1>1, <1>2 DEF Control, Heard, Types, Output
<1>4. \E rc \in {0, 1} : Exit(j, step, rc)
  <2>1. Exit(j, step, 0) \/ Exit(j, step, 1)
    BY DEF Reports
  <2> QED
    BY <2>1
<1>5. \/ disk' = disk
      \/ disk' = [disk EXCEPT ![proc[j].dir][IF step = "metrics" THEN "metrics" ELSE "analysis"] =
                    [by |-> j, of |-> disk[proc[j].dir].results]]
  BY DEF Reports
<1>6. ASSUME disk' # disk
      PROVE  disk' = [disk EXCEPT ![out[j].dir] =
                         Reported(disk[out[j].dir], step, ReportOf(j, disk[out[j].dir].results))]
  <2>1. CASE step = "metrics"
    BY <1>3, <1>5, <1>6, <2>1 DEF Reported, ReportOf
  <2>2. CASE step = "analyze"
    BY <1>3, <1>5, <1>6, <2>2 DEF Reported, ReportOf
  <2> QED
    BY <2>1, <2>2
<1> QED
  BY <1>2, <1>3, <1>4, <1>6

\* A subprocess leaves the server and the other jobs alone.
LEMMA CommandLeaves ==
  ASSUME NEW j \in Job, Command(j)
  PROVE  UNCHANGED <<second, restarts, jobs, lock, worker, poll, page>>
BY DEF Command, RunNothing, RunNames, RunWrites, RunReturns, RunAborts, Reports, server, browser, world

\* The run names its folder.
LEMMA RunNamesMeans ==
  ASSUME Types, NEW j \in Job, Control(j), RunNames(j)
  PROVE  /\ worker[j].step = "run" /\ At(j, "read") /\ j \in Registered /\ out[j] = Null /\ proc[j].is = "alive"
         /\ proc'[j] = [is |-> "alive", pipe |-> <<Named>>, dir |-> proc[j].dir]
         /\ out'[j] = [dir |-> NewRunDir(j), since |-> second, left |-> Case]
         /\ \A k \in Job \ {j} : proc'[k] = proc[k] /\ out'[k] = out[k]
         /\ proc' \in [Job -> Process]
         /\ out' \in [Job -> Output \cup {Null}]
         /\ out'[j] \in Output /\ out'[j] # Null
         /\ exits' = exits /\ disk' = disk
<1>1. /\ proc[j].is = "alive" /\ worker[j].step = "run" /\ ~At(j, "lost") /\ out[j] = Null
      /\ out' = [out EXCEPT ![j] = [dir |-> NewRunDir(j), since |-> second, left |-> Case]]
      /\ proc' = [proc EXCEPT ![j] = [proc[j] EXCEPT !.pipe = Append(proc[j].pipe, Named)]]
      /\ exits' = exits /\ disk' = disk
  BY DEF RunNames, Running, Read, Named
<1>2. proc[j].pipe = <<>>
  BY <1>1 DEF Control, Heard, Types, Process
<1>3. Append(proc[j].pipe, Named) = <<Named>>
  BY <1>2
<1>4. [proc[j] EXCEPT !.pipe = <<Named>>] = [is |-> "alive", pipe |-> <<Named>>, dir |-> proc[j].dir]
  BY <1>1 DEF Types, Process
<1>5. At(j, "read") /\ j \in Registered
  BY <1>1 DEF Control, Thread, Heard, At
<1>6. [dir |-> NewRunDir(j), since |-> second, left |-> Case] \in Output
  BY DEF NewRunDir, RunDir, Output, Types
<1> QED
  BY <1>1, <1>3, <1>4, <1>5, <1>6, UiAssumption DEF Types, Process

\* What a folder is after a Result.
Landed(folder, c, j) == [folder EXCEPT !.results = [folder.results EXCEPT ![c] = j]]

\* A Result lands.
LEMMA RunWritesMeans ==
  ASSUME Types, NEW j \in Job, RunWrites(j)
  PROVE  \E c \in Case :
           /\ proc[j].is = "alive" /\ worker[j].step = "run" /\ out[j] # Null
           /\ out[j] \in Output /\ c \in out[j].left
           /\ disk' = [disk EXCEPT ![out[j].dir] = Landed(disk[out[j].dir], c, j)]
           /\ out'[j] = [dir |-> out[j].dir, since |-> out[j].since, left |-> out[j].left \ {c}]
           /\ \A k \in Job \ {j} : out'[k] = out[k]
           /\ out' \in [Job -> Output \cup {Null}] /\ out'[j] \in Output /\ out'[j] # Null
           /\ proc' = proc /\ exits' = exits
<1>1. /\ proc[j].is = "alive" /\ worker[j].step = "run" /\ out[j] # Null
      /\ proc' = proc /\ exits' = exits
  BY DEF RunWrites, Running
<1>2. PICK c \in out[j].left :
        /\ disk' = [disk EXCEPT ![out[j].dir].results[c] = j]
        /\ out' = [out EXCEPT ![j].left = @ \ {c}]
  BY DEF RunWrites
<1>3. out[j] \in Output
  BY <1>1 DEF Types
<1>4. out[j] = [dir |-> out[j].dir, since |-> out[j].since, left |-> out[j].left] /\ c \in Case
  BY <1>3 DEF Output
<1>5. out' = [out EXCEPT ![j] = [out[j] EXCEPT !.left = out[j].left \ {c}]]
  BY <1>2
<1>6. [out[j] EXCEPT !.left = out[j].left \ {c}] =
        [dir |-> out[j].dir, since |-> out[j].since, left |-> out[j].left \ {c}]
  BY <1>4
<1>7. [dir |-> out[j].dir, since |-> out[j].since, left |-> out[j].left \ {c}] \in Output
  BY <1>3 DEF Output
<1>8. disk' = [disk EXCEPT ![out[j].dir] = Landed(disk[out[j].dir], c, j)]
  BY <1>2 DEF Landed
<1>9. out'[j] = [dir |-> out[j].dir, since |-> out[j].since, left |-> out[j].left \ {c}]
  BY <1>5, <1>6 DEF Types
<1>10. /\ \A k \in Job \ {j} : out'[k] = out[k]
       /\ out' \in [Job -> Output \cup {Null}] /\ out'[j] \in Output /\ out'[j] # Null
  BY <1>5, <1>6, <1>7, UiAssumption DEF Types
<1> QED
  BY <1>1, <1>3, <1>4, <1>8, <1>9, <1>10

\* Folders stay folders.
LEMMA FolderTyped ==
  ASSUME NEW folder \in Folder, NEW j \in Job
  PROVE  /\ \A c \in Case :
              /\ Landed(folder, c, j) \in Folder
              /\ Landed(folder, c, j).metrics = folder.metrics
              /\ Landed(folder, c, j).analysis = folder.analysis
              /\ Landed(folder, c, j).results[c] = j
              /\ \A d \in Case \ {c} : Landed(folder, c, j).results[d] = folder.results[d]
         /\ \A step \in {"metrics", "analyze"}, report \in Report :
              /\ Reported(folder, step, report) \in Folder
              /\ Reported(folder, step, report).results = folder.results
              /\ Reported(folder, step, report).metrics \in {report, folder.metrics}
              /\ Reported(folder, step, report).analysis \in {report, folder.analysis}
<1>1. ASSUME NEW c \in Case
      PROVE  /\ Landed(folder, c, j) \in Folder
             /\ Landed(folder, c, j).metrics = folder.metrics
             /\ Landed(folder, c, j).analysis = folder.analysis
             /\ Landed(folder, c, j).results[c] = j
             /\ \A d \in Case \ {c} : Landed(folder, c, j).results[d] = folder.results[d]
  <2> DEFINE r == [folder.results EXCEPT ![c] = j]
  <2>1. r \in [Case -> Job \cup {Null}] /\ r[c] = j /\ \A d \in Case \ {c} : r[d] = folder.results[d]
    BY DEF Folder
  <2>2. Landed(folder, c, j) = [folder EXCEPT !.results = r]
    BY DEF Landed
  <2> HIDE DEF r
  <2> QED
    BY <2>1, <2>2 DEF Folder
<1>2. ASSUME NEW step \in {"metrics", "analyze"}, NEW report \in Report
      PROVE  /\ Reported(folder, step, report) \in Folder
             /\ Reported(folder, step, report).results = folder.results
             /\ Reported(folder, step, report).metrics \in {report, folder.metrics}
             /\ Reported(folder, step, report).analysis \in {report, folder.analysis}
  BY DEF Folder, Reported
<1> QED
  BY <1>1, <1>2

\* The disk and the output of a run after a step of a subprocess: nothing new, a
\* folder named, a Result, or a report of a run with all its Results.
Writes(j) ==
  \/ out' = out /\ disk' = disk
  \/ /\ disk' = disk /\ out[j] = Null
     /\ out'[j] = [dir |-> NewRunDir(j), since |-> second, left |-> Case]
  \/ \E c \in Case :
       /\ out[j] # Null
       /\ disk' = [disk EXCEPT ![out[j].dir] = Landed(disk[out[j].dir], c, j)]
       /\ out'[j] = [dir |-> out[j].dir, since |-> out[j].since, left |-> out[j].left \ {c}]
  \/ \E step \in {"metrics", "analyze"} :
       /\ out' = out /\ out[j] # Null /\ out[j].left = {}
       /\ disk' = [disk EXCEPT ![out[j].dir] =
                    Reported(disk[out[j].dir], step, ReportOf(j, disk[out[j].dir].results))]

\* A step of a subprocess changes its own output, pipe and exit codes, and one folder.
LEMMA CommandMeans ==
  ASSUME Types, NEW j \in Job, Control(j), Command(j)
  PROVE  /\ Writes(j)
         /\ out' \in [Job -> Output \cup {Null}] /\ \A k \in Job \ {j} : out'[k] = out[k]
         /\ proc' \in [Job -> Process]
         /\ \A k \in Job \ {j} : proc'[k] = proc[k]
         /\ exits' \in [Job -> [Step -> Code]]
         /\ \A k \in Job \ {j} : exits'[k] = exits[k]
<1>1. CASE RunNothing(j) \/ RunReturns(j) \/ RunAborts(j)
  <2>1. RunEnds(j)
    BY <1>1, RunEndsMeans
  <2>2. PICK rc \in {0, 1} : Exit(j, "run", rc) /\ UNCHANGED <<out, disk>>
    BY <2>1 DEF RunEnds
  <2> QED
    BY <2>2, ExitMeans DEF Types, Writes, Step
<1>2. CASE RunNames(j)
  BY <1>2, RunNamesMeans DEF Types, Writes
<1>3. CASE RunWrites(j)
  BY <1>3, RunWritesMeans DEF Types, Writes
<1>4. CASE \E step \in {"metrics", "analyze"} : Reports(j, step)
  <2>1. PICK step \in {"metrics", "analyze"} : Reports(j, step)
    BY <1>4
  <2>2. PICK rc \in {0, 1} : Exit(j, step, rc)
    BY <2>1, ReportsMeans
  <2>3. out' = out
    BY <2>1 DEF Reports
  <2>4. Writes(j)
    BY <2>1, <2>3, ReportsMeans DEF Writes
  <2> QED
    BY <2>2, <2>3, <2>4, ExitMeans DEF Types, Step
<1> QED
  BY <1>1, <1>2, <1>3, <1>4 DEF Command

\* A step of a subprocess keeps the types.
LEMMA TypesOfCommand ==
  ASSUME Types, NEW j \in Job, Control(j), Command(j)
  PROVE  Types'
<1>1. /\ UNCHANGED <<second, restarts, jobs, worker>>
      /\ out' \in [Job -> Output \cup {Null}]
      /\ proc' \in [Job -> Process]
      /\ exits' \in [Job -> [Step -> Code]]
      /\ Writes(j)
  BY CommandLeaves, CommandMeans
<1>2. disk' \in [RunDir -> Folder]
  <2>1. disk \in [RunDir -> Folder] /\ (out[j] # Null => out[j].dir \in RunDir)
    BY DEF Types, Output
  <2>2. ASSUME out[j] # Null, NEW c \in Case,
               disk' = [disk EXCEPT ![out[j].dir] = Landed(disk[out[j].dir], c, j)]
        PROVE  disk' \in [RunDir -> Folder]
    BY <2>1, <2>2, FolderTyped
  <2>3. ASSUME out[j] # Null, NEW step \in {"metrics", "analyze"},
               disk' = [disk EXCEPT ![out[j].dir] =
                    Reported(disk[out[j].dir], step, ReportOf(j, disk[out[j].dir].results))]
        PROVE  disk' \in [RunDir -> Folder]
    <3>1. ReportOf(j, disk[out[j].dir].results) \in Report
      BY <2>1, <2>3 DEF ReportOf, Report, Folder
    <3> QED
      BY <2>1, <2>3, <3>1, FolderTyped
  <2> QED
    BY <1>1, <2>1, <2>2, <2>3 DEF Writes
<1> QED
  BY <1>1, <1>2 DEF Types, Registered

\* A step of a subprocess goes with where the thread of its job is.
LEMMA ControlOfCommand ==
  ASSUME Types, NEW j \in Job, \A k \in Job : Control(k), Command(j), NEW k \in Job
  PROVE  Control(k)'
<1>0. Control(j)
  OBVIOUS
<1>1. /\ UNCHANGED <<jobs, worker, page>>
      /\ \A l \in Job \ {j} : proc'[l] = proc[l] /\ exits'[l] = exits[l] /\ out'[l] = out[l]
  BY <1>0, CommandLeaves, CommandMeans
<1>2. CASE k # j
  BY <1>1, <1>2, ControlStays DEF Untouched, Registered
<1>3. Control(j)'
  <2>1. CASE RunNothing(j) \/ RunReturns(j) \/ RunAborts(j)
    <3>1. PICK rc \in {0, 1} : /\ Running(j, "run") /\ Exit(j, "run", rc)
                               /\ rc = 0 => out[j] # Null /\ out[j].left = {}
                               /\ UNCHANGED out
      BY <2>1, RunEndsMeans DEF RunEnds
    <3>2. Ends(j, "run", rc)
      BY <3>1, ExitMeans DEF Step
    <3>3. rc # Null
      BY UiAssumption
    <3> QED
      BY <1>0, <1>1, <3>1, <3>2, <3>3
         DEF Ends, Running, Control, Thread, Heard, Status, Tried, At, Registered, Step
  <2>2. CASE RunNames(j)
    <3>1. /\ worker[j].step = "run" /\ At(j, "read") /\ j \in Registered /\ out[j] = Null
          /\ proc[j].is = "alive" /\ proc'[j].is = "alive" /\ proc'[j].pipe # <<>>
          /\ out'[j] # Null /\ exits' = exits
      <4>1. proc'[j] = [is |-> "alive", pipe |-> <<Named>>, dir |-> proc[j].dir]
        BY <1>0, <2>2, RunNamesMeans
      <4>2. <<Named>> # <<>>
        OBVIOUS
      <4>3. proc'[j].is = "alive" /\ proc'[j].pipe # <<>>
        BY <4>1, <4>2
      <4> QED
        BY <1>0, <2>2, <4>3, RunNamesMeans
    <3>2. exits[j].run # 0
      BY <1>0, <3>1 DEF Control, Thread
    <3>3. jobs[j].status = "running"
      BY <1>0, <3>1 DEF Control, Status, At
    <3>4. Thread(j)'
      BY <1>0, <1>1, <3>1, <3>2 DEF Control, Thread, Tried, At, Registered
    <3>5. Heard(j)' /\ Status(j)'
      BY <1>0, <1>1, <3>1, <3>2, <3>3 DEF Control, Heard, Status, At, Registered
    <3> QED
      BY <3>4, <3>5 DEF Control
  <2>3. CASE RunWrites(j)
    <3>1. PICK c \in Case :
            /\ out[j] # Null /\ c \in out[j].left /\ out'[j] # Null
            /\ out'[j] = [dir |-> out[j].dir, since |-> out[j].since, left |-> out[j].left \ {c}]
            /\ proc' = proc /\ exits' = exits
      BY <2>3, RunWritesMeans
    <3>2. out'[j].dir = out[j].dir /\ out[j].left # {}
      BY <3>1
    <3>3. exits[j].run # 0
      BY <1>0, <3>2 DEF Control, Thread
    <3>4. Thread(j)'
      BY <1>0, <1>1, <3>1, <3>3 DEF Control, Thread, Tried, At, Registered
    <3>5. Heard(j)' /\ Status(j)'
      BY <1>0, <1>1, <3>1, <3>2, <3>3 DEF Control, Heard, Status, Tried, At, Registered
    <3> QED
      BY <3>4, <3>5 DEF Control
  <2>4. CASE \E step \in {"metrics", "analyze"} : Reports(j, step)
    <3>1. PICK step \in {"metrics", "analyze"} : Reports(j, step)
      BY <2>4
    <3>2. PICK rc \in {0, 1} : Exit(j, step, rc)
      BY <1>0, <3>1, ReportsMeans
    <3>3. Ends(j, step, rc) /\ Running(j, step) /\ out' = out
      BY <3>1, <3>2, ExitMeans DEF Step, Reports
    <3>4. rc # Null
      BY UiAssumption
    <3> QED
      BY <1>0, <1>1, <3>1, <3>3, <3>4
         DEF Ends, Running, Control, Thread, Heard, Status, Tried, At, Registered, Step
  <2> QED
    BY <2>1, <2>2, <2>3, <2>4 DEF Command
<1> QED
  BY <1>2, <1>3

\* What a subprocess writes, it writes to the folder it named.
LEMMA FoldersOfCommand ==
  ASSUME Types, NEW j \in Job, Control(j), Folders, Command(j)
  PROVE  Folders'
<1>1. /\ second' = second /\ Writes(j) /\ \A k \in Job \ {j} : out'[k] = out[k]
      /\ out' \in [Job -> Output \cup {Null}]
  BY CommandLeaves, CommandMeans
<1>2. \A k \in Job : out[k] # Null => out'[k] # Null /\ out'[k].dir = out[k].dir
                                      /\ out'[k].since = out[k].since
  <2>1. ASSUME out[j] # Null
        PROVE  out'[j] # Null /\ out'[j].dir = out[j].dir /\ out'[j].since = out[j].since
    <3>1. CASE out' = out
      BY <2>1, <3>1
    <3>2. CASE \E c \in Case : out'[j] = [dir |-> out[j].dir, since |-> out[j].since, left |-> out[j].left \ {c}]
      <4>1. out'[j] \in Output
        BY <1>1, <2>1, <3>2 DEF Output, Types
      <4> QED
        BY <3>2, <4>1, UiAssumption
    <3> QED
      BY <1>1, <2>1, <3>1, <3>2 DEF Writes
  <2> QED
    BY <1>1, <2>1
<1>3. \A k \in Job : out'[k] # Null => out'[k].dir = [cell |-> Cell[k], time |-> out'[k].since]
  BY <1>1, <1>2 DEF Writes, Folders, NewRunDir
<1>4. disk \in [RunDir -> Folder] /\ disk' \in [RunDir -> Folder]
  BY TypesOfCommand DEF Types
<1>5. \A k \in Job : out[k] # Null => out[k].dir \in RunDir
  BY DEF Types, Output
<1>6. CASE disk' = disk
  <2>1. \A k \in Job : out[k] # Null =>
          \A c \in Case \ out[k].left : disk[out[k].dir].results[c] # Null
    BY DEF Folders
  <2>2. out' = out \/ out'[j].left = Case \/ \E c \in Case :
          /\ out[j] # Null /\ out'[j].left = out[j].left \ {c} /\ out'[j].dir = out[j].dir
          /\ disk' = [disk EXCEPT ![out[j].dir] = Landed(disk[out[j].dir], c, j)]
    BY <1>1 DEF Writes
  <2>3. ASSUME NEW c \in Case, out[j] # Null, out'[j].left = out[j].left \ {c}, out'[j].dir = out[j].dir,
               disk' = [disk EXCEPT ![out[j].dir] = Landed(disk[out[j].dir], c, j)]
        PROVE  disk'[out'[j].dir].results[c] # Null
    <3>1. disk[out[j].dir] \in Folder /\ out[j].dir \in RunDir
      BY <1>4, <1>5, <2>3
    <3>2. Landed(disk[out[j].dir], c, j).results[c] = j
      BY <3>1, FolderTyped
    <3> QED
      BY <1>4, <2>3, <3>1, <3>2, UiAssumption
  <2>4. \A k \in Job : out'[k] # Null =>
          \A c \in Case \ out'[k].left : disk'[out'[k].dir].results[c] # Null
    <3>1. ASSUME out'[j] # Null, NEW c \in Case \ out'[j].left
          PROVE  disk'[out'[j].dir].results[c] # Null
      BY <1>6, <2>1, <2>2, <2>3, <3>1
    <3> QED
      BY <1>1, <1>6, <2>1, <3>1
  <2>5. \A f \in RunDir : \A c \in Case :
          disk[f].results[c] # Null => Names(disk[f].results[c], f)'
    BY <1>2, <1>6 DEF Folders, Names
  <2>6. \A f \in RunDir : Own(disk[f].metrics)' /\ Own(disk[f].analysis)'
    <3>2. \A f \in RunDir : Own(disk[f].metrics) /\ Own(disk[f].analysis)
      BY DEF Folders
    <3>3. ASSUME NEW f \in RunDir PROVE Own(disk[f].metrics)' /\ Own(disk[f].analysis)'
      BY <1>2, <1>6, <3>2 DEF Own, Names
    <3> QED
      BY <3>3
  <2> QED
    BY <1>3, <1>6, <2>4, <2>5, <2>6 DEF Folders
<1>7. ASSUME NEW c \in Case, out[j] # Null,
             disk' = [disk EXCEPT ![out[j].dir] = Landed(disk[out[j].dir], c, j)],
             out'[j] = [dir |-> out[j].dir, since |-> out[j].since, left |-> out[j].left \ {c}]
      PROVE  Folders'
  <2> DEFINE g == out[j].dir
  <2>1. g \in RunDir /\ disk[g] \in Folder /\ j # Null
    BY <1>4, <1>5, <1>7, UiAssumption
  <2>2. /\ \A f \in RunDir \ {g} : disk'[f] = disk[f]
        /\ disk'[g].metrics = disk[g].metrics /\ disk'[g].analysis = disk[g].analysis
        /\ disk'[g].results[c] = j /\ \A d \in Case \ {c} : disk'[g].results[d] = disk[g].results[d]
    BY <1>4, <1>7, <2>1, FolderTyped
  <2>3. \A f \in RunDir : Own(disk[f].metrics)' /\ Own(disk[f].analysis)'
    <3>1. \A f \in RunDir : disk'[f].metrics = disk[f].metrics /\ disk'[f].analysis = disk[f].analysis
      BY <2>2
    <3>2. \A f \in RunDir : Own(disk[f].metrics) /\ Own(disk[f].analysis)
      BY DEF Folders
    <3>3. ASSUME NEW f \in RunDir PROVE Own(disk[f].metrics)' /\ Own(disk[f].analysis)'
      <4>1. \A r : Own(r) => Own(r)'
        BY <1>2 DEF Own, Names
      <4> QED
        BY <3>1, <3>2, <4>1 DEF Own, Names
    <3> QED
      BY <3>3
  <2>4. \A f \in RunDir, d \in Case : disk'[f].results[d] # Null => Names(disk[f].results[d], f)'
    BY <1>2, <1>7, <2>1, <2>2 DEF Folders, Names
  <2>5. ASSUME NEW k \in Job, out'[k] # Null, NEW d \in Case \ out'[k].left
        PROVE  disk'[out'[k].dir].results[d] # Null
    <3>1. \A e \in Case \ out[j].left : disk[g].results[e] # Null
      BY <1>7 DEF Folders
    <3>2. CASE k = j
      <4>1. out'[k].dir = g /\ (d = c \/ d \in Case \ out[j].left)
        BY <1>7, <2>5, <3>2
      <4> QED
        BY <2>1, <2>2, <3>1, <4>1
    <3>3. CASE k # j
      <4>1. out'[k] = out[k] /\ out[k].dir \in RunDir
        BY <1>1, <1>5, <2>5, <3>3
      <4>2. disk[out[k].dir].results[d] # Null
        BY <2>5, <4>1 DEF Folders
      <4> QED
        BY <2>1, <2>2, <4>1, <4>2
    <3> QED
      BY <3>2, <3>3
  <2> QED
    BY <1>3, <2>3, <2>4, <2>5 DEF Folders
<1>8. ASSUME NEW step \in {"metrics", "analyze"}, out' = out, out[j] # Null, out[j].left = {},
             disk' = [disk EXCEPT ![out[j].dir] =
                    Reported(disk[out[j].dir], step, ReportOf(j, disk[out[j].dir].results))]
      PROVE  Folders'
  <2> DEFINE g == out[j].dir
             r == ReportOf(j, disk[g].results)
  <2>1. g \in RunDir /\ disk[g] \in Folder /\ r \in Report
    BY <1>4, <1>5, <1>8 DEF ReportOf, Report, Folder
  <2>2. Own(r)
    <3>1. \A c \in Case : disk[g].results[c] # Null
      BY <1>8 DEF Folders
    <3>2. \A c \in Case : Names(disk[g].results[c], g)
      BY <2>1, <3>1 DEF Folders
    <3>3. r.by = j /\ r.of = disk[g].results
      BY DEF ReportOf
    <3> QED
      BY <1>8, <3>2, <3>3 DEF Own
  <2>3. /\ \A f \in RunDir \ {g} : disk'[f] = disk[f]
        /\ disk'[g].results = disk[g].results
        /\ disk'[g].metrics \in {r, disk[g].metrics} /\ disk'[g].analysis \in {r, disk[g].analysis}
    <3> HIDE DEF r
    <3>1. disk' = [disk EXCEPT ![g] = Reported(disk[g], step, r)]
      BY <1>8 DEF r
    <3> QED
      BY <1>4, <2>1, <3>1, FolderTyped
  <2>4. \A f \in RunDir : Own(disk'[f].metrics) /\ Own(disk'[f].analysis)
    <3> HIDE DEF r, g
    <3>1. \A f \in RunDir : Own(disk[f].metrics) /\ Own(disk[f].analysis)
      BY DEF Folders
    <3>2. \A f \in RunDir : disk'[f].metrics \in {r, disk[f].metrics} /\ disk'[f].analysis \in {r, disk[f].analysis}
      BY <2>3
    <3> QED
      BY <2>2, <3>1, <3>2
  <2>5. \A f \in RunDir : Own(disk[f].metrics)' /\ Own(disk[f].analysis)'
    BY <1>8, <2>4 DEF Own, Names
  <2>6. \A f \in RunDir : disk'[f].results = disk[f].results
    BY <2>3
  <2> QED
    BY <1>5, <1>8, <2>5, <2>6 DEF Folders, Names
<1> QED
  BY <1>1, <1>6, <1>7, <1>8 DEF Writes

\* Nor does it tell a page anything.
LEMMA PagesOfCommand ==
  ASSUME NEW j \in Job, Command(j), Pages
  PROVE  Pages'
BY CommandLeaves DEF Pages, Question, Final, EndedPageSawAll, Stopped, DoneIsListed, Registered

-----------------------------------------------------------------------------
(* Steps of the pages and of the handlers keep the invariant.                *)

\* A step that leaves the jobs, their threads and subprocesses and the disk alone.
Quiet ==
  /\ UNCHANGED <<second, restarts, jobs, worker, proc, exits, out, disk>>
  /\ \A j \in Job : page'[j].is = "none" <=> page[j].is = "none"

\* Such a step keeps all but what is said of pages.
LEMMA QuietKeeps ==
  ASSUME Types, \A j \in Job : Control(j), Folders, Quiet
  PROVE  Types' /\ (\A j \in Job : Control(j))' /\ Folders'
<1>1. Types'
  BY DEF Quiet, Types, Registered
<1>2. ASSUME NEW j \in Job PROVE Control(j)'
  BY ControlStays DEF Quiet, Untouched, Registered
<1>3. Folders'
  BY DEF Quiet, Folders, Own, Names
<1> QED
  BY <1>1, <1>2, <1>3

\* One question moves on.
LEMMA PollMoves ==
  ASSUME Pages, NEW p \in Poll, UNCHANGED <<jobs, page>>, DOMAIN poll' = Poll,
         \A q \in Poll \ {p} : poll'[q] = poll[q] /\ Question(q)', Question(p)',
         lock' \in Poll \cup {Null}, lock' # Null => poll'[lock'].is = "sending"
  PROVE  Pages'
<1>1. EndedPageSawAll' /\ DoneIsListed'
  BY DEF Pages, EndedPageSawAll, Stopped, DoneIsListed, Registered
<1> QED
  BY <1>1 DEF Pages, Final, Registered

\* A question is asked.
LEMMA TickKeeps ==
  ASSUME Types, \A j \in Job : Control(j), Folders, Pages, NEW p \in Poll, Tick(p)
  PROVE  IInv'
<1>1. /\ UNCHANGED <<page, jobs, lock, worker, proc, exits, out, disk, second, restarts>>
      /\ page[p[1]].is = "polling" /\ poll[p].is = "idle"
      /\ poll' = [poll EXCEPT ![p] = [poll[p] EXCEPT !.is = "asked"]]
  BY DEF Tick, server, command, world
<1>2. DOMAIN poll = Poll /\ DOMAIN poll[p] = {"is", "answer"} /\ \A q \in Poll : Question(q)
  BY DEF Pages, Question
<1>3. /\ DOMAIN poll' = Poll /\ \A q \in Poll \ {p} : poll'[q] = poll[q]
      /\ DOMAIN poll'[p] = {"is", "answer"} /\ poll'[p].is = "asked"
  BY <1>1, <1>2
<1>4. \A q \in Poll \ {p} : Question(q)'
  BY <1>1, <1>2, <1>3 DEF Question, Final, Registered
<1>5. Question(p)'
  BY <1>1, <1>3 DEF Question
<1>6. lock' \in Poll \cup {Null} /\ (lock' # Null => poll'[lock'].is = "sending")
  BY <1>1, <1>3 DEF Pages
<1>7. Pages'
  BY <1>1, <1>3, <1>4, <1>5, <1>6, PollMoves
<1>8. Quiet
  BY <1>1 DEF Quiet
<1> QED
  BY <1>7, <1>8, QuietKeeps DEF IInv

\* An answer is a copy of the job.
LEMMA AnswerKeeps ==
  ASSUME Types, \A j \in Job : Control(j), Folders, Pages, NEW p \in Poll, Answer(p)
  PROVE  IInv'
<1> DEFINE a == IF p[1] \in Registered THEN jobs[p[1]] ELSE Unknown
<1>1. /\ UNCHANGED <<page, jobs, worker, proc, exits, out, disk, second, restarts>>
      /\ poll[p].is = "asked" /\ lock = Null /\ lock' = p
      /\ poll' = [poll EXCEPT ![p] = [is |-> "sending", answer |-> a]]
  BY DEF Answer, Free, command, world, Registered
<1>2. DOMAIN poll = Poll /\ \A q \in Poll : Question(q)
  BY DEF Pages
<1>3. /\ DOMAIN poll' = Poll /\ \A q \in Poll \ {p} : poll'[q] = poll[q]
      /\ poll'[p] = [is |-> "sending", answer |-> a]
  BY <1>1, <1>2
<1>4. \A q \in Poll \ {p} : Question(q)'
  <2>1. \A q \in Poll : poll[q].is # "sending"
    BY <1>1, <1>2, UiAssumption DEF Question
  <2> QED
    BY <1>1, <1>2, <1>3, <2>1 DEF Question, Final, Registered
<1>5. Question(p)'
  <2>1. page'[p[1]].is # "none"
    BY <1>1, <1>2 DEF Question
  <2>2. Final(a) /\ p[1] \in Registered => a = jobs[p[1]]
    OBVIOUS
  <2>3. DOMAIN poll'[p] = {"is", "answer"} /\ poll'[p].is = "sending" /\ poll'[p].answer = a
    BY <1>3
  <2> HIDE DEF a
  <2> QED
    BY <1>1, <2>1, <2>2, <2>3 DEF Question, Final, Registered
<1>6. lock' \in Poll \cup {Null} /\ (lock' # Null => poll'[lock'].is = "sending")
  BY <1>1, <1>3
<1>7. Pages'
  BY <1>1, <1>3, <1>4, <1>5, <1>6, PollMoves
<1>8. Quiet
  BY <1>1 DEF Quiet
<1> QED
  BY <1>7, <1>8, QuietKeeps DEF IInv

\* An answer has been sent.
LEMMA SentKeeps ==
  ASSUME Types, \A j \in Job : Control(j), Folders, Pages, NEW p \in Poll, Sent(p)
  PROVE  IInv'
<1>1. /\ UNCHANGED <<page, jobs, worker, proc, exits, out, disk, second, restarts>>
      /\ poll[p].is = "sending" /\ lock' = Null
      /\ poll' = [poll EXCEPT ![p] = [poll[p] EXCEPT !.is = "sent"]]
  BY DEF Sent, command, world
<1>2. DOMAIN poll = Poll /\ DOMAIN poll[p] = {"is", "answer"} /\ \A q \in Poll : Question(q)
  BY DEF Pages, Question
<1>3. /\ DOMAIN poll' = Poll /\ \A q \in Poll \ {p} : poll'[q] = poll[q]
      /\ DOMAIN poll'[p] = {"is", "answer"} /\ poll'[p].is = "sent" /\ poll'[p].answer = poll[p].answer
  BY <1>1, <1>2
<1>4. \A q \in Poll \ {p} : Question(q)'
  <2>1. \A q \in Poll \ {p} : poll[q].is # "sending"
    BY <1>1, <1>2 DEF Question
  <2> QED
    BY <1>1, <1>2, <1>3, <2>1 DEF Question, Final, Registered
<1>5. Question(p)'
  BY <1>1, <1>2, <1>3 DEF Question, Final, Registered
<1>6. lock' \in Poll \cup {Null} /\ (lock' # Null => poll'[lock'].is = "sending")
  BY <1>1
<1>7. Pages'
  BY <1>1, <1>3, <1>4, <1>5, <1>6, PollMoves
<1>8. Quiet
  BY <1>1 DEF Quiet
<1> QED
  BY <1>7, <1>8, QuietKeeps DEF IInv

\* What an answer makes of a page.
Shown(j, a) ==
  [page[j] EXCEPT !.saw = IF Final(a) \/ Stopped(j) THEN a.log ELSE page[j].saw,
                  !.overtaken = Stopped(j) /\ ~Final(a),
                  !.is = IF Final(a) THEN "ended" ELSE page[j].is]

SamePage(j) ==
  DOMAIN page'[j] = DOMAIN page[j] /\ \A f \in PageFields : page'[j][f] = page[j][f]

\* The page stops with the log it was answered.
Stops(j, a) ==
  /\ Final(a) /\ DOMAIN page'[j] = DOMAIN page[j]
  /\ page'[j].is = "ended" /\ page'[j].saw = a.log

\* The page goes on as before, and if it had stopped, its log was overtaken.
GoesOn(j) ==
  /\ DOMAIN page'[j] = DOMAIN page[j]
  /\ page'[j].is = page[j].is /\ page'[j].runs = page[j].runs
  /\ Stopped(j) => page'[j].overtaken

\* An answer arrives: the page stops if the job has ended, and goes on if not.
LEMMA ArriveMeans ==
  ASSUME Pages, NEW p \in Poll, Arrive(p)
  PROVE  /\ UNCHANGED <<jobs, lock, worker, proc, exits, out, disk, second, restarts>>
         /\ poll[p].is = "sent" /\ poll' = [poll EXCEPT ![p] = Idle]
         /\ DOMAIN page' = Job /\ \A k \in Job \ {p[1]} : page'[k] = page[k]
         /\ SamePage(p[1]) \/ Stops(p[1], poll[p].answer) \/ GoesOn(p[1])
<1> DEFINE j == p[1]
           a == poll[p].answer
<1>1. /\ UNCHANGED <<jobs, lock, worker, proc, exits, out, disk, second, restarts>>
      /\ poll[p].is = "sent" /\ poll' = [poll EXCEPT ![p] = Idle]
      /\ page' = page \/ page' = [page EXCEPT ![j] = Shown(j, a)]
  BY DEF Arrive, server, command, world, Shown
<1>2. DOMAIN page = Job /\ j \in Job /\ DOMAIN page[j] = PageFields
  BY DEF Pages, Poll
<1> HIDE DEF j, a
<1>3. CASE page' = page
  BY <1>1, <1>2, <1>3 DEF j, a, SamePage
<1>4. CASE page' = [page EXCEPT ![j] = Shown(j, a)]
  <2>1. DOMAIN page' = Job /\ page'[j] = Shown(j, a) /\ \A k \in Job \ {j} : page'[k] = page[k]
    BY <1>2, <1>4
  <2>2. CASE Final(a)
    <3>1. /\ DOMAIN Shown(j, a) = DOMAIN page[j] /\ Shown(j, a).is = "ended"
          /\ Shown(j, a).saw = a.log
      BY <1>2, <2>2 DEF Shown, PageFields
    <3> QED
      BY <1>1, <2>1, <2>2, <3>1 DEF j, a, Stops
  <2>3. CASE ~Final(a)
    <3>1. DOMAIN Shown(j, a) = DOMAIN page[j] /\ Shown(j, a).is = page[j].is /\ Shown(j, a).runs = page[j].runs
      BY <1>2, <2>3 DEF Shown, PageFields
    <3>2. Shown(j, a).overtaken = (Stopped(j) /\ ~Final(a))
      BY <1>2 DEF Shown, PageFields
    <3>3. Stopped(j) => Shown(j, a).overtaken
      BY <2>3, <3>2
    <3> QED
      BY <1>1, <2>1, <3>1, <3>3 DEF j, a, GoesOn
  <2> QED
    BY <2>2, <2>3
<1> QED
  BY <1>1, <1>3, <1>4

\* The job has not moved since it ended, so that a page that stops has its whole log.
LEMMA ArriveKeeps ==
  ASSUME Types, \A j \in Job : Control(j), Folders, Pages, NEW p \in Poll, Arrive(p)
  PROVE  IInv'
<1> DEFINE j == p[1]
           a == poll[p].answer
<1>1. /\ UNCHANGED <<jobs, lock, worker, proc, exits, out, disk, second, restarts>>
      /\ poll[p].is = "sent" /\ poll' = [poll EXCEPT ![p] = Idle]
      /\ DOMAIN page' = Job /\ \A k \in Job \ {j} : page'[k] = page[k]
      /\ SamePage(j) \/ Stops(j, a) \/ GoesOn(j)
  BY ArriveMeans
<1>2. DOMAIN poll = Poll /\ (\A q \in Poll : Question(q)) /\ j \in Job /\ page[j].is # "none"
  BY <1>1 DEF Pages, Question, Poll
<1>3. /\ DOMAIN poll' = Poll /\ \A q \in Poll \ {p} : poll'[q] = poll[q]
      /\ DOMAIN poll'[p] = {"is", "answer"} /\ poll'[p].is = "idle"
  BY <1>1, <1>2 DEF Idle
<1>4. \A k \in Job : page'[k].is = "none" <=> page[k].is = "none"
  BY <1>1, <1>2 DEF SamePage, Stops, GoesOn, PageFields
<1>5. \A q \in Poll : Question(q)'
  <2>1. ASSUME NEW q \in Poll \ {p} PROVE Question(q)'
    <3>1. q[1] \in Job
      BY DEF Poll
    <3> QED
      BY <1>1, <1>2, <1>3, <1>4, <3>1 DEF Question, Final, Registered
  <2>2. Question(p)'
    BY <1>3 DEF Question
  <2> QED
    BY <2>1, <2>2
<1>6. Final(a) /\ j \in Registered => Final(jobs[j]) /\ jobs[j].log = a.log
  BY <1>1, <1>2 DEF Question
<1>7. lock' \in Poll \cup {Null} /\ (lock' # Null => poll'[lock'].is = "sending")
  BY <1>1, <1>3 DEF Pages
<1>8. Pages'
  <2>1. \A k \in Job : DOMAIN page'[k] = PageFields
                       /\ page'[k].is \in {"none", "polling", "ended", "listed", "closed"}
    BY <1>1, <1>2 DEF Pages, SamePage, Stops, GoesOn, PageFields
  <2>2. EndedPageSawAll'
    <3>1. ASSUME NEW k \in Registered, page'[k].is \in {"ended", "listed"}, ~page'[k].overtaken
          PROVE  page'[k].saw = jobs[k].log
      <4>1. k \in Job
        BY DEF Types
      <4>2. page[k].is \in {"ended", "listed"} /\ ~page[k].overtaken => page[k].saw = jobs[k].log
        BY DEF Pages, EndedPageSawAll, Stopped
      <4>3. CASE k # j \/ SamePage(j)
        <5>1. /\ page'[k].is = page[k].is /\ page'[k].saw = page[k].saw
              /\ page'[k].overtaken = page[k].overtaken
          BY <1>1, <4>1, <4>3 DEF SamePage, PageFields
        <5> QED
          BY <3>1, <4>2, <5>1
      <4>4. CASE k = j /\ Stops(j, a)
        BY <1>6, <4>4 DEF Stops
      <4>5. CASE k = j /\ GoesOn(j)
        BY <3>1, <4>5 DEF GoesOn, Stopped
      <4> QED
        BY <1>1, <4>3, <4>4, <4>5
    <3> QED
      BY <1>1, <3>1 DEF EndedPageSawAll, Stopped, Registered
  <2>3. \A k \in Registered' : page'[k].is \in {"ended", "listed"} => Final(jobs[k])
    BY <1>1, <1>6 DEF Pages, Types, Registered, SamePage, Stops, GoesOn, PageFields
  <2>4. DoneIsListed'
    <3>1. ASSUME NEW k \in Registered, page'[k].is = "listed" PROVE page[k].is = "listed" /\ page'[k].runs = page[k].runs
      BY <1>1, <3>1 DEF Types, SamePage, Stops, GoesOn, PageFields
    <3> QED
      BY <1>1, <3>1 DEF Pages, DoneIsListed, Registered
  <2> QED
    BY <1>1, <1>3, <1>5, <1>7, <2>1, <2>2, <2>3, <2>4 DEF Pages, Final, Registered
<1>9. Quiet
  BY <1>1, <1>4 DEF Quiet
<1> QED
  BY <1>8, <1>9, QuietKeeps DEF IInv

\* The folder of a job that is done is among those listed, and is whole.
LEMMA LoadRunsKeeps ==
  ASSUME Types, \A k \in Job : Control(k), Folders, Pages, NEW j \in Job, LoadRuns(j)
  PROVE  IInv'
<1>1. /\ UNCHANGED <<poll, jobs, lock, worker, proc, exits, out, disk, second, restarts>>
      /\ page[j].is = "ended"
      /\ page' = [page EXCEPT ![j] = [page[j] EXCEPT !.is = "listed", !.runs = Listed]]
  BY DEF LoadRuns, server, command, world
<1>2. DOMAIN page = Job /\ DOMAIN page[j] = PageFields
  BY DEF Pages
<1>3. /\ DOMAIN page' = Job /\ \A k \in Job \ {j} : page'[k] = page[k]
      /\ DOMAIN page'[j] = PageFields /\ page'[j].is = "listed"
      /\ page'[j].runs = Listed /\ page'[j].saw = page[j].saw /\ page'[j].overtaken = page[j].overtaken
  BY <1>1, <1>2 DEF PageFields
<1>4. \A k \in Job : page'[k].is = "none" <=> page[k].is = "none"
  BY <1>1, <1>3
<1>5. \A q \in Poll : Question(q)'
  <2>1. ASSUME NEW q \in Poll PROVE Question(q)'
    <3>1. q[1] \in Job /\ Question(q)
      BY DEF Poll, Pages
    <3> QED
      BY <1>1, <1>4, <3>1 DEF Question, Final, Registered
  <2> QED
    BY <2>1
<1>6. ASSUME j \in Registered, jobs[j].status = "done"
      PROVE  \E run \in Listed : run.dir = jobs[j].run_dir /\ \A c \in Case : run.results[c] # Null
  <2>1. /\ exits[j].run = 0 /\ jobs[j].run_dir = out[j].dir /\ out[j] # Null /\ out[j].left = {}
    BY <1>6 DEF Control, Status, Thread
  <2>2. out[j].dir \in RunDir
    BY <2>1 DEF Types, Output
  <2>3. \A c \in Case : disk[out[j].dir].results[c] # Null
    BY <2>1 DEF Folders
  <2>4. [dir |-> out[j].dir, results |-> disk[out[j].dir].results] \in Listed
    BY <2>2, <2>3, UiAssumption DEF Listed
  <2> QED
    BY <2>1, <2>3, <2>4
<1>7. Pages'
  <2>1. \A k \in Job : DOMAIN page'[k] = PageFields
                       /\ page'[k].is \in {"none", "polling", "ended", "listed", "closed"}
    BY <1>3 DEF Pages
  <2>2. EndedPageSawAll'
    BY <1>1, <1>3 DEF Pages, EndedPageSawAll, Stopped, Types, Registered
  <2>3. \A k \in Registered' : page'[k].is \in {"ended", "listed"} => Final(jobs[k])
    BY <1>1, <1>3 DEF Pages, Types, Registered
  <2>4. DoneIsListed'
    BY <1>1, <1>3, <1>6 DEF Pages, DoneIsListed, Types, Registered
  <2> QED
    BY <1>1, <1>3, <1>5, <2>1, <2>2, <2>3, <2>4 DEF Pages, Final, Registered
<1>8. Quiet
  BY <1>1, <1>4 DEF Quiet
<1> QED
  BY <1>7, <1>8, QuietKeeps DEF IInv

\* A tab is closed.
LEMMA CloseKeeps ==
  ASSUME Types, \A k \in Job : Control(k), Folders, Pages, NEW j \in Job, Close(j)
  PROVE  IInv'
<1>1. /\ UNCHANGED <<jobs, worker, proc, exits, out, disk, second, restarts>>
      /\ page[j].is # "none"
      /\ page' = [page EXCEPT ![j] = [page[j] EXCEPT !.is = "closed"]]
      /\ poll' = [p \in Poll |-> IF p[1] = j THEN Idle ELSE poll[p]]
      /\ lock' = IF lock # Null /\ lock \in {p \in Poll : p[1] = j} THEN Null ELSE lock
  BY DEF Close, command, world
<1>2. DOMAIN page = Job /\ DOMAIN page[j] = PageFields
  BY DEF Pages
<1>3. /\ DOMAIN page' = Job /\ \A k \in Job \ {j} : page'[k] = page[k]
      /\ DOMAIN page'[j] = PageFields /\ page'[j].is = "closed"
  BY <1>1, <1>2 DEF PageFields
<1>4. \A k \in Job : page'[k].is = "none" <=> page[k].is = "none"
  BY <1>1, <1>3
<1>5. \A q \in Poll : Question(q)'
  <2>1. ASSUME NEW q \in Poll, q[1] = j PROVE Question(q)'
    <3>1. poll'[q] = [is |-> "idle", answer |-> Null]
      BY <1>1, <2>1 DEF Idle
    <3>2. DOMAIN poll'[q] = {"is", "answer"} /\ poll'[q].is = "idle"
      BY <3>1
    <3> QED
      BY <3>2 DEF Question
  <2>2. ASSUME NEW q \in Poll, q[1] # j PROVE Question(q)'
    <3>1. q[1] \in Job /\ Question(q) /\ poll'[q] = poll[q]
      BY <1>1, <2>2 DEF Poll, Pages
    <3>2. lock = q => lock' = q
      BY <1>1, <2>2
    <3> QED
      BY <1>1, <1>4, <3>1, <3>2 DEF Question, Final, Registered
  <2> QED
    BY <2>1, <2>2
<1>6. lock' \in Poll \cup {Null} /\ (lock' # Null => poll'[lock'].is = "sending")
  BY <1>1 DEF Pages
<1>7. Pages'
  <2>1. \A k \in Job : DOMAIN page'[k] = PageFields
                       /\ page'[k].is \in {"none", "polling", "ended", "listed", "closed"}
    BY <1>3 DEF Pages
  <2>2. \A k \in Registered : page'[k].is \in {"ended", "listed"} => page'[k] = page[k]
    BY <1>3 DEF Types
  <2>3. EndedPageSawAll' /\ DoneIsListed'
    BY <1>1, <2>2 DEF Pages, EndedPageSawAll, Stopped, DoneIsListed, Registered
  <2>4. \A k \in Registered' : page'[k].is \in {"ended", "listed"} => Final(jobs[k])
    BY <1>1, <2>2 DEF Pages, Registered
  <2> QED
    BY <1>1, <1>3, <1>5, <1>6, <2>1, <2>3, <2>4 DEF Pages, Final, Registered
<1>8. Quiet
  BY <1>1, <1>4 DEF Quiet
<1> QED
  BY <1>7, <1>8, QuietKeeps DEF IInv

\* A job is registered with its thread before its command.
LEMMA StartRunMeans ==
  ASSUME Types, \A k \in Job : Control(k), Pages, NEW j \in Job, StartRun(j)
  PROVE  /\ UNCHANGED <<lock, proc, exits, out, disk, poll, second, restarts>>
         /\ At(j, "none") /\ j \notin Registered /\ page[j].is = "none" /\ worker[j].step = "run"
         /\ Registered' = Registered \cup {j} /\ \A k \in Registered : jobs'[k] = jobs[k]
         /\ jobs'[j] = [status |-> "running", log |-> <<>>, run_dir |-> Null, returncode |-> Null]
         /\ worker' \in [Job -> [at : Places, step : Step]]
         /\ worker'[j] = [at |-> "cmd", step |-> "run"] /\ \A k \in Job \ {j} : worker'[k] = worker[k]
         /\ DOMAIN page' = Job /\ DOMAIN page'[j] = PageFields
         /\ page'[j].is \in {"polling", "closed"} /\ \A k \in Job \ {j} : page'[k] = page[k]
<1>1. /\ UNCHANGED <<lock, proc, exits, out, disk, poll, second, restarts>> /\ page[j].is = "none"
      /\ jobs' = [k \in Registered \cup {j} |->
                    IF k = j THEN [status |-> "running", log |-> <<>>, run_dir |-> Null,
                                   returncode |-> Null]
                    ELSE jobs[k]]
      /\ worker' = [worker EXCEPT ![j] = [worker[j] EXCEPT !.at = "cmd"]]
      /\ page' = [page EXCEPT ![j] = [page[j] EXCEPT !.is = IF j \in Watched THEN "polling" ELSE "closed"]]
  BY DEF StartRun, command, world, Registered
<1>2. At(j, "none") /\ j \notin Registered /\ worker[j].step = "run"
  BY <1>1 DEF Control, Thread, At
<1>3. [worker[j] EXCEPT !.at = "cmd"] = [at |-> "cmd", step |-> "run"]
  BY <1>2 DEF Types
<1>4. /\ worker' \in [Job -> [at : Places, step : Step]]
      /\ worker'[j] = [at |-> "cmd", step |-> "run"] /\ \A k \in Job \ {j} : worker'[k] = worker[k]
  BY <1>1, <1>3 DEF Types, Places, Step
<1>5. DOMAIN page = Job /\ DOMAIN page[j] = PageFields
  BY DEF Pages
<1>6. /\ DOMAIN page' = Job /\ DOMAIN page'[j] = PageFields
      /\ page'[j].is \in {"polling", "closed"} /\ \A k \in Job \ {j} : page'[k] = page[k]
  BY <1>1, <1>5 DEF PageFields
<1>7. Registered' = Registered \cup {j} /\ \A k \in Registered : jobs'[k] = jobs[k]
      /\ jobs'[j] = [status |-> "running", log |-> <<>>, run_dir |-> Null, returncode |-> Null]
  BY <1>1, <1>2 DEF Registered
<1> QED
  BY <1>1, <1>2, <1>4, <1>6, <1>7

\* A new job is at its command, with nothing on disk and nobody asking for it.
LEMMA StartRunKeeps ==
  ASSUME Types, \A k \in Job : Control(k), Folders, Pages, NEW j \in Job, StartRun(j)
  PROVE  IInv'
<1> DEFINE new == [status |-> "running", log |-> <<>>, run_dir |-> Null, returncode |-> Null]
<1>1. /\ UNCHANGED <<lock, proc, exits, out, disk, poll, second, restarts>>
      /\ At(j, "none") /\ j \notin Registered /\ page[j].is = "none" /\ worker[j].step = "run"
      /\ Registered' = Registered \cup {j} /\ \A k \in Registered : jobs'[k] = jobs[k]
      /\ jobs'[j] = new
      /\ worker' \in [Job -> [at : Places, step : Step]]
      /\ worker'[j] = [at |-> "cmd", step |-> "run"] /\ \A k \in Job \ {j} : worker'[k] = worker[k]
      /\ DOMAIN page' = Job /\ DOMAIN page'[j] = PageFields
      /\ page'[j].is \in {"polling", "closed"} /\ \A k \in Job \ {j} : page'[k] = page[k]
  BY StartRunMeans
<1>2. /\ DOMAIN new = Fields /\ new.status = "running" /\ new.run_dir = Null /\ new.returncode = Null
  BY DEF Fields
<1> HIDE DEF new
<1>3. Types'
  <2>1. \A k \in Registered' : /\ DOMAIN jobs'[k] = {"status", "log", "run_dir", "returncode"}
                               /\ jobs'[k].status \in {"running", "done", "error"}
                               /\ jobs'[k].run_dir \in RunDir \cup {Null}
                               /\ jobs'[k].returncode \in Code
    BY <1>1, <1>2 DEF Types, Fields, Code
  <2> QED
    BY <1>1, <2>1 DEF Types
<1>4. ASSUME NEW k \in Job PROVE Control(k)'
  <2>1. CASE k # j
    BY <1>1, <2>1, ControlStays DEF Untouched
  <2>2. CASE k = j
    <3>1. /\ proc[j].is = "none" /\ out[j] = Null /\ exits[j].run = Null /\ proc[j].pipe = <<>>
          /\ exits[j].metrics = Null /\ exits[j].analyze = Null
      BY <1>1 DEF Control, Thread, Heard, At
    <3>2. Thread(j)'
      BY <1>1, <3>1, UiAssumption DEF Thread, At
    <3>3. Heard(j)' /\ Status(j)'
      BY <1>1, <1>2, <3>1 DEF Heard, Status, At
    <3> QED
      BY <2>2, <3>2, <3>3 DEF Control
  <2> QED
    BY <2>1, <2>2
<1>5. Folders'
  BY <1>1 DEF Folders, Own, Names
<1>6. Pages'
  <2>1. ASSUME NEW q \in Poll PROVE Question(q)'
    <3>1. Question(q) /\ q[1] \in Job
      BY DEF Pages, Poll
    <3>2. CASE q[1] = j
      <4>1. poll[q].is = "idle"
        BY <1>1, <3>1, <3>2 DEF Question
      <4> QED
        BY <1>1, <3>1, <4>1 DEF Question
    <3>3. CASE q[1] # j
      BY <1>1, <3>1, <3>3 DEF Question, Final
    <3> QED
      BY <3>2, <3>3
  <2>2. \A k \in Job : DOMAIN page'[k] = PageFields
                       /\ page'[k].is \in {"none", "polling", "ended", "listed", "closed"}
    BY <1>1 DEF Pages
  <2>3. \A k \in Registered' : page'[k].is \in {"ended", "listed"} =>
          k \in Registered /\ page'[k] = page[k] /\ jobs'[k] = jobs[k]
    BY <1>1 DEF Types
  <2>4. EndedPageSawAll' /\ DoneIsListed'
    BY <2>3 DEF Pages, EndedPageSawAll, Stopped, DoneIsListed
  <2>5. \A k \in Registered' : page'[k].is \in {"ended", "listed"} => Final(jobs'[k])
    BY <2>3 DEF Pages
  <2> QED
    BY <1>1, <2>1, <2>2, <2>4, <2>5 DEF Pages, Final
<1> QED
  BY <1>3, <1>4, <1>5, <1>6 DEF IInv

\* Threads are lost, subprocesses, folders and pages are not.
LEMMA RestartKeeps ==
  ASSUME Types, \A k \in Job : Control(k), Folders, Pages, Restart
  PROVE  IInv'
<1>1. /\ UNCHANGED <<second, proc, exits, out, disk, page>>
      /\ restarts < MaxRestarts /\ restarts' = restarts + 1
      /\ jobs' = [j \in {} |-> Null] /\ lock' = Null
      /\ worker' = [j \in Job |-> IF At(j, "none") THEN worker[j] ELSE [worker[j] EXCEPT !.at = "lost"]]
      /\ poll' = [p \in Poll |-> IF poll[p].is = "sent" THEN poll[p] ELSE Idle]
  BY DEF Restart, command
<1>2. Registered' = {}
  BY <1>1 DEF Registered
<1>3. \A j \in Job : /\ worker'[j] \in [at : Places, step : Step] /\ worker'[j].step = worker[j].step
                     /\ worker'[j].at = IF At(j, "none") THEN "none" ELSE "lost"
  <2>1. ASSUME NEW j \in Job
        PROVE  [worker[j] EXCEPT !.at = "lost"] = [at |-> "lost", step |-> worker[j].step]
               /\ worker[j].step \in Step
    BY DEF Types
  <2> QED
    BY <1>1, <2>1 DEF Types, At, Places
<1>4. Types'
  <2>1. worker' \in [Job -> [at : Places, step : Step]]
    BY <1>1, <1>3
  <2>2. restarts' \in 0 .. MaxRestarts
    BY <1>1, UiAssumption DEF Types
  <2> QED
    BY <1>1, <1>2, <2>1, <2>2 DEF Types
<1>5. ASSUME NEW j \in Job PROVE Control(j)'
  <2>1. Thread(j)'
    BY <1>1, <1>2, <1>3 DEF Control, Thread, Tried, At
  <2>2. Heard(j)' /\ Status(j)'
    BY <1>1, <1>2, <1>3 DEF Control, Heard, Status, At
  <2> QED
    BY <2>1, <2>2 DEF Control
<1>6. Folders'
  BY <1>1 DEF Folders, Own, Names
<1>7. Pages'
  <2>1. ASSUME NEW q \in Poll PROVE Question(q)'
    <3>1. Question(q)
      BY DEF Pages
    <3>2. CASE poll[q].is = "sent"
      BY <1>1, <1>2, <3>1, <3>2 DEF Question
    <3>3. CASE poll[q].is # "sent"
      <4>1. poll'[q] = [is |-> "idle", answer |-> Null]
        BY <1>1, <3>3 DEF Idle
      <4>2. DOMAIN poll'[q] = {"is", "answer"} /\ poll'[q].is = "idle"
        BY <4>1
      <4> QED
        BY <4>2 DEF Question
    <3> QED
      BY <3>2, <3>3
  <2>2. EndedPageSawAll' /\ DoneIsListed'
    BY <1>2 DEF EndedPageSawAll, DoneIsListed
  <2> QED
    BY <1>1, <1>2, <2>1, <2>2 DEF Pages
<1> QED
  BY <1>4, <1>5, <1>6, <1>7 DEF IInv

\* Time passes.
LEMMA ClockKeeps ==
  ASSUME Types, \A k \in Job : Control(k), Folders, Pages, Clock
  PROVE  IInv'
<1>1. /\ UNCHANGED <<restarts, jobs, lock, worker, proc, exits, out, disk, poll, page>>
      /\ second < LastSecond /\ second' = second + 1
  BY DEF Clock, server, command, browser
<1>2. Types'
  BY <1>1, UiAssumption DEF Types, Registered
<1>3. ASSUME NEW j \in Job PROVE Control(j)'
  BY <1>1, ControlStays DEF Untouched, Registered
<1>4. Folders'
  BY <1>1 DEF Folders, Own, Names
<1>5. Pages'
  BY <1>1 DEF Pages, Question, Final, EndedPageSawAll, Stopped, DoneIsListed, Registered
<1> QED
  BY <1>2, <1>3, <1>4, <1>5 DEF IInv

-----------------------------------------------------------------------------
(* The invariant holds of every behaviour.                                   *)

\* Nothing has been started.
LEMMA InitKeeps == Init => IInv
<1> SUFFICES ASSUME Init PROVE IInv
  OBVIOUS
<1>1. /\ second = 0 /\ restarts = 0 /\ Registered = {} /\ lock = Null
      /\ worker = [j \in Job |-> [at |-> "none", step |-> "run"]]
      /\ proc = [j \in Job |-> NoProc]
      /\ exits = [j \in Job |-> [s \in Step |-> Null]]
      /\ out = [j \in Job |-> Null]
      /\ disk = [f \in RunDir |-> NewFolder]
      /\ poll = [p \in Poll |-> Idle]
      /\ page = [j \in Job |-> [is |-> "none", saw |-> <<>>, overtaken |-> FALSE, runs |-> {}]]
  BY DEF Init, Registered
<1>2. NewFolder \in Folder /\ NewFolder.metrics = Null /\ NewFolder.analysis = Null
      /\ \A c \in Case : NewFolder.results[c] = Null
  BY DEF NewFolder, Folder
<1>3. Types
  BY <1>1, <1>2, UiAssumption DEF Types, NoProc, Process, Places, Step, Code
<1>4. ASSUME NEW j \in Job PROVE Control(j)
  <2>1. Thread(j)
    BY <1>1, UiAssumption DEF Thread, At, NoProc, Step
  <2>2. Heard(j) /\ Status(j)
    BY <1>1 DEF Heard, Status, At, NoProc
  <2> QED
    BY <2>1, <2>2 DEF Control
<1>5. Folders
  BY <1>1, <1>2 DEF Folders, Own
<1>6. Pages
  <2>1. ASSUME NEW p \in Poll PROVE Question(p)
    BY <1>1 DEF Question, Idle
  <2> QED
    BY <1>1, <2>1 DEF Pages, PageFields, EndedPageSawAll, Stopped, DoneIsListed
<1> QED
  BY <1>3, <1>4, <1>5, <1>6 DEF IInv

\* Every step keeps the invariant.
LEMMA NextKeeps == IInv /\ [Next]_vars => IInv'
<1> SUFFICES ASSUME IInv, [Next]_vars PROVE IInv'
  OBVIOUS
<1> USE DEF IInv
<1>1. ASSUME NEW j \in Job, StartRun(j) PROVE IInv'
  BY <1>1, StartRunKeeps
<1>2. ASSUME NEW j \in Job, Work(j) PROVE IInv'
  <2>1. Types' /\ Pages' /\ \A k \in Job : Control(k)'
    BY <1>2, TypesOfWork, PagesOfWork, ControlOfWork
  <2>2. Folders'
    <3>1. UNCHANGED <<out, disk>>
      BY <1>2, WorkMeans
    <3> QED
      BY <3>1 DEF Folders, Own, Names
  <2> QED
    BY <2>1, <2>2
<1>3. ASSUME NEW j \in Job, Command(j) PROVE IInv'
  <2>1. Types' /\ Pages' /\ Folders'
    BY <1>3, TypesOfCommand, PagesOfCommand, FoldersOfCommand
  <2>2. \A k \in Job : Control(k)'
    BY <1>3, ControlOfCommand
  <2> QED
    BY <2>1, <2>2
<1>4. ASSUME NEW j \in Job, LoadRuns(j) PROVE IInv'
  BY <1>4, LoadRunsKeeps
<1>5. ASSUME NEW j \in Job, Close(j) PROVE IInv'
  BY <1>5, CloseKeeps
<1>6. ASSUME NEW p \in Poll, Tick(p) PROVE IInv'
  BY <1>6, TickKeeps
<1>7. ASSUME NEW p \in Poll, Answer(p) PROVE IInv'
  BY <1>7, AnswerKeeps
<1>8. ASSUME NEW p \in Poll, Sent(p) PROVE IInv'
  BY <1>8, SentKeeps
<1>9. ASSUME NEW p \in Poll, Arrive(p) PROVE IInv'
  BY <1>9, ArriveKeeps
<1>10. CASE Restart
  BY <1>10, RestartKeeps
<1>11. CASE Clock
  BY <1>11, ClockKeeps
<1>12. CASE UNCHANGED vars
  <2>1. UNCHANGED <<second, restarts, jobs, lock, worker, proc, exits, out, disk, poll, page>>
    BY <1>12 DEF vars
  <2>2. Quiet
    BY <2>1 DEF Quiet
  <2>3. Pages'
    BY <2>1 DEF Pages, Question, Final, EndedPageSawAll, Stopped, DoneIsListed, Registered
  <2> QED
    BY <2>2, <2>3, QuietKeeps
<1> HIDE DEF IInv
<1> QED
  BY <1>1, <1>2, <1>3, <1>4, <1>5, <1>6, <1>7, <1>8, <1>9, <1>10, <1>11, <1>12 DEF Next

\* The inductive invariant holds of every behaviour.
LEMMA Invariant == Spec => []IInv
<1>1. Init => IInv
  BY InitKeeps
<1>2. IInv /\ [Next]_vars => IInv'
  BY NextKeeps
<1> QED
  BY <1>1, <1>2, PTL DEF Spec

-----------------------------------------------------------------------------
(* The theorems.                                                             *)

\* The variables keep to their ranges, the lock of the registry is held just
\* while an answer is sent (do_GET of ui/server.py), and a job says "running"
\* just as long as a thread works on it (_run_job).
THEOREM TypeCorrect == Spec => []TypeOK
<1>1. IInv => TypeOK
  <2> SUFFICES ASSUME IInv PROVE TypeOK
    OBVIOUS
  <2>1. \A j \in Job : /\ worker[j].step \in Step /\ exits[j] \in [Step -> {0, 1, Null}]
                       /\ page[j].is \in {"none", "polling", "ended", "listed", "closed"}
    BY DEF IInv, Types, Pages, Code
  <2>2. (lock # Null) <=> \E p \in Poll : poll[p].is = "sending"
    <3>1. lock \in Poll \cup {Null} /\ (lock # Null => poll[lock].is = "sending")
          /\ \A p \in Poll : poll[p].is = "sending" => lock = p
      BY DEF IInv, Pages, Question
    <3> QED
      BY <3>1, UiAssumption
  <2>3. ASSUME NEW j \in Registered
        PROVE  (jobs[j].status = "running") <=> worker[j].at \notin {"none", "gone", "lost"}
    <3>1. j \in Job /\ Thread(j) /\ Status(j)
      BY DEF IInv, Types, Control
    <3> QED
      BY <3>1 DEF Thread, Status, At
  <2>4. /\ second \in 0 .. LastSecond /\ restarts \in 0 .. MaxRestarts
        /\ Registered \subseteq Job /\ lock \in Poll \cup {Null}
        /\ \A j \in Registered : /\ jobs[j].status \in {"running", "done", "error"}
                                 /\ jobs[j].run_dir \in RunDir \cup {Null}
                                 /\ jobs[j].returncode \in {0, 1, Null}
    BY DEF IInv, Types, Pages, Code
  <2> QED
    BY <2>1, <2>2, <2>3, <2>4 DEF TypeOK
<1> QED
  BY <1>1, Invariant, PTL

\* A job of _run_job says "done" only when its run wrote every case to the folder
\* it names and its reports were tried, and the page that heard of it lists that
\* folder whole.
THEOREM DoneWhole == Spec => []DoneIsWhole
<1>1. IInv => DoneIsWhole
  <2> SUFFICES ASSUME IInv PROVE DoneIsWhole
    OBVIOUS
  <2>1. ASSUME NEW j \in Registered, jobs[j].status = "done"
        PROVE  /\ exits[j].run = 0 /\ jobs[j].run_dir = out[j].dir /\ out[j].left = {}
               /\ j \in Pipeline => exits[j].metrics # Null /\ exits[j].analyze # Null
    <3>1. j \in Job /\ Thread(j) /\ Status(j)
      BY DEF IInv, Types, Control
    <3> QED
      BY <2>1, <3>1 DEF Thread, Status, Tried
  <2>2. DoneIsListed
    BY DEF IInv, Pages
  <2> QED
    BY <2>1, <2>2 DEF DoneIsWhole, DoneIsEarned
<1> QED
  BY <1>1, Invariant, PTL

\* The page's poll() stops only on an answer that holds the whole log: _run_job
\* adds nothing once the status is set.
THEOREM EndedSawAll == Spec => []EndedPageSawAll
<1>1. IInv => EndedPageSawAll
  BY DEF IInv, Pages
<1> QED
  BY <1>1, Invariant, PTL

\* Whatever number of runs, restarts and orphaned subprocesses there are, metrics
\* and analyze report on results of their own run, or of one that new_run_dir gave
\* the same name in the same second.
THEOREM OwnReports == Spec => []ReportsOfOwnRun
<1>1. IInv => ReportsOfOwnRun
  <2> SUFFICES ASSUME IInv PROVE ReportsOfOwnRun
    OBVIOUS
  <2>1. ASSUME NEW report, report # Null, Own(report), NEW c \in Case
        PROVE  LET j == report.by
                   k == report.of[c]
               IN  k # Null /\ (j # k => Cell[j] = Cell[k] /\ out[j].since = out[k].since)
    <3> DEFINE j == report.by
               k == report.of[c]
    <3>1. j \in Job /\ k \in Job /\ out[j] # Null /\ out[k] # Null /\ out[j].dir = out[k].dir
      BY <2>1 DEF Own, Names
    <3>2. /\ out[j].dir = [cell |-> Cell[j], time |-> out[j].since]
          /\ out[k].dir = [cell |-> Cell[k], time |-> out[k].since]
      BY <3>1 DEF IInv, Folders
    <3>3. Cell[j] = Cell[k] /\ out[j].since = out[k].since
      <4>1. [cell |-> Cell[j], time |-> out[j].since].cell = [cell |-> Cell[k], time |-> out[k].since].cell
        BY <3>1, <3>2
      <4>2. [cell |-> Cell[j], time |-> out[j].since].time = [cell |-> Cell[k], time |-> out[k].since].time
        BY <3>1, <3>2
      <4> QED
        BY <4>1, <4>2
    <3>4. k # Null
      BY <3>1, UiAssumption
    <3> QED
      BY <3>3, <3>4
  <2>2. \A report \in {disk[f].metrics : f \in RunDir} \cup {disk[f].analysis : f \in RunDir} : Own(report)
    BY DEF IInv, Folders
  <2> QED
    BY <2>1, <2>2 DEF ReportsOfOwnRun
<1> QED
  BY <1>1, Invariant, PTL
=============================================================================
