------------------------------ MODULE JiraFiling ------------------------------
(***************************************************************************)
(* jira/file.py: file_defects creates one tracker issue per defect of a    *)
(* run and records its dedup_key in a ledger file, so that a later command *)
(* skips it.  A command may be interrupted anywhere, a POST may fail or    *)
(* lose its answer, and the ledger is rewritten in place: an interrupted   *)
(* rewrite leaves a file that _load_ledger reads as an empty list.         *)
(***************************************************************************)
EXTENDS Naturals, FiniteSets

CONSTANTS
  Command,    \* invocations of `cctqa jira <run_dir> --file`
  N,          \* number of Valid FAIL defects, the same in every run
  Key,        \* dedup keys
  KeyOf,      \* the dedup_key of a defect in the run a command files
  Ledger,     \* ledger files
  LedgerOf,   \* the ledger a command uses (--ledger, or one per run dir)
  LimitOf,    \* --limit of a command; N or more stands for no limit
  MaxFaults,  \* bound on interruptions and failed POSTs
  MaxIssues   \* bound: no command starts once a defect has that many issues

Defect == 1..N

ASSUME CommandsAssumption ==
  /\ Command # {}
  /\ N \in Nat
  /\ KeyOf \in [Command -> [Defect -> Key]]
  /\ LedgerOf \in [Command -> Ledger]
  /\ LimitOf \in [Command -> Nat]
  /\ MaxFaults \in Nat
  /\ MaxIssues \in Nat

VARIABLES
  overlap,   \* whether commands may run at the same time: the users' habit
  pc,        \* progress of each command
  mem,       \* the ledger a command holds in memory (its keys)
  todo,      \* the defects a command still has to file
  disk,      \* keys in each ledger file
  torn,      \* ledger files that do not parse
  issues,    \* number of issues the tracker has for each defect
  faults,    \* interruptions and failed POSTs so far
  lapses     \* those that hit between an issue's creation and its record

vars == <<overlap, pc, mem, todo, disk, torn, issues, faults, lapses>>

Init ==
  /\ overlap \in BOOLEAN
  /\ pc = [p \in Command |-> "off"]
  /\ mem = [p \in Command |-> {}]
  /\ todo = [p \in Command |-> {}]
  /\ disk = [l \in Ledger |-> {}]
  /\ torn = {}
  /\ issues = [i \in Defect |-> 0]
  /\ faults = 0
  /\ lapses = 0

Active(p) == pc[p] \in {"post", "created", "saving"}

\* A file that does not parse, or does not exist, is an empty ledger.
Loaded(l) == IF l \in torn THEN {} ELSE disk[l]

\* Faulty variant: the limit is applied before the recorded keys are skipped.
TodoLimitFirst(p, keys) == {i \in Defect : i <= LimitOf[p] /\ KeyOf[p][i] \notin keys}

\* The first LimitOf[p] defects, in file order, whose key is not recorded.
Todo(p, keys) ==
  LET new == {i \in Defect : KeyOf[p][i] \notin keys}
  IN {i \in new : Cardinality({j \in new : j < i}) < LimitOf[p]}

\* The defect the loop is at.
IsNext(p, i) == i \in todo[p] /\ \A j \in todo[p] : i <= j

\* Faulty variant: the loaded ledger is not consulted.
StartBlind(p) ==
  /\ pc[p] \in {"off", "done"}
  /\ overlap \/ \A q \in Command : ~Active(q)
  /\ \A i \in Defect : issues[i] < MaxIssues
  /\ pc' = [pc EXCEPT ![p] = "post"]
  /\ mem' = [mem EXCEPT ![p] = Loaded(LedgerOf[p])]
  /\ todo' = [todo EXCEPT ![p] = Todo(p, {})]
  /\ UNCHANGED <<overlap, disk, torn, issues, faults, lapses>>

\* Load the ledger once, and compute what is to be filed.
Start(p) ==
  /\ pc[p] \in {"off", "done"}
  /\ overlap \/ \A q \in Command : ~Active(q)
  /\ \A i \in Defect : issues[i] < MaxIssues
  /\ pc' = [pc EXCEPT ![p] = "post"]
  /\ mem' = [mem EXCEPT ![p] = Loaded(LedgerOf[p])]
  /\ todo' = [todo EXCEPT ![p] = Todo(p, Loaded(LedgerOf[p]))]
  /\ UNCHANGED <<overlap, disk, torn, issues, faults, lapses>>

\* _post_issue answers: the tracker has one more issue for this defect.
Post(p, i) ==
  /\ pc[p] = "post"
  /\ IsNext(p, i)
  /\ pc' = [pc EXCEPT ![p] = "created"]
  /\ issues' = [issues EXCEPT ![i] = @ + 1]
  /\ UNCHANGED <<overlap, mem, todo, disk, torn, faults, lapses>>

\* _post_issue raises out of the loop, and nothing was created.
PostFails(p) ==
  /\ pc[p] = "post"
  /\ todo[p] # {}
  /\ faults < MaxFaults
  /\ faults' = faults + 1
  /\ pc' = [pc EXCEPT ![p] = "off"]
  /\ UNCHANGED <<overlap, mem, todo, disk, torn, issues, lapses>>

\* The issue is created and its answer lost (60 s timeout, reset): it raises.
PostUnanswered(p, i) ==
  /\ pc[p] = "post"
  /\ IsNext(p, i)
  /\ faults < MaxFaults
  /\ faults' = faults + 1
  /\ lapses' = lapses + 1
  /\ issues' = [issues EXCEPT ![i] = @ + 1]
  /\ pc' = [pc EXCEPT ![p] = "off"]
  /\ UNCHANGED <<overlap, mem, todo, disk, torn>>

\* Faulty variant: the defect is recorded before it is posted.
RecordUnposted(p, i) ==
  /\ pc[p] \in {"post", "created"}
  /\ IsNext(p, i)
  /\ pc' = [pc EXCEPT ![p] = "saving"]
  /\ mem' = [mem EXCEPT ![p] = @ \union {KeyOf[p][i]}]
  /\ torn' = torn \union {LedgerOf[p]}
  /\ UNCHANGED <<overlap, todo, disk, issues, faults, lapses>>

\* Attach the chat (a failure is swallowed), append the entry in memory and
\* open the ledger file for writing, which empties it.
Record(p, i) ==
  /\ pc[p] = "created"
  /\ IsNext(p, i)
  /\ pc' = [pc EXCEPT ![p] = "saving"]
  /\ mem' = [mem EXCEPT ![p] = @ \union {KeyOf[p][i]}]
  /\ torn' = torn \union {LedgerOf[p]}
  /\ UNCHANGED <<overlap, todo, disk, issues, faults, lapses>>

\* The whole list is written and the loop goes on.  When another command has
\* written the file since this one emptied it, the longer of the two texts may
\* show behind the shorter one, and the file does not parse.
Save(p, i) ==
  /\ pc[p] = "saving"
  /\ IsNext(p, i)
  /\ pc' = [pc EXCEPT ![p] = "post"]
  /\ todo' = [todo EXCEPT ![p] = @ \ {i}]
  /\ disk' = [disk EXCEPT ![LedgerOf[p]] = mem[p]]
  /\ \/ torn' = torn \ {LedgerOf[p]}
     \/ LedgerOf[p] \notin torn /\ torn' = torn \union {LedgerOf[p]}
  /\ UNCHANGED <<overlap, mem, issues, faults, lapses>>

\* Nothing is left to file: the command reports and returns 0.
Finish(p) ==
  /\ pc[p] = "post"
  /\ todo[p] = {}
  /\ pc' = [pc EXCEPT ![p] = "done"]
  /\ UNCHANGED <<overlap, mem, todo, disk, torn, issues, faults, lapses>>

\* The process is killed, or the ledger cannot be written.  While it is saving
\* the file is left as it is, or half-written.
Interrupt(p) ==
  /\ Active(p)
  /\ faults < MaxFaults
  /\ faults' = faults + 1
  /\ lapses' = IF pc[p] = "post" THEN lapses ELSE lapses + 1
  /\ \/ torn' = torn
     \/ pc[p] = "saving" /\ torn' = torn \union {LedgerOf[p]}
  /\ pc' = [pc EXCEPT ![p] = "off"]
  /\ UNCHANGED <<overlap, mem, todo, disk, issues>>

Step(p) ==
  \/ Finish(p)
  \/ \E i \in Defect : Post(p, i) \/ Record(p, i) \/ Save(p, i)

Fault(p) ==
  \/ PostFails(p)
  \/ Interrupt(p)
  \/ \E i \in Defect : PostUnanswered(p, i)

Next == \E p \in Command : Start(p) \/ Step(p) \/ Fault(p)

Spec == Init /\ [][Next]_vars

\* A command runs on, and somebody runs the command again.
FairSpec ==
  Spec /\ \A p \in Command : WF_vars(Step(p)) /\ WF_vars(Start(p))

-----------------------------------------------------------------------------
TypeOK ==
  /\ overlap \in BOOLEAN
  /\ pc \in [Command -> {"off", "post", "created", "saving", "done"}]
  /\ mem \in [Command -> SUBSET Key]
  /\ todo \in [Command -> SUBSET Defect]
  /\ disk \in [Ledger -> SUBSET Key]
  /\ torn \in SUBSET Ledger
  /\ issues \in [Defect -> Nat]
  /\ faults \in 0..MaxFaults
  /\ lapses \in 0..faults
  /\ \A p \in Command : pc[p] \in {"created", "saving"} => todo[p] # {}

\* The tracker has an issue for a defect with this dedup_key.
Filed(k) == \E p \in Command, i \in Defect : KeyOf[p][i] = k /\ issues[i] > 0

\* A key is recorded, in memory or on disk, only once the tracker has an issue
\* for it: file_defects skips no dedup_key that was never filed.  The key is what
\* tells defects apart to the code; of two with one key only one may be filed.
LedgerTruthful ==
  /\ \A p \in Command : \A k \in mem[p] : Filed(k)
  /\ \A l \in Ledger : \A k \in disk[l] : Filed(k)

\* Commands that run one after the other over one ledger file a defect once,
\* and once more at most for each lapse, however often they are run.
RefileBound == ~overlap => \A i \in Defect : issues[i] <= lapses + 1

\* What a running command has in hand: its copy of the ledger, and issues that
\* are still to come for what it has to do.
InHand(p) ==
  /\ pc[p] = "saving" => LedgerOf[p] \in torn
  /\ pc[p] # "saving" => mem[p] = Loaded(LedgerOf[p])
  /\ \A i \in Defect :
       /\ issues[i] <= lapses + 1
       /\ i \notin todo[p] => issues[i] <= lapses \/ KeyOf[p][i] \in mem[p]
       /\ i \in todo[p] /\ issues[i] > lapses =>
            /\ IsNext(p, i)
            /\ pc[p] \in {"created", "saving"}
            /\ pc[p] = "saving" => KeyOf[p][i] \in mem[p]

\* Between two commands, a defect with more issues than lapses is recorded.
Recorded(p) ==
  \A i \in Defect :
    \/ issues[i] <= lapses
    \/ issues[i] = lapses + 1 /\ KeyOf[p][i] \in Loaded(LedgerOf[p])

\* The inductive invariant behind RefileBound, for commands that share a ledger
\* and its keys and never overlap.
InTurn ==
  /\ \A p, q \in Command : Active(p) /\ Active(q) => p = q
  /\ \A p \in Command : Active(p) => InHand(p)
  /\ (\A p \in Command : ~Active(p)) => \A p \in Command : Recorded(p)

\* Issues, lapses, the copy in memory and the file agree (see InTurn).
Bookkeeping == ~overlap => InTurn

Shared ==
  \A p, q \in Command : LedgerOf[p] = LedgerOf[q] /\ KeyOf[p] = KeyOf[q]

\* A command without --limit that ends normally leaves no dedup_key of its run
\* without an issue, whatever the commands before it left behind.
FinishComplete ==
  \A p \in Command : LimitOf[p] >= N /\ pc[p] = "done" =>
    \A i \in Defect : Filed(KeyOf[p][i])

\* Whoever keeps running the command, with any --limit above 0, gets an issue
\* for every dedup_key once the faults stop.  (Overlapping commands too, but the
\* bound MaxIssues may stop them first.)
EveryKeyFiled ==
  ~overlap => \A p \in Command, i \in Defect : <>Filed(KeyOf[p][i])

\* What the ledger is for: no defect is ever filed twice.
NoRefile == ~overlap => \A i \in Defect : issues[i] <= 1

=============================================================================
