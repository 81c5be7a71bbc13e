----------------------------- MODULE SeedCampaign -----------------------------
(***************************************************************************)
(* seed/cli.py: campaigns that publish bookings to the environment's Kafka *)
(* topics, pin a determination for each in the rule engine's database and  *)
(* verify the result.  run_seed_all (cmd.all) mints locators, isolates the *)
(* failures of its pool of workers and leaves a ledger; run_seed re-seeds  *)
(* the locators it is given, one after another, and stops at the first     *)
(* exception.  The environment's consumers land the rows when they like,   *)
(* or never; credentials lapse; any call may fail; the process may die.    *)
(***************************************************************************)
EXTENDS Naturals, Sequences, FiniteSets, FiniteSetsExt

CONSTANTS
  N,         \* number of cases of the feed's catalog
  NoData,    \* cases without a dataset row, or seed_pending
  Other,     \* cases whose system code is no disruption verdict
  Commands,  \* bound: the command lines of each run, [all, verify, limit, given]
  Workers,   \* --workers
  Pool,      \* bound: locators a run draws from, and given ones
  MaxRuns    \* bound: number of campaigns

Case == 1..N

\* A locator is the run that minted it and its draw; run 0 stands for the
\* locators users give.  Two runs are taken never to draw the same locator
\* (24 * 32^5 of them): `used` in fresh_pnr guards one run only.
Drawn(r) == {r} \X (1..Pool)
Locator == (0..MaxRuns) \X (1..Pool)

Topic == <<"PNR", "TKT", "FDM-SKD", "FDM-DELAY", "AACC">>

ASSUME SeedAssumption ==
  /\ N \in Nat
  /\ NoData \subseteq Case
  /\ Other \subseteq Case
  /\ DOMAIN Commands = 1..MaxRuns
  /\ \A r \in 1..MaxRuns : \A c \in Commands[r] :
       /\ c \in [all : BOOLEAN, verify : BOOLEAN, limit : Nat, given : Seq(Drawn(0))]
       /\ Len(c.given) <= N
  /\ Workers \in Nat
  /\ MaxRuns \in Nat \ {0}
  /\ Pool \in Nat /\ Cardinality(Case \ (NoData \cup Other)) <= Pool

VARIABLES
  run,       \* number of the campaign
  cmd,       \* its command line
  phase,     \* where it is: "idle", "publish", "preflight", "pool"
  stage,     \* the topic it publishes to
  loc,       \* the locator of each case it seeds
  step,      \* where the pin and verify of each case is
  gate,      \* the gate each finished case got
  sent,      \* PNR and TKT messages the broker accepted
  rows,      \* those whose row a consumer wrote
  creds,     \* whether the AWS credentials are valid
  traces,    \* the runs whose pins the rule engine holds for each locator
  sidecars,  \* checkpoint files, by clone directory (its run) and locator
  ledgers,   \* the seed-mapping.json of each run
  exit       \* what each run returned

vars == <<run, cmd, phase, stage, loc, step, gate, sent, rows, creds, traces,
          sidecars, ledgers, exit>>

Chosen == DOMAIN loc
Off == [c \in Case |-> "none"]
NoLedger == [seeded |-> <<>>, skipped |-> <<>>]

Init ==
  /\ run = 0
  /\ cmd \in Commands[1]
  /\ phase = "idle"
  /\ stage = 1
  /\ loc = <<>>
  /\ step = Off
  /\ gate = Off
  /\ sent = {}
  /\ rows = {}
  /\ creds = TRUE
  /\ traces = [l \in Locator |-> <<>>]
  /\ sidecars = {}
  /\ ledgers = [r \in 1..MaxRuns |-> NoLedger]
  /\ exit = [r \in 1..MaxRuns |-> "none"]

-----------------------------------------------------------------------------
(* The environment: external.                                                *)

\* A consumer writes the row of a message; nothing says when, or that it will.
Land(m) ==
  /\ m \in sent \ rows
  /\ rows' = rows \cup {m}
  /\ UNCHANGED <<run, cmd, phase, stage, loc, step, gate, sent, creds, traces,
                 sidecars, ledgers, exit>>

\* The one-hour token lapses; the user logs in before the next campaign.
Lapse ==
  /\ creds /\ phase # "idle"
  /\ creds' = FALSE
  /\ UNCHANGED <<run, cmd, phase, stage, loc, step, gate, sent, rows, traces,
                 sidecars, ledgers, exit>>

-----------------------------------------------------------------------------
(* Selection and publication.                                                *)

\* The cases `--all` seeds: a verdict to pin, and not beyond --limit.
Seedable == Case \ (NoData \cup Other)
Selected(k) == {c \in Seedable : Cardinality({d \in Seedable : d < c}) < k}
Skipped == [c \in NoData \cup Other |-> IF c \in NoData THEN "no_data" ELSE "non_disruption"]

\* Faulty variant: the locators of a run are drawn without the `used` guard.
MintsAnew(f, k) == f \in [Selected(k) -> Drawn(run')]

\* fresh_pnr draws until the locator is new to the run.
Mints(f, k) ==
  /\ f \in [Selected(k) -> Drawn(run')]
  /\ \A c, d \in Selected(k) : f[c] = f[d] => c = d

\* Select the cases, mint their locators or take the given ones, render.
Begin(c) ==
  /\ phase = "idle"
  /\ run < MaxRuns
  /\ c \in Commands[run + 1]
  /\ run' = run + 1
  /\ cmd' = c
  /\ phase' = "publish"
  /\ stage' = 1
  /\ IF c.all THEN \E f \in [Selected(c.limit) -> Drawn(run')] : Mints(f, c.limit) /\ loc' = f
              ELSE loc' = c.given
  /\ step' = Off
  /\ gate' = Off
  /\ creds' = TRUE
  /\ UNCHANGED <<sent, rows, traces, sidecars, ledgers, exit>>

\* The campaign is over; workers still running die with the process.
Over(code) ==
  /\ phase' = "idle"
  /\ step' = Off
  /\ exit' = [exit EXCEPT ![run] = code]

\* The messages of the stage; only those whose rows somebody reads count.
Messages(cs) == {<<Topic[stage], loc[c]>> : c \in cs} \cap ({"PNR", "TKT"} \X Locator)

AfterPublish == IF cmd.all /\ cmd.verify THEN "preflight" ELSE "pool"

LastStage == stage = Len(Topic)

\* One stage of kafka_seed.seed: send, flush, settle.
Publish ==
  /\ phase = "publish"
  /\ stage = 1 => creds              \* make_producer reads the broker's secret
  /\ sent' = sent \cup Messages(Chosen)
  /\ IF LastStage
     THEN /\ phase' = AfterPublish
          /\ step' = [c \in Case |-> IF c \in Chosen THEN "todo" ELSE "none"]
          /\ UNCHANGED stage
     ELSE stage' = stage + 1 /\ UNCHANGED <<phase, step>>
  /\ UNCHANGED <<run, cmd, loc, gate, rows, creds, traces, sidecars, ledgers, exit>>

\* send or flush raises after some of the messages: nobody catches it.
PublishFails ==
  /\ phase = "publish"
  /\ \E cs \in SUBSET Chosen : sent' = sent \cup Messages(cs)
  /\ Over("raised")
  /\ UNCHANGED <<run, cmd, stage, loc, gate, rows, creds, traces, sidecars, ledgers>>

Entries(g) == [seeded |-> [c \in Chosen |-> [loc |-> loc[c], gate |-> g[c]]], skipped |-> Skipped]

\* preflight_credentials, and the ledger and exit 2 when they do not hold.
Preflight ==
  /\ phase = "preflight"
  /\ creds
  /\ phase' = "pool"
  /\ UNCHANGED <<run, cmd, stage, loc, step, gate, sent, rows, creds, traces,
                 sidecars, ledgers, exit>>

PreflightFails ==
  /\ phase = "preflight"
  /\ ledgers' = [ledgers EXCEPT ![run] = Entries([c \in Chosen |-> "published_unverified"])]
  /\ Over("2")
  /\ UNCHANGED <<run, cmd, stage, loc, gate, sent, rows, creds, traces, sidecars>>

-----------------------------------------------------------------------------
(* Pin and verify, case by case.                                             *)

Todo == {c \in Chosen : step[c] = "todo"}
Busy == {c \in Chosen : step[c] \notin {"none", "todo", "done"}}
Slots == IF ~cmd.all THEN 1 ELSE Max({1, Workers})

\* Worker steps that leave everything else alone.
Moves(c, at, to) ==
  /\ step[c] = at
  /\ step' = [step EXCEPT ![c] = to]
Kept == <<run, cmd, phase, stage, loc, sent, rows, creds, ledgers, exit>>

\* An idle worker takes the next case.
Take(c) ==
  /\ phase = "pool"
  /\ c \in Todo
  /\ \A d \in Todo : c <= d
  /\ Cardinality(Busy) < Slots
  /\ Moves(c, "todo", IF cmd.verify THEN "trip" ELSE "put")
  /\ UNCHANGED <<Kept, gate, traces, sidecars>>

\* A case is through: the record of _pin_and_verify_one.
Gets(c, g) ==
  /\ step' = [step EXCEPT ![c] = "done"]
  /\ gate' = [gate EXCEPT ![c] = g]

Landed(t, c) == <<t, loc[c]>> \in rows

\* _trip_landed: without a trip row the case is not pinned.
TripFound(c) ==
  /\ creds
  /\ Landed("PNR", c)
  /\ Moves(c, "trip", "put")
  /\ UNCHANGED <<Kept, gate, traces, sidecars>>

\* Faulty variant: the case is pinned all the same.
TripIgnored(c) ==
  /\ creds
  /\ ~Landed("PNR", c)
  /\ Moves(c, "trip", "put")
  /\ UNCHANGED <<Kept, gate, traces, sidecars>>

TripMissing(c) ==
  /\ creds
  /\ step[c] = "trip"
  /\ ~Landed("PNR", c)
  /\ Gets(c, "trip_missing")
  /\ UNCHANGED <<Kept, traces, sidecars>>

\* put_response: the determination, under a fresh S3 key.
Put(c) ==
  /\ creds
  /\ Moves(c, "put", "delete")
  /\ UNCHANGED <<Kept, gate, traces, sidecars>>

\* pin_trace, first statement: autocommit, so it stands whatever follows.
Delete(c) ==
  /\ creds
  /\ Moves(c, "delete", "insert")
  /\ traces' = [traces EXCEPT ![loc[c]] = <<>>]
  /\ UNCHANGED <<Kept, gate, sidecars>>

\* Where a pinned case goes on: without --verify it is through.
Pinned(c) == IF cmd.verify THEN step' = [step EXCEPT ![c] = "verify"] /\ UNCHANGED gate
                           ELSE Gets(c, "seeded")

\* pin_trace, second statement.
Insert(c) ==
  /\ step[c] = "insert"
  /\ traces' = [traces EXCEPT ![loc[c]] = Append(@, run)]
  /\ Pinned(c)
  /\ UNCHANGED <<Kept, sidecars>>

\* pin_trace raises anywhere, after the insert took effect or before.
PinTraceFails(c) ==
  /\ step[c] \in {"delete", "insert"}
  /\ step' = [step EXCEPT ![c] = "ecs"]
  /\ \/ UNCHANGED traces
     \/ step[c] = "insert" /\ traces' = [traces EXCEPT ![loc[c]] = Append(@, run)]
  /\ UNCHANGED <<Kept, gate, sidecars>>

\* pin_trace_ecs runs delete and insert in one psql -c: one transaction.
Replaces(c) == traces' = [traces EXCEPT ![loc[c]] = <<run>>]

PinTraceEcs(c) ==
  /\ creds
  /\ step[c] = "ecs"
  /\ Replaces(c)
  /\ Pinned(c)
  /\ UNCHANGED <<Kept, sidecars>>

\* verify_by_pnr reads the determination back.
VerifyByPnr(c) ==
  /\ traces[loc[c]] # <<>>
  /\ Moves(c, "verify", "audit")
  /\ UNCHANGED <<Kept, gate, traces, sidecars>>

\* No check of the vector is false: the rows are there, the pin is this run's.
AuditGate(c) == IF Landed("PNR", c) /\ Landed("TKT", c) /\ traces[loc[c]] = <<run>>
                THEN "all-pass" ELSE "checkpoint_fail"

\* _audit_checkpoints and _write_checkpoints.
Audit(c) ==
  /\ creds
  /\ step[c] = "audit"
  /\ Gets(c, AuditGate(c))
  /\ sidecars' = sidecars \cup {<<run, loc[c]>>}
  /\ UNCHANGED <<Kept, traces>>

\* A call raises, pin_trace_ecs perhaps after it took effect (290 s timeout).
\* run_seed_all isolates the case, run_seed ends.
CaseFails(c) ==
  /\ c \in Busy
  /\ IF cmd.all THEN Gets(c, "error") /\ UNCHANGED <<phase, exit>>
                ELSE Over("raised") /\ UNCHANGED gate
  /\ \/ UNCHANGED traces
     \/ step[c] = "ecs" /\ Replaces(c)
  /\ UNCHANGED <<run, cmd, stage, loc, sent, rows, creds, sidecars, ledgers>>

Good == IF cmd.all THEN {"seeded", "all-pass"} ELSE {"seeded", "all-pass", "checkpoint_fail"}

ExitCode(g) == IF \E c \in Chosen : g[c] \in Good THEN "0" ELSE "1"

\* Faulty variant: the cases whose worker failed are left out of the ledger.
MappingWithoutErrors(g) ==
  [seeded |-> [c \in {d \in Chosen : g[d] # "error"} |-> [loc |-> loc[c], gate |-> g[c]]],
   skipped |-> Skipped]

\* The doc of _write_mapping: the record of every case, in catalog order.
Mapping(g) == Entries(g)

\* Faulty variant: a case whose worker failed never counts as through.
ThroughWithoutErrors == \A c \in Chosen : step[c] = "done" /\ gate[c] # "error"

\* pool.map has every record, or the loop of run_seed is over.
Through == \A c \in Chosen : step[c] = "done"

\* Every case is through: the ledger of run_seed_all, and the exit code.
Finish ==
  /\ phase = "pool"
  /\ Through
  /\ ledgers' = IF cmd.all THEN [ledgers EXCEPT ![run] = Mapping(gate)] ELSE ledgers
  /\ Over(ExitCode(gate))
  /\ UNCHANGED <<run, cmd, stage, loc, gate, sent, rows, creds, traces, sidecars>>

\* The process dies anywhere.
Killed ==
  /\ phase # "idle"
  /\ Over("killed")
  /\ UNCHANGED <<run, cmd, stage, loc, gate, sent, rows, creds, traces, sidecars, ledgers>>

Works(c) ==
  \/ Take(c)
  \/ TripFound(c) \/ TripMissing(c)
  \/ Put(c)
  \/ Delete(c) \/ Insert(c) \/ PinTraceFails(c) \/ PinTraceEcs(c)
  \/ VerifyByPnr(c) \/ Audit(c)
  \/ CaseFails(c)

Program ==
  \/ Publish \/ PublishFails
  \/ Preflight \/ PreflightFails
  \/ \E c \in Chosen : Works(c)
  \/ Finish

Next ==
  \/ \E r \in 1..MaxRuns : \E c \in Commands[r] : Begin(c)
  \/ Program
  \/ Killed
  \/ Lapse
  \/ \E m \in sent : Land(m)

Spec == Init /\ [][Next]_vars

\* The campaign runs: every call it makes has a timeout.
FairSpec == Spec /\ WF_vars(Program)

-----------------------------------------------------------------------------
(* Properties.                                                               *)

Gate == {"trip_missing", "seeded", "all-pass", "checkpoint_fail", "error", "published_unverified"}
Step == {"none", "todo", "trip", "put", "delete", "insert", "ecs", "verify", "audit", "done"}

\* Every variable has its type; gates are those the report knows, and only the
\* runs so far have left anything.
TypeOK ==
  /\ run \in 0..MaxRuns
  /\ \E r \in 1..MaxRuns : cmd \in Commands[r]
  /\ phase \in {"idle", "publish", "preflight", "pool"}
  /\ phase # "idle" => run > 0
  /\ stage \in 1..Len(Topic)
  /\ Chosen \subseteq Case /\ loc \in [Chosen -> Locator]
  /\ step \in [Case -> Step]
  /\ gate \in [Case -> Gate \cup {"none"}]
  /\ sent \subseteq {"PNR", "TKT"} \X Locator /\ rows \subseteq sent
  /\ creds \in BOOLEAN
  /\ traces \in [Locator -> Seq(1..run)]
  /\ sidecars \subseteq (1..run) \X Locator
  /\ DOMAIN ledgers = 1..MaxRuns
  /\ \A r \in 1..MaxRuns : DOMAIN ledgers[r].seeded \subseteq Case
  /\ exit \in [1..MaxRuns -> {"none", "0", "1", "2", "raised", "killed"}]

\* seed/dds_pin.py:324-350, 441-486: all pins have the same processed_at, so a
\* booking with two of them has no newest determination.  There is never more
\* than one, though the pin is two autocommitted statements, the fall-back may
\* follow an insert that took effect, and workers pin at the same time.
OneTrace == \A l \in Locator : Len(traces[l]) <= 1

\* What a gate says of the environment.
Truthful(r, e) ==
  /\ e.gate \in {"seeded", "all-pass", "checkpoint_fail"} => traces[e.loc] = <<r>>
  /\ e.gate \in {"all-pass", "checkpoint_fail"} =>
       <<"PNR", e.loc>> \in rows /\ <<r, e.loc>> \in sidecars
  /\ e.gate = "all-pass" => <<"TKT", e.loc>> \in rows
  /\ e.gate \in {"trip_missing", "published_unverified"} => traces[e.loc] = <<>>

\* The gates of a ledger stay true of its bookings, whatever failed while they
\* were pinned and whatever later campaigns do.
LedgerTruthful ==
  \A r \in 1..MaxRuns : \A c \in DOMAIN ledgers[r].seeded :
    Truthful(r, ledgers[r].seeded[c])

Published(r) == {l \in Drawn(r) : <<"PNR", l>> \in sent}

\* seed/cli.py:289-313: a campaign that returns has every booking it published
\* in its ledger, whatever became of it.
LedgerWhole ==
  \A r \in 1..MaxRuns : exit[r] \in {"0", "1", "2"} =>
    Published(r) = {ledgers[r].seeded[c].loc : c \in DOMAIN ledgers[r].seeded}

\* seed/cli.py:103, 300, 319: exit 0 means that a booking of the campaign can be
\* run, exit 2 that nothing was pinned, exit 1 that no case is good.
ExitTells ==
  phase = "idle" /\ run > 0 =>
    /\ exit[run] = "0" => \E c \in Chosen : gate[c] \in Good /\ traces[loc[c]] = <<run>>
    /\ exit[run] = "1" => \A c \in Chosen : gate[c] \notin Good
    /\ exit[run] = "2" => \A c \in Chosen : traces[loc[c]] = <<>>

\* What a campaign that returns leaves behind, ledger and exit code, is so.
ReturnTells == LedgerWhole /\ ExitTells

\* A campaign ends, whatever fails, lands or lapses.
CampaignEnds == phase # "idle" ~> phase = "idle"

\* catalog/fixtures.py: a rendered fixture's use case has the case id of its
\* meta.json, a cloned one the locator.
UcId(r, l) == IF r = l[1] THEN <<"case", r, l>> ELSE <<"locator", l>>

\* _seed_from_sidecar looks for the file named after the use case.
SidecarFor(r, l) == {s \in sidecars : s[1] = r /\ <<"locator", s[2]>> = UcId(r, l)}

\* The runner finds the checkpoints of every booking that has some.
SidecarFound == \A s \in sidecars : SidecarFor(s[1], s[2]) # {}

=============================================================================
