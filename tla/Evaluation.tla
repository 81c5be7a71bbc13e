------------------------------ MODULE Evaluation ------------------------------
(***************************************************************************)
(* The metrics of a run and the release gate: metrics/adapter.py maps the  *)
(* Results of a run folder to records, metrics/run.py picks the dialect of *)
(* the run and has evalkit/metrics.py write metrics.json, evalkit/gate.py  *)
(* holds that file against floors and against a baseline it may replace,   *)
(* and evalkit/coverage.py reads it once more.                             *)
(*                                                                         *)
(* Rates are in ten-thousandths, as round(x, 4) leaves them.  The reports  *)
(* of anomalies, checks, durations and turns are left out: no floor and no *)
(* comparison reads them.                                                  *)
(***************************************************************************)
EXTENDS Trajectory

CONSTANTS
  Case,          \* the scripted cases
  Expected,      \* what the catalog says of each
  Chat,          \* names of conversations
  Transcript,    \* the turns of each
  Wording,       \* the dialect each is worded in
  Run,           \* run folders: the Results of some of the cases
  Tolerance,     \* --tolerance
  MinN,          \* --min-n
  DoneMinN,      \* coverage's minimum sample
  MaxVersion,    \* bound on SCHEMA_VERSION
  MaxPromotions  \* bound on the promotions of one history of baselines

ASSUME ToleranceAssumption == Tolerance \in Nat
ASSUME BoundsAssumption == MaxVersion \in Nat \ {0} /\ MaxPromotions \in Nat

ASSUME RunAssumption ==
  \A run \in Run :
    /\ DOMAIN run \subseteq Case /\ IsFiniteSet(DOMAIN run)
    /\ \A c \in DOMAIN run : run[c].chat \in Chat

ASSUME TranscriptAssumption == \A chat \in Chat : IsTranscript(Transcript[chat])

\* The stages heard in a conversation that is read in a dialect.
Heard(chat, fmt) == DOMAIN StagesHit(Rendered(Transcript[chat]), fmt)

\* To be worded in a dialect is to show more stages in it than in the other;
\* a conversation of no dialect, such as an empty one, shows none of either.
ASSUME WordingAssumption ==
  \A chat \in Chat, fmt \in Dialect :
    /\ Wording[chat] = fmt =>
         \A other \in Dialect \ {fmt} : Cardinality(Heard(chat, fmt)) > Cardinality(Heard(chat, other))
    /\ Wording[chat] \notin Dialect => Heard(chat, fmt) = {}

Rate == 0 .. One
NoRate == -1          \* None
NoAmount == [currency |-> "none", value |-> 0]
Currency == {"CAD", "EUR", "GBP", "ILS", "USD"}

-----------------------------------------------------------------------------
(* From a Result to a record.                                                *)

\* The words judges and gap documents use for one outcome.
normalize_status(s) ==
  CASE s = "INELIGIBLE" -> "NOT_ELIGIBLE"
    [] s = "none" -> "UNKNOWN"
    [] OTHER -> s

\* A system code is its segments after the first: regime, class, number.
regime_from_code(code, fallback) == IF code # <<>> THEN code[1] ELSE fallback
decision_class_from_code(code) == IF Len(code) >= 2 THEN code[2] ELSE "UNKNOWN"
Prefix(code) == IF code = <<>> THEN <<"(none)">> ELSE SubSeq(code, 1, Min({2, Len(code)}))

\* The quote that parse_amounts finds in "<currency> <value>".
Quotes(amount) ==
  IF amount.currency \in Currency /\ amount.value # 0 THEN {amount} ELSE {}

\* bucket_error: the harness errors that are known, and those not fatal.
ErrorBuckets == {"end_probe_greeting_only", "max_turns_exhausted", "otp_fetch_failure",
                 "bot_reply_timeout", "send_access_denied"}
bucket_error(error) ==
  [bucket |-> IF error \in ErrorBuckets \cup {"none"} THEN error ELSE "other_error",
   fatal |-> error \notin {"none", "end_probe_greeting_only"}]

result_to_record(c, result) ==
  LET uc == Expected[c] IN
  [family |-> uc.family,
   regime |-> regime_from_code(uc.code, uc.regime),
   decision_class |-> decision_class_from_code(uc.code),
   system_code_prefix |-> Prefix(uc.code),
   expected_status |-> normalize_status(uc.status),
   expected_amount |-> uc.amount,
   actual_status |-> normalize_status(result.decision),
   quotes |-> Quotes(result.amount),
   overall_pass |-> result.passed,
   error |-> bucket_error(result.error),
   trajectory |-> NoTrajectory]

\* What annotate_trajectory finds, for every case, conversation and dialect.
Annotation ==
  [c \in Case |-> [chat \in Chat |-> [fmt \in Dialect |->
     Annotate(Transcript[chat], fmt, normalize_status(Expected[c].status), Expected[c].family)]]]

\* build_metrics up to compute_metrics: the records of a run, each annotated
\* in the one dialect of the run.
DialectOf(run) ==
  DetectDialect([c \in DOMAIN run |->
                   [fmt \in Dialect |-> Cardinality(DOMAIN Annotation[c][run[c].chat][fmt].hit)]])
Records(run) ==
  LET fmt == DialectOf(run)
  IN  [c \in DOMAIN run |->
         [result_to_record(c, run[c]) EXCEPT !.trajectory = Annotation[c][run[c].chat][fmt]]]

-----------------------------------------------------------------------------
(* metrics.json                                                              *)

TERMINAL_DECISIONS == {"ELIGIBLE", "NOT_ELIGIBLE", "NO_DETERMINATION"}

Ratio(num, den) == IF den = 0 THEN NoRate ELSE Round4(num, den)

\* _amounts_match: a quote in the expected currency within 2 %.
AmountsMatch(rec) ==
  IF rec.expected_amount = NoAmount THEN rec.quotes = {}
  ELSE \E q \in rec.quotes :
         /\ q.currency = rec.expected_amount.currency
         /\ LET exp == rec.expected_amount.value
                drift == IF exp > q.value THEN exp - q.value ELSE q.value - exp
            IN  50 * drift <= exp

\* The division by an expected amount of zero.
AmountRaises(rec) ==
  /\ rec.expected_amount # NoAmount /\ rec.expected_amount.value = 0
  /\ \E q \in rec.quotes : q.currency = rec.expected_amount.currency

\* _rescored_pass, with its exception for a claim that is to stay pending.
RescoredPass(rec) ==
  /\ AmountsMatch(rec)
  /\ \/ rec.actual_status = rec.expected_status
     \/ /\ rec.expected_status = "PENDING"
        /\ rec.actual_status \in {"ESCALATED", "NO_DETERMINATION"}
        /\ "case_reference_issued" \in DOMAIN rec.trajectory.hit

Clean(rec) == ~rec.error.fatal
RightDecision(rec) == rec.actual_status = rec.expected_status
Terminal(rec) == rec.actual_status \in TERMINAL_DECISIONS

Count(recs, Test(_)) == Cardinality({c \in DOMAIN recs : Test(recs[c])})
RateOf(recs, Test(_)) == Ratio(Count(recs, Test), Cardinality(DOMAIN recs))

\* The mean of the scores, of the cases that have one.
ScoreMean(recs) ==
  LET heard == {c \in DOMAIN recs : recs[c].trajectory.heard}
  IN  IF heard = {} THEN NoRate
      ELSE LET sum == SumFunction([c \in heard |-> recs[c].trajectory.score])
               n == Cardinality(heard)
           IN  (2 * sum + n) \div (2 * n)

SliceBundle(recs) ==
  [n |-> Cardinality(DOMAIN recs),
   passed |-> Count(recs, RescoredPass),
   goal_success |-> RateOf(recs, LAMBDA r : r.overall_pass),
   rescored_success |-> RateOf(recs, RescoredPass),
   clean_run |-> RateOf(recs, Clean),
   terminal_decision |-> RateOf(recs, Terminal),
   decision_accuracy |-> RateOf(recs, RightDecision),
   trajectory_mean |-> ScoreMean(recs)]

\* slice_by: the bundle of the records of every value of a key.
SliceBy(recs, key) ==
  [k \in {recs[c][key] : c \in DOMAIN recs} |->
     SliceBundle([c \in {d \in DOMAIN recs : recs[d][key] = k} |-> recs[c]])]

Headline(recs) ==
  LET heard == {c \in DOMAIN recs : recs[c].trajectory.heard} IN
  [goal_success_rate |-> RateOf(recs, LAMBDA r : r.overall_pass),
   rescored_success_rate |-> RateOf(recs, RescoredPass),
   judge_agreement |-> RateOf(recs, LAMBDA r : r.overall_pass = RescoredPass(r)),
   clean_run_rate |-> RateOf(recs, Clean),
   terminal_decision_rate |-> RateOf(recs, Terminal),
   decision_accuracy |-> RateOf(recs, RightDecision),
   amount_accuracy |-> RateOf(recs, AmountsMatch),
   intent_recognition_rate |->
     Ratio(Cardinality({c \in heard : recs[c].trajectory.intent}), Cardinality(heard)),
   trajectory_match_mean |-> ScoreMean(recs)]

\* Faulty variant: the labels are the expected statuses.
ConfusionOfExpected(recs) ==
  LET seen == {recs[c].expected_status : c \in DOMAIN recs}
  IN  [x \in seen \X seen |->
         Count(recs, LAMBDA r : r.expected_status = x[1] /\ r.actual_status = x[2])]

\* The confusion matrix, over the statuses that occur.
Confusion(recs) ==
  LET seen == UNION {{recs[c].expected_status, recs[c].actual_status} : c \in DOMAIN recs}
  IN  [x \in seen \X seen |->
         Count(recs, LAMBDA r : r.expected_status = x[1] /\ r.actual_status = x[2])]

\* The rows of the cases.
CaseRows(recs) ==
  [c \in DOMAIN recs |->
     [system_code_prefix |-> recs[c].system_code_prefix,
      expected_status |-> recs[c].expected_status,
      actual_status |-> recs[c].actual_status,
      overall_pass |-> recs[c].overall_pass,
      rescored_pass |-> RescoredPass(recs[c]),
      trajectory |-> recs[c].trajectory]]

compute_metrics(recs) ==
  [headline |-> Headline(recs),
   confusion |-> Confusion(recs),
   slices |->
     [d \in {"family", "regime", "expected_status", "decision_class", "system_code_prefix"} |->
        SliceBy(recs, d)],
   stage_coverage |->
     [s \in Stage |-> RateOf(recs, LAMBDA r : s \in DOMAIN r.trajectory.hit)],
   error_buckets |->
     [b \in ErrorBuckets \cup {"other_error"} |-> Count(recs, LAMBDA r : r.error.bucket = b)],
   cases |-> CaseRows(recs)]

\* The folders build_metrics gets through, and what it writes for each.
Builds(run) == DOMAIN run # {} /\ \A c \in DOMAIN run : ~AmountRaises(Records(run)[c])
Measured == [run \in {r \in Run : Builds(r)} |-> compute_metrics(Records(run))]

-----------------------------------------------------------------------------
(* The coverage matrix: one row per prefix of the system codes.              *)

DONE_MIN_SCORE == 9000

build_rows(m) ==
  LET of(prefix) == {c \in DOMAIN m.cases : m.cases[c].system_code_prefix = prefix}
      row(cases) ==
        LET n == Cardinality(cases)
            good == Cardinality({c \in cases : m.cases[c].rescored_pass})
        IN  [examples |-> n,
             status |-> IF n < DoneMinN THEN "under-sampled"
                        ELSE IF One * good >= DONE_MIN_SCORE * n THEN "done" ELSE "partial"]
  IN  [prefix \in {m.cases[c].system_code_prefix : c \in DOMAIN m.cases} |-> row(of(prefix))]

-----------------------------------------------------------------------------
(* The gate.                                                                 *)

\* WATCHED: the floor of every watched metric.
Floor ==
  [rescored_success_rate |-> 7000, decision_accuracy |-> 8000,
   intent_recognition_rate |-> 9500, trajectory_match_mean |-> 7500, amount_accuracy |-> 7500]
Watched == DOMAIN Floor

\* The rates of the slices the gate compares, of those with enough cases.
SliceRates(m) ==
  LET dims == {"family", "regime", "expected_status"}
      keys == {<<d, k>> : d \in dims, k \in UNION {DOMAIN m.slices[d] : d \in dims}}
      big == {x \in keys : x[2] \in DOMAIN m.slices[x[1]] /\ m.slices[x[1]][x[2]].n >= MinN}
  IN  [x \in big |-> m.slices[x[1]][x[2]].rescored_success]

BelowFloor(m) == {w \in Watched : ~(m.headline[w] \in Rate /\ m.headline[w] >= Floor[w])}

\* Faulty variant: the two files change places.
RegressedSwapped(m, base) ==
  {w \in Watched : /\ m.headline[w] \in Rate /\ base.headline[w] \in Rate
                   /\ base.headline[w] < m.headline[w] - Tolerance}

Regressed(m, base) ==
  {w \in Watched : /\ m.headline[w] \in Rate /\ base.headline[w] \in Rate
                   /\ m.headline[w] < base.headline[w] - Tolerance}

SlicesRegressed(m, base) ==
  {x \in DOMAIN SliceRates(m) \cap DOMAIN SliceRates(base) :
     SliceRates(m)[x] < SliceRates(base)[x] - Tolerance}

-----------------------------------------------------------------------------
(* The state: a run folder with its metrics.json, the baseline file, and the *)
(* version of the schema the tools write.                                    *)

None == "none"

\* A file that is not there, one whose writing was cut off, a whole one.
NoFile == [is |-> "absent"]
Broken == [is |-> "broken"]
Written(m, version) == [is |-> "whole", schema_version |-> version, m |-> m]
File(x) == x.is = "whole"

VARIABLES
  folder,    \* the run being evaluated
  metrics,   \* its metrics.json
  schema,    \* SCHEMA_VERSION
  baseline,  \* the last promoted metrics.json
  outcome,   \* how the last command ended
  history,   \* ghost: the first of the promotions the baseline comes from
             \* and how many followed it
  known      \* ghost: what was promoted last and not removed since

vars == <<folder, metrics, schema, baseline, outcome, history, known>>

Watch(m) == [w \in Watched |-> m.headline[w]]

Init ==
  /\ folder \in Run
  /\ metrics = NoFile /\ schema = 1 /\ baseline = NoFile /\ outcome = None
  /\ history = [first |-> Floor, promoted |-> 0] /\ known = NoFile

\* Another run is evaluated, in a folder of its own.
NewRun ==
  /\ folder' \in Run
  /\ metrics' = NoFile /\ outcome' = None
  /\ UNCHANGED <<schema, baseline, history, known>>

\* build_metrics writes metrics.json, or is killed in the middle of it.
BuildMetrics ==
  /\ Builds(folder)
  /\ metrics' = Written(Measured[folder], schema)
  /\ outcome' = "built"
  /\ UNCHANGED <<folder, schema, baseline, history, known>>

BuildInterrupted ==
  /\ Builds(folder)
  /\ metrics' = Broken
  /\ outcome' = None
  /\ UNCHANGED <<folder, schema, baseline, history, known>>

\* It raises before it writes: no Results, or a division by zero.
BuildRaises ==
  /\ ~Builds(folder)
  /\ outcome' = "raised"
  /\ UNCHANGED <<folder, metrics, schema, baseline, history, known>>

\* The baseline takes part in the comparison.
Comparable == File(baseline) /\ baseline.schema_version = metrics.schema_version

\* run_gate: no watched metric below its floor, none that regressed.
Passes ==
  /\ BelowFloor(metrics.m) = {}
  /\ Comparable => /\ Regressed(metrics.m, baseline.m) = {}
                   /\ SlicesRegressed(metrics.m, baseline.m) = {}

\* Faulty variant: a baseline that cannot be read is taken as none.
GateReadsOn == File(metrics)

GateReads == File(metrics) /\ baseline # Broken

\* The gate gives its verdict and leaves the baseline.
Gate ==
  /\ GateReads
  /\ outcome' = IF Passes THEN "pass" ELSE "fail"
  /\ UNCHANGED <<folder, metrics, schema, baseline, history, known>>

\* --update-baseline and no failures: the run becomes the baseline.
Promote ==
  /\ GateReads /\ Passes
  /\ baseline' = metrics /\ known' = metrics
  /\ outcome' = "pass"
  /\ IF Comparable
     THEN /\ history.promoted < MaxPromotions
          /\ history' = [history EXCEPT !.promoted = @ + 1]
     ELSE history' = [first |-> Watch(metrics.m), promoted |-> 0]
  /\ UNCHANGED <<folder, metrics, schema>>

\* The gate is killed after it opened the baseline for writing.
PromoteInterrupted ==
  /\ GateReads /\ Passes
  /\ baseline' = Broken
  /\ outcome' = None
  /\ UNCHANGED <<folder, metrics, schema, history, known>>

\* metrics.json cannot be read, or else the baseline cannot.
GateRaises ==
  /\ ~GateReads
  /\ outcome' = "raised"
  /\ UNCHANGED <<folder, metrics, schema, baseline, history, known>>

\* The definitions change and SCHEMA_VERSION with them.
Upgrade ==
  /\ schema < MaxVersion
  /\ schema' = schema + 1
  /\ UNCHANGED <<folder, metrics, baseline, outcome, history, known>>

\* Someone deletes the baseline, the only way on from a broken one.
RemoveBaseline ==
  /\ baseline # NoFile
  /\ baseline' = NoFile
  /\ known' = NoFile
  /\ UNCHANGED <<folder, metrics, schema, outcome, history>>

Next ==
  \/ NewRun \/ BuildMetrics \/ BuildInterrupted \/ BuildRaises
  \/ Gate \/ Promote \/ PromoteInterrupted \/ GateRaises
  \/ Upgrade \/ RemoveBaseline

Spec == Init /\ [][Next]_vars

-----------------------------------------------------------------------------
(* The properties.                                                           *)

\* Every variable keeps to its range, and no file is of a schema version that
\* is not there yet.
TypeOK ==
  /\ folder \in Run /\ schema \in 1 .. MaxVersion
  /\ outcome \in {None, "built", "pass", "fail", "raised"}
  /\ \A file \in {metrics, baseline} : File(file) => file.schema_version \in 1 .. schema
  /\ history.first \in [Watched -> Rate] /\ history.promoted \in 0 .. MaxPromotions

\* A run that passes the gate clears the floors and is not worse than what was
\* promoted last, whatever happened to the baseline since: a gate that was killed
\* while it replaced the file does not lift the comparison for the runs that come
\* after.  Only who deletes the baseline does, or a new version of the schema.
PassNotWorse ==
  [][(Gate \/ Promote) /\ outcome' = "pass" =>
       /\ BelowFloor(metrics.m) = {}
       /\ File(known) /\ known.schema_version = metrics.schema_version =>
            /\ Regressed(metrics.m, known.m) = {}
            /\ SlicesRegressed(metrics.m, known.m) = {}]_vars

\* A watched metric sinks by at most the tolerance with every promotion: after
\* n of them it is within n tolerances of the first baseline of its version.
DriftBounded ==
  File(baseline) =>
    \A w \in Watched : history.first[w] - baseline.m.headline[w] <= Tolerance * history.promoted

\* A matrix in which every use case is done is the matrix of a run whose
\* re-scored success is above the gate's floor.
DoneMeansFloor ==
  File(metrics) =>
    ((\A row \in {build_rows(metrics.m)[p] : p \in DOMAIN build_rows(metrics.m)} :
        row.status = "done")
       => "rescored_success_rate" \notin BelowFloor(metrics.m))

\* What is made of one run agrees.  The three places of metrics.json that count
\* the same thing: the diagonal of the confusion matrix is the decision
\* accuracy, every dimension of the slices has each case once, the slices'
\* re-scored passes are the rows', and what the headline gives is a rate or
\* missing.  And the coverage matrix and the gate (DoneMeansFloor).
OutputsAgree ==
  File(metrics) =>
    LET m == metrics.m
        n == Cardinality(DOMAIN m.cases)
        right == [x \in DOMAIN m.confusion |-> IF x[1] = x[2] THEN m.confusion[x] ELSE 0]
        good == Cardinality({c \in DOMAIN m.cases : m.cases[c].rescored_pass})
    IN  /\ DoneMeansFloor
        /\ \A h \in DOMAIN m.headline : m.headline[h] \in Rate \cup {NoRate}
        /\ SumFunction(m.confusion) = n
        /\ m.headline.decision_accuracy = Ratio(SumFunction(right), n)
        /\ m.headline.rescored_success_rate = Ratio(good, n)
        /\ \A d \in DOMAIN m.slices :
             /\ SumFunction([k \in DOMAIN m.slices[d] |-> m.slices[d][k].n]) = n
             /\ SumFunction([k \in DOMAIN m.slices[d] |-> m.slices[d][k].passed]) = good

\* The re-score of a case is its own: only a case that is to stay pending can
\* be passed or failed by the dialect the other cases of the run speak.
RescoreLocal ==
  File(metrics) =>
    \A c \in DOMAIN metrics.m.cases :
      LET alone == Records([d \in {c} |-> folder[c]])[c]
      IN  alone.expected_status # "PENDING" =>
            metrics.m.cases[c].rescored_pass = RescoredPass(alone)

\* A run whose conversations are all worded in one dialect is read in it, with
\* any number of them empty.
DialectOfRun ==
  \A fmt \in Dialect :
    ((\A c \in DOMAIN folder : Wording[folder[c].chat] \in {fmt, None})
       /\ \E c \in DOMAIN folder : Wording[folder[c].chat] = fmt)
    => DialectOf(folder) = fmt

\* Although one dialect is picked for a whole run from all its conversations,
\* cases do not get into each other's way.
CasesKeptApart == RescoreLocal /\ DialectOfRun

\* The scores of a conversation that starts again, from its beginning and up
\* to any turn, for a case with these stages; up to none comes first.
RestartScores ==
  [name \in Chat |-> [status \in {"ELIGIBLE", "NOT_ELIGIBLE"} |-> [family \in {"CORE", "PAY"} |->
     LET chat == Transcript[name] IN
     [k \in 0 .. Len(chat) |->
        Annotate(chat \o SubSeq(chat, 1, k), Wording[name], status, family).score]]]]

\* Where the intent is spoken of, it is heard: not only before the customer
\* says anything.
IntentInScope(text) == Places(text, IntentPhrases) # {} => IntentPlaces(text) # {}

\* A conversation that starts again scores as it did before.
RestartEarnsNothing ==
  \A c \in DOMAIN folder, status \in {"ELIGIBLE", "NOT_ELIGIBLE"}, family \in {"CORE", "PAY"} :
    LET scores == RestartScores[folder[c].chat][status][family]
    IN  IntentInScope(Rendered(Transcript[folder[c].chat]))
          => \A k \in DOMAIN scores : scores[k] = scores[0]

\* A conversation that reaches every stage expected of its case, each no later
\* than those designed to come after it, and the intent before some other,
\* scores the places where it reached them: stages heard in one phrase count
\* once, and the intent, which has no place of its own, does not count.
FlowCounted ==
  \A c \in DOMAIN folder :
    LET fmt == DialectOf(folder)
        a == Annotation[c][folder[c].chat][fmt]
        expected == expected_stages(Expected[c].status, Expected[c].family)
        stages == {expected[i] : i \in DOMAIN expected}
        designed == {s \in stages : StagePos(s, fmt) # NoPos}
    IN  (/\ stages \subseteq DOMAIN a.hit
         /\ \A s, t \in designed : StagePos(s, fmt) < StagePos(t, fmt) => a.hit[s] <= a.hit[t]
         /\ \E s \in designed : a.hit["intent_recognized"] <= a.hit[s])
        => a.score = Round4(Cardinality({a.hit[s] : s \in designed}), Len(expected))

\* The flow score is earned: by reaching the stages of the case in the order
\* they were designed, and by nothing that is only said again.
ScoreEarned == RestartEarnsNothing /\ FlowCounted
=============================================================================
