-------------------------------- MODULE QaLoop --------------------------------
(***************************************************************************)
(* A clone directory from its seeding to the tickets: `cctqa seed` pins    *)
(* and audits each case, `cctqa run` lets the runner chat about it and     *)
(* judge the chat, `analysis` grades the results and compares them with    *)
(* the run before, `jira` picks the defects.  DdsVerdict has the functions *)
(* that say what is pinned, audited and expected; the modules of the       *)
(* single stages have their interleavings.  Here a stage is one step for a *)
(* case, and the question is whether what one stage says is what the next  *)
(* takes it for.  The bot tells the customer whatever it likes.            *)
(***************************************************************************)
EXTENDS DdsVerdict, FiniteSets

CONSTANTS
  Case,       \* the cases of the campaign
  Deck,       \* the cards each case may have, [kind, regime, uc or meta]
  Told,       \* what a bot may tell a customer, [decision, amount]
  Errors,     \* the harness errors a session may end with
  JudgeFails, \* whether Bedrock may fail to judge
  MaxRounds   \* bound: runs of the clone directory

ErrorKinds == {"bot_reply_timeout", "otp", "send_denied", "greeting_only", "bedrock",
               "throttled", "no_turn", "lookup_outage", "max_turns"}

\* What a leg of a determination says, and what meta.json says of a fixture.
LegEntry == [status : Verdict \cup {"ESCALATED", "UNKNOWN"}, code : Code,
             pay : Money \cup {None}]
Meta == [code : Code \cup {None}, amount : Money \cup {None},
         note : [hint : Verdict \cup {"ESCALATED", "UNKNOWN"}, amount : Money \cup {None}]]

ASSUME LoopAssumption ==
  /\ DOMAIN Deck = Case
  /\ \A c \in Case : \A d \in Deck[c] :
       IF d.kind = "minted" THEN d.uc \in UseCase ELSE d.meta \in Meta
  /\ None \notin [Leg -> LegEntry] /\ None \notin {"pass", "PASS"}
  /\ Errors \subseteq ErrorKinds
  /\ JudgeFails \in BOOLEAN
  /\ MaxRounds \in Nat \ {0}

VARIABLES
  card,     \* the catalog's card or the fixture each case comes from
  det,      \* the determination the rule engine has for its booking
  expected, \* the use case the runner reads from its fixture
  sidecar,  \* what the checkpoint file the runner finds says
  round,    \* number of the run
  result,   \* the Results of the run folder
  doc,      \* the analysis of the run
  prev      \* the statuses of the run before

vars == <<card, det, expected, sidecar, round, result, doc, prev>>

Unknown == [decision |-> "UNKNOWN", amount |-> None]

\* A minted card is a use case of the catalog, a cloned one a fixture.
Minted(c) == card[c].kind = "minted"

Init ==
  /\ card \in {f \in [Case -> UNION {Deck[c] : c \in Case}] : \A c \in Case : f[c] \in Deck[c]}
  /\ \A c \in Case : card[c].kind = "minted" => SeedableVerdict(card[c].uc)
  /\ det = [c \in Case |-> None]
  /\ expected = [c \in Case |-> None]
  /\ sidecar = [c \in Case |-> None]
  /\ round = 1
  /\ result = [c \in Case |-> None]
  /\ doc = None
  /\ prev = [c \in Case |-> None]

-----------------------------------------------------------------------------
(* Seeding.                                                                  *)

Fixture(c) == UsecaseFromMeta(IF Minted(c) THEN RenderedMeta(card[c].uc) ELSE card[c].meta)

\* The use case whose seed is audited: the catalog's, or the fixture's own.
Audited(c) == IF Minted(c) THEN card[c].uc ELSE Fixture(c)

Pinned(c) == IF Minted(c) THEN Pin(card[c].uc) ELSE PinFamily(Fixture(c), card[c].regime)

\* The checkpoint file is named after the locator and looked for under the
\* case's id, which are the same for a cloned booking only.
Sidecar(c, rows) ==
  IF Minted(c) THEN None
  ELSE IF AllOk(Audited(c), ExtractVerdict(Pinned(c)), rows) THEN "pass" ELSE "fail"

\* The fixture is written, the determination pinned, read back and audited.
Seed(c, rows) ==
  /\ round = 1 /\ expected[c] = None
  /\ expected' = [expected EXCEPT ![c] = Fixture(c)]
  /\ det' = [det EXCEPT ![c] = Pinned(c)]
  /\ sidecar' = [sidecar EXCEPT ![c] = Sidecar(c, rows)]
  /\ UNCHANGED <<card, round, result, doc, prev>>

\* The trip has not landed, or the pin raises: the fixture is there, a
\* determination is not.
SeedFails(c) ==
  /\ round = 1 /\ expected[c] = None
  /\ expected' = [expected EXCEPT ![c] = Fixture(c)]
  /\ UNCHANGED <<card, det, sidecar, round, result, doc, prev>>

-----------------------------------------------------------------------------
(* A run.                                                                    *)

\* _error_bucket of the runner.
ErrorBucket(error) ==
  CASE error = "lookup_outage" -> "outage"
    [] error = "otp" -> "otp"
    [] error = "throttled" -> "transient"
    [] error \in {"bedrock", "no_turn"} -> "driver"
    [] error = "max_turns" -> "incomplete"
    [] error \in {"bot_reply_timeout", "send_denied", "greeting_only"} -> "other"

\* The judge compares the outcome with the use case's verdict and amount.
Judge(c, told) ==
  [decision |-> told.decision,
   matches |-> told.decision = expected[c].verdict /\ told.amount = expected[c].amount]

NoVerdict == [decision |-> "UNKNOWN", matches |-> FALSE]

\* Failed checks are looked at where the outcome matches only, so they are
\* left out elsewhere.  Verdicts run_case may get: the judge's, or that of a judge which failed;
\* a chat with no transcript is not judged.
Verdicts(c, chat) ==
  (IF chat.told # None THEN {Judge(c, chat.told)} ELSE {})
    \cup (IF chat.told = None \/ JudgeFails THEN {NoVerdict} ELSE {})

\* Chats run_flow may return.  Only a driver that fails at once leaves no
\* transcript; a session after which the bot talks of an outage may have ended
\* without an error, as the words that end one are fewer.
Chats ==
  [told : Told, outage : BOOLEAN, error : {None} \cup (Errors \cap {"greeting_only", "max_turns"})]
    \cup [told : {Unknown}, outage : {FALSE}, error : Errors \ {"lookup_outage"}]
    \cup [told : {Unknown}, outage : {TRUE}, error : Errors \cap {"lookup_outage"}]
    \cup [told : {None}, outage : {FALSE}, error : Errors \cap {"bedrock", "throttled", "no_turn"}]

RunCase(c, chat, failed) ==
  /\ doc = None /\ expected[c] # None /\ result[c] = None
  /\ \E verdict \in Verdicts(c, chat) :
       /\ failed => verdict.matches
       /\ result' = [result EXCEPT ![c] =
            [chat |-> chat, verdict |-> verdict, failed |-> failed,
             verified |-> sidecar[c] = "pass",
             bucket |-> IF chat.error = None THEN None ELSE ErrorBucket(chat.error)]]
  /\ UNCHANGED <<card, det, expected, sidecar, round, doc, prev>>

-----------------------------------------------------------------------------
(* The analysis of a run folder.                                             *)

EnvBuckets == {"bot_reply_timeout", "otp_fetch_failure", "send_access_denied"}
InfraGrades == {"Harness FAIL", "Environment ERROR"}
InvalidGrades == {"Invalid PASS"}

StatusByGrade == [g \in {"Strong PASS", "Weak PASS", "Invalid PASS", "Valid FAIL"} \cup InfraGrades |->
  CASE g = "Strong PASS" -> "PASS" [] g = "Weak PASS" -> "WARN" [] g = "Invalid PASS" -> "INVALID"
    [] OTHER -> "FAIL"]

MatchGrade(r) ==
  IF r.failed THEN "Invalid PASS" ELSE IF r.verified THEN "Strong PASS" ELSE "Weak PASS"

\* Faulty variant: an outage the bot talks about is not looked for.
GradeWithoutOutage(r) ==
  IF r.chat.error # None THEN "Harness FAIL"
  ELSE IF r.verdict.matches THEN MatchGrade(r) ELSE "Valid FAIL"

Grade(r) ==
  CASE r.chat.error # None /\ r.bucket \in EnvBuckets -> "Environment ERROR"
    [] r.chat.error # None /\ r.bucket \notin EnvBuckets -> "Harness FAIL"
    [] r.chat.error = None /\ r.verdict.matches -> MatchGrade(r)
    [] r.chat.error = None /\ ~r.verdict.matches ->
         IF r.chat.outage THEN "Environment ERROR" ELSE "Valid FAIL"

Items == {c \in Case : result[c] # None}
Graded(c) == Grade(result[c])
Status(c) == IF c \in Items THEN StatusByGrade[Graded(c)] ELSE None

Working == {c \in Items : Graded(c) \notin InfraGrades \cup InvalidGrades}

Rollup ==
  [working |-> Working,
   pass |-> {c \in Working : Status(c) \in {"PASS", "WARN"}},
   fail |-> {c \in Working : Status(c) = "FAIL"},
   invalid |-> {c \in Items : Graded(c) \in InvalidGrades},
   infra |-> {c \in Items : Graded(c) \in InfraGrades}]

\* Faulty variant: the two sides are swapped.
MovedBack(before, after) == {c \in Case : prev[c] = after /\ Status(c) = before}

\* run_diff: cases with PASS or FAIL on both sides.
Moved(before, after) == {c \in Case : prev[c] = before /\ Status(c) = after}

RunDiff ==
  [newly_failing |-> Moved("PASS", "FAIL"), newly_passing |-> Moved("FAIL", "PASS"),
   still_failing |-> Moved("FAIL", "FAIL"), still_passing |-> Moved("PASS", "PASS")]

SelectDefects == {c \in Items : Graded(c) = "Valid FAIL"}

\* The run is over (it may have been aborted), and is analysed.
Analyze ==
  /\ doc = None /\ Items # {}
  /\ doc' = [summary |-> Rollup, diff |-> RunDiff, defects |-> SelectDefects]
  /\ UNCHANGED <<card, det, expected, sidecar, round, result, prev>>

\* The clone directory is run again.
RunAgain ==
  /\ doc # None /\ round < MaxRounds
  /\ round' = round + 1
  /\ prev' = [c \in Case |-> Status(c)]
  /\ result' = [c \in Case |-> None]
  /\ doc' = None
  /\ UNCHANGED <<card, det, expected, sidecar>>

Next ==
  \/ \E c \in Case :
       \/ \E rows \in BOOLEAN : Seed(c, rows)
       \/ SeedFails(c)
       \/ \E chat \in Chats, failed \in BOOLEAN : RunCase(c, chat, failed)
  \/ Analyze
  \/ RunAgain

Spec == Init /\ [][Next]_vars

-----------------------------------------------------------------------------
(* Properties.                                                               *)

Grades == DOMAIN StatusByGrade
Statuses == {"PASS", "WARN", "FAIL", "INVALID"}

\* The type invariant: determinations have the three legs of the template,
\* each with one of the statuses of the catalog.
TypeOK ==
  /\ \A c \in Case : card[c] \in Deck[c]
  /\ det \in [Case -> [Leg -> LegEntry] \cup {None}]
  /\ \A c \in Case : expected[c] # None => expected[c] \in UseCase
  /\ sidecar \in [Case -> {"pass", "fail", None}]
  /\ round \in 1 .. MaxRounds
  /\ \A c \in Items : result[c].chat \in Chats /\ Graded(c) \in Grades
  /\ prev \in [Case -> Statuses \cup {None}]

\* What the audit and the bot read back for a minted case is what the catalog
\* says of it, for eligible, ineligible, pending and undetermined cases alike:
\* the status is the pinned one, the code the case's own and not that of a leg
\* that does not apply, the amount the card's (extract_verdict of
\* canonicalize_verdict, seed/dds_pin.py).
AuditTells ==
  \A c \in Case :
    det[c] # None /\ Minted(c) /\ PinCode(card[c].uc) # None =>
      LET uc == card[c].uc
          answer == ExtractVerdict(det[c])
      IN /\ answer.eligible <=> PinStatus(uc) = "ELIGIBLE"
         /\ answer.code = PinCode(uc)
         /\ answer.amount = IF answer.eligible THEN PinAmount(uc) ELSE None

\* A determination is eligible on one leg at most, and for a case of several
\* regimes that is the leg whose currency it pays (the target of
\* canonicalize_verdict): a CAD leg paying in GBP cannot be surfaced.
EligibleOnOneLeg ==
  \A c \in Case : det[c] # None =>
    \A l \in Leg : det[c][l].status = "ELIGIBLE" =>
      /\ \A m \in Leg \ {l} : det[c][m].status # "ELIGIBLE"
      /\ det[c][l].code.regime \in {"MIXED", "DUP"} =>
           CurrencyRegime[det[c][l].pay.currency] = l

\* What was pinned can be read in one way only, and that is the catalog's.
DeterminationTells == AuditTells /\ EligibleOnOneLeg

\* A Strong PASS is earned: if the bot told the customer an amount, the rule
\* engine has a determination for the booking, it is eligible, and it is for
\* that amount (_audit_checkpoints, _seed_from_sidecar and grade).  Pinning,
\* auditing, judging and grading each have their own idea of the case.
StrongPassEarned ==
  \A c \in Items :
    /\ Graded(c) = "Strong PASS"
    /\ result[c].chat.told.decision = "ELIGIBLE" /\ result[c].chat.told.amount # None
    => /\ det[c] # None
       /\ ExtractVerdict(det[c]).eligible
       /\ ExtractVerdict(det[c]).amount = result[c].chat.told.amount.value

\* What goes to a ticket comes from a chat that ran to its end and in which
\* the bot did not report an outage; and the bot told something other than was
\* expected, unless the judge failed, which nobody tells from a defect (grade,
\* select_defects; "Only ``Valid FAIL`` is a real product defect", select.py).
NoNoiseTicket ==
  doc # None => \A c \in doc.defects :
    LET chat == result[c].chat
    IN /\ chat.error = None /\ ~chat.outage
       /\ \/ result[c].verdict = NoVerdict
          \/ chat.told.decision # expected[c].verdict
          \/ chat.told.amount # expected[c].amount

\* The pass rate is about the product: the cases it counts are split into
\* passes and failures, every failure among them is a ticket and every ticket
\* a failure, and what it leaves out is counted as infra or invalid (rollup).
RateIsOfProduct ==
  doc # None =>
    LET s == doc.summary
    IN /\ s.working = s.pass \cup s.fail /\ s.pass \cap s.fail = {}
       /\ s.fail = doc.defects
       /\ Items = s.working \cup s.infra \cup s.invalid
       /\ s.working \cap (s.infra \cup s.invalid) = {} /\ s.infra \cap s.invalid = {}

\* Neither tickets nor the pass rate are about the harness or the environment.
DefectsOfProduct == NoNoiseTicket /\ RateIsOfProduct

\* A case that fell from a Strong PASS to a defect is reported as newly
\* failing, and one reported as newly passing is a Strong PASS (run_diff).
RegressionReported ==
  doc # None =>
    /\ \A c \in doc.defects : prev[c] = "PASS" => c \in doc.diff.newly_failing
    /\ \A c \in doc.diff.newly_passing :
         Graded(c) = "Strong PASS" /\ prev[c] = "FAIL"

\* The runner expects a payment of a minted case where the rule engine has one,
\* and the same amount, if the class letter of the code in the fixture says what
\* the catalog says of the case.  The verdict is pinned after the catalog and
\* expected after the letter (fixtures.py:94), so where they differ, or the
\* code has no letter, the runner expects something else than is pinned.
ExpectsWhatIsPinned ==
  \A c \in Case : det[c] # None /\ Minted(c) =>
    LET uc == card[c].uc
        code == RenderedMeta(uc).code
        answer == ExtractVerdict(det[c])
    IN  /\ code # None /\ code.class \in Class
        /\ ClassStatus[code.class] = PinStatus(uc)
        => /\ expected[c].verdict = "ELIGIBLE" <=> answer.eligible
           /\ answer.eligible /\ uc.amount # None => expected[c].amount.value = answer.amount

=============================================================================
