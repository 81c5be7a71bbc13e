------------------------------ MODULE Trajectory ------------------------------
(***************************************************************************)
(* How far a conversation got: the stages metrics/evalkit/trajectory.py    *)
(* finds in a transcript with the detectors of metrics/evalkit/taxonomy.py,*)
(* the order it finds them in, and the score it gives.  These are          *)
(* functions of the transcript; Evaluation computes its metrics with them. *)
(*                                                                         *)
(* A turn is a role and the phrases of its text in their order; a phrase   *)
(* stands for the texts one alternative of a detector's pattern matches,   *)
(* so detectors whose patterns match the same text share its phrase.       *)
(* Patterns that no stage of STAGE_MAP uses are left out.                  *)
(***************************************************************************)
EXTENDS Integers, Sequences, FiniteSets, FiniteSetsExt, SequencesExt

Dialect == {"alpha", "bravo"}
Status == {"ELIGIBLE", "NOT_ELIGIBLE", "NO_DETERMINATION", "PENDING",
           "ESCALATED", "UNRESOLVED", "UNKNOWN"}
Family == {"CORE", "ED", "PAY"}

-----------------------------------------------------------------------------
(* The tables of the taxonomy.                                               *)

\* A pattern over the text of anyone; one that is tied to the line, and so to
\* the role, of a bot or a customer starts where the turn starts.  `mail` is
\* the note [mailinator-otp], which no turn of flow.py has: it notes `otp`.
Said(phrases) == [by |-> "anyone", phrases |-> phrases]
Bot(phrases) == [by |-> "bot", phrases |-> phrases]
Customer(phrases) == [by |-> "customer", phrases |-> phrases]
MailNote(phrases) == [by |-> "mail", phrases |-> phrases]

STAGE_RX ==
  [alpha |->
     [bot_greeting |-> Bot({"hi there"}),
      customer_disruption_intent |-> Customer({"delayed, claim"}),
      automated_decision_disclosure |-> Said({"automated decision"}),
      identity_request |-> Said({"need a few details"}),
      identity_provided |-> Customer({"my PNR is"}),
      otp_channel_selection |-> Said({"verify by code?"}),
      otp_channel_chosen |-> Customer({"Email"}),
      otp_entered |-> MailNote({"six digits"}),
      otp_verified |-> Said({"code verified"}),
      contact_email_confirmation |-> Said({"confirm the email"}),
      country_of_residence_request |-> Said({"country of residence"}),
      additional_info_and_receipts |-> Said({"receipts"}),
      manual_contact_info_collection |-> Said({"email and phone"}),
      payment_method_collection |-> Said({"method of payment", "paid by Interac"}),
      claim_submitted |-> Said({"claim submitted"}),
      case_reference_issued |-> Said({"Reference Number"}),
      outcome_escalated_manual_review |-> Said({"to manual review"}),
      outcome_eligible_final |-> Said({"you are eligible"}),
      outcome_not_eligible_final |-> Said({"unfortunately not eligible"}),
      compensation_amount_quoted_provisional |-> Said({"the amount is"}),
      wrapup_anything_else |-> Said({"anything else?"}),
      survey_prompt |-> Said({"easy to use?"})],
   bravo |->
     [greeting |-> Bot({"how can I help", "hi there"}),
      customer_intent |-> Customer({"delayed, claim", "owed"}),
      automated_decision_banner |-> Said({"automated decision"}),
      full_name_collection |-> Said({"name as on ticket"}),
      booking_reference_collection |-> Said({"bold booking reference"}),
      identity_confirmation_summary |-> Said({"to confirm"}),
      otp_channel_selection |-> Said({"send a one-time code?"}),
      otp_code_entry |-> Said({"six digits"}),
      identity_verified |-> Said({"identity verified"}),
      booking_retrieved_trip_confirmation |-> Said({"is this the trip?"}),
      deposit_country_selection |-> Said({"which country?"}),
      eligibility_eligible |-> Said({"entitled to"}),
      eligibility_not_eligible |-> Said({"unfortunately not eligible", "not eligible"}),
      eligibility_no_determination |-> Said({"can't review"}),
      adverse_decision_extra |-> Said({"outside the time limit"}),
      compensation_amount_quoted |-> Said({"entitled to"}),
      payment_method_disclosure |-> Said({"paid by Interac"}),
      payment_email_confirmation |-> Said({"only one email"}),
      claim_review_summary |-> Said({"please review"}),
      claim_submission_consent |-> Said({"submit your claim?"}),
      claim_submitted_confirmation |-> Said({"claim submitted", "agent review"}),
      case_reference_issued |-> Said({"Case reference"}),
      wrap_up |-> Said({"anything else?"}),
      survey_feedback |-> Said({"feedback widget"}),
      session_end |-> Said({"End chat"})]]

\* INTENT_RX: the bot starts the intake of a claim.
IntentPhrases == {"to file your claim", "claim started"}

\* The place of a detector in its bot's designed flow, in halves (7.5 is 15).
STAGE_POS ==
  [alpha |->
     [bot_greeting |-> 2, customer_disruption_intent |-> 8,
      compensation_amount_quoted_provisional |-> 15,
      automated_decision_disclosure |-> 22, identity_request |-> 26,
      identity_provided |-> 28, otp_channel_selection |-> 32,
      otp_channel_chosen |-> 34, otp_entered |-> 38, otp_verified |-> 40,
      contact_email_confirmation |-> 42, country_of_residence_request |-> 44,
      additional_info_and_receipts |-> 46, manual_contact_info_collection |-> 47,
      payment_method_collection |-> 48, claim_submitted |-> 50,
      case_reference_issued |-> 52, outcome_escalated_manual_review |-> 54,
      outcome_eligible_final |-> 54, outcome_not_eligible_final |-> 54,
      wrapup_anything_else |-> 58, survey_prompt |-> 60],
   bravo |->
     [greeting |-> 2, customer_intent |-> 4, automated_decision_banner |-> 10,
      full_name_collection |-> 14, booking_reference_collection |-> 16,
      identity_confirmation_summary |-> 18, otp_channel_selection |-> 20,
      otp_code_entry |-> 24, identity_verified |-> 26,
      booking_retrieved_trip_confirmation |-> 28, eligibility_eligible |-> 32,
      eligibility_not_eligible |-> 32, adverse_decision_extra |-> 32,
      deposit_country_selection |-> 34, eligibility_no_determination |-> 36,
      compensation_amount_quoted |-> 38, payment_method_disclosure |-> 40,
      payment_email_confirmation |-> 42, claim_review_summary |-> 46,
      claim_submission_consent |-> 48, claim_submitted_confirmation |-> 48,
      case_reference_issued |-> 50, wrap_up |-> 52, survey_feedback |-> 54,
      session_end |-> 56]]

\* The canonical stages and the detectors of each dialect that report them.
STAGE_MAP ==
  [greeting |-> [alpha |-> {"bot_greeting"}, bravo |-> {"greeting"}],
   intent_stated |-> [alpha |-> {"customer_disruption_intent"}, bravo |-> {"customer_intent"}],
   intent_recognized |-> [alpha |-> {"__intent__"}, bravo |-> {"__intent__"}],
   decision_disclosure |-> [alpha |-> {"automated_decision_disclosure"},
                            bravo |-> {"automated_decision_banner"}],
   identity_collection |-> [alpha |-> {"identity_request"},
                            bravo |-> {"full_name_collection", "booking_reference_collection"}],
   identity_provided |-> [alpha |-> {"identity_provided"},
                          bravo |-> {"identity_confirmation_summary"}],
   otp_channel_selection |-> [alpha |-> {"otp_channel_selection", "otp_channel_chosen"},
                              bravo |-> {"otp_channel_selection"}],
   otp_entered |-> [alpha |-> {"otp_entered"}, bravo |-> {"otp_code_entry"}],
   identity_verified |-> [alpha |-> {"otp_verified"}, bravo |-> {"identity_verified"}],
   booking_retrieved |-> [alpha |-> {"otp_channel_selection"},
                          bravo |-> {"booking_retrieved_trip_confirmation"}],
   claim_details_collection |->
     [alpha |-> {"contact_email_confirmation", "country_of_residence_request",
                 "additional_info_and_receipts", "manual_contact_info_collection"},
      bravo |-> {"deposit_country_selection"}],
   decision_rendered |->
     [alpha |-> {"outcome_eligible_final", "outcome_not_eligible_final"},
      bravo |-> {"eligibility_eligible", "eligibility_not_eligible",
                 "eligibility_no_determination", "adverse_decision_extra"}],
   amount_quoted |-> [alpha |-> {"compensation_amount_quoted_provisional"},
                      bravo |-> {"compensation_amount_quoted"}],
   payment_method |-> [alpha |-> {"payment_method_collection"},
                       bravo |-> {"payment_method_disclosure", "payment_email_confirmation"}],
   claim_submitted |->
     [alpha |-> {"claim_submitted"},
      bravo |-> {"claim_review_summary", "claim_submission_consent",
                 "claim_submitted_confirmation"}],
   case_reference_issued |-> [alpha |-> {"case_reference_issued"},
                              bravo |-> {"case_reference_issued"}],
   terminal_outcome |->
     [alpha |-> {"outcome_eligible_final", "outcome_not_eligible_final",
                 "outcome_escalated_manual_review", "case_reference_issued"},
      bravo |-> {"eligibility_eligible", "eligibility_not_eligible",
                 "eligibility_no_determination", "adverse_decision_extra",
                 "claim_submitted_confirmation", "case_reference_issued"}],
   wrapup |-> [alpha |-> {"wrapup_anything_else", "survey_prompt"},
               bravo |-> {"wrap_up", "survey_feedback", "session_end"}]]

TRAJECTORY_BASE ==
  <<"greeting", "intent_stated", "intent_recognized", "decision_disclosure",
    "identity_collection", "identity_provided", "otp_channel_selection",
    "otp_entered", "identity_verified", "booking_retrieved", "decision_rendered">>
TRAJECTORY_ELIGIBLE_EXTRA == <<"amount_quoted", "claim_submitted", "case_reference_issued">>
TRAJECTORY_PAY_EXTRA == <<"payment_method">>

expected_stages(status, family) ==
  TRAJECTORY_BASE
    \o (IF status = "ELIGIBLE" THEN TRAJECTORY_ELIGIBLE_EXTRA ELSE <<>>)
    \o (IF family = "PAY" THEN TRAJECTORY_PAY_EXTRA ELSE <<>>)

-----------------------------------------------------------------------------
(* What is found in a transcript.                                            *)

Stage == DOMAIN STAGE_MAP
Roles == {"bot", "customer"}

\* render_transcript_md: turns of other roles are not rendered, and the two
\* dialects render the others alike but for the marks the patterns look for.
\* What is rendered keeps the number of its turn.
Rendered(transcript) ==
  [i \in {k \in DOMAIN transcript : transcript[k].role \in Roles} |-> transcript[i]]

\* Where a phrase stands; a turn has fewer than Width of them.
Width == 10
At(i, j) == Width * i + j
IsTranscript(transcript) ==
  /\ transcript \in Seq([role : STRING, phrases : Seq(STRING)])
  /\ \A i \in DOMAIN transcript : Len(transcript[i].phrases) < Width
Places(text, phrases) ==
  UNION {{At(i, j) : j \in {k \in DOMAIN text[i].phrases : text[i].phrases[k] \in phrases}} :
           i \in DOMAIN text}

\* The matches of a detector; those tied to a line are where it starts.
Matches(text, rx) ==
  IF rx.by = "anyone" THEN Places(text, rx.phrases)
  ELSE {p - (p % Width) : p \in {q \in Places(text, rx.phrases) :
                                   text[q \div Width].role = rx.by}}

\* The intent is looked for from the first turn of the customer on.
IntentFrom(text) ==
  LET spoke == {i \in DOMAIN text : text[i].role = "customer"}
  IN  IF spoke = {} THEN 0 ELSE At(Min(spoke), 0)
IntentPlaces(text) == {p \in Places(text, IntentPhrases) : p >= IntentFrom(text)}

StagePlaces(text, stage, fmt) ==
  UNION {IF key = "__intent__" THEN IntentPlaces(text)
         ELSE Matches(text, STAGE_RX[fmt][key]) : key \in STAGE_MAP[stage][fmt]}

\* stages_hit: each stage that was heard, with the place of its first match.
StagesHit(text, fmt) ==
  [stage \in {s \in Stage : StagePlaces(text, s, fmt) # {}} |->
     Min(StagePlaces(text, stage, fmt))]

\* _stage_pos: the earliest place of the stage's detectors in the designed
\* flow; the intent has none.
NoPos == 2 * 999
StagePos(stage, fmt) ==
  LET keys == STAGE_MAP[stage][fmt] \ {"__intent__"}
  IN  IF keys = {} THEN NoPos ELSE Min({STAGE_POS[fmt][k] : k \in keys})

-----------------------------------------------------------------------------
(* The score.                                                                *)

\* _lis_length: the longest strictly increasing subsequence.
LisLength(seq) ==
  LET longest(best, x) ==
        Append(best, 1 + Max({0} \cup {best[j] : j \in {i \in DOMAIN best : seq[i] < x}}))
      table == FoldLeft(longest, <<>>, seq)
  IN  Max({0} \cup {table[i] : i \in DOMAIN table})

\* Faulty variant: the stages are left in the order of the list.
HitExpectedListed(hit, expected, fmt) ==
  LET found == SelectSeq(expected, LAMBDA stage : stage \in DOMAIN hit)
  IN  [k \in DOMAIN found |-> hit[found[k]]]

\* The expected stages that were hit, in the designed order, as the places
\* where they were.  The sort is stable.
HitExpected(hit, expected, fmt) ==
  LET found == {i \in DOMAIN expected : expected[i] \in DOMAIN hit}
      pos(i) == StagePos(expected[i], fmt)
      before(i) == {j \in found : pos(j) < pos(i) \/ (pos(j) = pos(i) /\ j < i)}
      at(k) == CHOOSE i \in found : Cardinality(before(i)) = k - 1
  IN  [k \in 1 .. Cardinality(found) |-> hit[expected[at(k)]]]

\* round(num / den, 4), in ten-thousandths.  Below 32 a denominator leaves no
\* tie to round.
One == 10000
Round4(num, den) == (2 * One * num + den) \div (2 * den)

NoTrajectory == [heard |-> FALSE, hit |-> <<>>, intent |-> FALSE, score |-> 0]

\* annotate_trajectory, for a case of this expected status and family.
Annotate(transcript, fmt, status, family) ==
  LET text == Rendered(transcript)
      hit == StagesHit(text, fmt)
      expected == expected_stages(status, family)
  IN  IF text = <<>> THEN NoTrajectory
      ELSE [heard |-> TRUE, hit |-> hit, intent |-> IntentPlaces(text) # {},
            score |-> Round4(LisLength(HitExpected(hit, expected, fmt)), Len(expected))]

-----------------------------------------------------------------------------
(* The dialect of a run.                                                     *)

\* Faulty variant: the count goes on from one dialect to the next.
DetectDialectCarried(stages) ==
  LET hits(fmt) == SumFunction([c \in DOMAIN stages |-> stages[c][fmt]])
  IN  IF hits("bravo") + hits("alpha") > hits("bravo") THEN "alpha" ELSE "bravo"

\* _detect_dialect: the dialect whose detectors hit the most stages over all
\* the transcripts of the run, bravo when they are even.  stages[c][fmt] is
\* the number of stages the transcript of c hits.
DetectDialect(stages) ==
  LET hits(fmt) == SumFunction([c \in DOMAIN stages |-> stages[c][fmt]])
  IN  IF hits("alpha") > hits("bravo") THEN "alpha" ELSE "bravo"
=============================================================================
