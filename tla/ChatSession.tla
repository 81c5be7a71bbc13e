------------------------------ MODULE ChatSession ------------------------------
(***************************************************************************)
(* One chat of the runner with the bot: run_flow of engine/flow.py, the    *)
(* frame collection of amazon_connect_client.py and the widget handling of *)
(* capture_client.py.  The bot sends frames whenever it likes; the session *)
(* reads them until a quiet moment, takes what it heard as the reply, and  *)
(* goes on.  A frame that comes after the quiet moment stays on the wire   *)
(* and is read as part of a later reply.                                   *)
(***************************************************************************)
EXTENDS Integers, Sequences, FiniteSets

CONSTANTS
  Frames,     \* the bot's frames: what each says, and the widget it carries
  MaxFrames,  \* bound on the frames the bot sends in a session
  MaxWire,    \* bound on frames sent and not yet read
  MaxTurns    \* max_turns

\* What the phrase heuristics of the code can tell about a text:
\*   "news"    more than the greeting          "hold"    is_placeholder
\*   "ask"     is_otp_ask                      "outage"  is_outage
\*   "code", "sent", "email"  those words      "got"     "processing", "got it"
Says == {"greet", "news", "ask", "code", "sent", "email", "got", "hold", "outage"}
Frame == [says : SUBSET Says \ {{}}, widget : {"none", "single", "quick"}]

ASSUME ChatAssumption ==
  /\ Frames \subseteq Frame
  /\ MaxFrames \in Nat
  /\ MaxWire \in Nat
  /\ MaxTurns \in Nat \ {0}

VARIABLES
  pc,
  bot,        \* all frames the bot has sent
  read,       \* how many of them the session has read
  flushed,    \* how many of them are in the transcript (_hw)
  heard,      \* what the collection under way has heard
  last,       \* what last_reply says
  tries,      \* collections made in a waiting or draining loop
  turn,
  done,       \* conversation_complete of this turn
  widget,     \* last_widget: the frame that carried it, or 0
  picked,     \* the kind of widget this turn clicked
  awaitOtp, otpDone,
  released,   \* how often on_otp_done was called
  transcript,
  error

otp  == <<awaitOtp, otpDone, released>>
wire == <<read, heard, widget>>
log  == <<transcript, flushed>>
vars == <<pc, bot, wire, log, last, tries, turn, done, picked, otp, error>>

Init ==
  /\ pc = "opening"
  /\ bot = <<>> /\ read = 0 /\ heard = {} /\ widget = 0
  /\ transcript = <<>> /\ flushed = 0
  /\ last = {} /\ tries = 0 /\ turn = 1 /\ done = FALSE /\ picked = "none"
  /\ awaitOtp = FALSE /\ otpDone = FALSE /\ released = 0
  /\ error = "none"

-----------------------------------------------------------------------------
(* The transcript.                                                         *)

\* An entry of the transcript: who spoke, which frame it is (or clicks on), and
\* how many frames had been read by then.
Entry(who, frame) == [who |-> who, frame |-> frame, seen |-> read]

\* flush_frames: every frame read since the last flush, in the order read.
Flushed ==
  transcript \o [i \in 1..(read - flushed) |-> Entry("bot", flushed + i)]

Flush == transcript' = Flushed /\ flushed' = read

Append1(entry) == transcript' = Append(transcript, entry) /\ flushed' = flushed

-----------------------------------------------------------------------------
(* The bot, and the reading of its frames.                                 *)

BotSends(f) ==
  /\ pc \notin {"closing", "closed", "raised"}
  /\ Len(bot) < MaxFrames
  /\ Len(bot) - read < MaxWire
  /\ bot' = Append(bot, f)
  /\ UNCHANGED <<pc, wire, log, last, tries, turn, done, picked, otp, error>>

Collecting == pc \in {"opening", "awaiting", "asking", "selecting", "draining"}

\* One more chunk of the reply; a selectable widget is remembered.
ReadFrame ==
  /\ Collecting
  /\ read < Len(bot)
  /\ read' = read + 1
  /\ heard' = heard \union bot[read'].says
  /\ widget' = IF bot[read'].widget = "none" THEN widget ELSE read'
  /\ UNCHANGED <<pc, bot, log, last, tries, turn, done, picked, otp, error>>

\* start_session raises, out of run_flow.
StartFails ==
  /\ pc = "opening"
  /\ pc' = "raised"
  /\ UNCHANGED <<bot, wire, log, last, tries, turn, done, picked, otp, error>>

\* The bot is quiet: what it said, if anything, is the greeting.
Greeted ==
  /\ pc = "opening"
  /\ pc' = "driving"
  /\ last' = heard
  /\ heard' = {}
  /\ Flush
  /\ UNCHANGED <<bot, read, widget, tries, turn, done, picked, otp, error>>

\* The session ends with this error; chat errors show in the transcript.
EndWith(e) == pc' = "closing" /\ error' = e

ChatFails ==
  /\ EndWith("chat")
  /\ transcript' = Append(Flushed, Entry("error", 0))
  /\ flushed' = read

-----------------------------------------------------------------------------
(* A turn.                                                                 *)

\* converse fails, or its answer has no customer_turn.
DriverFails ==
  /\ pc = "driving"
  /\ EndWith("driver")
  /\ UNCHANGED <<bot, wire, log, last, tries, turn, done, picked, otp>>

\* The simulated customer speaks, and its option was e-mail a turn ago: its
\* message is dropped, and the bot's prompt for the code awaited.
AwaitPrompt(d) ==
  /\ pc = "driving"
  /\ awaitOtp /\ ~otpDone
  /\ pc' = "awaiting"
  /\ awaitOtp' = FALSE
  /\ done' = d /\ tries' = 0 /\ picked' = "none"
  /\ UNCHANGED <<bot, wire, log, last, turn, otpDone, released, error>>

\* Faulty variant: the widget stays pending when it is answered.
ClickKeeping(d) ==
  /\ pc = "driving"
  /\ ~(awaitOtp /\ ~otpDone)
  /\ widget # 0 /\ ~d
  /\ pc' = "selecting"
  /\ done' = d /\ picked' = bot[widget].widget
  /\ Append1(Entry("click", widget))
  /\ UNCHANGED <<bot, read, heard, widget, last, tries, turn, otp, error>>

\* A widget is pending: the message picks one of its options.
Click(d) ==
  /\ pc = "driving"
  /\ ~(awaitOtp /\ ~otpDone)
  /\ widget # 0 /\ ~d
  /\ pc' = "selecting"
  /\ done' = d /\ picked' = bot[widget].widget
  /\ widget' = 0
  /\ Append1(Entry("click", widget))
  /\ UNCHANGED <<bot, read, heard, last, tries, turn, otp, error>>

\* Faulty variant: an ask counts only if it says that the code was sent.
SpeakUntilSent(d) ==
  /\ pc = "driving"
  /\ ~(awaitOtp /\ ~otpDone)
  /\ widget = 0 \/ d
  /\ widget' = 0
  /\ done' = d /\ picked' = "none"
  /\ IF {"ask", "sent"} \subseteq last /\ ~otpDone
       THEN pc' = "fetching" /\ UNCHANGED log
       ELSE pc' = "asking" /\ Append1(Entry("own", 0))
  /\ UNCHANGED <<bot, read, heard, last, tries, turn, otp, error>>

\* The message goes out as it is; or, when the bot has just asked for the code,
\* the code is fetched to go out instead.
Speak(d) ==
  /\ pc = "driving"
  /\ ~(awaitOtp /\ ~otpDone)
  /\ widget = 0 \/ d
  /\ widget' = 0
  /\ done' = d /\ picked' = "none"
  /\ IF "ask" \in last /\ ~otpDone
       THEN pc' = "fetching" /\ UNCHANGED log
       ELSE pc' = "asking" /\ Append1(Entry("own", 0))
  /\ UNCHANGED <<bot, read, heard, last, tries, turn, otp, error>>

-----------------------------------------------------------------------------
(* Waiting for the prompt, and fetching the code.                          *)

\* Faulty variant: what the prompt said is not flushed before the code.
PromptHeardUnflushed ==
  /\ pc = "awaiting"
  /\ heard # {}
  /\ last' = heard /\ heard' = {}
  /\ tries' = tries + 1
  /\ IF heard \intersect {"ask", "sent", "code"} # {} \/ tries' = 3
       THEN pc' = "fetching" ELSE pc' = pc
  /\ UNCHANGED <<bot, read, widget, log, turn, done, picked, otp, error>>

\* A reply that mentions the code, or the third of them, ends the wait.
PromptHeard ==
  /\ pc = "awaiting"
  /\ heard # {}
  /\ last' = heard /\ heard' = {}
  /\ tries' = tries + 1
  /\ IF heard \intersect {"ask", "sent", "code"} # {} \/ tries' = 3
       THEN pc' = "fetching" /\ Flush
       ELSE pc' = pc /\ UNCHANGED log
  /\ UNCHANGED <<bot, read, widget, turn, done, picked, otp, error>>

\* So does a collection that fails.
PromptFails ==
  /\ pc = "awaiting"
  /\ heard' = {}
  /\ pc' = "fetching"
  /\ Flush
  /\ UNCHANGED <<bot, read, widget, last, tries, turn, done, picked, otp, error>>

\* Faulty variant: the fetch is not remembered.
CodeFetchedForgotten ==
  /\ pc = "fetching"
  /\ pc' = "asking"
  /\ released' = IF otpDone THEN released ELSE released + 1
  /\ Append1(Entry("code", 0))
  /\ UNCHANGED <<bot, wire, last, tries, turn, done, picked, awaitOtp, otpDone, error>>

\* wait_for_otp returns a code, which goes out as the customer's message.
CodeFetched ==
  /\ pc = "fetching"
  /\ pc' = "asking"
  /\ otpDone' = TRUE
  /\ released' = IF released = 0 THEN 1 ELSE released
  /\ Append1(Entry("code", 0))
  /\ UNCHANGED <<bot, wire, last, tries, turn, done, picked, awaitOtp, error>>

\* OtpError.
CodeMissing ==
  /\ pc = "fetching"
  /\ ChatFails
  /\ UNCHANGED <<bot, wire, last, tries, turn, done, picked, otp>>

-----------------------------------------------------------------------------
(* The reply.                                                              *)

OnlyGreeting == heard \subseteq {"greet"}

\* The e-mail option was taken, as far as the reply shows.
Mailed == picked = "single" /\ "email" \in heard /\ heard \intersect {"got", "sent"} # {}

ReplyHeard ==
  /\ pc \in {"asking", "selecting"}
  /\ heard # {}
  /\ pc = "asking" => ~OnlyGreeting
  /\ awaitOtp' = (awaitOtp \/ Mailed)
  /\ last' = heard /\ heard' = {}
  /\ tries' = 0
  /\ pc' = IF "hold" \in heard THEN "draining" ELSE "judging"
  /\ UNCHANGED <<bot, read, widget, log, turn, done, picked, otpDone, released, error>>

\* No reply in time, a failing send or receive, or nothing but the greeting.
ReplyFails ==
  /\ pc \in {"asking", "selecting"}
  /\ heard' = {}
  /\ ChatFails
  /\ UNCHANGED <<bot, read, widget, last, tries, turn, done, picked, otp>>

\* drain_placeholders: up to two more collections while the reply is a
\* placeholder; the last one heard is the reply.
Drained ==
  /\ pc = "draining"
  /\ heard # {}
  /\ last' = heard /\ heard' = {}
  /\ tries' = tries + 1
  /\ pc' = IF "hold" \in heard /\ tries' < 2 THEN "draining" ELSE "judging"
  /\ UNCHANGED <<bot, read, widget, log, turn, done, picked, otp, error>>

\* A collection that fails is passed over.
DrainFails ==
  /\ pc = "draining"
  /\ heard' = {}
  /\ pc' = "judging"
  /\ UNCHANGED <<bot, read, widget, log, last, tries, turn, done, picked, otp, error>>

\* Faulty variant: a complete conversation is not looked at for an outage.
EndTurnDoneFirst ==
  /\ pc = "judging"
  /\ Flush
  /\ \/ done /\ EndWith("none") /\ turn' = turn
     \/ ~done /\ "outage" \in last /\ EndWith("outage") /\ turn' = turn
     \/ ~done /\ "outage" \notin last /\ turn = MaxTurns /\ EndWith("max_turns") /\ turn' = turn
     \/ /\ "outage" \notin last /\ ~done /\ turn < MaxTurns
        /\ pc' = "driving" /\ turn' = turn + 1 /\ error' = error
  /\ UNCHANGED <<bot, wire, last, tries, done, picked, otp>>

\* The frames go to the transcript; an outage, a complete conversation or the
\* last turn ends the session.
EndTurn ==
  /\ pc = "judging"
  /\ Flush
  /\ \/ "outage" \in last /\ EndWith("outage") /\ turn' = turn
     \/ "outage" \notin last /\ done /\ EndWith("none") /\ turn' = turn
     \/ "outage" \notin last /\ ~done /\ turn = MaxTurns /\ EndWith("max_turns") /\ turn' = turn
     \/ /\ "outage" \notin last /\ ~done /\ turn < MaxTurns
        /\ pc' = "driving" /\ turn' = turn + 1 /\ error' = error
  /\ UNCHANGED <<bot, wire, last, tries, done, picked, otp>>

\* The terminators, the socket, and the OTP slot if it is still held.
Close ==
  /\ pc = "closing"
  /\ pc' = "closed"
  /\ released' = IF released = 0 THEN 1 ELSE released
  /\ UNCHANGED <<bot, wire, log, last, tries, turn, done, picked, awaitOtp, otpDone, error>>

Over == pc \in {"closed", "raised"} /\ UNCHANGED vars

Next ==
  \/ \E f \in Frames : BotSends(f)
  \/ ReadFrame \/ StartFails \/ Greeted \/ DriverFails
  \/ \E d \in BOOLEAN : AwaitPrompt(d) \/ Click(d) \/ Speak(d)
  \/ PromptHeard \/ PromptFails \/ CodeFetched \/ CodeMissing
  \/ ReplyHeard \/ ReplyFails \/ Drained \/ DrainFails \/ EndTurn
  \/ Close \/ Over

Spec == Init /\ [][Next]_vars

-----------------------------------------------------------------------------
Who == {"bot", "own", "code", "click", "error"}

TypeOK ==
  /\ pc \in {"opening", "driving", "awaiting", "fetching", "asking", "selecting",
             "draining", "judging", "closing", "closed", "raised"}
  /\ bot \in Seq(Frames)
  /\ read \in 0..Len(bot)
  /\ flushed \in 0..read
  /\ heard \in SUBSET Says
  /\ last \in SUBSET Says
  /\ tries \in 0..3
  /\ turn \in 1..MaxTurns
  /\ done \in BOOLEAN
  /\ widget \in 0..read
  /\ picked \in {"none", "single", "quick"}
  /\ awaitOtp \in BOOLEAN
  /\ otpDone \in BOOLEAN
  /\ released \in 0..1
  /\ transcript \in Seq([who : Who, frame : 0..read, seen : 0..read])
  /\ error \in {"none", "driver", "chat", "outage", "max_turns"}

\* The frames the transcript holds before its n-th entry.
Before(n) == {transcript[i].frame : i \in {j \in 1..(n - 1) : transcript[j].who = "bot"}}

Customers == {i \in DOMAIN transcript : transcript[i].who \in {"own", "code", "click"}}
Codes     == {i \in Customers : transcript[i].who = "code"}

\* The transcript shows the bot's frames once and in order, every message of the
\* customer after exactly the frames that had been read when it went out, and in
\* the end every frame that was read, whatever ended the session.
TranscriptFaithful ==
  /\ \A n \in DOMAIN transcript :
       Before(n) = IF transcript[n].who = "bot" THEN 1..(transcript[n].frame - 1)
                                                ELSE 1..transcript[n].seen
  /\ pc = "closed" => Before(Len(transcript) + 1) = 1..read

\* The code is submitted once at most, after the bot spoke of it or of e-mail,
\* and the OTP slot is given back once, with the code or when the chat closes.
OtpOnce ==
  /\ Cardinality(Codes) = IF otpDone THEN 1 ELSE 0
  /\ \A i \in Codes : \E n \in 1..transcript[i].seen : bot[n].says \intersect {"ask", "email"} # {}
  /\ released = IF otpDone \/ pc = "closed" THEN 1 ELSE 0

\* A click goes to the latest selectable widget the bot had shown, and no widget
\* is clicked twice, even if the code was submitted while it was pending.
ClickCurrent ==
  \A i \in Customers : transcript[i].who = "click" =>
    /\ bot[transcript[i].frame].widget # "none"
    /\ \A n \in (transcript[i].frame + 1)..transcript[i].seen : bot[n].widget = "none"
    /\ \A j \in Customers : transcript[j].frame = transcript[i].frame => j = i

\* What the result's error says is what happened: without one the customer was
\* done and the bot's answer, which is no outage, ends the transcript; with
\* max_turns there was one message of the customer in each turn.
ErrorTells ==
  pc = "closed" =>
    /\ error = "none" =>
         /\ done /\ "outage" \notin last
         /\ Customers # {} /\ transcript[Len(transcript)].who = "bot"
         /\ \A i \in DOMAIN transcript : transcript[i].who # "error"
    /\ error = "max_turns" => ~done /\ Cardinality(Customers) = MaxTurns
    /\ error = "chat" => transcript[Len(transcript)].who = "error"

\* What the bot said between this entry of the customer and the one before it.
SaidBefore(i) ==
  LET from == {k \in Customers : k < i}
      heardBy == {j \in 1..(i - 1) : transcript[j].who = "bot" /\ \A k \in from : k < j}
  IN  UNION {bot[transcript[j].frame].says : j \in heardBy}

\* A simulated customer that has been asked for the code makes one up only when
\* the ask came with a placeholder: draining placeholders drops what else was
\* said, and nothing else on the way from the wire to last_reply does.
GuessNeedsHold ==
  \A i \in Customers :
    transcript[i].who = "own" /\ (\A j \in Codes : i < j) /\ "ask" \in SaidBefore(i)
      => "hold" \in SaidBefore(i)

=============================================================================
