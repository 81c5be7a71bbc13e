--------------------------- MODULE ChatSessionProofs ---------------------------
(***************************************************************************)
(* What the transcript of a chat says, for every set of frames the bot may *)
(* send, in whatever order and however late they come, and every number of *)
(* turns: it is faithful, the code goes out once, a click goes to the      *)
(* latest widget, and the error is what happened.                          *)
(***************************************************************************)
EXTENDS ChatSession, SequenceTheorems, FiniteSetTheorems, TLAPS

Record(r) == [who : Who, frame : 0..r, seen : 0..r]

-----------------------------------------------------------------------------
(* Transcripts.                                                              *)

\* The bot's frames before the n-th entry of a transcript.
Shown(t, n) == {t[i].frame : i \in {j \in 1..(n - 1) : t[j].who = "bot"}}

\* A transcript that shows the first f frames, f of the r that were read, each
\* entry after the right ones.
Faithful(t, f, r) ==
  /\ \A n \in 1..Len(t) :
       Shown(t, n) = IF t[n].who = "bot" THEN 1..(t[n].frame - 1) ELSE 1..t[n].seen
  /\ Shown(t, Len(t) + 1) = 1..f

\* The entries a flush adds.
New(f, r) == [i \in 1..(r - f) |-> [who |-> "bot", frame |-> f + i, seen |-> r]]

\* What was shown before an entry does not change when entries are added.
LEMMA ShownSame ==
  ASSUME NEW t, NEW u, NEW k \in Nat, NEW n \in 1..(k + 1), \A i \in 1..k : u[i] = t[i]
  PROVE  Shown(u, n) = Shown(t, n)
<1>1. \A j \in 1..(n - 1) : u[j] = t[j]
  OBVIOUS
<1> QED BY <1>1 DEF Shown

\* A message of the customer, or an error, when everything read is shown.
LEMMA Appending ==
  ASSUME NEW r \in Nat, NEW t \in Seq(Record(r)), NEW e \in Record(r),
         e.who # "bot", e.seen = r
  PROVE  /\ Append(t, e) \in Seq(Record(r)) /\ Len(Append(t, e)) = Len(t) + 1 /\ Len(t) \in Nat
         /\ \A i \in 1..Len(t) : Append(t, e)[i] = t[i]
         /\ Append(t, e)[Len(t) + 1] = e
         /\ Faithful(t, r, r) => Faithful(Append(t, e), r, r)
<1> DEFINE u == Append(t, e)
<1>1. /\ u \in Seq(Record(r)) /\ Len(u) = Len(t) + 1 /\ Len(t) \in Nat
      /\ \A i \in 1..Len(t) : u[i] = t[i]
      /\ u[Len(t) + 1] = e
  BY AppendProperties, LenProperties
<1> HIDE DEF u
<1>2. ASSUME Faithful(t, r, r) PROVE Faithful(u, r, r)
  <2>1. \A n \in 1..(Len(t) + 1) : Shown(u, n) = Shown(t, n)
    BY <1>1, ShownSame
  <2>2. Shown(u, Len(t) + 2) = Shown(u, Len(t) + 1)
    <3>1. \A j \in 1..(Len(t) + 1) : u[j].who = "bot" => j \in 1..Len(t)
      BY <1>1
    <3>2. (Len(t) + 2) - 1 = Len(t) + 1 /\ (Len(t) + 1) - 1 = Len(t)
      BY <1>1
    <3>3. {j \in 1..(Len(t) + 1) : u[j].who = "bot"} = {j \in 1..Len(t) : u[j].who = "bot"}
      BY <1>1, <3>1
    <3> QED BY <3>2, <3>3 DEF Shown
  <2>3. ASSUME NEW n \in 1..Len(u)
        PROVE  Shown(u, n) = IF u[n].who = "bot" THEN 1..(u[n].frame - 1) ELSE 1..u[n].seen
    <3>1. CASE n \in 1..Len(t)
      BY <1>1, <1>2, <2>1, <3>1 DEF Faithful
    <3>2. CASE n = Len(t) + 1
      BY <1>1, <1>2, <2>1, <3>2 DEF Faithful
    <3> QED BY <1>1, <3>1, <3>2
  <2>4. Shown(u, Len(u) + 1) = 1..r
    <3>1. Len(u) + 1 = Len(t) + 2
      BY <1>1
    <3> QED BY <1>1, <1>2, <2>1, <2>2, <3>1 DEF Faithful
  <2> QED BY <2>3, <2>4 DEF Faithful
<1> QED BY <1>1, <1>2 DEF u

\* A flush shows everything that was read.
LEMMA Flushing ==
  ASSUME NEW r \in Nat, NEW f \in 0..r, NEW t \in Seq(Record(r))
  PROVE  /\ t \o New(f, r) \in Seq(Record(r)) /\ Len(t) \in Nat
         /\ Len(t \o New(f, r)) = Len(t) + (r - f)
         /\ \A i \in 1..Len(t) : (t \o New(f, r))[i] = t[i]
         /\ \A i \in 1..(r - f) :
              (t \o New(f, r))[Len(t) + i] = [who |-> "bot", frame |-> f + i, seen |-> r]
         /\ Faithful(t, f, r) => Faithful(t \o New(f, r), r, r)
<1> DEFINE u == t \o New(f, r)
<1>1. New(f, r) \in Seq(Record(r)) /\ Len(New(f, r)) = r - f /\ r - f \in Nat
  <2>1. r - f \in Nat /\ \A i \in 1..(r - f) : [who |-> "bot", frame |-> f + i, seen |-> r] \in Record(r)
    BY DEF Record, Who
  <2>2. New(f, r) \in [1..(r - f) -> Record(r)]
    BY <2>1 DEF New
  <2> QED BY <2>1, <2>2, SeqDef, LenProperties
<1>2. /\ u \in Seq(Record(r)) /\ Len(u) = Len(t) + (r - f) /\ Len(t) \in Nat
      /\ \A i \in 1..Len(t) : u[i] = t[i]
  <2>1. Len(t) \in Nat /\ Len(u) = Len(t) + (r - f) /\ u \in Seq(Record(r))
    BY <1>1, ConcatProperties, LenProperties
  <2>2. \A i \in 1..Len(t) : i \in 1..(Len(t) + Len(New(f, r))) /\ i <= Len(t)
    BY <1>1, <2>1
  <2> QED BY <1>1, <2>1, <2>2, ConcatProperties
<1>3. \A i \in 1..(r - f) : u[Len(t) + i] = [who |-> "bot", frame |-> f + i, seen |-> r]
  <2> SUFFICES ASSUME NEW i \in 1..(r - f)
               PROVE  u[Len(t) + i] = [who |-> "bot", frame |-> f + i, seen |-> r]
    OBVIOUS
  <2>1. Len(t) + i \in 1..(Len(t) + Len(New(f, r))) /\ Len(t) + i > Len(t) /\ (Len(t) + i) - Len(t) = i
    BY <1>1, <1>2
  <2>2. u[Len(t) + i] = New(f, r)[i]
    BY <1>1, <2>1, ConcatProperties
  <2> QED BY <2>2 DEF New
<1> HIDE DEF u
<1>4. ASSUME Faithful(t, f, r) PROVE Faithful(u, r, r)
  <2>1. \A n \in 1..(Len(t) + 1) : Shown(u, n) = Shown(t, n)
    BY <1>2, ShownSame
  <2>2. ASSUME NEW k \in 0..(r - f) PROVE Shown(u, Len(t) + 1 + k) = 1..(f + k)
    <3>1. Shown(u, Len(t) + 1) = 1..f
      BY <1>2, <1>4, <2>1 DEF Faithful
    <3>2. ASSUME NEW x \in Shown(u, Len(t) + 1 + k) PROVE x \in 1..(f + k)
      <4>1. PICK j \in 1..(Len(t) + k) : u[j].who = "bot" /\ x = u[j].frame
        BY <1>2, <3>2 DEF Shown
      <4>2. CASE j \in 1..Len(t)
        <5>1. j \in 1..((Len(t) + 1) - 1)
          BY <1>2, <4>2
        <5>2. x \in Shown(u, Len(t) + 1)
          BY <4>1, <5>1 DEF Shown
        <5> QED BY <3>1, <5>2
      <4>3. CASE j \notin 1..Len(t)
        <5> DEFINE i == j - Len(t)
        <5>1. i \in 1..k /\ i \in 1..(r - f) /\ Len(t) + i = j
          BY <1>2, <4>1, <4>3
        <5> HIDE DEF i
        <5>2. u[Len(t) + i] = [who |-> "bot", frame |-> f + i, seen |-> r]
          BY <1>3, <5>1
        <5>3. u[Len(t) + i].frame = f + i
          BY <5>2
        <5> QED BY <4>1, <5>1, <5>3
      <4> QED BY <4>2, <4>3
    <3>3. ASSUME NEW x \in 1..(f + k) PROVE x \in Shown(u, Len(t) + 1 + k)
      <4>1. CASE x \in 1..f
        <5>1. PICK j \in 1..Len(t) : u[j].who = "bot" /\ x = u[j].frame
          BY <1>2, <3>1, <4>1 DEF Shown
        <5>2. j \in 1..((Len(t) + 1 + k) - 1)
          BY <1>2, <5>1
        <5> QED BY <5>1, <5>2 DEF Shown
      <4>2. CASE x \notin 1..f
        <5> DEFINE i == x - f
        <5>1. i \in 1..k /\ i \in 1..(r - f) /\ f + i = x
          BY <3>3, <4>2
        <5> HIDE DEF i
        <5>2. u[Len(t) + i] = [who |-> "bot", frame |-> f + i, seen |-> r]
          BY <1>3, <5>1
        <5>3. u[Len(t) + i].who = "bot" /\ u[Len(t) + i].frame = x
          BY <5>1, <5>2
        <5>4. Len(t) + i \in 1..((Len(t) + 1 + k) - 1)
          BY <1>2, <5>1
        <5> QED BY <5>3, <5>4 DEF Shown
      <4> QED BY <4>1, <4>2
    <3> QED BY <3>2, <3>3
  <2>3. ASSUME NEW n \in 1..Len(u)
        PROVE  Shown(u, n) = IF u[n].who = "bot" THEN 1..(u[n].frame - 1) ELSE 1..u[n].seen
    <3>1. CASE n \in 1..Len(t)
      BY <1>2, <1>4, <2>1, <3>1 DEF Faithful
    <3>2. CASE n \notin 1..Len(t)
      <4> DEFINE i == n - Len(t)
      <4>1. i \in 1..(r - f) /\ n = Len(t) + i
        BY <1>1, <1>2, <2>3, <3>2
      <4> HIDE DEF i
      <4>2. u[n].who = "bot" /\ u[n].frame - 1 = f + (i - 1)
        <5>1. u[n] = [who |-> "bot", frame |-> f + i, seen |-> r]
          BY <1>3, <4>1
        <5>2. u[n].who = "bot" /\ u[n].frame = f + i
          BY <5>1
        <5> QED BY <4>1, <5>2
      <4>3. n = Len(t) + 1 + (i - 1) /\ i - 1 \in 0..(r - f)
        BY <1>2, <4>1
      <4>4. Shown(u, n) = 1..(f + (i - 1))
        BY <2>2, <4>3
      <4> QED BY <4>2, <4>4
    <3> QED BY <3>1, <3>2
  <2>4. Shown(u, Len(u) + 1) = 1..r
    <3>1. Len(u) + 1 = Len(t) + 1 + (r - f) /\ r - f \in 0..(r - f) /\ f + (r - f) = r
      BY <1>1, <1>2
    <3> QED BY <2>2, <3>1
  <2> QED BY <2>3, <2>4 DEF Faithful
<1> QED BY <1>2, <1>3, <1>4 DEF u

-----------------------------------------------------------------------------
(* Control.                                                                  *)

\* Where a session is: what is flushed there, whether the code is still owed,
\* how often it has collected, and what it has heard since the last flush.
Control ==
  /\ pc \in {"driving", "fetching", "closing", "closed"} => flushed = read
  /\ pc \in {"awaiting", "fetching"} => ~otpDone
  /\ pc \in {"awaiting", "draining"} => tries <= 2
  /\ widget # 0 => bot[widget].widget # "none"
  /\ heard # {} => flushed < read
  /\ pc \in {"driving", "fetching", "judging"} => heard = {}
  /\ pc \in {"draining", "judging"} => flushed < read

\* The steps that leave the transcript alone.
Silent ==
  \/ \E f \in Frames : BotSends(f)
  \/ ReadFrame \/ StartFails \/ DriverFails
  \/ \E d \in BOOLEAN : AwaitPrompt(d)
  \/ \E d \in BOOLEAN : Speak(d) /\ pc' = "fetching"
  \/ PromptHeard /\ pc' = "awaiting"
  \/ ReplyHeard \/ Drained \/ DrainFails \/ Close \/ UNCHANGED vars

\* The steps that flush.
Flushes == Greeted \/ (PromptHeard /\ pc' = "fetching") \/ PromptFails \/ EndTurn

\* The steps of the customer: its own message, the code, a click.
Own   == \E d \in BOOLEAN : Speak(d) /\ pc' = "asking" /\ Append1(Entry("own", 0))
Code  == CodeFetched
Clicking == \E d \in BOOLEAN : Click(d)

\* The steps that end the chat with an error.
Fails == CodeMissing \/ ReplyFails

\* Every step is of one of these kinds.
LEMMA Kinds ==
  ASSUME [Next]_vars
  PROVE  Silent \/ Flushes \/ Own \/ Code \/ Clicking \/ Fails
<1>1. ASSUME NEW d \in BOOLEAN, Speak(d) PROVE Silent \/ Own
  BY <1>1 DEF Speak, Silent, Own
<1>2. CASE PromptHeard
  BY <1>2 DEF PromptHeard, Silent, Flushes
<1> QED
  BY <1>1, <1>2 DEF Next, Over, Silent, Flushes, Code, Clicking, Fails

\* What a silent step does to the log, and what reading goes on.
LEMMA SilentLog ==
  ASSUME TypeOK, Silent
  PROVE  /\ transcript' = transcript /\ flushed' = flushed
         /\ read' \in {read, read + 1} /\ bot' \in Seq(Frames) /\ read' \in 0..Len(bot')
         /\ \A n \in 1..read : bot'[n] = bot[n]
         /\ Len(bot) \in Nat
<1>1. Len(bot) \in Nat /\ DOMAIN bot = 1..Len(bot)
  BY LenProperties DEF TypeOK
<1>2. CASE \E f \in Frames : BotSends(f)
  <2>1. PICK f \in Frames : bot' = Append(bot, f) /\ UNCHANGED <<read, transcript, flushed>>
    BY <1>2 DEF BotSends, wire, log
  <2> QED BY <1>1, <2>1, AppendProperties DEF TypeOK
<1>3. CASE ~\E f \in Frames : BotSends(f)
  <2>1. UNCHANGED <<bot, transcript, flushed>> /\ read' \in {read, IF read < Len(bot) THEN read + 1 ELSE read}
    BY <1>3 DEF Silent, ReadFrame, StartFails, DriverFails, AwaitPrompt, Speak, PromptHeard, ReplyHeard,
       Drained, DrainFails, Close, vars, wire, log
  <2> QED BY <1>1, <2>1 DEF TypeOK
<1> QED BY <1>2, <1>3

\* A flush of the code is one of Flushing.
LEMMA FlushIs == Flush <=> transcript' = transcript \o New(flushed, read) /\ flushed' = read
BY DEF Flush, Flushed, Entry, New

\* What the other steps do to the log.
LEMMA FlushLog ==
  ASSUME Flushes
  PROVE  /\ transcript' = transcript \o New(flushed, read) /\ flushed' = read
         /\ bot' = bot /\ read' = read
<1>1. Flush
  BY DEF Flushes, Greeted, PromptHeard, PromptFails, EndTurn
<1>2. bot' = bot /\ read' = read
  BY DEF Flushes, Greeted, PromptHeard, PromptFails, EndTurn, wire
<1> QED BY <1>1, <1>2, FlushIs

\* The entry a customer's step appends.
Spoken(e) == transcript' = Append(transcript, e) /\ flushed' = flushed /\ bot' = bot /\ read' = read

LEMMA SpeakLog ==
  ASSUME TypeOK, Control
  PROVE  /\ Own => /\ Spoken([who |-> "own", frame |-> 0, seen |-> read])
                   /\ flushed = read
         /\ Code => /\ Spoken([who |-> "code", frame |-> 0, seen |-> read])
                    /\ flushed = read
         /\ Clicking => /\ Spoken([who |-> "click", frame |-> widget, seen |-> read])
                        /\ flushed = read /\ widget # 0
<1>1. Own => /\ Spoken([who |-> "own", frame |-> 0, seen |-> read]) /\ flushed = read
  BY DEF Own, Speak, Append1, Entry, Spoken, Control
<1>2. Code => /\ Spoken([who |-> "code", frame |-> 0, seen |-> read]) /\ flushed = read
  BY DEF Code, CodeFetched, Append1, Entry, Spoken, Control, wire
<1>3. Clicking => /\ Spoken([who |-> "click", frame |-> widget, seen |-> read])
                  /\ flushed = read /\ widget # 0
  BY DEF Clicking, Click, Append1, Entry, Spoken, Control
<1> QED BY <1>1, <1>2, <1>3

LEMMA FailLog ==
  ASSUME Fails
  PROVE  /\ transcript' = Append(transcript \o New(flushed, read), [who |-> "error", frame |-> 0, seen |-> read])
         /\ flushed' = read /\ bot' = bot /\ read' = read
<1>1. ChatFails /\ bot' = bot /\ read' = read
  BY DEF Fails, CodeMissing, ReplyFails, wire
<1>2. Flushed = transcript \o New(flushed, read)
  BY DEF Flushed, Entry, New
<1> QED BY <1>1, <1>2 DEF ChatFails, Entry

\* Entries of a transcript are of its type when more has been read.
LEMMA Later ==
  ASSUME NEW r \in Nat, NEW q \in Nat, r <= q, NEW t \in Seq(Record(r))
  PROVE  t \in Seq(Record(q))
<1>1. Record(r) \subseteq Record(q)
  BY DEF Record
<1> QED BY <1>1, SeqMonotonic

\* The log stays typed, and a faithful transcript faithful.
LEMMA LogKept ==
  ASSUME TypeOK, Control, [Next]_vars
  PROVE  /\ read' \in Nat /\ flushed' \in 0..read' /\ read' \in 0..Len(bot') /\ bot' \in Seq(Frames)
         /\ transcript' \in Seq(Record(read'))
         /\ Faithful(transcript, flushed, read) => Faithful(transcript', flushed', read')
         /\ \A i \in 1..Len(transcript) : transcript'[i] = transcript[i]
         /\ \A n \in 1..read : bot'[n] = bot[n]
         /\ Len(transcript') >= Len(transcript) /\ read' >= read
         /\ Len(transcript) \in Nat /\ Len(transcript') \in Nat
<1>1. /\ read \in Nat /\ flushed \in 0..read /\ transcript \in Seq(Record(read)) /\ Len(transcript) \in Nat
      /\ bot \in Seq(Frames) /\ read \in 0..Len(bot) /\ Len(bot) \in Nat
  BY LenProperties DEF TypeOK, Record
<1>0. /\ transcript \o New(flushed, read) \in Seq(Record(read))
      /\ Len(transcript \o New(flushed, read)) >= Len(transcript)
      /\ Len(transcript \o New(flushed, read)) \in Nat
      /\ \A i \in 1..Len(transcript) : (transcript \o New(flushed, read))[i] = transcript[i]
      /\ Faithful(transcript, flushed, read) => Faithful(transcript \o New(flushed, read), read, read)
  <2>1. /\ transcript \o New(flushed, read) \in Seq(Record(read))
        /\ Len(transcript \o New(flushed, read)) = Len(transcript) + (read - flushed)
        /\ \A i \in 1..Len(transcript) : (transcript \o New(flushed, read))[i] = transcript[i]
        /\ Faithful(transcript, flushed, read) => Faithful(transcript \o New(flushed, read), read, read)
    BY <1>1, Flushing
  <2>2. read - flushed \in Nat
    BY <1>1
  <2> QED BY <1>1, <2>1, <2>2
<1>2. CASE Silent
  <2>1. read' \in Nat /\ read <= read'
    BY <1>1, <1>2, SilentLog
  <2>2. transcript' \in Seq(Record(read'))
    BY <1>1, <1>2, <2>1, Later, SilentLog
  <2>3. Faithful(transcript, flushed, read) => Faithful(transcript', flushed', read')
    BY <1>2, SilentLog DEF Faithful
  <2> QED BY <1>1, <1>2, <2>1, <2>2, <2>3, SilentLog
<1>3. CASE Flushes
  <2>1. transcript' = transcript \o New(flushed, read) /\ flushed' = read /\ bot' = bot /\ read' = read
    BY <1>3, FlushLog
  <2> HIDE DEF New
  <2>2. /\ transcript' \in Seq(Record(read')) /\ Len(transcript') >= Len(transcript)
        /\ Len(transcript') \in Nat
        /\ \A i \in 1..Len(transcript) : transcript'[i] = transcript[i]
    BY <1>0, <2>1
  <2>3. Faithful(transcript, flushed, read) => Faithful(transcript', flushed', read')
    BY <1>0, <2>1
  <2> QED BY <1>1, <2>1, <2>2, <2>3
<1>4. ASSUME NEW e \in Record(read), e.who # "bot", e.seen = read, Spoken(e), flushed = read
      PROVE  /\ transcript' \in Seq(Record(read'))
             /\ Faithful(transcript, flushed, read) => Faithful(transcript', flushed', read')
             /\ \A i \in 1..Len(transcript) : transcript'[i] = transcript[i]
             /\ Len(transcript') = Len(transcript) + 1
  BY <1>1, <1>4, Appending DEF Spoken
<1>5. CASE Own \/ Code \/ Clicking
  <2>1. PICK e \in Record(read) : e.who # "bot" /\ e.seen = read /\ Spoken(e) /\ flushed = read
    <3>1. CASE Own
      <4>1. [who |-> "own", frame |-> 0, seen |-> read] \in Record(read)
        BY <1>1 DEF Record, Who
      <4> QED BY <3>1, <4>1, SpeakLog
    <3>2. CASE Code
      <4>1. [who |-> "code", frame |-> 0, seen |-> read] \in Record(read)
        BY <1>1 DEF Record, Who
      <4> QED BY <3>2, <4>1, SpeakLog
    <3>3. CASE Clicking
      <4>1. [who |-> "click", frame |-> widget, seen |-> read] \in Record(read)
        BY <1>1 DEF Record, Who, TypeOK
      <4> QED BY <3>3, <4>1, SpeakLog
    <3> QED BY <1>5, <3>1, <3>2, <3>3
  <2>2. read' = read /\ flushed' = flushed /\ bot' = bot
    BY <2>1 DEF Spoken
  <2> QED BY <1>1, <1>4, <2>1, <2>2
<1>6. CASE Fails
  <2> DEFINE e == [who |-> "error", frame |-> 0, seen |-> read]
             u == transcript \o New(flushed, read)
  <2>1. e \in Record(read) /\ e.who # "bot" /\ e.seen = read
    BY <1>1 DEF Record, Who
  <2>2. /\ u \in Seq(Record(read)) /\ Len(u) >= Len(transcript) /\ Len(u) \in Nat
        /\ \A i \in 1..Len(transcript) : u[i] = transcript[i]
        /\ Faithful(transcript, flushed, read) => Faithful(u, read, read)
    BY <1>0 DEF u
  <2>3. transcript' = Append(u, e) /\ flushed' = read /\ bot' = bot /\ read' = read
    BY <1>6, FailLog
  <2> HIDE DEF e, u
  <2>4. /\ transcript' \in Seq(Record(read)) /\ Len(transcript') = Len(u) + 1
        /\ \A i \in 1..Len(u) : transcript'[i] = u[i]
        /\ Faithful(u, read, read) => Faithful(transcript', read, read)
    BY <1>1, <2>1, <2>2, <2>3, Appending
  <2> QED BY <1>1, <2>2, <2>3, <2>4
<1> QED BY <1>2, <1>3, <1>5, <1>6, Kinds

\* Frames the bot sent are frames.
LEMMA BotTyped ==
  ASSUME TypeOK, NEW n \in 1..Len(bot)
  PROVE  bot[n].says \in SUBSET Says /\ bot[n].widget \in {"none", "single", "quick"}
<1>1. bot[n] \in Frames
  <2>1. bot \in [1..Len(bot) -> Frames]
    BY LenProperties DEF TypeOK
  <2> QED BY <2>1
<1>2. bot[n] \in Frame
  BY <1>1, ChatAssumption
<1> QED BY <1>2 DEF Frame

\* The variables that are neither log nor bot.
Rest ==
  /\ pc \in {"opening", "driving", "awaiting", "fetching", "asking", "selecting",
             "draining", "judging", "closing", "closed", "raised"}
  /\ heard \in SUBSET Says
  /\ last \in SUBSET Says
  /\ tries \in 0..3
  /\ turn \in 1..MaxTurns
  /\ done \in BOOLEAN
  /\ widget \in 0..read
  /\ picked \in {"none", "single", "quick"}
  /\ awaitOtp \in BOOLEAN
  /\ otpDone \in BOOLEAN
  /\ released \in 0..1
  /\ error \in {"none", "driver", "chat", "outage", "max_turns"}

\* Every step keeps the types and the control.
LEMMA TypeInductive == TypeOK /\ Control /\ [Next]_vars => TypeOK' /\ Control'
<1> SUFFICES ASSUME TypeOK, Control, [Next]_vars PROVE TypeOK' /\ Control'
  OBVIOUS
<1>1. /\ read' \in Nat /\ flushed' \in 0..read' /\ read' \in 0..Len(bot') /\ bot' \in Seq(Frames)
      /\ transcript' \in Seq(Record(read'))
  BY LogKept
<1>2. Rest' => TypeOK'
  BY <1>1 DEF Rest, TypeOK, Record
<1>3. /\ Rest /\ read \in Nat /\ flushed \in 0..read /\ MaxTurns \in Nat
      /\ Len(bot) \in Nat /\ read \in 0..Len(bot) /\ DOMAIN bot = 1..Len(bot)
  BY LenProperties, ChatAssumption DEF TypeOK, Rest
<1>4. ASSUME NEW f \in Frames, BotSends(f) PROVE Rest' /\ Control'
  <2>1. widget # 0 => bot'[widget] = bot[widget]
    BY <1>3, <1>4, LogKept DEF Rest, BotSends, wire
  <2> QED BY <1>3, <1>4, <2>1 DEF BotSends, wire, log, otp, Rest, Control
<1>5. CASE ReadFrame
  <2>1. read' = read + 1 /\ read' \in 1..Len(bot)
    BY <1>3, <1>5 DEF ReadFrame
  <2>2. bot[read'].says \subseteq Says
    BY <2>1, BotTyped
  <2>3. /\ pc' = pc /\ pc \in {"opening", "awaiting", "asking", "selecting", "draining"}
        /\ heard' = heard \union bot[read'].says
        /\ widget' = (IF bot[read'].widget = "none" THEN widget ELSE read')
        /\ UNCHANGED <<bot, flushed, last, tries, turn, done, picked, awaitOtp, otpDone, released, error>>
    BY <1>5 DEF ReadFrame, Collecting, log, otp
  <2>4. Rest'
    BY <1>3, <2>1, <2>2, <2>3 DEF Rest
  <2>5. widget' # 0 => bot'[widget'].widget # "none"
    BY <1>3, <2>1, <2>3 DEF Control
  <2>6. flushed' < read'
    BY <1>3, <2>1, <2>3
  <2> QED BY <1>2, <2>3, <2>4, <2>5, <2>6 DEF Control
<1>0. ASSUME bot' = bot, widget' \in {0, widget} PROVE widget' # 0 => bot'[widget'].widget # "none"
  BY <1>0 DEF Control
<1>6. CASE StartFails \/ DriverFails \/ DrainFails \/ Close
  <2>1. /\ UNCHANGED <<bot, read, widget, flushed, last, tries, turn, done, picked, awaitOtp, otpDone>>
        /\ heard' \in {heard, {}}
        /\ \/ pc = "opening" /\ pc' = "raised" /\ UNCHANGED <<error, released>>
           \/ pc = "driving" /\ pc' = "closing" /\ error' = "driver" /\ UNCHANGED released
           \/ pc = "draining" /\ pc' = "judging" /\ heard' = {} /\ UNCHANGED <<error, released>>
           \/ pc = "closing" /\ pc' = "closed" /\ released' \in {1, released} /\ UNCHANGED error
    BY <1>6 DEF StartFails, DriverFails, DrainFails, Close, EndWith, wire, log, otp
  <2>2. Rest'
    BY <1>3, <2>1 DEF Rest
  <2> QED BY <1>2, <1>0, <2>1, <2>2 DEF Control
<1>7. ASSUME NEW d \in BOOLEAN, AwaitPrompt(d) PROVE Rest' /\ Control'
  <2>1. /\ UNCHANGED <<bot, read, heard, widget, flushed, last, turn, otpDone, released, error>>
        /\ pc = "driving" /\ ~otpDone /\ pc' = "awaiting" /\ awaitOtp' = FALSE
        /\ done' = d /\ tries' = 0 /\ picked' = "none"
    BY <1>7 DEF AwaitPrompt, wire, log
  <2>2. awaitOtp' \in BOOLEAN
    BY <2>1, Zenon
  <2>3. Rest'
    BY <1>3, <2>1, <2>2 DEF Rest
  <2> QED BY <1>2, <1>0, <2>1, <2>3 DEF Control
<1>8. ASSUME NEW d \in BOOLEAN, Speak(d) PROVE Rest' /\ Control'
  <2>1. /\ pc = "driving" /\ widget' = 0 /\ done' = d /\ picked' = "none"
        /\ pc' \in {"fetching", "asking"} /\ (pc' = "fetching" => ~otpDone) /\ flushed' = flushed
        /\ UNCHANGED <<bot, read, heard, last, tries, turn, awaitOtp, otpDone, released, error>>
    BY <1>8 DEF Speak, Append1, log, otp
  <2> QED BY <1>2, <1>3, <2>1 DEF Rest, Control
<1>9. ASSUME NEW d \in BOOLEAN, Click(d) PROVE Rest' /\ Control'
  <2>1. /\ pc = "driving" /\ widget' = 0 /\ widget # 0 /\ done' = d /\ picked' = bot[widget].widget
        /\ pc' = "selecting" /\ flushed' = flushed
        /\ UNCHANGED <<bot, read, heard, last, tries, turn, awaitOtp, otpDone, released, error>>
    BY <1>9 DEF Click, Append1, log, otp
  <2>2. picked' \in {"single", "quick"}
    <3>1. widget \in 1..Len(bot)
      BY <1>3, <2>1 DEF Rest
    <3> QED BY <2>1, <3>1, BotTyped DEF Control
  <2> QED BY <1>2, <1>3, <2>1, <2>2 DEF Rest, Control
<1>10. CASE Greeted \/ PromptFails
  <2>1. /\ UNCHANGED <<bot, read, widget, tries, turn, done, picked, awaitOtp, otpDone, released, error>>
        /\ flushed' = read /\ heard' = {} /\ last' \in {last, heard}
        /\ \/ pc = "opening" /\ pc' = "driving"
           \/ pc = "awaiting" /\ pc' = "fetching"
    BY <1>10 DEF Greeted, PromptFails, Flush, otp
  <2>2. Rest'
    BY <1>3, <2>1 DEF Rest
  <2> QED BY <1>2, <1>0, <1>3, <2>1, <2>2 DEF Control
<1>11. CASE PromptHeard
  <2>1. /\ UNCHANGED <<bot, read, widget, turn, done, picked, awaitOtp, otpDone, released, error>>
        /\ heard' = {} /\ last' = heard /\ tries' = tries + 1 /\ pc = "awaiting"
        /\ \/ pc' = "fetching" /\ flushed' = read
           \/ pc' = "awaiting" /\ tries' # 3 /\ flushed' = flushed
    BY <1>11 DEF PromptHeard, Flush, log, otp
  <2>2. tries \in 0..2
    BY <1>3, <2>1 DEF Rest, Control
  <2>3. Rest'
    BY <1>3, <2>1, <2>2 DEF Rest
  <2>4. pc' = "awaiting" => tries' <= 2
    BY <2>1, <2>2
  <2> QED BY <1>2, <1>0, <1>3, <2>1, <2>3, <2>4 DEF Control
<1>12. CASE CodeFetched
  <2>1. /\ UNCHANGED <<bot, read, heard, widget, flushed, last, tries, turn, done, picked, awaitOtp, error>>
        /\ pc = "fetching" /\ pc' = "asking" /\ otpDone' = TRUE /\ released' \in {1, released}
    BY <1>12 DEF CodeFetched, Append1, wire
  <2>2. Rest'
    BY <1>3, <2>1 DEF Rest
  <2> QED BY <1>2, <1>0, <2>1, <2>2 DEF Control
<1>13. CASE CodeMissing \/ ReplyFails
  <2>1. /\ UNCHANGED <<bot, read, widget, last, tries, turn, done, picked, awaitOtp, otpDone, released>>
        /\ pc' = "closing" /\ error' = "chat" /\ flushed' = read /\ heard' \in {{}, heard}
        /\ heard' = {} \/ pc = "fetching"
    BY <1>13 DEF CodeMissing, ReplyFails, ChatFails, EndWith, wire, otp
  <2>2. Rest'
    BY <1>3, <2>1 DEF Rest
  <2>3. heard' = {}
    BY <2>1 DEF Control
  <2> QED BY <1>2, <1>0, <2>1, <2>2, <2>3 DEF Control
<1>14. CASE ReplyHeard
  <2>1. /\ UNCHANGED <<bot, read, widget, flushed, turn, done, picked, otpDone, released, error>>
        /\ heard # {} /\ heard' = {} /\ last' = heard /\ tries' = 0 /\ awaitOtp' \in BOOLEAN
        /\ pc' \in {"draining", "judging"}
    BY <1>3, <1>14 DEF ReplyHeard, Mailed, log, Rest
  <2>2. Rest'
    BY <1>3, <2>1 DEF Rest
  <2>3. flushed' < read'
    BY <2>1 DEF Control
  <2> QED BY <1>2, <1>0, <2>1, <2>2, <2>3 DEF Control
<1>15. CASE Drained
  <2>1. /\ UNCHANGED <<bot, read, widget, flushed, turn, done, picked, awaitOtp, otpDone, released, error>>
        /\ heard # {} /\ heard' = {} /\ last' = heard /\ tries' = tries + 1 /\ pc = "draining"
        /\ pc' \in {"draining", "judging"} /\ (pc' = "draining" => tries' < 2)
    BY <1>15 DEF Drained, log, otp
  <2>2. tries \in 0..2
    BY <1>3, <2>1 DEF Rest, Control
  <2>3. Rest'
    BY <1>3, <2>1, <2>2 DEF Rest
  <2>4. flushed' < read' /\ (pc' = "draining" => tries' <= 2)
    BY <2>1, <2>2 DEF Control
  <2> QED BY <1>2, <1>0, <2>1, <2>3, <2>4 DEF Control
<1>16. CASE UNCHANGED vars
  <2>1. Rest'
    BY <1>3, <1>16 DEF vars, wire, log, otp, Rest
  <2> QED BY <1>2, <1>16, <2>1 DEF vars, wire, log, otp, Control
<1>18. CASE EndTurn
  <2>1. /\ UNCHANGED <<bot, read, heard, widget, last, tries, done, picked, awaitOtp, otpDone, released>>
        /\ pc = "judging" /\ flushed' = read
        /\ \/ pc' = "closing" /\ turn' = turn /\ error' \in {"outage", "none", "max_turns"}
           \/ pc' = "driving" /\ turn < MaxTurns /\ turn' = turn + 1 /\ error' = error
    BY <1>18 DEF EndTurn, EndWith, Flush, wire, otp
  <2>2. Rest'
    BY <1>3, <2>1 DEF Rest
  <2> QED BY <1>2, <1>0, <2>1, <2>2 DEF Control
<1> QED
  BY <1>2, <1>4, <1>5, <1>6, <1>7, <1>8, <1>9, <1>10, <1>11, <1>12, <1>13, <1>14, <1>15, <1>16, <1>18
     DEF Next, Over

\* Entries have their type.
LEMMA EntryTyped ==
  ASSUME TypeOK
  PROVE  /\ DOMAIN transcript = 1..Len(transcript) /\ Len(transcript) \in Nat
         /\ \A k \in 1..Len(transcript) : /\ transcript[k] \in Record(read)
                                          /\ transcript[k].seen \in 0..read
                                          /\ transcript[k].who \in Who
<1>1. transcript \in [1..Len(transcript) -> Record(read)] /\ Len(transcript) \in Nat
  BY LenProperties DEF TypeOK, Record
<1>2. \A k \in 1..Len(transcript) : transcript[k] \in Record(read)
  BY <1>1
<1> QED BY <1>1, <1>2 DEF Record

\* The entries a step adds to the transcript.
LEMMA Added ==
  ASSUME TypeOK, Control, [Next]_vars, NEW i \in 1..Len(transcript'), i \notin 1..Len(transcript)
  PROVE  \/ Flushes /\ transcript'[i].who = "bot"
         \/ Fails /\ transcript'[i].who \in {"bot", "error"}
         \/ /\ i = Len(transcript) + 1
            /\ \/ Own /\ transcript'[i] = [who |-> "own", frame |-> 0, seen |-> read]
               \/ Code /\ transcript'[i] = [who |-> "code", frame |-> 0, seen |-> read]
               \/ /\ Clicking /\ widget # 0
                  /\ transcript'[i] = [who |-> "click", frame |-> widget, seen |-> read]
<1>1. /\ read \in Nat /\ flushed \in 0..read /\ transcript \in Seq(Record(read)) /\ Len(transcript) \in Nat
      /\ read - flushed \in Nat
  BY LenProperties DEF TypeOK, Record
<1>2. CASE Silent
  BY <1>2, SilentLog
<1> DEFINE u == transcript \o New(flushed, read)
<1>3. /\ u \in Seq(Record(read)) /\ Len(u) = Len(transcript) + (read - flushed)
      /\ \A j \in 1..Len(transcript) : u[j] = transcript[j]
      /\ \A j \in 1..(read - flushed) :
           u[Len(transcript) + j] = [who |-> "bot", frame |-> flushed + j, seen |-> read]
  BY <1>1, Flushing
<1> HIDE DEF u
<1>4. ASSUME NEW k \in 1..Len(u), k \notin 1..Len(transcript) PROVE u[k].who = "bot"
  <2> DEFINE j == k - Len(transcript)
  <2>1. j \in 1..(read - flushed) /\ k = Len(transcript) + j
    BY <1>1, <1>3, <1>4
  <2> HIDE DEF j
  <2>2. u[k] = [who |-> "bot", frame |-> flushed + j, seen |-> read]
    BY <1>3, <2>1
  <2> QED BY <2>2
<1>5. CASE Flushes
  <2>1. transcript' = u
    BY <1>5, FlushLog DEF u
  <2> QED BY <1>4, <1>5, <2>1
<1>6. ASSUME NEW e \in Record(read), e.who # "bot", e.seen = read, transcript' = Append(transcript, e)
      PROVE  i = Len(transcript) + 1 /\ transcript'[i] = e
  BY <1>1, <1>6, Appending
<1>7. CASE Own
  <2>1. [who |-> "own", frame |-> 0, seen |-> read] \in Record(read)
    BY <1>1 DEF Record, Who
  <2> QED BY <1>6, <1>7, <2>1, SpeakLog DEF Spoken
<1>8. CASE Code
  <2>1. [who |-> "code", frame |-> 0, seen |-> read] \in Record(read)
    BY <1>1 DEF Record, Who
  <2> QED BY <1>6, <1>8, <2>1, SpeakLog DEF Spoken
<1>9. CASE Clicking
  <2>1. [who |-> "click", frame |-> widget, seen |-> read] \in Record(read)
    BY <1>1 DEF Record, Who, TypeOK
  <2> QED BY <1>6, <1>9, <2>1, SpeakLog DEF Spoken
<1>10. CASE Fails
  <2> DEFINE e == [who |-> "error", frame |-> 0, seen |-> read]
  <2>1. e \in Record(read) /\ e.who # "bot" /\ e.seen = read /\ e.who = "error"
    BY <1>1 DEF Record, Who
  <2>2. transcript' = Append(u, e)
    BY <1>10, FailLog DEF u
  <2> HIDE DEF e
  <2>3. /\ Len(transcript') = Len(u) + 1 /\ Len(u) \in Nat /\ transcript'[Len(u) + 1] = e
        /\ \A j \in 1..Len(u) : transcript'[j] = u[j]
    <3>1. /\ Len(Append(u, e)) = Len(u) + 1 /\ Len(u) \in Nat /\ Append(u, e)[Len(u) + 1] = e
          /\ \A j \in 1..Len(u) : Append(u, e)[j] = u[j]
      BY <1>1, <1>3, <2>1, Appending
    <3> QED BY <2>2, <3>1
  <2>4. CASE i \in 1..Len(u)
    BY <1>4, <1>10, <2>3, <2>4
  <2>5. CASE i = Len(u) + 1
    BY <1>10, <2>1, <2>3, <2>5
  <2> QED BY <2>3, <2>4, <2>5
<1> QED BY <1>2, <1>5, <1>7, <1>8, <1>9, <1>10, Kinds

-----------------------------------------------------------------------------
(* The code.                                                                 *)

Mentioned == \E n \in 1..read : bot[n].says \intersect {"ask", "email"} # {}

\* The code is owed only when the bot spoke of it; it is in the transcript once
\* it was fetched, and only then.
Asked ==
  /\ \/ awaitOtp \/ pc \in {"awaiting", "fetching"}
     \/ heard \intersect {"ask", "email"} # {} \/ last \intersect {"ask", "email"} # {}
     => Mentioned
  /\ \A i \in 1..Len(transcript) : transcript[i].who = "code" =>
       /\ otpDone
       /\ \E n \in 1..transcript[i].seen : bot[n].says \intersect {"ask", "email"} # {}
       /\ \A j \in 1..Len(transcript) : transcript[j].who = "code" => j = i
  /\ otpDone => \E i \in 1..Len(transcript) : transcript[i].who = "code"
  /\ released = IF otpDone \/ pc = "closed" THEN 1 ELSE 0

\* What was said stays said.
LEMMA StaysMentioned ==
  ASSUME TypeOK, Control, [Next]_vars, Mentioned
  PROVE  Mentioned'
<1>1. /\ read \in Nat /\ read' \in Nat /\ read' >= read
      /\ \A n \in 1..read : bot'[n] = bot[n]
  BY LogKept DEF TypeOK
<1>2. PICK n \in 1..read : bot[n].says \intersect {"ask", "email"} # {}
  BY DEF Mentioned
<1>3. n \in 1..read' /\ bot'[n] = bot[n]
  BY <1>1
<1> QED BY <1>2, <1>3 DEF Mentioned

\* The first part of Asked.
Owed ==
  \/ awaitOtp \/ pc \in {"awaiting", "fetching"}
  \/ heard \intersect {"ask", "email"} # {} \/ last \intersect {"ask", "email"} # {}

LEMMA OwedInductive ==
  ASSUME TypeOK, Control, Owed => Mentioned, [Next]_vars
  PROVE  Owed' => Mentioned'
<1>1. CASE Owed
  BY <1>1, StaysMentioned
<1>2. CASE ~Owed /\ ~ReadFrame
  <2>1. ~Owed'
    <3>1. /\ ~awaitOtp /\ pc \notin {"awaiting", "fetching"}
          /\ "ask" \notin heard /\ "email" \notin heard /\ "ask" \notin last /\ "email" \notin last
      BY <1>2 DEF Owed
    <3>2. /\ ~awaitOtp' /\ pc' \notin {"awaiting", "fetching"}
          /\ heard' \in {heard, {}} /\ last' \in {heard, last}
      <4>1. CASE \/ \E f \in Frames : BotSends(f)
                 \/ StartFails \/ Greeted \/ DriverFails \/ PromptHeard \/ PromptFails
        BY <3>1, <4>1 DEF BotSends, StartFails, Greeted, DriverFails, PromptHeard, PromptFails, EndWith, wire, otp
      <4>2. CASE \E d \in BOOLEAN : AwaitPrompt(d) \/ Click(d) \/ Speak(d)
        BY <3>1, <4>2 DEF AwaitPrompt, Click, Speak, wire, otp
      <4>3. CASE CodeFetched \/ CodeMissing \/ Close \/ UNCHANGED vars
        BY <3>1, <4>3 DEF CodeFetched, CodeMissing, Close, ChatFails, EndWith, vars, wire, otp
      <4>4. CASE ReplyHeard \/ ReplyFails
        <5>1. ~Mailed
          BY <3>1 DEF Mailed
        <5>2. ~awaitOtp'
          BY <3>1, <4>4, <5>1, Zenon DEF ReplyHeard, ReplyFails, otp
        <5>3. pc' \in {"draining", "judging", "closing"} /\ heard' = {} /\ last' \in {heard, last}
          BY <4>4 DEF ReplyHeard, ReplyFails, ChatFails, EndWith
        <5> QED BY <5>2, <5>3
      <4>5. CASE Drained \/ DrainFails \/ EndTurn
        BY <3>1, <4>5 DEF Drained, DrainFails, EndTurn, EndWith, wire, otp
      <4> QED BY <1>2, <4>1, <4>2, <4>3, <4>4, <4>5 DEF Next, Over
    <3> QED BY <3>1, <3>2 DEF Owed
  <2> QED BY <2>1
<1>3. CASE ReadFrame
  <2>1. /\ read' = read + 1 /\ read' \in 1..Len(bot) /\ bot' = bot /\ read \in Nat
        /\ heard' = heard \union bot[read'].says /\ UNCHANGED <<pc, last, awaitOtp>>
    BY <1>3, LenProperties DEF ReadFrame, otp, TypeOK
  <2>2. CASE bot[read'].says \intersect {"ask", "email"} # {}
    BY <2>1, <2>2 DEF Mentioned
  <2>3. CASE bot[read'].says \intersect {"ask", "email"} = {}
    <3>1. Owed' => Owed
      BY <2>1, <2>3 DEF Owed
    <3> QED BY <3>1, StaysMentioned
  <2> QED BY <2>2, <2>3
<1> QED BY <1>1, <1>2, <1>3

\* What a step does to the code.
LEMMA CodeKept ==
  ASSUME TypeOK, Control, released = IF otpDone \/ pc = "closed" THEN 1 ELSE 0, [Next]_vars
  PROVE  /\ Code => pc = "fetching" /\ ~otpDone /\ otpDone' = TRUE
         /\ ~Code => otpDone' = otpDone
         /\ released' = IF otpDone' \/ pc' = "closed" THEN 1 ELSE 0
<1>1. CASE Code
  <2>1. pc = "fetching" /\ ~otpDone /\ otpDone' = TRUE /\ released = 0 /\ released' = 1
    BY <1>1 DEF Code, CodeFetched, Control
  <2> QED BY <1>1, <2>1
<1>2. CASE Close
  <2>1. pc = "closing" /\ pc' = "closed" /\ otpDone' = otpDone /\ released' = IF released = 0 THEN 1 ELSE released
    BY <1>2 DEF Close
  <2>2. released' = 1
    BY <2>1 DEF TypeOK
  <2> QED BY <2>1, <2>2 DEF Code, CodeFetched
<1>3. CASE ~Code /\ ~Close
  <2>1. otpDone' = otpDone /\ released' = released /\ (pc' = "closed" <=> pc = "closed")
    <3>1. CASE \/ \E f \in Frames : BotSends(f)
               \/ ReadFrame \/ StartFails \/ Greeted \/ DriverFails \/ PromptHeard \/ PromptFails
      BY <3>1 DEF BotSends, ReadFrame, Collecting, StartFails, Greeted, DriverFails, PromptHeard, PromptFails,
         EndWith, wire, otp
    <3>2. CASE \E d \in BOOLEAN : AwaitPrompt(d) \/ Click(d) \/ Speak(d)
      BY <3>2 DEF AwaitPrompt, Click, Speak, wire, otp
    <3>3. CASE CodeMissing \/ ReplyHeard \/ ReplyFails \/ UNCHANGED vars
      BY <3>3 DEF CodeMissing, ReplyHeard, ReplyFails, ChatFails, EndWith, vars, wire, otp
    <3>4. CASE Drained \/ DrainFails \/ EndTurn
      BY <3>4 DEF Drained, DrainFails, EndTurn, EndWith, wire, otp
    <3> QED BY <1>3, <3>1, <3>2, <3>3, <3>4 DEF Next, Over, Code
  <2> QED BY <1>3, <2>1
<1> QED BY <1>1, <1>2, <1>3

\* Every step keeps the code to one.
LEMMA AskedInductive == TypeOK /\ Control /\ Asked /\ [Next]_vars => Asked'
<1> SUFFICES ASSUME TypeOK, Control, Asked, [Next]_vars PROVE Asked'
  OBVIOUS
<1>1. /\ Len(transcript) \in Nat /\ Len(transcript') \in Nat /\ Len(transcript') >= Len(transcript)
      /\ \A k \in 1..Len(transcript) : transcript'[k] = transcript[k] /\ k \in 1..Len(transcript')
      /\ \A n \in 1..read : bot'[n] = bot[n]
      /\ read \in Nat
  BY LogKept DEF TypeOK
<1>2. \A k \in 1..Len(transcript) : transcript[k].seen \in 0..read
  BY EntryTyped
<1>3. Owed' => Mentioned'
  BY OwedInductive DEF Asked, Owed
<1>4. /\ Code => pc = "fetching" /\ ~otpDone /\ otpDone' = TRUE
      /\ ~Code => otpDone' = otpDone
      /\ released' = IF otpDone' \/ pc' = "closed" THEN 1 ELSE 0
  BY CodeKept DEF Asked
<1>5. ASSUME NEW k \in 1..Len(transcript'), k \notin 1..Len(transcript), transcript'[k].who = "code"
      PROVE  /\ Code /\ k = Len(transcript) + 1
             /\ \E n \in 1..transcript'[k].seen : bot'[n].says \intersect {"ask", "email"} # {}
  <2>1. Code /\ k = Len(transcript) + 1 /\ transcript'[k] = [who |-> "code", frame |-> 0, seen |-> read]
    BY <1>5, Added
  <2>2. Mentioned
    BY <1>4, <2>1 DEF Asked
  <2>3. transcript'[k].seen = read
    BY <2>1
  <2> QED BY <1>1, <2>1, <2>2, <2>3 DEF Mentioned
<1>6. ASSUME NEW k \in 1..Len(transcript), transcript[k].who = "code"
      PROVE  /\ ~Code /\ otpDone'
             /\ \E n \in 1..transcript'[k].seen : bot'[n].says \intersect {"ask", "email"} # {}
  <2>1. otpDone /\ \E n \in 1..transcript[k].seen : bot[n].says \intersect {"ask", "email"} # {}
    BY <1>6 DEF Asked
  <2>2. \A n \in 1..transcript[k].seen : n \in 1..read
    BY <1>1, <1>2
  <2> QED BY <1>1, <1>4, <2>1, <2>2
<1>7. ASSUME NEW k \in 1..Len(transcript'), transcript'[k].who = "code"
      PROVE  /\ otpDone'
             /\ \E n \in 1..transcript'[k].seen : bot'[n].says \intersect {"ask", "email"} # {}
             /\ \A j \in 1..Len(transcript') : transcript'[j].who = "code" => j = k
  <2>1. CASE k \in 1..Len(transcript)
    <3>1. transcript[k].who = "code"
      BY <1>1, <1>7, <2>1
    <3>2. ASSUME NEW j \in 1..Len(transcript'), transcript'[j].who = "code" PROVE j = k
      <4>1. j \in 1..Len(transcript)
        BY <1>5, <1>6, <2>1, <3>1, <3>2
      <4> QED BY <1>1, <2>1, <3>1, <3>2, <4>1 DEF Asked
    <3> QED BY <1>6, <2>1, <3>1, <3>2
  <2>2. CASE k \notin 1..Len(transcript)
    <3>1. ASSUME NEW j \in 1..Len(transcript'), transcript'[j].who = "code" PROVE j = k
      <4>1. Code /\ k = Len(transcript) + 1
        BY <1>5, <1>7, <2>2
      <4>2. j \notin 1..Len(transcript)
        BY <1>1, <1>6, <3>1, <4>1
      <4>3. j = Len(transcript) + 1
        BY <1>5, <3>1, <4>2
      <4> QED BY <4>1, <4>3
    <3>2. otpDone'
      BY <1>4, <1>5, <1>7, <2>2
    <3> QED BY <1>5, <1>7, <2>2, <3>1, <3>2
  <2> QED BY <2>1, <2>2
<1>8. otpDone' => \E k \in 1..Len(transcript') : transcript'[k].who = "code"
  <2>1. CASE Code
    <3> DEFINE e == [who |-> "code", frame |-> 0, seen |-> read]
    <3>1. e \in Record(read) /\ transcript \in Seq(Record(read)) /\ e.who = "code" /\ e.seen = read
      BY <1>1 DEF TypeOK, Record, Who
    <3>2. transcript' = Append(transcript, e)
      BY <2>1, SpeakLog DEF Spoken
    <3> HIDE DEF e
    <3>3. Len(transcript') = Len(transcript) + 1 /\ transcript'[Len(transcript) + 1] = e
      BY <3>1, <3>2, AppendProperties
    <3> QED BY <1>1, <3>1, <3>3
  <2>2. CASE ~Code
    BY <1>1, <1>4, <2>2 DEF Asked
  <2> QED BY <2>1, <2>2
<1> QED BY <1>3, <1>4, <1>7, <1>8 DEF Asked, Owed

-----------------------------------------------------------------------------
(* Clicks.                                                                   *)

\* A click goes to a widget, the last one shown before it, older than the one
\* that is pending, and to no widget that was clicked before.
Clicked ==
  /\ widget # 0 => \A n \in (widget + 1)..read : bot[n].widget = "none"
  /\ \A i \in 1..Len(transcript) :
       /\ transcript[i].who = "click" =>
            /\ transcript[i].frame \in 1..transcript[i].seen
            /\ bot[transcript[i].frame].widget # "none"
            /\ \A n \in (transcript[i].frame + 1)..transcript[i].seen : bot[n].widget = "none"
            /\ widget # 0 => transcript[i].frame < widget
            /\ \A j \in 1..Len(transcript) :
                 transcript[j].who = "click" /\ transcript[j].frame = transcript[i].frame => j = i
       /\ transcript[i].who \in {"own", "code"} => transcript[i].frame = 0

\* The widget that is pending after a step.
LEMMA Pending ==
  ASSUME TypeOK, Control, [Next]_vars
  PROVE  /\ Clicking => widget' = 0
         /\ \/ widget' = 0
            \/ widget' = widget /\ (read' = read \/ (read' = read + 1 /\ bot'[read'].widget = "none"))
            \/ widget' = read' /\ read' = read + 1
<1>1. CASE \E f \in Frames : BotSends(f)
  BY <1>1 DEF BotSends, wire, Clicking, Click
<1>2. CASE ReadFrame
  BY <1>2 DEF ReadFrame, Collecting, Clicking, Click
<1>3. CASE StartFails \/ Greeted \/ DriverFails \/ PromptHeard \/ PromptFails \/ CodeFetched \/ CodeMissing
  BY <1>3 DEF StartFails, Greeted, DriverFails, PromptHeard, PromptFails, CodeFetched, CodeMissing,
     EndWith, ChatFails, wire, Clicking, Click
<1>4. CASE \E d \in BOOLEAN : AwaitPrompt(d) \/ Click(d) \/ Speak(d)
  BY <1>4 DEF AwaitPrompt, Click, Speak, wire, Clicking
<1>5. CASE \/ ReplyHeard \/ ReplyFails \/ Drained \/ DrainFails \/ EndTurn \/ Close \/ UNCHANGED vars
  BY <1>5 DEF ReplyHeard, ReplyFails, Drained, DrainFails, EndTurn, Close, ChatFails, EndWith, vars, wire,
     Clicking, Click
<1> QED BY <1>1, <1>2, <1>3, <1>4, <1>5 DEF Next, Over

\* Every step keeps clicks to the widgets they were meant for.
LEMMA ClickedInductive == TypeOK /\ Control /\ Clicked /\ [Next]_vars => Clicked'
<1> SUFFICES ASSUME TypeOK, Control, Clicked, [Next]_vars PROVE Clicked'
  OBVIOUS
<1>1. /\ Len(transcript) \in Nat /\ Len(transcript') \in Nat /\ Len(transcript') >= Len(transcript)
      /\ \A k \in 1..Len(transcript) : transcript'[k] = transcript[k] /\ k \in 1..Len(transcript')
      /\ \A n \in 1..read : bot'[n] = bot[n]
      /\ read \in Nat /\ read' \in Nat /\ widget \in 0..read
  BY LogKept DEF TypeOK
<1>2. \A k \in 1..Len(transcript) : transcript[k].seen \in 0..read
  BY EntryTyped
<1>3. /\ Clicking => widget' = 0
      /\ \/ widget' = 0
         \/ widget' = widget /\ (read' = read \/ (read' = read + 1 /\ bot'[read'].widget = "none"))
         \/ widget' = read' /\ read' = read + 1
  BY Pending
<1>4. widget' # 0 => \A n \in (widget' + 1)..read' : bot'[n].widget = "none"
  <2> SUFFICES ASSUME widget' # 0, NEW n \in (widget' + 1)..read' PROVE bot'[n].widget = "none"
    OBVIOUS
  <2>1. widget' = widget /\ widget # 0
    BY <1>1, <1>3
  <2>2. CASE n \in 1..read
    BY <1>1, <2>1, <2>2 DEF Clicked
  <2>3. CASE n \notin 1..read
    BY <1>1, <1>3, <2>1, <2>3
  <2> QED BY <2>2, <2>3
<1>5. ASSUME NEW k \in 1..Len(transcript), transcript[k].who = "click"
      PROVE  /\ transcript'[k].frame \in 1..transcript'[k].seen
             /\ bot'[transcript'[k].frame].widget # "none"
             /\ \A n \in (transcript'[k].frame + 1)..transcript'[k].seen : bot'[n].widget = "none"
             /\ widget' # 0 => transcript'[k].frame < widget'
  <2>1. /\ transcript'[k] = transcript[k] /\ transcript[k].seen \in 0..read
        /\ transcript[k].frame \in 1..transcript[k].seen
        /\ bot[transcript[k].frame].widget # "none"
        /\ \A n \in (transcript[k].frame + 1)..transcript[k].seen : bot[n].widget = "none"
        /\ widget # 0 => transcript[k].frame < widget
    BY <1>1, <1>2, <1>5 DEF Clicked
  <2>2. \A n \in 1..transcript[k].seen : bot'[n] = bot[n]
    BY <1>1, <2>1
  <2>3. widget' # 0 => transcript[k].frame < widget'
    BY <1>1, <1>3, <2>1
  <2>4. \A n \in (transcript[k].frame + 1)..transcript[k].seen : bot'[n].widget = "none"
    BY <2>1, <2>2
  <2> QED BY <2>1, <2>2, <2>3, <2>4
<1>6. ASSUME NEW k \in 1..Len(transcript'), k \notin 1..Len(transcript), transcript'[k].who = "click"
      PROVE  /\ transcript'[k].frame \in 1..transcript'[k].seen
             /\ bot'[transcript'[k].frame].widget # "none"
             /\ \A n \in (transcript'[k].frame + 1)..transcript'[k].seen : bot'[n].widget = "none"
             /\ widget' = 0 /\ k = Len(transcript) + 1 /\ transcript'[k].frame = widget /\ widget # 0
  <2>1. Clicking /\ widget # 0 /\ k = Len(transcript) + 1
        /\ transcript'[k] = [who |-> "click", frame |-> widget, seen |-> read]
    BY <1>6, Added
  <2>2. transcript'[k].frame = widget /\ transcript'[k].seen = read
    BY <2>1
  <2>3. bot[widget].widget # "none" /\ \A n \in (widget + 1)..read : bot[n].widget = "none"
    BY <2>1 DEF Clicked, Control
  <2>4. widget \in 1..read /\ \A n \in (widget + 1)..read : n \in 1..read
    BY <1>1, <2>1
  <2> QED BY <1>1, <1>3, <2>1, <2>2, <2>3, <2>4
<1>7. ASSUME NEW k \in 1..Len(transcript'), transcript'[k].who \in {"own", "code"}
      PROVE  transcript'[k].frame = 0
  <2>1. CASE k \in 1..Len(transcript)
    BY <1>1, <1>7, <2>1 DEF Clicked
  <2>2. CASE k \notin 1..Len(transcript)
    <3>1. \/ transcript'[k] = [who |-> "own", frame |-> 0, seen |-> read]
          \/ transcript'[k] = [who |-> "code", frame |-> 0, seen |-> read]
      BY <1>7, <2>2, Added
    <3> QED BY <3>1
  <2> QED BY <2>1, <2>2
<1>8. ASSUME NEW k \in 1..Len(transcript'), transcript'[k].who = "click",
             NEW j \in 1..Len(transcript'), transcript'[j].who = "click",
             transcript'[j].frame = transcript'[k].frame
      PROVE  j = k
  <2>1. CASE k \in 1..Len(transcript) /\ j \in 1..Len(transcript)
    BY <1>1, <1>8, <2>1 DEF Clicked
  <2>2. CASE k \notin 1..Len(transcript) /\ j \notin 1..Len(transcript)
    BY <1>6, <1>8, <2>2
  <2>3. ASSUME NEW a \in 1..Len(transcript), NEW b \in 1..Len(transcript'), b \notin 1..Len(transcript),
               transcript'[a].who = "click", transcript'[b].who = "click"
        PROVE  transcript'[a].frame # transcript'[b].frame
    <3>1. transcript'[a] = transcript[a] /\ transcript[a].who = "click"
      BY <1>1, <2>3
    <3>2. transcript'[b].frame = widget /\ widget # 0
      BY <1>6, <2>3
    <3>3. transcript[a].frame < widget /\ transcript[a].frame \in 1..transcript[a].seen
      BY <3>1, <3>2 DEF Clicked
    <3> QED BY <1>1, <1>2, <3>1, <3>2, <3>3
  <2> QED BY <1>8, <2>1, <2>2, <2>3
<1>9. ASSUME NEW k \in 1..Len(transcript'), transcript'[k].who = "click"
      PROVE  /\ transcript'[k].frame \in 1..transcript'[k].seen
             /\ bot'[transcript'[k].frame].widget # "none"
             /\ \A n \in (transcript'[k].frame + 1)..transcript'[k].seen : bot'[n].widget = "none"
             /\ widget' # 0 => transcript'[k].frame < widget'
  <2>1. CASE k \in 1..Len(transcript)
    BY <1>1, <1>5, <1>9, <2>1
  <2>2. CASE k \notin 1..Len(transcript)
    BY <1>6, <1>9, <2>2
  <2> QED BY <2>1, <2>2
<1> QED BY <1>4, <1>7, <1>8, <1>9 DEF Clicked

-----------------------------------------------------------------------------
(* How a session ends.                                                       *)

\* The messages of a customer in a transcript.
Spoke(t) == {i \in 1..Len(t) : t[i].who \in {"own", "code", "click"}}

LastWho(w) == Len(transcript) > 0 /\ transcript[Len(transcript)].who = w

\* One message of the customer a turn, and what a session that ends says of
\* itself.
Ended ==
  /\ pc \in {"asking", "selecting", "draining", "judging"} => Cardinality(Spoke(transcript)) = turn
  /\ pc \in {"opening", "driving", "awaiting", "fetching", "raised"} =>
       Cardinality(Spoke(transcript)) = turn - 1
  /\ pc \notin {"closing", "closed"} => error = "none"
  /\ error # "chat" => \A i \in 1..Len(transcript) : transcript[i].who # "error"
  /\ pc \in {"closing", "closed"} =>
       /\ error = "none" => /\ done /\ "outage" \notin last
                            /\ Cardinality(Spoke(transcript)) = turn /\ LastWho("bot")
       /\ error = "max_turns" => ~done /\ Cardinality(Spoke(transcript)) = MaxTurns
       /\ error = "chat" => LastWho("error")

\* How many messages a step adds.
LEMMA Counting ==
  ASSUME TypeOK, Control, [Next]_vars
  PROVE  /\ Own \/ Code \/ Clicking => Cardinality(Spoke(transcript')) = Cardinality(Spoke(transcript)) + 1
         /\ Silent \/ Flushes \/ Fails => Spoke(transcript') = Spoke(transcript)
         /\ Cardinality(Spoke(transcript)) \in Nat
<1>1. /\ Len(transcript) \in Nat /\ Len(transcript') \in Nat /\ Len(transcript') >= Len(transcript)
      /\ \A k \in 1..Len(transcript) : transcript'[k] = transcript[k] /\ k \in 1..Len(transcript')
      /\ read \in Nat /\ transcript \in Seq(Record(read))
  BY LogKept DEF TypeOK, Record
<1>2. IsFiniteSet(Spoke(transcript)) /\ Cardinality(Spoke(transcript)) \in Nat
  <2>1. IsFiniteSet(1..Len(transcript))
    BY <1>1, FS_Interval
  <2> QED BY <2>1, FS_Subset, FS_CardinalityType DEF Spoke
<1>3. ASSUME NEW e \in Record(read), e.who \in {"own", "code", "click"}, Spoken(e)
      PROVE  Cardinality(Spoke(transcript')) = Cardinality(Spoke(transcript)) + 1
  <2>1. Len(transcript') = Len(transcript) + 1 /\ transcript'[Len(transcript) + 1] = e
    BY <1>1, <1>3, AppendProperties DEF Spoken
  <2>2. Spoke(transcript') = Spoke(transcript) \cup {Len(transcript) + 1}
    BY <1>1, <1>3, <2>1 DEF Spoke
  <2>3. Len(transcript) + 1 \notin Spoke(transcript)
    BY <1>1 DEF Spoke
  <2> QED BY <1>2, <2>2, <2>3, FS_AddElement
<1>4. CASE Own
  <2> DEFINE e == [who |-> "own", frame |-> 0, seen |-> read]
  <2>1. e \in Record(read) /\ e.who = "own"
    BY <1>1 DEF Record, Who
  <2>2. Spoken(e)
    BY <1>4, SpeakLog
  <2> HIDE DEF e
  <2>3. Cardinality(Spoke(transcript')) = Cardinality(Spoke(transcript)) + 1
    BY <1>3, <2>1, <2>2
  <2>4. ~(Silent \/ Flushes \/ Fails)
    <3>1. Len(transcript') = Len(transcript) + 1 /\ pc = "driving" /\ pc' = "asking"
      BY <1>1, <1>4, <2>1, <2>2, AppendProperties DEF Spoken, Own, Speak
    <3> QED BY <1>1, <3>1, SilentLog DEF Flushes, Fails, Greeted, PromptHeard, PromptFails, EndTurn,
           CodeMissing, ReplyFails
  <2> QED BY <1>2, <2>3, <2>4
<1>5. CASE Code
  <2> DEFINE e == [who |-> "code", frame |-> 0, seen |-> read]
  <2>1. e \in Record(read) /\ e.who = "code"
    BY <1>1 DEF Record, Who
  <2>2. Spoken(e)
    BY <1>5, SpeakLog
  <2> HIDE DEF e
  <2>3. Cardinality(Spoke(transcript')) = Cardinality(Spoke(transcript)) + 1
    BY <1>3, <2>1, <2>2
  <2>4. ~(Silent \/ Flushes \/ Fails)
    <3>1. Len(transcript') = Len(transcript) + 1 /\ pc = "fetching" /\ pc' = "asking"
      BY <1>1, <1>5, <2>1, <2>2, AppendProperties DEF Spoken, Code, CodeFetched
    <3> QED BY <1>1, <3>1, SilentLog DEF Flushes, Fails, Greeted, PromptHeard, PromptFails, EndTurn,
           CodeMissing, ReplyFails, ChatFails, EndWith
  <2> QED BY <1>2, <2>3, <2>4
<1>6. CASE Clicking
  <2> DEFINE e == [who |-> "click", frame |-> widget, seen |-> read]
  <2>1. e \in Record(read) /\ e.who = "click"
    BY <1>1 DEF Record, Who, TypeOK
  <2>2. Spoken(e)
    BY <1>6, SpeakLog
  <2> HIDE DEF e
  <2>3. Cardinality(Spoke(transcript')) = Cardinality(Spoke(transcript)) + 1
    BY <1>3, <2>1, <2>2
  <2>4. ~(Silent \/ Flushes \/ Fails)
    <3>1. Len(transcript') = Len(transcript) + 1 /\ pc = "driving" /\ pc' = "selecting"
      BY <1>1, <1>6, <2>1, <2>2, AppendProperties DEF Spoken, Clicking, Click
    <3> QED BY <1>1, <3>1, SilentLog DEF Flushes, Fails, Greeted, PromptHeard, PromptFails, EndTurn,
           CodeMissing, ReplyFails
  <2> QED BY <1>2, <2>3, <2>4
<1>7. CASE ~Own /\ ~Code /\ ~Clicking
  <2>1. \A k \in 1..Len(transcript') : k \notin 1..Len(transcript) => transcript'[k].who \in {"bot", "error"}
    BY <1>7, Added
  <2>2. Spoke(transcript') = Spoke(transcript)
    BY <1>1, <2>1 DEF Spoke
  <2> QED BY <1>2, <1>7, <2>2
<1> QED BY <1>4, <1>5, <1>6, <1>7

\* A flush of something ends in a frame of the bot, a failure in an error.
LEMMA Ending ==
  ASSUME TypeOK, Control, [Next]_vars
  PROVE  /\ EndTurn => LastWho("bot")'
         /\ Fails => LastWho("error")'
<1>1. /\ read \in Nat /\ flushed \in 0..read /\ transcript \in Seq(Record(read)) /\ Len(transcript) \in Nat
  BY LenProperties DEF TypeOK, Record
<1> DEFINE u == transcript \o New(flushed, read)
<1>2. /\ u \in Seq(Record(read)) /\ Len(u) = Len(transcript) + (read - flushed)
      /\ \A j \in 1..(read - flushed) :
           u[Len(transcript) + j] = [who |-> "bot", frame |-> flushed + j, seen |-> read]
  BY <1>1, Flushing
<1> HIDE DEF u
<1>3. CASE EndTurn
  <2>1. transcript' = u /\ flushed < read
    BY <1>3, FlushLog DEF u, Flushes, EndTurn, Control
  <2> DEFINE k == read - flushed
  <2>2. k \in 1..(read - flushed) /\ Len(u) = Len(transcript) + k
    BY <1>1, <1>2, <2>1
  <2> HIDE DEF k
  <2>3. u[Len(u)] = [who |-> "bot", frame |-> flushed + k, seen |-> read]
    BY <1>2, <2>2
  <2>4. u[Len(u)].who = "bot" /\ Len(u) > 0
    BY <1>1, <2>2, <2>3
  <2>5. ~Fails
    BY <1>3 DEF EndTurn, Fails, CodeMissing, ReplyFails
  <2> QED BY <2>1, <2>4, <2>5 DEF LastWho
<1>4. CASE Fails
  <2> DEFINE e == [who |-> "error", frame |-> 0, seen |-> read]
  <2>1. e \in Record(read) /\ e.who = "error"
    BY <1>1 DEF Record, Who
  <2>2. transcript' = Append(u, e)
    BY <1>4, FailLog DEF u
  <2> HIDE DEF e
  <2>3. Len(u) \in Nat
    BY <1>2, LenProperties
  <2>4. Len(transcript') = Len(u) + 1 /\ transcript'[Len(u) + 1] = e
    BY <1>2, <2>1, <2>2, <2>3, AppendProperties
  <2>5. ~EndTurn
    BY <1>4 DEF EndTurn, Fails, CodeMissing, ReplyFails
  <2> QED BY <2>1, <2>3, <2>4, <2>5 DEF LastWho
<1> QED BY <1>3, <1>4

\* Every step keeps the count of messages, and a session true to its error.
LEMMA EndedInductive == TypeOK /\ Control /\ Ended /\ [Next]_vars => Ended'
<1> SUFFICES ASSUME TypeOK, Control, Ended, [Next]_vars PROVE Ended'
  OBVIOUS
<1>1. /\ Own \/ Code \/ Clicking => Cardinality(Spoke(transcript')) = Cardinality(Spoke(transcript)) + 1
      /\ Silent \/ Flushes \/ Fails => Cardinality(Spoke(transcript')) = Cardinality(Spoke(transcript))
      /\ Cardinality(Spoke(transcript)) \in Nat
  BY Counting
<1>2. /\ \A k \in 1..Len(transcript) : transcript'[k] = transcript[k]
      /\ Len(transcript) \in Nat /\ turn \in 1..MaxTurns /\ MaxTurns \in Nat
  BY LogKept, ChatAssumption DEF TypeOK
<1> DEFINE
      Counted ==
        /\ pc \in {"asking", "selecting", "draining", "judging"} => Cardinality(Spoke(transcript)) = turn
        /\ pc \in {"opening", "driving", "awaiting", "fetching", "raised"} =>
             Cardinality(Spoke(transcript)) = turn - 1
      Late == pc \in {"closing", "closed"}
<1>3. Counted /\ (~Late => error = "none")
  BY DEF Ended
<1>4. ASSUME error # "chat", ~Fails PROVE \A k \in 1..Len(transcript') : transcript'[k].who # "error"
  <2> SUFFICES ASSUME NEW k \in 1..Len(transcript'), transcript'[k].who = "error" PROVE FALSE
    OBVIOUS
  <2>1. CASE k \in 1..Len(transcript)
    BY <1>2, <1>4, <2>1 DEF Ended
  <2>2. CASE k \notin 1..Len(transcript)
    BY <1>4, <2>2, Added
  <2> QED BY <2>1, <2>2
<1>5. ASSUME ~Late', Counted', error' = "none", error = "none", ~Fails PROVE Ended'
  BY <1>4, <1>5 DEF Ended
<1>6. CASE \/ \E f \in Frames : BotSends(f)
           \/ ReadFrame \/ StartFails \/ \E d \in BOOLEAN : AwaitPrompt(d)
  <2>1. /\ ~Late /\ ~Late' /\ UNCHANGED <<turn, error>> /\ Silent
        /\ pc' = pc \/ (pc \in {"opening", "driving"} /\ pc' \in {"raised", "awaiting"})
    BY <1>6 DEF BotSends, ReadFrame, Collecting, StartFails, AwaitPrompt, Silent
  <2>2. ~Fails
    BY <1>6 DEF Fails, CodeMissing, ReplyFails, ChatFails, EndWith, BotSends, ReadFrame, Collecting,
       StartFails, AwaitPrompt
  <2>3. Counted'
    BY <1>1, <1>3, <2>1
  <2> QED BY <1>3, <1>5, <2>1, <2>2, <2>3
<1>7. CASE Greeted \/ PromptHeard \/ PromptFails
  <2>1. /\ ~Late /\ ~Late' /\ UNCHANGED <<turn, error>> /\ (Silent \/ Flushes)
        /\ pc \in {"opening", "awaiting"} /\ pc' \in {"driving", "awaiting", "fetching"}
    BY <1>7 DEF Greeted, PromptHeard, PromptFails, Silent, Flushes
  <2>2. ~Fails
    BY <2>1 DEF Fails, CodeMissing, ReplyFails
  <2>3. Counted'
    BY <1>1, <1>3, <2>1
  <2> QED BY <1>3, <1>5, <2>1, <2>2, <2>3
<1>8. CASE \E d \in BOOLEAN : Speak(d) \/ Click(d)
  <2>1. /\ pc = "driving" /\ ~Late' /\ UNCHANGED <<turn, error>>
        /\ \/ pc' = "fetching" /\ Silent
           \/ pc' \in {"asking", "selecting"} /\ (Own \/ Clicking)
    BY <1>8 DEF Speak, Click, Silent, Own, Clicking
  <2>2. ~Fails
    BY <2>1 DEF Fails, CodeMissing, ReplyFails
  <2>3. Counted'
    BY <1>1, <1>2, <1>3, <2>1
  <2> QED BY <1>3, <1>5, <2>1, <2>2, <2>3
<1>9. CASE CodeFetched
  <2>1. pc = "fetching" /\ pc' = "asking" /\ UNCHANGED <<turn, error>> /\ Code
    BY <1>9 DEF CodeFetched, Code
  <2>2. ~Fails
    BY <1>9 DEF Fails, CodeMissing, ReplyFails, CodeFetched, ChatFails, EndWith
  <2>3. Counted'
    BY <1>1, <1>2, <1>3, <2>1
  <2> QED BY <1>3, <1>5, <2>1, <2>2, <2>3
<1>10. CASE ReplyHeard \/ Drained \/ DrainFails
  <2>1. /\ pc \in {"asking", "selecting", "draining"} /\ pc' \in {"draining", "judging"}
        /\ UNCHANGED <<turn, error>> /\ Silent
    BY <1>10 DEF ReplyHeard, Drained, DrainFails, Silent
  <2>2. ~Fails
    BY <1>10, <2>1 DEF Fails, CodeMissing, ReplyFails, ChatFails, EndWith
  <2>3. Counted'
    BY <1>1, <1>3, <2>1
  <2> QED BY <1>3, <1>5, <2>1, <2>2, <2>3
<1>11. CASE DriverFails
  <2>1. pc = "driving" /\ pc' = "closing" /\ error' = "driver" /\ Silent
    BY <1>11 DEF DriverFails, EndWith, Silent
  <2>2. ~Fails
    BY <2>1 DEF Fails, CodeMissing, ReplyFails
  <2> QED BY <1>3, <1>4, <2>1, <2>2 DEF Ended
<1>12. CASE Fails
  <2>1. pc' = "closing" /\ error' = "chat" /\ LastWho("error")'
    BY <1>12, Ending DEF Fails, CodeMissing, ReplyFails, ChatFails, EndWith
  <2> QED BY <2>1 DEF Ended
<1>13. CASE EndTurn
  <2>1. /\ pc = "judging" /\ error = "none" /\ LastWho("bot")' /\ Flushes /\ ~Fails
        /\ UNCHANGED <<last, done>>
    BY <1>3, <1>13, Ending DEF EndTurn, Flushes, Fails, CodeMissing, ReplyFails
  <2>2. Cardinality(Spoke(transcript')) = turn
    BY <1>1, <1>3, <2>1
  <2>3. \A k \in 1..Len(transcript') : transcript'[k].who # "error"
    BY <1>4, <2>1
  <2>4. \/ pc' = "closing" /\ error' = "outage" /\ turn' = turn
        \/ pc' = "closing" /\ error' = "none" /\ turn' = turn /\ done /\ "outage" \notin last
        \/ pc' = "closing" /\ error' = "max_turns" /\ turn' = turn /\ ~done /\ turn = MaxTurns
        \/ pc' = "driving" /\ turn' = turn + 1 /\ error' = error
    BY <1>13 DEF EndTurn, EndWith
  <2>5. CASE pc' = "driving" /\ turn' = turn + 1 /\ error' = error
    BY <1>2, <1>5, <2>1, <2>2, <2>5
  <2>6. CASE pc' = "closing"
    BY <2>1, <2>2, <2>3, <2>4, <2>6 DEF Ended
  <2> QED BY <2>4, <2>5, <2>6
<1>14. CASE Close \/ UNCHANGED vars
  <2>1. /\ UNCHANGED <<transcript, turn, error, done, last>>
        /\ pc' = pc \/ (pc = "closing" /\ pc' = "closed")
    BY <1>14 DEF Close, vars, log
  <2> QED BY <2>1 DEF Ended, LastWho
<1> QED
  BY <1>6, <1>7, <1>8, <1>9, <1>10, <1>11, <1>12, <1>13, <1>14 DEF Next, Over, Fails

-----------------------------------------------------------------------------
(* Asks for the code.                                                        *)

\* The frames that were read since the last message of the customer, and what
\* they say.
Unanswered == {n \in 1..read : \A k \in Spoke(transcript) : transcript[k].seen < n}
SaidSince(s) == \E n \in Unanswered : s \in bot[n].says

\* An ask among them is in what is being heard, or in the reply, or it came with
\* a placeholder.
Noticed ==
  /\ pc \in {"opening", "asking", "selecting"} =>
       /\ SaidSince("ask") => "ask" \in heard
       /\ "hold" \in heard => SaidSince("hold")
  /\ pc = "draining" => SaidSince("hold")
  /\ pc \in {"driving", "judging"} =>
       (SaidSince("ask") => "ask" \in last \/ SaidSince("hold"))

\* A frame in the transcript comes after the messages before it, and has been read.
LEMMA FrameShown ==
  ASSUME TypeOK, Faithful(transcript, flushed, read), NEW j \in 1..Len(transcript),
         transcript[j].who = "bot"
  PROVE  /\ transcript[j].frame \in 1..flushed
         /\ \A k \in 1..(j - 1) : transcript[k].who # "bot" => transcript[k].seen < transcript[j].frame
<1>1. Len(transcript) \in Nat /\ flushed \in Nat /\ \A k \in 1..Len(transcript) : transcript[k].seen \in Nat
  BY EntryTyped DEF TypeOK
<1>2. transcript[j].frame \in 1..flushed
  <2>1. j \in 1..((Len(transcript) + 1) - 1)
    BY <1>1
  <2>2. transcript[j].frame \in Shown(transcript, Len(transcript) + 1)
    BY <2>1 DEF Shown
  <2> QED BY <2>2 DEF Faithful
<1>3. ASSUME NEW k \in 1..(j - 1), transcript[k].who # "bot"
      PROVE  transcript[k].seen < transcript[j].frame
  <2>1. k \in 1..Len(transcript) /\ k - 1 <= j - 1
    BY <1>1
  <2>2. Shown(transcript, k) = 1..transcript[k].seen /\ Shown(transcript, j) = 1..(transcript[j].frame - 1)
    BY <1>3, <2>1 DEF Faithful
  <2>3. Shown(transcript, k) \subseteq Shown(transcript, j)
    BY <1>1, <2>1 DEF Shown
  <2>4. transcript[j].frame \notin 1..(transcript[j].frame - 1)
    BY <1>2
  <2> QED BY <1>1, <1>2, <2>1, <2>2, <2>3, <2>4
<1> QED BY <1>2, <1>3

\* A frame that was flushed is in the transcript, before the messages that follow it.
LEMMA ShownFrame ==
  ASSUME TypeOK, Faithful(transcript, flushed, read), NEW n \in 1..flushed
  PROVE  \E j \in 1..Len(transcript) :
           /\ transcript[j].who = "bot" /\ transcript[j].frame = n
           /\ \A k \in 1..Len(transcript) :
                transcript[k].who # "bot" /\ transcript[k].seen < n => k < j
<1>1. Len(transcript) \in Nat /\ \A k \in 1..Len(transcript) : transcript[k].seen \in Nat
  BY EntryTyped
<1>2. n \in Shown(transcript, Len(transcript) + 1)
  BY DEF Faithful
<1>3. PICK j \in 1..Len(transcript) : transcript[j].who = "bot" /\ transcript[j].frame = n
  BY <1>1, <1>2 DEF Shown
<1>4. ASSUME NEW k \in 1..Len(transcript), transcript[k].who # "bot", transcript[k].seen < n
      PROVE  k < j
  <2>1. SUFFICES ASSUME j <= k - 1 PROVE FALSE
    BY <1>1, <1>3, <1>4
  <2>2. n \in Shown(transcript, k)
    BY <1>1, <1>3, <2>1 DEF Shown
  <2> QED BY <1>1, <1>4, <2>2 DEF Faithful
<1> QED BY <1>3, <1>4

\* The frames shown since the last message are those that were read since.
LastShown == {j \in 1..Len(transcript) : transcript[j].who = "bot" /\ \A k \in Spoke(transcript) : k < j}

LEMMA ShownSince ==
  ASSUME TypeOK, Faithful(transcript, flushed, read), flushed = read, NEW s
  PROVE  SaidSince(s) <=> \E j \in LastShown : s \in bot[transcript[j].frame].says
<1>0. read \in Nat
  BY DEF TypeOK
<1>1. ASSUME NEW j \in LastShown PROVE transcript[j].frame \in Unanswered
  <2>1. j \in 1..Len(transcript) /\ transcript[j].who = "bot" /\ \A k \in Spoke(transcript) : k < j
    BY DEF LastShown
  <2>2. \A k \in Spoke(transcript) : k \in 1..(j - 1) /\ transcript[k].who # "bot"
    BY <2>1, EntryTyped DEF Spoke
  <2> QED BY <2>1, <2>2, FrameShown DEF Unanswered
<1>2. ASSUME NEW n \in Unanswered PROVE \E j \in LastShown : transcript[j].frame = n
  <2>1. n \in 1..flushed
    BY DEF Unanswered
  <2>2. PICK j \in 1..Len(transcript) :
           /\ transcript[j].who = "bot" /\ transcript[j].frame = n
           /\ \A k \in 1..Len(transcript) :
                transcript[k].who # "bot" /\ transcript[k].seen < n => k < j
    BY <2>1, ShownFrame
  <2>3. \A k \in Spoke(transcript) : k < j
    BY <2>2 DEF Unanswered, Spoke
  <2> QED BY <2>2, <2>3 DEF LastShown
<1>3. SaidSince(s) => \E j \in LastShown : s \in bot[transcript[j].frame].says
  <2> SUFFICES ASSUME NEW n \in Unanswered, s \in bot[n].says
               PROVE  \E j \in LastShown : s \in bot[transcript[j].frame].says
    BY DEF SaidSince
  <2>1. PICK j \in LastShown : transcript[j].frame = n
    BY <1>2
  <2> QED BY <2>1
<1> QED BY <1>1, <1>3 DEF SaidSince

\* What was said before an entry of the customer is not changed by later steps.
LEMMA SaidBeforeStays ==
  ASSUME TypeOK, Control, Faithful(transcript, flushed, read), [Next]_vars, NEW i \in 1..Len(transcript)
  PROVE  SaidBefore(i)' = SaidBefore(i)
<1>1. /\ Len(transcript) \in Nat /\ Len(transcript') \in Nat /\ Len(transcript') >= Len(transcript)
      /\ \A k \in 1..Len(transcript) : transcript'[k] = transcript[k]
      /\ \A n \in 1..read : bot'[n] = bot[n]
      /\ read \in Nat /\ flushed \in 0..read
  BY LogKept DEF TypeOK
<1>2. DOMAIN transcript = 1..Len(transcript) /\ DOMAIN transcript' = 1..Len(transcript')
  BY TypeInductive, EntryTyped, LenProperties DEF TypeOK
<1>3. {k \in Customers : k < i}' = {k \in Customers : k < i}
  BY <1>1, <1>2 DEF Customers
<1> DEFINE from == {k \in Customers : k < i}
           heardBy == {j \in 1..(i - 1) : transcript[j].who = "bot" /\ \A k \in from : k < j}
<1>4. heardBy' = heardBy
  <2>1. \A j \in 1..(i - 1) : transcript'[j] = transcript[j]
    BY <1>1
  <2> QED BY <1>3, <2>1
<1>5. \A j \in heardBy : bot'[transcript'[j].frame].says = bot[transcript[j].frame].says
  <2> SUFFICES ASSUME NEW j \in heardBy
               PROVE  bot'[transcript'[j].frame].says = bot[transcript[j].frame].says
    OBVIOUS
  <2>1. j \in 1..Len(transcript) /\ transcript[j].who = "bot"
    BY <1>1
  <2>2. transcript[j].frame \in 1..flushed
    BY <2>1, FrameShown
  <2> QED BY <1>1, <2>1, <2>2
<1>6. SaidBefore(i) = UNION {bot[transcript[j].frame].says : j \in heardBy}
  BY DEF SaidBefore
<1>7. SaidBefore(i)' = UNION {bot'[transcript'[j].frame].says : j \in heardBy'}
  BY DEF SaidBefore
<1> HIDE DEF heardBy
<1> QED BY <1>4, <1>5, <1>6, <1>7

\* Nothing is new when nothing was read and the customer said nothing.
LEMMA SinceSame ==
  ASSUME TypeOK, Control, [Next]_vars, Silent \/ Flushes, read' = read
  PROVE  \A s : SaidSince(s)' <=> SaidSince(s)
<1>1. /\ Len(transcript) \in Nat
      /\ \A k \in 1..Len(transcript) : transcript'[k] = transcript[k]
      /\ \A n \in 1..read : bot'[n] = bot[n]
  BY LogKept
<1>2. Spoke(transcript') = Spoke(transcript)
  BY Counting
<1>3. \A k \in Spoke(transcript) : transcript'[k] = transcript[k]
  BY <1>1 DEF Spoke
<1>4. Unanswered' = Unanswered
  BY <1>2, <1>3 DEF Unanswered, Spoke
<1>5. \A n \in Unanswered : bot'[n] = bot[n]
  BY <1>1 DEF Unanswered
<1> QED BY <1>4, <1>5 DEF SaidSince

\* One frame more.
LEMMA SinceRead ==
  ASSUME TypeOK, Control, [Next]_vars, ReadFrame
  PROVE  /\ heard' = heard \union bot[read'].says
         /\ \A s : SaidSince(s)' <=> SaidSince(s) \/ s \in bot[read'].says
<1>1. read \in Nat /\ read' = read + 1 /\ bot' = bot /\ transcript' = transcript
      /\ heard' = heard \union bot[read'].says
  BY DEF ReadFrame, log, TypeOK
<1>2. \A k \in Spoke(transcript) : transcript[k].seen < read'
  BY <1>1, EntryTyped DEF Spoke
<1>3. Unanswered' = Unanswered \cup {read'}
  BY <1>1, <1>2 DEF Unanswered
<1> QED BY <1>1, <1>3 DEF SaidSince

\* All that was read comes before a message that goes out.
LEMMA SinceSpoken ==
  ASSUME TypeOK, Control, [Next]_vars, Own \/ Code \/ Clicking
  PROVE  \A s : ~SaidSince(s)'
<1>1. PICK e : /\ Spoken(e) /\ e \in Record(read) /\ e.seen = read /\ e.who \in {"own", "code", "click"}
  <2>1. read \in Nat /\ widget \in 0..read
    BY DEF TypeOK
  <2>2. CASE Own
    <3>1. [who |-> "own", frame |-> 0, seen |-> read] \in Record(read)
      BY <2>1 DEF Record, Who
    <3> QED BY <2>2, <3>1, SpeakLog
  <2>3. CASE Code
    <3>1. [who |-> "code", frame |-> 0, seen |-> read] \in Record(read)
      BY <2>1 DEF Record, Who
    <3> QED BY <2>3, <3>1, SpeakLog
  <2>4. CASE Clicking
    <3>1. [who |-> "click", frame |-> widget, seen |-> read] \in Record(read)
      BY <2>1 DEF Record, Who
    <3> QED BY <2>4, <3>1, SpeakLog
  <2> QED BY <2>2, <2>3, <2>4
<1>2. Len(transcript) \in Nat /\ transcript \in Seq(Record(read))
  BY LenProperties DEF TypeOK, Record
<1>3. Len(transcript') = Len(transcript) + 1 /\ transcript'[Len(transcript) + 1] = e /\ read' = read
  BY <1>1, <1>2, AppendProperties DEF Spoken
<1>4. Len(transcript) + 1 \in Spoke(transcript')
  BY <1>1, <1>2, <1>3 DEF Spoke
<1>5. Unanswered' = {}
  BY <1>1, <1>3, <1>4 DEF Unanswered, Spoke, TypeOK
<1> QED BY <1>5 DEF SaidSince

\* An ask goes unnoticed only with a placeholder.
LEMMA NoticedInductive == TypeOK /\ Control /\ Noticed /\ [Next]_vars => Noticed'
<1> SUFFICES ASSUME TypeOK, Control, Noticed, [Next]_vars PROVE Noticed'
  OBVIOUS
<1>1. CASE Own \/ Code \/ Clicking
  <2>1. pc' \in {"asking", "selecting"} /\ heard' = {}
    BY <1>1 DEF Own, Code, Clicking, Speak, CodeFetched, Click, Control, wire
  <2> QED BY <1>1, <2>1, SinceSpoken DEF Noticed
<1>2. CASE ReadFrame
  <2>1. pc' = pc /\ pc \in {"opening", "awaiting", "asking", "selecting", "draining"}
    BY <1>2 DEF ReadFrame, Collecting
  <2> QED BY <1>2, <2>1, SinceRead DEF Noticed
<1>3. CASE StartFails \/ DriverFails \/ PromptHeard \/ PromptFails \/ Fails \/ Close
           \/ (\E d \in BOOLEAN : AwaitPrompt(d) \/ (Speak(d) /\ pc' = "fetching"))
  <2>1. pc' \in {"raised", "closing", "awaiting", "fetching", "closed"}
    BY <1>3 DEF StartFails, DriverFails, PromptHeard, PromptFails, Fails, CodeMissing, ReplyFails, ChatFails,
       EndWith, Close, AwaitPrompt
  <2> QED BY <2>1 DEF Noticed
<1>4. CASE (\E f \in Frames : BotSends(f)) \/ UNCHANGED vars
  <2>1. UNCHANGED <<pc, read, heard, last>>
    BY <1>4 DEF BotSends, wire, vars
  <2>2. Silent
    BY <1>4 DEF Silent
  <2>3. \A s : SaidSince(s)' <=> SaidSince(s)
    BY <2>1, <2>2, SinceSame
  <2> QED BY <2>1, <2>3 DEF Noticed
<1>5. CASE Greeted
  <2>1. pc = "opening" /\ pc' = "driving" /\ last' = heard /\ read' = read
    BY <1>5 DEF Greeted
  <2>2. \A s : SaidSince(s)' <=> SaidSince(s)
    BY <1>5, <2>1, SinceSame DEF Flushes
  <2> QED BY <2>1, <2>2 DEF Noticed
<1>6. CASE ReplyHeard
  <2>1. /\ pc \in {"asking", "selecting"} /\ last' = heard /\ read' = read
        /\ pc' = IF "hold" \in heard THEN "draining" ELSE "judging"
    BY <1>6 DEF ReplyHeard
  <2>2. \A s : SaidSince(s)' <=> SaidSince(s)
    BY <1>6, <2>1, SinceSame DEF Silent
  <2> QED BY <2>1, <2>2 DEF Noticed
<1>7. CASE Drained \/ DrainFails
  <2>1. pc = "draining" /\ pc' \in {"draining", "judging"} /\ read' = read
    BY <1>7 DEF Drained, DrainFails
  <2>2. \A s : SaidSince(s)' <=> SaidSince(s)
    BY <1>7, <2>1, SinceSame DEF Silent
  <2> QED BY <2>1, <2>2 DEF Noticed
<1>8. CASE EndTurn
  <2>1. pc = "judging" /\ pc' \in {"driving", "closing"} /\ read' = read /\ last' = last
    BY <1>8 DEF EndTurn, EndWith, wire
  <2>2. \A s : SaidSince(s)' <=> SaidSince(s)
    BY <1>8, <2>1, SinceSame DEF Flushes
  <2> QED BY <2>1, <2>2 DEF Noticed
<1> QED BY <1>1, <1>2, <1>3, <1>4, <1>5, <1>6, <1>7, <1>8, Kinds DEF Silent, Flushes

\* What was said before a message that goes out is what was said since the last.
LEMMA SaidBeforeOwn ==
  ASSUME TypeOK, Control, Faithful(transcript, flushed, read), [Next]_vars, Own,
         NEW i \in Nat, i = Len(transcript) + 1
  PROVE  \A s : s \in SaidBefore(i)' <=> SaidSince(s)
<1>1. /\ Len(transcript) \in Nat /\ Len(transcript') \in Nat /\ Len(transcript') >= Len(transcript)
      /\ \A k \in 1..Len(transcript) : transcript'[k] = transcript[k]
  BY LogKept
<1>2. flushed = read /\ bot' = bot
  BY SpeakLog DEF Spoken
<1>3. DOMAIN transcript' = 1..Len(transcript')
  BY TypeInductive, LenProperties DEF TypeOK
<1>4. {k \in Customers' : k < i} = Spoke(transcript)
  BY <1>1, <1>3 DEF Customers, Spoke
<1> DEFINE from == {k \in Customers : k < i}
           heardBy == {j \in 1..(i - 1) : transcript[j].who = "bot" /\ \A k \in from : k < j}
<1>5. heardBy' = LastShown
  BY <1>1, <1>4 DEF LastShown
<1>6. SaidBefore(i)' = UNION {bot'[transcript'[j].frame].says : j \in heardBy'}
  BY DEF SaidBefore
<1> HIDE DEF heardBy
<1>7. \A j \in LastShown : transcript'[j] = transcript[j]
  BY <1>1 DEF LastShown
<1>8. SaidBefore(i)' = UNION {bot[transcript[j].frame].says : j \in LastShown}
  BY <1>2, <1>5, <1>6, <1>7
<1> QED
  BY <1>2, <1>8, ShownSince

\* A guess of the customer is added only after a reply that was not told as an ask.
LEMMA GuessInductive ==
  TypeOK /\ Control /\ Faithful(transcript, flushed, read) /\ Asked /\ Noticed /\ GuessNeedsHold
    /\ [Next]_vars => GuessNeedsHold'
<1> SUFFICES ASSUME TypeOK, Control, Faithful(transcript, flushed, read), Asked, Noticed, GuessNeedsHold,
                    [Next]_vars,
                    NEW i \in Customers', transcript'[i].who = "own", \A j \in Codes' : i < j,
                    "ask" \in SaidBefore(i)'
             PROVE  "hold" \in SaidBefore(i)'
  BY DEF GuessNeedsHold
<1>1. /\ Len(transcript) \in Nat /\ Len(transcript') \in Nat /\ Len(transcript') >= Len(transcript)
      /\ \A k \in 1..Len(transcript) : transcript'[k] = transcript[k] /\ k \in 1..Len(transcript')
  BY LogKept
<1>2. DOMAIN transcript = 1..Len(transcript) /\ DOMAIN transcript' = 1..Len(transcript')
  BY TypeInductive, EntryTyped, LenProperties DEF TypeOK
<1>3. \A j \in Codes : j \in Codes'
  BY <1>1, <1>2 DEF Codes, Customers
<1>4. CASE i \in 1..Len(transcript)
  <2>1. i \in Customers /\ transcript[i].who = "own" /\ \A j \in Codes : i < j
    BY <1>1, <1>2, <1>3, <1>4 DEF Customers
  <2>2. SaidBefore(i)' = SaidBefore(i)
    BY <1>4, SaidBeforeStays
  <2> QED BY <2>1, <2>2 DEF GuessNeedsHold
<1>5. CASE i \notin 1..Len(transcript)
  <2>1. Own /\ i = Len(transcript) + 1 /\ i \in Nat
    <3>1. i \in 1..Len(transcript')
      BY <1>2 DEF Customers
    <3>2. [who |-> "code", frame |-> 0, seen |-> read].who = "code"
          /\ [who |-> "click", frame |-> widget, seen |-> read].who = "click"
      OBVIOUS
    <3> QED BY <1>1, <1>5, <3>1, <3>2, Added
  <2>2. ~otpDone
    <3>1. SUFFICES ASSUME otpDone PROVE FALSE
      OBVIOUS
    <3>2. PICK j \in 1..Len(transcript) : transcript[j].who = "code"
      BY <3>1 DEF Asked
    <3>3. j \in Codes
      BY <1>2, <3>2 DEF Codes, Customers
    <3> QED BY <1>1, <1>3, <2>1, <3>3
  <2>3. pc = "driving" /\ "ask" \notin last
    BY <2>1, <2>2 DEF Own, Speak
  <2>4. \A s : s \in SaidBefore(i)' <=> SaidSince(s)
    BY <2>1, SaidBeforeOwn
  <2> QED BY <2>3, <2>4 DEF Noticed
<1> QED BY <1>4, <1>5

-----------------------------------------------------------------------------
(* The theorems.                                                             *)

IInv ==
  /\ TypeOK /\ Control /\ Faithful(transcript, flushed, read) /\ Asked /\ Clicked /\ Ended
  /\ Noticed /\ GuessNeedsHold

\* A session starts with an empty transcript.
LEMMA Starting == Init => IInv
<1> SUFFICES ASSUME Init PROVE IInv
  OBVIOUS
<1>1. Len(<<>>) = 0 /\ 1..0 = {} /\ MaxTurns \in Nat \ {0}
  BY ChatAssumption
<1>2. TypeOK
  <2>1. bot \in Seq(Frames) /\ transcript \in Seq([who : Who, frame : 0..read, seen : 0..read])
    BY EmptySeq DEF Init
  <2>2. read = 0 /\ flushed = 0 /\ read \in 0..Len(bot) /\ widget \in 0..read
    BY <1>1 DEF Init
  <2>3. /\ pc = "opening" /\ heard = {} /\ last = {} /\ tries = 0 /\ turn = 1 /\ ~done /\ picked = "none"
        /\ ~awaitOtp /\ ~otpDone /\ released = 0 /\ error = "none"
    BY DEF Init
  <2>4. done \in BOOLEAN /\ awaitOtp \in BOOLEAN /\ otpDone \in BOOLEAN
    BY Zenon DEF Init
  <2> QED BY <1>1, <2>1, <2>2, <2>3, <2>4 DEF TypeOK
<1>3. Control /\ Clicked /\ Faithful(transcript, flushed, read)
  BY <1>1 DEF Init, Control, Clicked, Faithful, Shown
<1>4. Asked
  BY <1>1 DEF Init, Asked
<1>5. Ended
  <2>1. Spoke(transcript) = {}
    BY <1>1 DEF Init, Spoke
  <2> QED BY <1>1, <2>1, FS_EmptySet DEF Init, Ended
<1>6. Noticed /\ GuessNeedsHold
  <2>1. read = 0 /\ Unanswered = {} /\ Customers = {}
    BY <1>1 DEF Init, Unanswered, Customers
  <2> QED BY <2>1 DEF Init, Noticed, SaidSince, GuessNeedsHold
<1> QED BY <1>2, <1>3, <1>4, <1>5, <1>6 DEF IInv

\* The inductive invariant holds of every behaviour.
LEMMA Invariance == Spec => []IInv
<1>1. IInv /\ [Next]_vars => IInv'
  <2> SUFFICES ASSUME IInv, [Next]_vars PROVE IInv'
    OBVIOUS
  <2>1. TypeOK' /\ Control'
    BY TypeInductive DEF IInv
  <2>2. Faithful(transcript, flushed, read)'
    BY LogKept DEF IInv, Faithful, Shown
  <2>3. Asked' /\ Clicked' /\ Ended'
    BY AskedInductive, ClickedInductive, EndedInductive DEF IInv
  <2>4. Noticed' /\ GuessNeedsHold'
    BY NoticedInductive, GuessInductive DEF IInv
  <2> QED BY <2>1, <2>2, <2>3, <2>4 DEF IInv
<1> QED BY <1>1, Starting, PTL DEF Spec

\* Every variable of a session has its type, the transcript included.
THEOREM TypeCorrect == Spec => []TypeOK
<1>1. IInv => TypeOK
  BY DEF IInv
<1> QED BY <1>1, Invariance, PTL

\* engine/flow.py:99-112, 183-198: whatever frames the bot sends, and however late, the
\* transcript shows each once and in order, every message of the customer after
\* the frames that had been read, and at the end all of them.
THEOREM TranscriptIsFaithful == Spec => []TranscriptFaithful
<1>1. IInv => TranscriptFaithful
  <2> SUFFICES ASSUME IInv PROVE TranscriptFaithful
    OBVIOUS
  <2>1. DOMAIN transcript = 1..Len(transcript)
    BY EntryTyped DEF IInv
  <2>2. \A n : Before(n) = Shown(transcript, n)
    BY DEF Before, Shown
  <2>3. pc = "closed" => flushed = read
    BY DEF IInv, Control
  <2> QED BY <2>1, <2>2, <2>3 DEF IInv, Faithful, TranscriptFaithful
<1> QED BY <1>1, Invariance, PTL

\* engine/flow.py:144-181, 220: the code is submitted once at most, when the bot spoke
\* of it or of e-mail, and the OTP slot is given back once.
THEOREM OtpGoesOutOnce == Spec => []OtpOnce
<1>1. IInv => OtpOnce
  <2> SUFFICES ASSUME IInv PROVE OtpOnce
    OBVIOUS
  <2>1. Codes = {i \in 1..Len(transcript) : transcript[i].who = "code"}
    BY EntryTyped DEF IInv, Codes, Customers
  <2>2. Cardinality(Codes) = IF otpDone THEN 1 ELSE 0
    <3>1. CASE otpDone
      <4>1. PICK i \in 1..Len(transcript) : transcript[i].who = "code"
        BY <3>1 DEF IInv, Asked
      <4>2. Codes = {i}
        BY <2>1, <4>1 DEF IInv, Asked
      <4> QED BY <3>1, <4>2, FS_Singleton
    <3>2. CASE ~otpDone
      <4>1. Codes = {}
        BY <2>1, <3>2 DEF IInv, Asked
      <4> QED BY <3>2, <4>1, FS_EmptySet
    <3> QED BY <3>1, <3>2
  <2> QED BY <2>1, <2>2 DEF IInv, Asked, OtpOnce
<1> QED BY <1>1, Invariance, PTL

\* engine/capture_client.py:52-71: a click goes to the latest selectable widget, and
\* to none twice, whichever frames come in between.
THEOREM ClicksAreCurrent == Spec => []ClickCurrent
<1>1. IInv => ClickCurrent
  <2> SUFFICES ASSUME IInv PROVE ClickCurrent
    OBVIOUS
  <2>1. Customers = {i \in 1..Len(transcript) : transcript[i].who \in {"own", "code", "click"}}
    BY EntryTyped DEF IInv, Customers
  <2>2. ASSUME NEW i \in Customers, transcript[i].who = "click",
               NEW j \in Customers, transcript[j].frame = transcript[i].frame
        PROVE  j = i
    <3>1. transcript[i].frame \in 1..transcript[i].seen /\ transcript[i].seen \in 0..read
      BY <2>1, <2>2, EntryTyped DEF IInv, Clicked
    <3>2. transcript[j].who = "click"
      BY <2>1, <2>2, <3>1 DEF IInv, Clicked
    <3> QED BY <2>1, <2>2, <3>2 DEF IInv, Clicked
  <2> QED BY <2>1, <2>2 DEF IInv, Clicked, ClickCurrent
<1> QED BY <1>1, Invariance, PTL

\* engine/flow.py:126-208: what the error of a result says is what happened.
THEOREM ErrorsTell == Spec => []ErrorTells
<1>1. IInv => ErrorTells
  <2> SUFFICES ASSUME IInv, pc = "closed" PROVE ErrorTells
    BY DEF ErrorTells
  <2>1. DOMAIN transcript = 1..Len(transcript) /\ Len(transcript) \in Nat
    BY EntryTyped DEF IInv
  <2>2. Customers = Spoke(transcript)
    BY <2>1 DEF Customers, Spoke
  <2>3. turn \in 1..MaxTurns /\ MaxTurns \in Nat
    BY ChatAssumption DEF IInv, TypeOK
  <2>4. error = "none" => Customers # {}
    <3>1. error = "none" => Cardinality(Customers) # 0
      BY <2>2, <2>3 DEF IInv, Ended
    <3> QED BY <3>1, FS_EmptySet
  <2> QED BY <2>1, <2>2, <2>4 DEF IInv, Ended, LastWho, ErrorTells
<1> QED BY <1>1, Invariance, PTL

\* engine/flow.py:183-198: the customer makes up a code only after an ask that came
\* with a placeholder, whatever the bot says in which pieces.
THEOREM GuessNeedsHoldAlways == Spec => []GuessNeedsHold
<1>1. IInv => GuessNeedsHold
  BY DEF IInv
<1> QED BY <1>1, Invariance, PTL
=============================================================================
