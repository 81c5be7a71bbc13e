------------------------------- MODULE OtpInbox -------------------------------
(***************************************************************************)
(* One shared mailbox serves the OTP mails of every session of a batch.    *)
(* Sessions either poll it themselves (MailinatorOtpProvider and           *)
(* ImapOtpProvider of otp_provider.py) or read the JSONL feed that one     *)
(* broker process appends to (otp_broker.py, feed_otp.py).  A session      *)
(* recognises its own mail by the passenger's first name in the body       *)
(* (run_flow's OtpFilter), and names are minted by seed/identity.py.       *)
(* One tick of the clock is one poll interval.                             *)
(***************************************************************************)
EXTENDS Integers, FiniteSets

CONSTANTS
  Session,     \* chat sessions
  First, Last, \* the pools names are drawn from
  MaxMails,    \* bound on the OTP mails the bot sends in all
  Skew,        \* skew_buffer_seconds, in ticks
  Timeout,     \* timeout_seconds, in ticks
  Modes,       \* ways to read the mailbox: "poll" it, or the broker's "feed"
  MaxFaults,   \* bound on failing HTTP requests
  MaxRestarts, \* bound on broker restarts
  MaxTime,     \* bound on the clock
  NoMail, Broker

ASSUME InboxAssumption ==
  /\ MaxMails \in Nat
  /\ Skew \in Nat
  /\ Timeout \in Nat
  /\ Modes \subseteq {"poll", "feed"}
  /\ MaxFaults \in Nat
  /\ MaxRestarts \in Nat
  /\ MaxTime \in Nat
  /\ NoMail \notin Session \X (1..MaxMails)
  /\ Broker \notin Session

\* The n-th mail to a session's passenger.
Mail == Session \X (1..MaxMails)

VARIABLES
  mode,      \* how this batch reads the mailbox
  clock,
  name,      \* the passenger's first and last name
  status,    \* of each session: "idle", "chatting", "waiting", "coded", "failed"
  since,     \* when the session started
  deadline,  \* when its wait for a code ends
  got,       \* the mail whose code it was given
  place,     \* of each mail: "unsent", "flight", "inbox" or "lost"
  recv,      \* when it reached the inbox
  appended,  \* how often the broker has appended each mail to the feed
  seen,      \* message ids the broker does not look at again
  scan,      \* what the broker's current listing still holds
  polled,    \* sessions, and the broker, whose turn this tick is over
  faults,    \* failed requests so far
  restarts   \* broker restarts so far

session == <<name, status, since, deadline, got>>
mailbox == <<place, recv>>
broker  == <<appended, seen, scan>>
vars == <<mode, clock, session, mailbox,
                 broker, polled, faults, restarts>>

\* fresh_name: full names are unique within a run, first names need not be.
Minted ==
  {f \in [Session -> First \X Last] : \A s, d \in Session : f[s] = f[d] => s = d}

Init ==
  /\ mode \in Modes
  /\ clock = 0
  /\ name \in Minted
  /\ status = [s \in Session |-> "idle"]
  /\ since = [s \in Session |-> 0]
  /\ deadline = [s \in Session |-> 0]
  /\ got = [s \in Session |-> NoMail]
  /\ place = [m \in Mail |-> "unsent"]
  /\ recv = [m \in Mail |-> 0]
  /\ appended = [m \in Mail |-> 0]
  /\ seen = {}
  /\ scan = {}
  /\ polled = {}
  /\ faults = 0
  /\ restarts = 0

-----------------------------------------------------------------------------
(* The bot and the mail service.                                           *)

MailsLeft == Cardinality({m \in Mail : place[m] # "unsent"}) < MaxMails

\* The bot mails a code to a session that is under way; it may send another.
SendCode(m) ==
  /\ status[m[1]] \in {"chatting", "waiting"}
  /\ place[m] = "unsent"
  /\ MailsLeft
  /\ \A n \in 1..(m[2] - 1) : place[<<m[1], n>>] # "unsent"
  /\ place' = [place EXCEPT ![m] = "flight"]
  /\ UNCHANGED <<mode, clock, session, recv,
                 broker, polled, faults, restarts>>

Deliver(m) ==
  /\ place[m] = "flight"
  /\ place' = [place EXCEPT ![m] = "inbox"]
  /\ recv' = [recv EXCEPT ![m] = clock]
  /\ UNCHANGED <<mode, clock, session,
                 broker, polled, faults, restarts>>

Lose(m) ==
  /\ place[m] = "flight"
  /\ place' = [place EXCEPT ![m] = "lost"]
  /\ UNCHANGED <<mode, clock, session, recv,
                 broker, polled, faults, restarts>>

-----------------------------------------------------------------------------
(* A session.                                                              *)

Inbox == {m \in Mail : place[m] = "inbox"}
Feed  == {m \in Mail : appended[m] > 0}
Brokered == mode = "feed"
Visible == IF Brokered THEN Feed ELSE Inbox

\* The body of a mail holds the name of the passenger it was sent to.
InBody(first, m) == first \in {name[m[1]][1], name[m[1]][2]}

\* Faulty variant: the passenger's name is not looked for.
FreshAnyone(s) == {m \in Visible : recv[m] >= since[s] - Skew}

\* What wait_for_otp looks at: mails not older than the session less the skew
\* buffer, that show the passenger's first name.
Fresh(s) ==
  {m \in Visible : recv[m] >= since[s] - Skew /\ InBody(name[s][1], m)}

Newest(s) == {m \in Fresh(s) : \A o \in Fresh(s) : recv[o] <= recv[m]}

StartSession(s) ==
  /\ status[s] = "idle"
  /\ status' = [status EXCEPT ![s] = "chatting"]
  /\ since' = [since EXCEPT ![s] = clock]
  /\ UNCHANGED <<mode, clock, name, deadline, got, mailbox,
                 broker, polled, faults, restarts>>

\* run_flow saw the bot ask for the code.
WaitForOtp(s) ==
  /\ status[s] = "chatting"
  /\ status' = [status EXCEPT ![s] = "waiting"]
  /\ deadline' = [deadline EXCEPT ![s] = clock + Timeout]
  /\ UNCHANGED <<mode, clock, name, since, got, mailbox,
                 broker, polled, faults, restarts>>

Polling(s) == status[s] = "waiting" /\ clock < deadline[s] /\ s \notin polled

\* The newest match is returned ...
PollHit(s) ==
  /\ Polling(s)
  /\ \E m \in Newest(s) : got' = [got EXCEPT ![s] = m]
  /\ status' = [status EXCEPT ![s] = "coded"]
  /\ UNCHANGED <<mode, clock, name, since, deadline, mailbox,
                 broker, polled, faults, restarts>>

\* ... or there is none, and the provider sleeps.
PollMiss(s) ==
  /\ Polling(s)
  /\ Fresh(s) = {}
  /\ polled' = polled \union {s}
  /\ UNCHANGED <<mode, clock, session, mailbox, broker, faults, restarts>>

\* Faulty variant: the first failing request ends the wait.
PollFailsRaising(s) ==
  /\ Polling(s)
  /\ ~Brokered
  /\ faults < MaxFaults
  /\ faults' = faults + 1
  /\ status' = [status EXCEPT ![s] = "failed"]
  /\ UNCHANGED <<mode, clock, name, since, deadline, got, mailbox,
                 broker, polled, restarts>>

\* A request of the poll fails: the error is kept for the message, and the
\* provider sleeps as after a miss.  (Reading the feed file does not fail.)
PollFails(s) ==
  /\ Polling(s)
  /\ ~Brokered
  /\ faults < MaxFaults
  /\ faults' = faults + 1
  /\ polled' = polled \union {s}
  /\ UNCHANGED <<mode, clock, session, mailbox, broker, restarts>>

\* OtpError.
GiveUp(s) ==
  /\ status[s] = "waiting"
  /\ clock >= deadline[s]
  /\ status' = [status EXCEPT ![s] = "failed"]
  /\ UNCHANGED <<mode, clock, name, since, deadline, got, mailbox,
                 broker, polled, faults, restarts>>

-----------------------------------------------------------------------------
(* The broker.                                                             *)

\* List the inbox; what was seen before is passed over.
BrokerList ==
  /\ Brokered
  /\ Broker \notin polled
  /\ scan = {}
  /\ scan' = Inbox \ seen
  /\ polled' = IF Inbox \subseteq seen THEN polled \union {Broker} ELSE polled
  /\ UNCHANGED <<mode, clock, session, mailbox, appended, seen, faults, restarts>>

\* Mark the message seen, fetch it and append its code to the feed; sleep when
\* the listing is exhausted.
BrokerRead(m) ==
  /\ m \in scan
  /\ scan' = scan \ {m}
  /\ seen' = seen \union {m}
  /\ appended' = [appended EXCEPT ![m] = @ + 1]
  /\ polled' = IF scan' = {} THEN polled \union {Broker} ELSE polled
  /\ UNCHANGED <<mode, clock, session, mailbox, faults, restarts>>

\* The listing or a fetch fails: the rest of the pass is given up.  A message
\* whose fetch failed is already marked as seen.
BrokerFails ==
  /\ Brokered
  /\ Broker \notin polled
  /\ faults < MaxFaults
  /\ faults' = faults + 1
  /\ \/ scan = {} /\ seen' = seen
     \/ \E m \in scan : seen' = seen \union {m}
  /\ scan' = {}
  /\ polled' = polled \union {Broker}
  /\ UNCHANGED <<mode, clock, session, mailbox, appended, restarts>>

\* Faulty variant: it takes what is in the inbox at its start as seen.
BrokerRestartFromNow ==
  /\ Brokered
  /\ restarts < MaxRestarts
  /\ restarts' = restarts + 1
  /\ seen' = Inbox
  /\ scan' = {}
  /\ polled' \in {polled, polled \union {Broker}}
  /\ UNCHANGED <<mode, clock, session, mailbox, appended, faults>>

\* Killed and started again: what it has seen is read back from the feed, and
\* the poll of this interval may be missed.
BrokerRestart ==
  /\ Brokered
  /\ restarts < MaxRestarts
  /\ restarts' = restarts + 1
  /\ seen' = Feed
  /\ scan' = {}
  /\ polled' \in {polled, polled \union {Broker}}
  /\ UNCHANGED <<mode, clock, session, mailbox, appended, faults>>

\* A poll interval passes: whoever polls has had its turn.
Tick ==
  /\ clock < MaxTime
  /\ \A s \in Session : status[s] = "waiting" => s \in polled
  /\ Brokered => Broker \in polled
  /\ clock' = clock + 1
  /\ polled' = {}
  /\ UNCHANGED <<mode, session, mailbox, broker, faults, restarts>>

Next ==
  \/ \E m \in Mail : SendCode(m) \/ Deliver(m) \/ Lose(m) \/ BrokerRead(m)
  \/ \E s \in Session :
       \/ StartSession(s) \/ WaitForOtp(s)
       \/ PollHit(s) \/ PollMiss(s) \/ PollFails(s) \/ GiveUp(s)
  \/ BrokerList \/ BrokerFails \/ BrokerRestart
  \/ Tick

Spec == Init /\ [][Next]_vars

-----------------------------------------------------------------------------
TypeOK ==
  /\ mode \in Modes
  /\ clock \in 0..MaxTime
  /\ name \in Minted
  /\ status \in [Session -> {"idle", "chatting", "waiting", "coded", "failed"}]
  /\ since \in [Session -> 0..clock]
  /\ deadline \in [Session -> Nat]
  /\ got \in [Session -> Mail \union {NoMail}]
  /\ place \in [Mail -> {"unsent", "flight", "inbox", "lost"}]
  /\ recv \in [Mail -> 0..clock]
  /\ appended \in [Mail -> Nat]
  /\ seen \in SUBSET Mail
  /\ scan \in SUBSET (Mail \ seen)
  /\ polled \in SUBSET (Session \union {Broker})
  /\ faults \in 0..MaxFaults
  /\ restarts \in 0..MaxRestarts

\* No session's first name shows in another passenger's mail.
Told == \A s, d \in Session : name[s][1] \in {name[d][1], name[d][2]} => s = d

\* A session only ever submits a code that was mailed to its own passenger.
NoCrossWiring == \A s \in Session : got[s] # NoMail => got[s][1] = s

\* First names that tell the sessions apart are enough for that, whatever the
\* order in which mails, polls and the broker come.
ToldApart == Told => NoCrossWiring

\* A re-sent code supersedes an earlier one, and a session's own code one that a
\* namesake left in the inbox before it: the mail a session takes is older than a
\* mail of its own only while the broker has not come round to that one yet, one
\* interval after it arrived and one more for each restart.  Excepted is, as in
\* CodeInTime, a broker that failed to fetch what it had marked as seen.
OwnSupersedes ==
  [][\A s \in Session :
       got'[s] # got[s] /\ (Brokered => faults = 0) =>
         \A m \in Inbox : m[1] = s /\ recv[m] > recv[got'[s]] =>
           Brokered /\ clock <= recv[m] + 1 + restarts]_vars

\* Ticks a mail may need to be noticed, besides one for each fault or restart.
Lag == IF Brokered THEN 2 ELSE 1

\* A session that gave up without its mail m, which reached the inbox in time.
MissedCode(s, m) ==
  /\ status[s] = "failed"
  /\ m \in Inbox /\ m[1] = s
  /\ recv[m] + Lag + faults + restarts < deadline[s]

\* A session gives up only if no mail of its own was there in time.  This fails
\* where the broker marks a message seen and then fails to fetch it: one failing
\* request costs a poll when sessions poll, and the code when they read the feed.
NoFalseTimeout == \A s \in Session, m \in Mail : ~MissedCode(s, m)

\* The same, where it is not the broker's request that fails: a restart of the
\* broker costs a poll as well.
CodeInTime == (Brokered => faults = 0) => NoFalseTimeout

\* The feed holds each mail once, also across restarts of the broker.
FeedOnce == \A m \in Mail : appended[m] <= 1

=============================================================================
