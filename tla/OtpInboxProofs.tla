---------------------------- MODULE OtpInboxProofs ----------------------------
(* Theorems about OtpInbox, for every set of sessions, every pool of names,  *)
(* every timeout and every bound on mails, faults, restarts and time.        *)
EXTENDS OtpInbox, TLAPS

USE InboxAssumption DEF session, mailbox, broker, vars

(***************************************************************************)
(* Type correctness; the broker never holds a message in its listing that  *)
(* it has already read.                                                    *)
(***************************************************************************)
LEMMA TypeInductive == TypeOK /\ [Next]_vars => TypeOK'
<1> SUFFICES ASSUME TypeOK, [Next]_vars
             PROVE  TypeOK'
  OBVIOUS
<1> USE DEF TypeOK
<1>1. ASSUME NEW m \in Mail, SendCode(m) \/ Deliver(m) \/ Lose(m)
      PROVE  TypeOK'
  BY <1>1 DEF SendCode, Deliver, Lose
<1>2. ASSUME NEW m \in Mail, BrokerRead(m)
      PROVE  TypeOK'
  BY <1>2 DEF BrokerRead
<1>3. ASSUME NEW s \in Session, StartSession(s)
      PROVE  TypeOK'
  BY <1>3 DEF StartSession
<1>4. ASSUME NEW s \in Session, WaitForOtp(s)
      PROVE  TypeOK'
  BY <1>4 DEF WaitForOtp
<1>5. ASSUME NEW s \in Session, PollHit(s)
      PROVE  TypeOK'
  <2>1. Newest(s) \subseteq Mail
    BY DEF Newest, Fresh, Visible, Inbox, Feed
  <2> QED
    BY <1>5, <2>1 DEF PollHit
<1>6. ASSUME NEW s \in Session, PollMiss(s) \/ PollFails(s) \/ GiveUp(s)
      PROVE  TypeOK'
  BY <1>6 DEF PollMiss, PollFails, GiveUp
<1>7. CASE BrokerList
  BY <1>7 DEF BrokerList, Inbox
<1>8. CASE BrokerFails
  BY <1>8 DEF BrokerFails
<1>9. CASE BrokerRestart
  BY <1>9 DEF BrokerRestart, Feed
<1>10. CASE Tick
  BY <1>10 DEF Tick
<1>11. CASE UNCHANGED vars
  BY <1>11
<1> QED
  BY <1>1, <1>2, <1>3, <1>4, <1>5, <1>6, <1>7, <1>8, <1>9, <1>10, <1>11 DEF Next

\* Every variable keeps to its range (TypeOK).
THEOREM TypeCorrect == Spec => []TypeOK
<1>1. Init => TypeOK
  BY DEF Init, TypeOK
<1> QED
  BY <1>1, TypeInductive, PTL DEF Spec

(***************************************************************************)
(* The feed holds each mail once, across restarts of the broker: what is   *)
(* in the feed is always among what the broker has seen.                   *)
(***************************************************************************)
FeedSeen == Feed \subseteq seen

LEMMA FeedInductive == TypeOK /\ FeedSeen /\ FeedOnce /\ [Next]_vars => FeedSeen' /\ FeedOnce'
<1> SUFFICES ASSUME TypeOK, FeedSeen, FeedOnce, [Next]_vars
             PROVE  FeedSeen' /\ FeedOnce'
  OBVIOUS
<1>1. ASSUME NEW m \in Mail, BrokerRead(m)
      PROVE  FeedSeen' /\ FeedOnce'
  <2>1. m \notin seen /\ appended[m] \in Nat
    BY <1>1 DEF BrokerRead, TypeOK
  <2>2. appended[m] = 0
    BY <2>1 DEF FeedSeen, Feed
  <2>3. FeedOnce'
    BY <1>1, <2>2 DEF BrokerRead, FeedOnce, TypeOK
  <2>4. FeedSeen'
    BY <1>1 DEF BrokerRead, FeedSeen, Feed, TypeOK
  <2> QED
    BY <2>3, <2>4
<1>2. CASE BrokerRestart
  BY <1>2 DEF BrokerRestart, FeedSeen, FeedOnce, Feed
<1>3. CASE BrokerFails
  BY <1>3 DEF BrokerFails, FeedSeen, FeedOnce, Feed
<1>4. CASE UNCHANGED <<appended, seen>>
  BY <1>4 DEF FeedSeen, FeedOnce, Feed
<1>5. [Next]_vars =>
        \/ \E m \in Mail : BrokerRead(m)
        \/ BrokerRestart \/ BrokerFails \/ UNCHANGED <<appended, seen>>
  BY DEF Next, SendCode, Deliver, Lose, StartSession, WaitForOtp, PollHit,
         PollMiss, PollFails, GiveUp, BrokerList, Tick
<1> QED
  BY <1>1, <1>2, <1>3, <1>4, <1>5

\* The broker never appends a mail again (FeedOnce).
THEOREM FeedHoldsOnce == Spec => []FeedOnce
<1>1. Init => TypeOK /\ FeedSeen /\ FeedOnce
  BY DEF Init, TypeOK, FeedSeen, FeedOnce, Feed
<1> QED
  BY <1>1, TypeInductive, FeedInductive, PTL DEF Spec

(***************************************************************************)
(* Codes: what a session was given shows its passenger's first name.       *)
(***************************************************************************)
\* The feed and the broker's listing hold nothing that is not in the inbox.
Arrived == Feed \subseteq Inbox /\ scan \subseteq Inbox

\* Only a session that has its code holds one.
Coded == \A s \in Session : got[s] # NoMail => status[s] = "coded"

Codes == Arrived /\ Coded /\ ToldApart

LEMMA CodesInductive == TypeOK /\ Codes /\ [Next]_vars => Codes'
<1> SUFFICES ASSUME TypeOK, Codes, [Next]_vars
             PROVE  Codes'
  OBVIOUS
<1> USE DEF TypeOK
<1>0. Told' = Told
  BY DEF Told, Next, SendCode, Deliver, Lose, BrokerRead, StartSession,
         WaitForOtp, PollHit, PollMiss, PollFails, GiveUp, BrokerList,
         BrokerFails, BrokerRestart, Tick
<1>1. ASSUME NEW m \in Mail, SendCode(m) \/ Deliver(m) \/ Lose(m)
      PROVE  Codes'
  <2>1. Inbox \subseteq Inbox' /\ \A n \in Inbox : recv'[n] = recv[n]
    BY <1>1 DEF SendCode, Deliver, Lose, Inbox
  <2>2. Arrived'
    BY <1>1, <2>1 DEF SendCode, Deliver, Lose, Codes, Arrived, Feed
  <2>3. Coded'
    BY <1>1, <2>1 DEF SendCode, Deliver, Lose, Codes, Coded
  <2>4. ToldApart'
    BY <1>0, <1>1 DEF SendCode, Deliver, Lose, Codes, ToldApart, NoCrossWiring
  <2> QED
    BY <2>2, <2>3, <2>4 DEF Codes
<1>2. CASE Arrived' /\ Inbox' = Inbox /\ UNCHANGED <<name, status, since, got, recv>>
  BY <1>0, <1>2 DEF Codes, Coded, ToldApart, NoCrossWiring
<1>3. ASSUME NEW m \in Mail, BrokerRead(m)
      PROVE  Codes'
  BY <1>2, <1>3 DEF BrokerRead, Codes, Arrived, Feed, Inbox
<1>4. CASE BrokerList \/ BrokerFails \/ BrokerRestart \/ Tick
  BY <1>2, <1>4 DEF BrokerList, BrokerFails, BrokerRestart, Tick, Codes,
                    Arrived, Feed, Inbox
<1>5. ASSUME NEW s \in Session,
             StartSession(s) \/ WaitForOtp(s) \/ PollMiss(s) \/ PollFails(s) \/ GiveUp(s)
      PROVE  Codes'
  <2>1. UNCHANGED <<got, mailbox, broker, name>> /\ got[s] = NoMail
    BY <1>5 DEF StartSession, WaitForOtp, PollMiss, PollFails, GiveUp, Polling,
                Codes, Coded
  <2>2. \A d \in Session : d # s => since'[d] = since[d] /\ status'[d] = status[d]
    BY <1>5 DEF StartSession, WaitForOtp, PollMiss, PollFails, GiveUp
  <2> QED
    BY <1>0, <2>1, <2>2 DEF Codes, Arrived, Feed, Inbox, Coded,
                            ToldApart, NoCrossWiring
<1>6. ASSUME NEW s \in Session, PollHit(s)
      PROVE  Codes'
  <2>1. PICK m \in Newest(s) : got' = [got EXCEPT ![s] = m]
    BY <1>6 DEF PollHit
  <2>2. m \in Mail /\ m \in Visible /\ recv[m] >= since[s] - Skew /\ InBody(name[s][1], m)
    BY DEF Newest, Fresh, Visible, Feed, Inbox
  <2>4. Arrived' /\ Inbox' = Inbox
    BY <1>6 DEF PollHit, Codes, Arrived, Feed, Inbox
  <2>5. Coded'
    BY <1>6, <2>1, <2>2, <2>4 DEF PollHit, Codes, Coded
  <2>6. Told => m[1] = s
    BY <2>2 DEF Told, InBody, Mail
  <2>7. ToldApart'
    BY <1>0, <2>1, <2>6 DEF Codes, ToldApart, NoCrossWiring
  <2> QED
    BY <2>4, <2>5, <2>7 DEF Codes
<1>7. CASE UNCHANGED vars
  BY <1>2, <1>7 DEF Codes, Arrived, Feed, Inbox
<1> QED
  BY <1>1, <1>3, <1>4, <1>5, <1>6, <1>7 DEF Next

LEMMA CodesHold == Spec => []Codes
<1>1. Init => TypeOK
  BY DEF Init, TypeOK
<1>2. Init => Codes
  BY DEF Init, Codes, Arrived, Feed, Coded, ToldApart, NoCrossWiring
<1> QED
  BY <1>1, <1>2, TypeInductive, CodesInductive, PTL DEF Spec

\* Sessions whose first names tell them apart never take each other's code
\* (ToldApart).
THEOREM NamesKeepApart == Spec => []ToldApart
<1>1. Codes => ToldApart
  BY DEF Codes
<1> QED
  BY <1>1, CodesHold, PTL

(***************************************************************************)
(* Time: a mail in the inbox is noticed within Lag polls and one more for  *)
(* each fault and restart.                                                 *)
(***************************************************************************)
Turn(x) == IF x \in polled THEN 1 ELSE 0

Calm == Brokered => faults = 0

\* A mail is sent to a session under way.
SentInTime ==
  \A m \in Mail :
    /\ place[m] # "unsent" => status[m[1]] # "idle"
    /\ m \in Inbox => since[m[1]] <= recv[m]

GivesUpLate == \A s \in Session : status[s] = "failed" => deadline[s] <= clock

\* The broker appends a mail in the interval after it arrived, unless it is
\* restarted.
BrokerKeepsPace ==
  /\ seen = Feed
  /\ scan # {} => Broker \notin polled
  /\ \A m \in Inbox \ Feed :
       /\ scan = {} \/ m \in scan \/ recv[m] = clock
       /\ clock + Turn(Broker) <= recv[m] + 1 + restarts

\* A waiting session has not had the turn in which it must see the mail.
SessionKeepsPace ==
  \A s \in Session, m \in Visible :
    m[1] = s /\ status[s] = "waiting" =>
      \/ clock + Turn(s) <= recv[m] + Lag + faults + restarts
      \/ clock + Turn(s) + Timeout <= deadline[s] + 1 + faults

Pace ==
  /\ SentInTime
  /\ GivesUpLate
  /\ Calm => (Brokered => BrokerKeepsPace) /\ SessionKeepsPace /\ NoFalseTimeout

\* A code is waited for longer than the polls that may fail.
Patient == Timeout > MaxFaults + 1

LEMMA BoxStays ==
  UNCHANGED <<mode, place, appended>> => Visible' = Visible /\ Inbox' = Inbox
BY DEF Visible, Brokered, Feed, Inbox

LEMMA SentInductive ==
  TypeOK /\ SentInTime /\ GivesUpLate /\ [Next]_vars => SentInTime' /\ GivesUpLate'
<1> SUFFICES ASSUME TypeOK, SentInTime, GivesUpLate, [Next]_vars
             PROVE  SentInTime' /\ GivesUpLate'
  OBVIOUS
<1> USE DEF TypeOK
<1>1. ASSUME NEW m \in Mail, SendCode(m) \/ Deliver(m) \/ Lose(m)
      PROVE  SentInTime' /\ GivesUpLate'
  <2>1. m[1] \in Session
    BY DEF Mail
  <2> QED
    BY <1>1, <2>1 DEF SendCode, Deliver, Lose, SentInTime, GivesUpLate, Inbox, Mail
<1>2. ASSUME NEW s \in Session,
             StartSession(s) \/ WaitForOtp(s) \/ PollHit(s) \/ GiveUp(s)
      PROVE  SentInTime' /\ GivesUpLate'
  <2>0. \A m \in Mail : m[1] \in Session
    BY DEF Mail
  <2>1. CASE StartSession(s)
    BY <2>0, <2>1 DEF StartSession, SentInTime, GivesUpLate, Inbox
  <2>2. CASE WaitForOtp(s)
    BY <2>0, <2>2 DEF WaitForOtp, SentInTime, GivesUpLate, Inbox
  <2>3. CASE PollHit(s) \/ GiveUp(s)
    BY <2>0, <2>3 DEF PollHit, GiveUp, Polling, SentInTime, GivesUpLate, Inbox
  <2> QED
    BY <1>2, <2>1, <2>2, <2>3
<1>3. CASE /\ UNCHANGED <<status, since, deadline, place, recv>>
           /\ clock' = clock \/ clock' = clock + 1
  BY <1>3 DEF SentInTime, GivesUpLate, Inbox
<1>4. ASSUME NEW s \in Session, PollMiss(s) \/ PollFails(s)
      PROVE  SentInTime' /\ GivesUpLate'
  BY <1>3, <1>4 DEF PollMiss, PollFails
<1>5. ASSUME NEW m \in Mail, BrokerRead(m)
      PROVE  SentInTime' /\ GivesUpLate'
  BY <1>3, <1>5 DEF BrokerRead
<1>6. CASE BrokerList \/ BrokerFails \/ BrokerRestart \/ Tick \/ UNCHANGED vars
  BY <1>3, <1>6 DEF BrokerList, BrokerFails, BrokerRestart, Tick
<1> QED
  BY <1>1, <1>2, <1>4, <1>5, <1>6 DEF Next

\* The broker's half of the argument.
LEMMA BrokerInductive ==
  ASSUME TypeOK, Arrived, Brokered, faults = 0, faults' = 0, BrokerKeepsPace, [Next]_vars
  PROVE  BrokerKeepsPace'
<1> USE DEF TypeOK
<1>1. ASSUME NEW m \in Mail, SendCode(m) \/ Lose(m)
      PROVE  BrokerKeepsPace'
  BY <1>1 DEF SendCode, Lose, BrokerKeepsPace, Feed, Inbox, Turn
<1>2. ASSUME NEW m \in Mail, Deliver(m)
      PROVE  BrokerKeepsPace'
  <2>1. Inbox' = Inbox \union {m} /\ Feed' = Feed /\ recv'[m] = clock
    BY <1>2 DEF Deliver, Inbox, Feed
  <2>2. \A n \in Mail : n # m => recv'[n] = recv[n]
    BY <1>2 DEF Deliver
  <2>3. m \notin Inbox
    BY <1>2 DEF Deliver, Inbox
  <2>4. \A n \in Inbox : n # m /\ recv'[n] = recv[n]
    BY <2>2, <2>3 DEF Inbox
  <2> QED
    BY <1>2, <2>1, <2>4 DEF Deliver, BrokerKeepsPace, Turn
<1>3. ASSUME NEW m \in Mail, BrokerRead(m)
      PROVE  BrokerKeepsPace'
  <2>1. Feed' = Feed \union {m} /\ Inbox' = Inbox /\ m \in scan
    BY <1>3 DEF BrokerRead, Feed, Inbox
  <2>2. seen' = Feed'
    BY <1>3, <2>1 DEF BrokerRead, BrokerKeepsPace
  <2>3. Broker \notin polled
    BY <2>1 DEF BrokerKeepsPace
  <2>4. scan' # {} => Broker \notin polled'
    BY <1>3, <2>3 DEF BrokerRead
  <2>5. ASSUME NEW n \in Inbox' \ Feed'
        PROVE  /\ scan' = {} \/ n \in scan' \/ recv'[n] = clock'
               /\ clock' + Turn(Broker)' <= recv'[n] + 1 + restarts'
    <3>1. n \in Inbox \ Feed /\ n # m
      BY <2>1
    <3>2. /\ n \in scan \/ recv[n] = clock
          /\ clock + Turn(Broker) <= recv[n] + 1 + restarts
      BY <2>1, <3>1 DEF BrokerKeepsPace
    <3>3. n \in scan => scan' # {}
      BY <1>3, <3>1 DEF BrokerRead
    <3>4. CASE n \in scan
      BY <1>3, <2>3, <2>4, <3>1, <3>2, <3>3, <3>4 DEF BrokerRead, Turn
    <3>5. CASE recv[n] = clock
      BY <1>3, <3>1, <3>5 DEF BrokerRead, Turn, Inbox
    <3> QED
      BY <3>2, <3>4, <3>5
  <2> QED
    BY <2>2, <2>4, <2>5 DEF BrokerKeepsPace
<1>4. CASE BrokerList
  BY <1>4 DEF BrokerList, BrokerKeepsPace, Feed, Inbox, Turn
<1>5. CASE BrokerRestart
  BY <1>5 DEF BrokerRestart, BrokerKeepsPace, Feed, Inbox, Turn
<1>6. CASE Tick
  BY <1>6 DEF Tick, BrokerKeepsPace, Feed, Inbox, Turn
<1>7. CASE /\ UNCHANGED <<clock, mailbox, broker, restarts>>
           /\ Broker \in polled' <=> Broker \in polled
  BY <1>7 DEF BrokerKeepsPace, Feed, Inbox, Turn
<1>8. ASSUME NEW s \in Session,
             \/ StartSession(s) \/ WaitForOtp(s) \/ PollHit(s)
             \/ PollMiss(s) \/ PollFails(s) \/ GiveUp(s)
      PROVE  BrokerKeepsPace'
  <2>1. s # Broker
    OBVIOUS
  <2> QED
    BY <1>7, <1>8, <2>1 DEF StartSession, WaitForOtp, PollHit, PollMiss,
                            PollFails, GiveUp
<1>9. CASE BrokerFails
  BY <1>9 DEF BrokerFails
<1>10. CASE UNCHANGED vars
  BY <1>7, <1>10
<1> QED
  BY <1>1, <1>2, <1>3, <1>4, <1>5, <1>6, <1>8, <1>9, <1>10 DEF Next

\* The session's half, and what it gives for a session that gives up.
LEMMA SessionInductive ==
  ASSUME Patient, TypeOK, Arrived, SentInTime, GivesUpLate, Calm, Calm',
         Brokered => BrokerKeepsPace, SessionKeepsPace, NoFalseTimeout, [Next]_vars
  PROVE  SessionKeepsPace' /\ NoFalseTimeout'
<1> USE DEF TypeOK
<1>0. /\ \A m \in Mail : m[1] \in Session
      /\ Visible \subseteq Inbox
      /\ Brokered' = Brokered /\ Lag' = Lag /\ Lag \in {1, 2}
  <2>1. mode' = mode
    BY DEF Next, SendCode, Deliver, Lose, BrokerRead, StartSession, WaitForOtp,
           PollHit, PollMiss, PollFails, GiveUp, BrokerList, BrokerFails,
           BrokerRestart, Tick
  <2> QED
    BY <2>1 DEF Mail, Visible, Arrived, Inbox, Brokered, Lag
<1>1. ASSUME NEW m \in Mail, SendCode(m) \/ Lose(m)
      PROVE  SessionKeepsPace' /\ NoFalseTimeout'
  <2>1. Visible' = Visible /\ Inbox' = Inbox
    <3>1. Inbox' = Inbox /\ Feed' = Feed
      BY <1>1 DEF SendCode, Lose, Inbox, Feed
    <3> QED
      BY <1>0, <3>1 DEF Visible
  <2> QED
    BY <1>0, <1>1, <2>1 DEF SendCode, Lose, SessionKeepsPace, NoFalseTimeout,
                            MissedCode, Turn
<1>2. ASSUME NEW m \in Mail, Deliver(m)
      PROVE  SessionKeepsPace' /\ NoFalseTimeout'
  <2>1. Inbox' = Inbox \union {m} /\ Feed' = Feed /\ recv'[m] = clock /\ m \notin Inbox
    BY <1>2 DEF Deliver, Inbox, Feed
  <2>2. \A n \in Mail : n # m => recv'[n] = recv[n]
    BY <1>2 DEF Deliver
  <2>3. Visible' \subseteq Visible \union {m} /\ m \notin Visible
    BY <1>0, <2>1 DEF Visible
  <2>4. \A s \in Session : clock + Turn(s) <= clock + Lag + faults + restarts
    BY <1>0 DEF Turn
  <2>5. SessionKeepsPace'
    BY <1>0, <1>2, <2>1, <2>2, <2>3, <2>4 DEF Deliver, SessionKeepsPace, Turn
  <2>6. NoFalseTimeout'
    BY <1>0, <1>2, <2>1, <2>2 DEF Deliver, NoFalseTimeout, MissedCode, GivesUpLate
  <2> QED
    BY <2>5, <2>6
<1>3. ASSUME NEW m \in Mail, BrokerRead(m)
      PROVE  SessionKeepsPace' /\ NoFalseTimeout'
  <2>1. NoFalseTimeout'
    BY <1>0, <1>3 DEF BrokerRead, NoFalseTimeout, MissedCode, Inbox
  <2>2. CASE ~Brokered
    BY <1>0, <1>3, <2>1, <2>2 DEF BrokerRead, SessionKeepsPace, Visible, Inbox, Turn
  <2>3. CASE Brokered
    <3>1. Visible' = Visible \union {m}
      BY <1>0, <1>3, <2>3 DEF BrokerRead, Visible, Feed
    <3>2. m \in Inbox \ Feed
      BY <1>3, <2>3 DEF BrokerRead, Arrived, BrokerKeepsPace
    <3>3. clock <= recv[m] + 1 + restarts
      BY <2>3, <3>2 DEF BrokerKeepsPace, Turn
    <3>4. \A s \in Session : clock + Turn(s) <= recv[m] + Lag + faults + restarts
      BY <2>3, <3>3 DEF Turn, Lag
    <3>5. \A s \in Session : Turn(s)' = Turn(s)
      BY <1>3 DEF BrokerRead, Turn
    <3> QED
      BY <1>0, <1>3, <2>1, <3>1, <3>4, <3>5 DEF BrokerRead, SessionKeepsPace
  <2> QED
    BY <2>2, <2>3
<1>4. ASSUME NEW s \in Session, StartSession(s) \/ PollHit(s)
      PROVE  SessionKeepsPace' /\ NoFalseTimeout'
  <2>1. Visible' = Visible /\ Inbox' = Inbox
    BY <1>4, BoxStays DEF StartSession, PollHit
  <2> QED
    BY <1>0, <1>4, <2>1 DEF StartSession, PollHit, SessionKeepsPace,
                            NoFalseTimeout, MissedCode, Turn
<1>5. ASSUME NEW s \in Session, WaitForOtp(s)
      PROVE  SessionKeepsPace' /\ NoFalseTimeout'
  <2>1. Visible' = Visible /\ Inbox' = Inbox
    BY <1>5, BoxStays DEF WaitForOtp
  <2>2. clock + Turn(s) + Timeout <= deadline'[s] + 1 + faults
    BY <1>5 DEF WaitForOtp, Turn
  <2> QED
    BY <1>0, <1>5, <2>1, <2>2 DEF WaitForOtp, SessionKeepsPace, NoFalseTimeout,
                                  MissedCode, Turn
<1>6. ASSUME NEW s \in Session, PollMiss(s)
      PROVE  SessionKeepsPace' /\ NoFalseTimeout'
  <2>1. Visible' = Visible /\ Inbox' = Inbox
    BY <1>6, BoxStays DEF PollMiss
  <2>2. ASSUME NEW m \in Visible
        PROVE  m[1] # s
    <3>1. m \in Mail /\ since[m[1]] <= recv[m]
      BY <1>0 DEF SentInTime, Inbox
    <3> QED
      BY <1>6, <3>1 DEF PollMiss, Fresh, InBody
  <2> QED
    BY <1>0, <1>6, <2>1, <2>2 DEF PollMiss, SessionKeepsPace, NoFalseTimeout,
                                  MissedCode, Turn
<1>7. ASSUME NEW s \in Session, PollFails(s)
      PROVE  SessionKeepsPace' /\ NoFalseTimeout'
  <2>1. Visible' = Visible /\ Inbox' = Inbox
    BY <1>7, BoxStays DEF PollFails
  <2>2. faults' = faults + 1 /\ \A d \in Session : Turn(d)' <= Turn(d) + 1
    BY <1>7 DEF PollFails, Turn
  <2>3. \A d \in Session : Turn(d) \in {0, 1} /\ Turn(d)' \in {0, 1}
    BY DEF Turn
  <2>4. UNCHANGED <<clock, status, deadline, recv, restarts>>
    BY <1>7 DEF PollFails
  <2>5. NoFalseTimeout'
    BY <1>0, <2>1, <2>2, <2>4 DEF NoFalseTimeout, MissedCode
  <2>6. ASSUME NEW d \in Session, NEW m \in Visible, m[1] = d, status[d] = "waiting"
        PROVE  \/ clock + Turn(d)' <= recv[m] + Lag + faults' + restarts
               \/ clock + Turn(d)' + Timeout <= deadline[d] + 1 + faults'
    <3>1. \/ clock + Turn(d) <= recv[m] + Lag + faults + restarts
          \/ clock + Turn(d) + Timeout <= deadline[d] + 1 + faults
      BY <2>6 DEF SessionKeepsPace
    <3>2. m \in Mail
      BY <1>0 DEF Inbox
    <3> QED
      BY <1>0, <2>2, <2>3, <3>1, <3>2
  <2>7. SessionKeepsPace'
    BY <1>0, <2>1, <2>4, <2>6 DEF SessionKeepsPace
  <2> QED
    BY <2>5, <2>7
<1>8. ASSUME NEW s \in Session, GiveUp(s)
      PROVE  SessionKeepsPace' /\ NoFalseTimeout'
  <2>1. Visible' = Visible /\ Inbox' = Inbox
    BY <1>8, BoxStays DEF GiveUp
  <2>2. SessionKeepsPace'
    BY <1>0, <1>8, <2>1 DEF GiveUp, SessionKeepsPace, Turn
  <2>3. ASSUME NEW m \in Inbox, m[1] = s
        PROVE  recv[m] + Lag + faults + restarts >= deadline[s]
    <3>0. m \in Mail /\ deadline[s] <= clock
      BY <1>8 DEF GiveUp, Inbox
    <3>1. CASE m \in Visible
      <4>1. \/ clock + Turn(s) <= recv[m] + Lag + faults + restarts
            \/ clock + Turn(s) + Timeout <= deadline[s] + 1 + faults
        BY <1>8, <2>3, <3>1 DEF GiveUp, SessionKeepsPace
      <4>2. Turn(s) \in {0, 1}
        BY DEF Turn
      <4> QED
        BY <1>0, <3>0, <4>1, <4>2 DEF Patient
    <3>2. CASE m \notin Visible
      <4>1. Brokered /\ m \in Inbox \ Feed
        BY <3>2 DEF Visible
      <4>2. clock + Turn(Broker) <= recv[m] + 1 + restarts
        BY <4>1 DEF BrokerKeepsPace
      <4>3. Turn(Broker) \in {0, 1} /\ Lag = 2
        BY <4>1 DEF Turn, Lag
      <4> QED
        BY <3>0, <4>2, <4>3
    <3> QED
      BY <3>1, <3>2
  <2>4. NoFalseTimeout'
    BY <1>0, <1>8, <2>1, <2>3 DEF GiveUp, NoFalseTimeout, MissedCode, Inbox
  <2> QED
    BY <2>2, <2>4
<1>9. ASSUME Visible' = Visible, Inbox' = Inbox, faults' >= faults,
             restarts' >= restarts, clock' = clock,
             UNCHANGED <<status, deadline, recv>>,
             \A s \in Session : Turn(s)' = Turn(s)
      PROVE  SessionKeepsPace' /\ NoFalseTimeout'
  <2>1. \A s \in Session : Turn(s) \in {0, 1}
    BY DEF Turn
  <2>2. /\ faults' \in Nat /\ restarts' \in Nat
    BY TypeInductive
  <2>3. NoFalseTimeout'
    BY <1>0, <1>9, <2>2 DEF NoFalseTimeout, MissedCode, Inbox
  <2>4. ASSUME NEW s \in Session, NEW m \in Visible, m[1] = s, status[s] = "waiting"
        PROVE  \/ clock + Turn(s) <= recv[m] + Lag + faults' + restarts'
               \/ clock + Turn(s) + Timeout <= deadline[s] + 1 + faults'
    <3>1. \/ clock + Turn(s) <= recv[m] + Lag + faults + restarts
          \/ clock + Turn(s) + Timeout <= deadline[s] + 1 + faults
      BY <2>4 DEF SessionKeepsPace
    <3>2. m \in Mail
      BY <1>0 DEF Inbox
    <3> QED
      BY <1>0, <1>9, <2>1, <2>2, <3>1, <3>2
  <2>5. SessionKeepsPace'
    BY <1>0, <1>9, <2>4 DEF SessionKeepsPace
  <2> QED
    BY <2>3, <2>5
<1>10. CASE BrokerList \/ BrokerFails \/ BrokerRestart
  <2>1. /\ UNCHANGED <<clock, session, mailbox, appended>>
        /\ faults' >= faults /\ restarts' >= restarts
        /\ \A s \in Session : s \in polled' <=> s \in polled
    BY <1>10 DEF BrokerList, BrokerFails, BrokerRestart
  <2>2. Visible' = Visible /\ Inbox' = Inbox
    BY <2>1, BoxStays, <1>10
    DEF BrokerList, BrokerFails, BrokerRestart
  <2> QED
    BY <1>9, <2>1, <2>2 DEF Turn
<1>11. CASE Tick
  <2>1. Visible' = Visible /\ Inbox' = Inbox
    BY <1>11, BoxStays DEF Tick
  <2>2. \A s \in Session : status[s] = "waiting" => clock' + Turn(s)' = clock + Turn(s)
    BY <1>11 DEF Tick, Turn
  <2>3. UNCHANGED <<status, deadline, recv, faults, restarts>>
    BY <1>11 DEF Tick
  <2>4. NoFalseTimeout'
    BY <1>0, <2>1, <2>3 DEF NoFalseTimeout, MissedCode
  <2>5. SessionKeepsPace'
    BY <1>0, <2>1, <2>2, <2>3 DEF SessionKeepsPace
  <2> QED
    BY <2>4, <2>5
<1>12. CASE UNCHANGED vars
  <2>1. Visible' = Visible /\ Inbox' = Inbox
    BY <1>12, BoxStays
  <2> QED
    BY <1>9, <1>12, <2>1 DEF Turn
<1> QED
  BY <1>1, <1>2, <1>3, <1>4, <1>5, <1>6, <1>7, <1>8, <1>10, <1>11, <1>12 DEF Next

LEMMA PaceInductive ==
  Patient /\ TypeOK /\ Arrived /\ Pace /\ [Next]_vars => Pace'
<1> SUFFICES ASSUME Patient, TypeOK, Arrived, Pace, [Next]_vars
             PROVE  Pace'
  OBVIOUS
<1>1. SentInTime' /\ GivesUpLate'
  BY SentInductive DEF Pace
<1>2. ASSUME Calm'
      PROVE  (Brokered => BrokerKeepsPace)' /\ SessionKeepsPace' /\ NoFalseTimeout'
  <2>1. Brokered' = Brokered /\ faults' >= faults /\ faults \in Nat
    BY DEF TypeOK, Brokered, Next, SendCode, Deliver, Lose, BrokerRead,
           StartSession, WaitForOtp, PollHit, PollMiss, PollFails, GiveUp,
           BrokerList, BrokerFails, BrokerRestart, Tick
  <2>2. Calm
    BY <1>2, <2>1 DEF Calm
  <2>3. SessionKeepsPace' /\ NoFalseTimeout'
    BY <1>2, <2>2, SessionInductive DEF Pace
  <2>4. Brokered => BrokerKeepsPace'
    BY <1>2, <2>1, <2>2, BrokerInductive DEF Pace, Calm
  <2> QED
    BY <2>1, <2>3, <2>4
<1> QED
  BY <1>1, <1>2 DEF Pace

(***************************************************************************)
(* Which code: a newer mail of the session's own is looked at first, as    *)
(* soon as the session can see it.                                         *)
(***************************************************************************)
BrokerPace == Calm /\ Brokered => BrokerKeepsPace

Keeping == Arrived /\ SentInTime /\ GivesUpLate /\ BrokerPace

LEMMA BrokerPaceInductive ==
  TypeOK /\ Arrived /\ BrokerPace /\ [Next]_vars => BrokerPace'
<1> SUFFICES ASSUME TypeOK, Arrived, BrokerPace, [Next]_vars, Calm', Brokered'
             PROVE  BrokerKeepsPace'
  BY DEF BrokerPace
<1>1. Brokered' = Brokered /\ faults' >= faults /\ faults \in Nat
  BY DEF TypeOK, Brokered, Next, SendCode, Deliver, Lose, BrokerRead,
         StartSession, WaitForOtp, PollHit, PollMiss, PollFails, GiveUp,
         BrokerList, BrokerFails, BrokerRestart, Tick
<1>2. faults' = 0 /\ faults = 0 /\ Brokered
  BY <1>1 DEF Calm
<1> QED
  BY <1>2, BrokerInductive DEF BrokerPace, Calm

\* What a session takes was the newest mail it could see and that shows its name.
LEMMA NewestIsTaken ==
  ASSUME TypeOK, Keeping, NEW s \in Session, PollHit(s), Brokered => faults = 0,
         NEW m \in Inbox, m[1] = s, recv[m] > recv[got'[s]]
  PROVE  Brokered /\ clock <= recv[m] + 1 + restarts
<1> USE DEF TypeOK
<1>1. m \in Mail /\ since[s] <= recv[m]
  BY DEF Keeping, SentInTime, Inbox
<1>2. InBody(name[s][1], m)
  BY DEF InBody
<1>3. PICK o \in Newest(s) : got' = [got EXCEPT ![s] = o]
  BY DEF PollHit
<1>4. got'[s] = o /\ o \in Mail
  BY <1>3 DEF Newest, Fresh, Visible, Inbox, Feed
<1>5. m \notin Fresh(s)
  BY <1>1, <1>3, <1>4 DEF Newest
<1>6. m \notin Visible
  BY <1>1, <1>2, <1>5 DEF Fresh
<1>7. Brokered /\ m \in Inbox \ Feed
  BY <1>6 DEF Visible
<1>8. clock + Turn(Broker) <= recv[m] + 1 + restarts
  BY <1>7 DEF Keeping, BrokerPace, Calm, BrokerKeepsPace
<1>9. Turn(Broker) \in {0, 1}
  BY DEF Turn
<1> QED
  BY <1>1, <1>7, <1>8, <1>9

\* A session never takes a superseded code, nor a namesake's for its own, once its
\* own newer one could be seen (OwnSupersedes).
THEOREM OwnIsTaken == Spec => OwnSupersedes
<1>1. Init => TypeOK /\ Keeping
  BY DEF Init, TypeOK, Keeping, Arrived, SentInTime, GivesUpLate, BrokerPace,
         BrokerKeepsPace, Inbox, Feed
<1>2. TypeOK /\ Keeping /\ Arrived' /\ [Next]_vars => Keeping'
  BY SentInductive, BrokerPaceInductive DEF Keeping
<1>3. Codes => Arrived
  BY DEF Codes
<1>4. ASSUME TypeOK, Keeping, [Next]_vars, NEW s \in Session, got'[s] # got[s],
             Brokered => faults = 0
      PROVE  \A m \in Inbox : m[1] = s /\ recv[m] > recv[got'[s]] =>
               Brokered /\ clock <= recv[m] + 1 + restarts
  <2>1. \A d \in Session : PollHit(d) => d = s
    BY <1>4 DEF PollHit, TypeOK
  <2>2. \E d \in Session : PollHit(d)
    BY <1>4 DEF Next, SendCode, Deliver, Lose, BrokerRead, StartSession,
           WaitForOtp, PollMiss, PollFails, GiveUp, BrokerList, BrokerFails,
           BrokerRestart, Tick
  <2> QED
    BY <1>4, <2>1, <2>2, NewestIsTaken
<1> DEFINE OwnFirst ==
      \A s \in Session :
        got'[s] # got[s] /\ (Brokered => faults = 0) =>
          \A m \in Inbox : m[1] = s /\ recv[m] > recv[got'[s]] =>
            Brokered /\ clock <= recv[m] + 1 + restarts
<1>5. TypeOK /\ Keeping /\ [Next]_vars => [OwnFirst]_vars
  BY <1>4
<1> HIDE DEF OwnFirst
<1>6. Spec => [][OwnFirst]_vars
  BY <1>1, <1>2, <1>3, <1>5, TypeCorrect, CodesHold, PTL DEF Spec
<1> QED
  BY <1>6 DEF OwnSupersedes, OwnFirst

\* A session that waits longer than the polls that may fail never gives up on a
\* code that reached the inbox Lag polls before its deadline, and one more for
\* each fault and restart (CodeInTime).
THEOREM CodesComeInTime == Patient => (Spec => []CodeInTime)
<1> SUFFICES ASSUME Patient PROVE Spec => []CodeInTime
  OBVIOUS
<1>1. Init => TypeOK
  BY DEF Init, TypeOK
<1>2. Init => Pace
  BY DEF Init, Pace, SentInTime, GivesUpLate, BrokerKeepsPace, SessionKeepsPace,
         NoFalseTimeout, MissedCode, Inbox, Feed, Visible
<1>3. Codes => Arrived
  BY DEF Codes
<1>4. TypeOK /\ Arrived /\ Pace /\ [Next]_vars => Pace'
  BY PaceInductive
<1>5. Pace => CodeInTime
  BY DEF Pace, Calm, CodeInTime
<1> QED
  BY <1>1, <1>2, <1>3, <1>4, <1>5, TypeCorrect, CodesHold, PTL DEF Spec

=============================================================================
