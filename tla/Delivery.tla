------------------------------ MODULE Delivery ------------------------------
(***************************************************************************)
(* The outbox: a sweep writes a notice and its message in one transaction, *)
(* worker processes claim and send the messages, the provider reports what *)
(* became of them, dead messages are reported to the administrators, who   *)
(* may put them back.                                                      *)
(*                                                                         *)
(* The sweeps here write the same notice of the same object, and should    *)
(* run one at a time. A worker holds the row of its message (FOR UPDATE    *)
(* SKIP LOCKED) and of its notification over the whole send; every other   *)
(* writer reads without a lock and waits when it writes.                   *)
(***************************************************************************)
EXTENDS Integers, FiniteSets

CONSTANTS
  Sweeps,        \* runs of a job that writes the notice
  Messages,      \* rows of outbox_messages, each with its notification
  Workers,       \* outbox loops, a process each
  Employees,     \* administrators
  MaxAttempts,   \* outbox_max_attempts
  Threshold,     \* outbox_breaker_failures
  MaxCrashes,    \* bound on worker processes that die
  MaxRequeues,   \* bound on messages put back
  None

ASSUME DeliveryAssumption ==
  /\ MaxAttempts \in Nat \ {0}
  /\ Threshold \in Nat \ {0}
  /\ MaxCrashes \in Nat /\ MaxRequeues \in Nat
  /\ None \notin Messages

VARIABLES
  message,       \* outbox_messages.status
  attempts,
  alerted,       \* the messages whose alerted_at is set
  notification,  \* notifications.status of the transport's row
  written,       \* sweeps whose notice, the cabinet's row, is in the database
  composing,     \* sweeps told that nobody was notified yet
  overlapped,    \* two sweeps were told so at once
  known,         \* the messages whose destination has a sender
  working,       \* the message a worker holds
  accepted,      \* workers whose message the provider has taken
  failures,      \* breaker._State.failures of each process
  open,          \* processes whose breaker is open
  quiet,         \* inside the quiet window
  fate,          \* what the provider will report of the copies it took
  reporting,     \* the verdicts of the reports at work on a notification
  alerting,      \* the dead rows alert_dead_outbox has read
  requeuing,     \* the dead row each employee has read
  told,          \* the messages whose present death the administrators know
  crossed,       \* those put back in the middle of an alert, which stamps the next death
  surplus,       \* copies the provider took, less the troubles that explain one more
  troubled,      \* a send's outcome was lost, or the message was put back
  crashes,
  requeues

mail == <<message, attempts, alerted, notification>>
notices == <<written, composing, overlapped, known>>
sending == <<working, accepted>>
breaker == <<failures, open>>
history == <<surplus, troubled>>
alerts == <<alerting, told, crossed>>
vars == <<mail, notices, sending, breaker, quiet, fate, reporting, alerts, requeuing,
          history, crashes, requeues>>

TERMINAL == {"delivered", "failed"}
Read == [message: Messages, alerted: BOOLEAN]

\* The type of every variable; a row's state follows its worker's.
TypeOK ==
  /\ message \in [Messages -> {"none", "pending", "delivered", "dead"}]
  /\ attempts \in [Messages -> 0..MaxAttempts]
  /\ alerted \subseteq Messages
  /\ notification \in [Messages -> {"queued", "sent"} \cup TERMINAL]
  /\ written \subseteq Sweeps
  /\ composing \subseteq Sweeps
  /\ overlapped \in BOOLEAN
  /\ known \subseteq Messages
  /\ working \in [Workers -> Messages \cup {None}]
  /\ accepted \subseteq Workers
  /\ failures \in [Workers -> 0..(Threshold - 1)]
  /\ open \subseteq Workers
  /\ quiet \in BOOLEAN
  /\ fate \in [Messages -> SUBSET TERMINAL]
  /\ reporting \in [Messages -> SUBSET TERMINAL]
  /\ alerting \subseteq Messages
  /\ told \subseteq Messages
  /\ crossed \subseteq Messages
  /\ requeuing \in [Employees -> Read \cup {None}]
  /\ surplus \in [Messages -> Int]
  /\ troubled \subseteq Messages
  /\ crashes \in 0..MaxCrashes
  /\ requeues \in 0..MaxRequeues

Init ==
  /\ message = [m \in Messages |-> "none"]
  /\ attempts = [m \in Messages |-> 0]
  /\ alerted = {}
  /\ notification = [m \in Messages |-> "queued"]
  /\ written = {}
  /\ composing = {}
  /\ overlapped = FALSE
  /\ known = {}
  /\ working = [w \in Workers |-> None]
  /\ accepted = {}
  /\ failures = [w \in Workers |-> 0]
  /\ open = {}
  /\ quiet = FALSE
  /\ fate = [m \in Messages |-> {}]
  /\ reporting = [m \in Messages |-> {}]
  /\ alerting = {}
  /\ told = {}
  /\ crossed = {}
  /\ requeuing = [e \in Employees |-> None]
  /\ surplus = [m \in Messages |-> 0]
  /\ troubled = {}
  /\ crashes = 0
  /\ requeues = 0

\* The row's lock is with a worker, and its notification's too.
Locked(m) == \E w \in Workers : working[w] = m

\* A copy more of m is explained.
Excuse(m) ==
  /\ surplus' = [surplus EXCEPT ![m] = @ - 1]
  /\ troubled' = troubled \cup {m}

-----------------------------------------------------------------------------
(* Writing the notice. *)

\* already_notified is a plain SELECT: it sees what other sweeps committed.
BeginNotice(s) ==
  /\ s \notin written \cup composing
  /\ written = {}
  /\ composing' = composing \cup {s}
  /\ overlapped' = (overlapped \/ composing # {})
  /\ UNCHANGED <<mail, written, known, sending, breaker, quiet, fate, reporting, alerts,
                 requeuing, history, crashes, requeues>>

\* notify: the cabinet's row always, the transport's when it may be used.
CommitNotice(s) ==
  /\ s \in composing
  /\ composing' = composing \ {s}
  /\ written' = written \cup {s}
  /\ \/ UNCHANGED <<message, known>>
     \/ \E m \in Messages : /\ message[m] = "none"
                            /\ message' = [message EXCEPT ![m] = "pending"]
                            /\ known' \in {known, known \cup {m}}
  /\ UNCHANGED <<attempts, alerted, notification, overlapped, sending, breaker, quiet,
                 fate, reporting, alerts, requeuing, history, crashes, requeues>>

-----------------------------------------------------------------------------
(* A worker: deliver_one, and the sender it calls. *)

\* Mutated: the row is claimed without its lock.
ClaimableUnlocked(w, m) ==
  /\ message[m] = "pending"
  /\ m \in known => w \notin open /\ ~quiet

\* pick_due: a locked row is skipped, and so is a paused destination.
Claimable(w, m) ==
  /\ message[m] = "pending" /\ ~Locked(m)
  /\ m \in known => w \notin open /\ ~quiet

Pick(w, m) ==
  /\ working[w] = None
  /\ Claimable(w, m)
  /\ working' = [working EXCEPT ![w] = m]
  /\ UNCHANGED <<mail, notices, accepted, breaker, quiet, fate, reporting, alerts,
                 requeuing, history, crashes, requeues>>

\* The provider takes the message; what it will report of it is its own.
Accept(w) ==
  LET m == working[w] IN
  /\ m \in known /\ w \notin accepted
  /\ accepted' = accepted \cup {w}
  /\ surplus' = [surplus EXCEPT ![m] = @ + 1]
  /\ \E verdict \in TERMINAL : fate' = [fate EXCEPT ![m] = @ \cup {verdict}]
  /\ UNCHANGED <<mail, notices, working, breaker, quiet, reporting, alerts, requeuing,
                 troubled, crashes, requeues>>

\* The end of deliver_one's transaction: both rows are let go.
LetGo(w) ==
  /\ working' = [working EXCEPT ![w] = None]
  /\ accepted' = accepted \ {w}

Delivered(w) ==
  /\ message' = [message EXCEPT ![working[w]] = "delivered"]
  /\ failures' = [failures EXCEPT ![w] = 0]
  /\ open' = open \ {w}

Succeed(w) ==
  /\ w \in accepted
  /\ Delivered(w)
  /\ notification' = [notification EXCEPT ![working[w]] = "sent"]
  /\ LetGo(w)
  /\ UNCHANGED <<attempts, alerted, notices, quiet, fate, reporting, alerts,
                 requeuing, history, crashes, requeues>>

\* Nobody to send it to is no failure of the transport's: it will not be retried.
Unreachable(w) ==
  /\ working[w] \in known /\ w \notin accepted
  /\ Delivered(w)
  /\ notification' = [notification EXCEPT ![working[w]] = "failed"]
  /\ LetGo(w)
  /\ UNCHANGED <<attempts, alerted, notices, quiet, fate, reporting, alerts,
                 requeuing, history, crashes, requeues>>

\* Mutated: the breaker opens one failure late.
RecordFailureLate(w) ==
  IF failures[w] < Threshold
    THEN failures' = [failures EXCEPT ![w] = @ + 1] /\ UNCHANGED open
    ELSE failures' = [failures EXCEPT ![w] = 0] /\ open' = open \cup {w}

\* breaker.record_failure: at the threshold the count starts again.
RecordFailure(w) ==
  IF failures[w] + 1 < Threshold
    THEN failures' = [failures EXCEPT ![w] = @ + 1] /\ UNCHANGED open
    ELSE failures' = [failures EXCEPT ![w] = 0] /\ open' = open \cup {w}

\* The provider refuses, the channel is switched off, or the answer is lost.
Fail(w) ==
  LET m == working[w] IN
  /\ m \in known
  /\ attempts' = [attempts EXCEPT ![m] = @ + 1]
  /\ message' = [message EXCEPT ![m] =
                   IF attempts[m] + 1 >= MaxAttempts THEN "dead" ELSE @]
  /\ RecordFailure(w)
  /\ IF w \in accepted THEN Excuse(m) ELSE UNCHANGED history
  /\ LetGo(w)
  /\ UNCHANGED <<alerted, notification, notices, quiet, fate, reporting, alerts,
                 requeuing, crashes, requeues>>

\* No sender has this destination: the message is dead at once, and neither its attempts nor
\* a breaker count that.
Undeliverable(w) ==
  LET m == working[w] IN
  /\ m \in Messages \ known
  /\ message' = [message EXCEPT ![m] = "dead"]
  /\ LetGo(w)
  /\ UNCHANGED <<attempts, alerted, notification, notices, breaker, quiet, fate, reporting,
                 alerts, requeuing, history, crashes, requeues>>

\* The process dies: the transaction is rolled back, the next one starts with
\* a closed breaker.
Crash(w) ==
  /\ crashes < MaxCrashes
  /\ working[w] # None
  /\ crashes' = crashes + 1
  /\ IF w \in accepted THEN Excuse(working[w]) ELSE UNCHANGED history
  /\ failures' = [failures EXCEPT ![w] = 0]
  /\ open' = open \ {w}
  /\ LetGo(w)
  /\ UNCHANGED <<mail, notices, quiet, fate, reporting, alerts, requeuing, requeues>>

CloseBreaker(w) ==
  /\ w \in open
  /\ open' = open \ {w}
  /\ UNCHANGED <<mail, notices, sending, failures, quiet, fate, reporting, alerts,
                 requeuing, history, crashes, requeues>>

NightAndDay ==
  /\ quiet' = ~quiet
  /\ UNCHANGED <<mail, notices, sending, breaker, fate, reporting, alerts,
                 requeuing, history, crashes, requeues>>

-----------------------------------------------------------------------------
(* The provider's delivery report, which it may repeat. *)

\* The row is read without a lock; a terminal one is ignored.
BeginReport(m) ==
  /\ notification[m] \notin TERMINAL
  /\ \E verdict \in fate[m] : reporting' = [reporting EXCEPT ![m] = @ \cup {verdict}]
  /\ UNCHANGED <<mail, notices, sending, breaker, quiet, fate, alerts, requeuing,
                 history, crashes, requeues>>

\* A report ends; another of the same verdict may be at work still.
Reported(m, verdict) ==
  /\ notification' = [notification EXCEPT ![m] = verdict]
  /\ reporting' \in {reporting, [reporting EXCEPT ![m] = @ \ {verdict}]}
  /\ UNCHANGED <<message, attempts, alerted, notices, sending, breaker, quiet, fate,
                 alerts, requeuing, history, crashes, requeues>>

\* Mutated: the sender does not lock the notification over its send.
CommitReportMidSend(m) == \E verdict \in reporting[m] : Reported(m, verdict)

\* The UPDATE waits for the worker that is sending, and does not look again.
CommitReport(m) == ~Locked(m) /\ \E verdict \in reporting[m] : Reported(m, verdict)

-----------------------------------------------------------------------------
(* Dead messages. *)

\* alert_dead_outbox reads the dead rows nobody was told about ...
BeginAlert ==
  /\ alerting = {}
  /\ alerting' = {m \in Messages : message[m] = "dead" /\ m \notin alerted}
  /\ alerting' # {}
  /\ UNCHANGED <<mail, notices, sending, breaker, quiet, fate, reporting, told, crossed,
                 requeuing, history, crashes, requeues>>

\* ... stamps them whatever has become of them since, and gives up what waits.
CommitAlert ==
  /\ alerting # {}
  /\ \A m \in alerting : ~Locked(m)
  /\ alerted' = alerted \cup alerting
  /\ notification' = [m \in Messages |->
       IF m \in alerting /\ notification[m] \in {"queued", "sent"} THEN "failed"
       ELSE notification[m]]
  /\ alerting' = {}
  /\ told' = told \cup (alerting \ crossed)
  /\ UNCHANGED <<message, attempts, notices, sending, breaker, quiet, fate, reporting,
                 crossed, requeuing, history, crashes, requeues>>

\* requeue_message reads the row without a lock ...
BeginRequeue(e, m) ==
  /\ requeuing[e] = None /\ requeues < MaxRequeues
  /\ requeues' = requeues + 1
  /\ message[m] = "dead"
  /\ requeuing' = [requeuing EXCEPT ![e] = [message |-> m, alerted |-> m \in alerted]]
  /\ UNCHANGED <<mail, notices, sending, breaker, quiet, fate, reporting, alerts,
                 history, crashes>>

\* Put back: whatever dies next is another death, and an alert at work, or committed since
\* the row was read, has its stamp on it beforehand.
Revive(e, m) ==
  /\ told' = told \ {m}
  /\ crossed' = IF m \in alerting \/ (m \in alerted /\ ~requeuing[e].alerted)
                  THEN crossed \cup {m} ELSE crossed \ {m}
  /\ Excuse(m)

\* Mutated: the stamp stays on.
CommitRequeueKeepsStamp(e) ==
  /\ requeuing[e] # None
  /\ LET m == requeuing[e].message IN
       /\ ~Locked(m)
       /\ message' = [message EXCEPT ![m] = "pending"]
       /\ attempts' = [attempts EXCEPT ![m] = 0]
       /\ Revive(e, m)
  /\ requeuing' = [requeuing EXCEPT ![e] = None]
  /\ UNCHANGED <<alerted, notification, notices, sending, breaker, quiet, fate, reporting,
                 alerting, crashes, requeues>>

\* ... and writes the columns that differ from what it read: the stamp is
\* cleared only when it was seen.
CommitRequeue(e) ==
  /\ requeuing[e] # None
  /\ LET m == requeuing[e].message IN
       /\ ~Locked(m)
       /\ message' = [message EXCEPT ![m] = "pending"]
       /\ attempts' = [attempts EXCEPT ![m] = 0]
       /\ alerted' = IF requeuing[e].alerted THEN alerted \ {m} ELSE alerted
       /\ Revive(e, m)
  /\ requeuing' = [requeuing EXCEPT ![e] = None]
  /\ UNCHANGED <<notification, notices, sending, breaker, quiet, fate, reporting,
                 alerting, crashes, requeues>>

-----------------------------------------------------------------------------
WorkerStep(w) == Accept(w) \/ Succeed(w) \/ Unreachable(w) \/ Fail(w) \/ Undeliverable(w)

Next ==
  \/ \E s \in Sweeps : BeginNotice(s) \/ CommitNotice(s)
  \/ \E m \in Messages : BeginReport(m) \/ CommitReport(m)
  \/ \E w \in Workers : \/ \E m \in Messages : Pick(w, m)
                        \/ WorkerStep(w)
                        \/ Crash(w)
                        \/ CloseBreaker(w)
  \/ NightAndDay
  \/ BeginAlert \/ CommitAlert
  \/ \E e \in Employees : (\E m \in Messages : BeginRequeue(e, m)) \/ CommitRequeue(e)

\* A loop polls for ever and takes the message due the longest first, so none
\* is passed over for ever between the pauses; a send ends, if only by its
\* timeout; a cooldown and a night end; the alert runs every five minutes.
Fairness ==
  /\ \A m \in Messages : SF_vars(\E w \in Workers : Pick(w, m))
  /\ \A w \in Workers : WF_vars(WorkerStep(w)) /\ WF_vars(CloseBreaker(w))
  /\ WF_vars(quiet /\ NightAndDay)
  /\ WF_vars(BeginAlert) /\ WF_vars(CommitAlert)

Spec == Init /\ [][Next]_vars /\ Fairness

-----------------------------------------------------------------------------
\* The recipient gets one copy, and one more for each send whose outcome was
\* lost and each time the message was put back; never because two workers took
\* the same row. And one notice is written twice only by sweeps that overlap.
SentOnce ==
  /\ \A m \in Messages : surplus[m] <= 1
  /\ Cardinality(written) > 1 => overlapped

\* A delivery the provider reported is never lost, however the report meets the
\* sender, the alert and another report, unless the message was sent again
\* because an outcome was lost or it was put back.
ReportKept ==
  [][\A m \in Messages :
       notification[m] = "delivered" /\ notification'[m] # "delivered" =>
       m \in troubled]_vars

\* Every message is delivered, or it dies, the administrators are told of this very death
\* and the notification stops waiting: nothing is retried for ever or forgotten, and a
\* message put back after an alert is not silent when it dies again (requeue_message clears
\* the stamp). integrations/service.py:298-300 says so of every second death; the code keeps
\* it but for a message put back in the middle of the alert, whose stamp then comes first.
EveryMessageEnds ==
  \A m \in Messages :
    message[m] = "pending" ~>
      \/ message[m] = "delivered"
      \/ message[m] = "dead" /\ notification[m] # "queued" /\ m \in told \cup crossed
=============================================================================
