--------------------------- MODULE DeliveryProofs ---------------------------
(***************************************************************************)
(* Theorems about Delivery, for any sweeps, messages, workers and          *)
(* administrators, any limits and any number of crashes.                   *)
(***************************************************************************)
EXTENDS Delivery, TLAPS, FiniteSetTheorems

-----------------------------------------------------------------------------
(* Types and the row's lock.                                                *)

\* A worker has its message to itself while it holds the row (FOR UPDATE SKIP LOCKED), the
\* message waits meanwhile, the provider takes only what has a sender, and what waits has an
\* attempt left.
RowIsLocked ==
  /\ \A w \in Workers : working[w] # None => message[working[w]] = "pending"
  /\ \A v, w \in Workers : working[v] = working[w] /\ working[v] # None => v = w
  /\ \A w \in accepted : working[w] # None /\ working[w] \in known
  /\ \A m \in Messages : message[m] \in {"none", "pending"} => attempts[m] < MaxAttempts

\* SKIP LOCKED and the attempts of a message: each step of a sweep, a worker or an
\* administrator keeps the types and leaves a row to one worker.
LEMMA LockStep ==
  ASSUME TypeOK, RowIsLocked, [Next]_vars
  PROVE  TypeOK' /\ RowIsLocked'
<1> USE DeliveryAssumption DEF TypeOK, mail, notices, sending, breaker, alerts, history
<1>1. ASSUME NEW s \in Sweeps, BeginNotice(s)
      PROVE  TypeOK' /\ RowIsLocked'
  BY <1>1 DEF BeginNotice, RowIsLocked
<1>2. ASSUME NEW s \in Sweeps, CommitNotice(s)
      PROVE  TypeOK' /\ RowIsLocked'
  BY <1>2 DEF CommitNotice, RowIsLocked
<1>3. ASSUME NEW w \in Workers, NEW m \in Messages, Pick(w, m)
      PROVE  TypeOK' /\ RowIsLocked'
  BY <1>3 DEF Pick, Claimable, Locked, RowIsLocked
<1>4. ASSUME NEW w \in Workers, Accept(w)
      PROVE  TypeOK' /\ RowIsLocked'
  BY <1>4 DEF Accept, RowIsLocked, TERMINAL
<1>5. ASSUME NEW w \in Workers, Succeed(w)
      PROVE  TypeOK' /\ RowIsLocked'
  BY <1>5 DEF Succeed, Delivered, LetGo, RowIsLocked
<1>6. ASSUME NEW w \in Workers, Unreachable(w)
      PROVE  TypeOK' /\ RowIsLocked'
  BY <1>6 DEF Unreachable, Delivered, LetGo, RowIsLocked, TERMINAL
<1>7. ASSUME NEW w \in Workers, Fail(w)
      PROVE  TypeOK' /\ RowIsLocked'
  BY <1>7 DEF Fail, RecordFailure, Excuse, LetGo, RowIsLocked
<1>18. ASSUME NEW w \in Workers, Undeliverable(w)
       PROVE  TypeOK' /\ RowIsLocked'
  BY <1>18 DEF Undeliverable, LetGo, RowIsLocked
<1>8. ASSUME NEW w \in Workers, Crash(w)
      PROVE  TypeOK' /\ RowIsLocked'
  BY <1>8 DEF Crash, Excuse, LetGo, RowIsLocked
<1>9. ASSUME NEW w \in Workers, CloseBreaker(w)
      PROVE  TypeOK' /\ RowIsLocked'
  BY <1>9 DEF CloseBreaker, RowIsLocked
<1>10. CASE NightAndDay
  BY <1>10 DEF NightAndDay, RowIsLocked
<1>11. ASSUME NEW m \in Messages, BeginReport(m)
       PROVE  TypeOK' /\ RowIsLocked'
  BY <1>11 DEF BeginReport, RowIsLocked, TERMINAL
<1>12. ASSUME NEW m \in Messages, CommitReport(m)
       PROVE  TypeOK' /\ RowIsLocked'
  BY <1>12 DEF CommitReport, Reported, RowIsLocked, TERMINAL
<1>13. CASE BeginAlert
  BY <1>13 DEF BeginAlert, RowIsLocked
<1>14. CASE CommitAlert
  BY <1>14 DEF CommitAlert, RowIsLocked, TERMINAL
<1>15. ASSUME NEW e \in Employees, NEW m \in Messages, BeginRequeue(e, m)
       PROVE  TypeOK' /\ RowIsLocked'
  BY <1>15 DEF BeginRequeue, RowIsLocked, Read
<1>16. ASSUME NEW e \in Employees, CommitRequeue(e)
       PROVE  TypeOK' /\ RowIsLocked'
  BY <1>16 DEF CommitRequeue, Revive, Excuse, Locked, RowIsLocked, Read
<1>17. CASE UNCHANGED vars
  BY <1>17 DEF vars, RowIsLocked
<1> QED
  BY <1>1, <1>2, <1>3, <1>4, <1>5, <1>6, <1>7, <1>8, <1>9, <1>10, <1>11, <1>12, <1>13,
     <1>14, <1>15, <1>16, <1>17, <1>18 DEF Next, WorkerStep

\* So in every reachable state a message is in the hands of one worker at most.
LEMMA LockHolds == Spec => [](TypeOK /\ RowIsLocked)
<1>1. Init => TypeOK /\ RowIsLocked
  <2>1. /\ 0 \in 0..MaxAttempts /\ 0 \in 0..(Threshold - 1)
        /\ 0 \in 0..MaxCrashes /\ 0 \in 0..MaxRequeues /\ 0 < MaxAttempts
    BY DeliveryAssumption
  <2>2. Init => TypeOK
    <3> SUFFICES ASSUME Init PROVE TypeOK
      OBVIOUS
    <3>1. /\ message \in [Messages -> {"none", "pending", "delivered", "dead"}]
          /\ attempts \in [Messages -> 0..MaxAttempts]
          /\ notification \in [Messages -> {"queued", "sent"} \cup TERMINAL]
          /\ failures \in [Workers -> 0..(Threshold - 1)]
      BY <2>1 DEF Init
    <3>2. /\ working \in [Workers -> Messages \cup {None}]
          /\ fate \in [Messages -> SUBSET TERMINAL]
          /\ reporting \in [Messages -> SUBSET TERMINAL]
          /\ requeuing \in [Employees -> Read \cup {None}]
          /\ surplus \in [Messages -> Int]
      BY DEF Init
    <3> QED
      BY <2>1, <3>1, <3>2 DEF Init, TypeOK
  <2>3. Init => RowIsLocked
    BY <2>1 DEF Init, RowIsLocked
  <2> QED
    BY <2>2, <2>3
<1> QED
  BY <1>1, LockStep, PTL DEF Spec

\* Whoever has something to send holds a row, for None is no message.
LEMMA KnownIsHeld ==
  ASSUME TypeOK
  PROVE  \A w \in Workers : working[w] \in known => working[w] # None /\ working[w] \in Messages
  BY DeliveryAssumption DEF TypeOK

\* The variables keep their types: no message is tried more often than it may be, and the
\* breaker never counts past its threshold.
THEOREM TypeCorrect == Spec => []TypeOK
  BY LockHolds, PTL

-----------------------------------------------------------------------------
(* One copy.                                                                *)

\* The provider has taken a copy of m, and its worker has not committed.
InFlight(m) == \E w \in accepted : working[w] = m

\* A copy that nothing explains is in flight, or its message is delivered.
CopiesExplained ==
  \A m \in Messages :
    /\ surplus[m] <= 1
    /\ surplus[m] <= 0 \/ message[m] = "delivered" \/ InFlight(m)

\* Sweeps that do not overlap write one notice.
OneNotice == overlapped \/ \A s, t \in written \cup composing : s = t

\* A copy beyond those that troubles explain never leaves: every step keeps the count of
\* copies within that of the troubles.
LEMMA CopiesStep ==
  ASSUME TypeOK, RowIsLocked, CopiesExplained, [Next]_vars
  PROVE  CopiesExplained'
<1> USE DEF TypeOK, CopiesExplained, InFlight, mail, notices, sending, breaker, alerts, history
<1>1. ASSUME NEW s \in Sweeps, CommitNotice(s)
      PROVE  CopiesExplained'
  BY <1>1 DEF CommitNotice, RowIsLocked
<1>2. ASSUME NEW w \in Workers, NEW m \in Messages, Pick(w, m)
      PROVE  CopiesExplained'
  BY <1>2 DEF Pick, RowIsLocked
<1>3. ASSUME NEW w \in Workers, Accept(w)
      PROVE  CopiesExplained'
  BY <1>3, KnownIsHeld DEF Accept, RowIsLocked
<1>4. ASSUME NEW w \in Workers, Succeed(w) \/ Unreachable(w)
      PROVE  CopiesExplained'
  BY <1>4 DEF Succeed, Unreachable, Delivered, LetGo, RowIsLocked
<1>5. ASSUME NEW w \in Workers, Fail(w)
      PROVE  CopiesExplained'
  BY <1>5, KnownIsHeld DEF Fail, Excuse, LetGo, RowIsLocked
<1>9. ASSUME NEW w \in Workers, Undeliverable(w)
      PROVE  CopiesExplained'
  BY <1>9, DeliveryAssumption DEF Undeliverable, LetGo, RowIsLocked
<1>6. ASSUME NEW w \in Workers, Crash(w)
      PROVE  CopiesExplained'
  BY <1>6 DEF Crash, Excuse, LetGo, RowIsLocked
<1>7. ASSUME NEW e \in Employees, CommitRequeue(e)
      PROVE  CopiesExplained'
  BY <1>7 DEF CommitRequeue, Revive, Excuse, Read
<1>8. CASE UNCHANGED <<message, working, accepted, surplus>>
  BY <1>8
<1> QED
  <2>1. CASE \/ \E s \in Sweeps : BeginNotice(s)
             \/ \E w \in Workers : CloseBreaker(w)
             \/ \E m \in Messages : BeginReport(m) \/ CommitReport(m)
             \/ \E e \in Employees, m \in Messages : BeginRequeue(e, m)
             \/ NightAndDay \/ BeginAlert \/ CommitAlert \/ UNCHANGED vars
    BY <1>8, <2>1 DEF BeginNotice, CloseBreaker, BeginReport, CommitReport, Reported,
                      BeginRequeue, NightAndDay, BeginAlert, CommitAlert, vars
  <2> QED
    BY <1>1, <1>2, <1>3, <1>4, <1>5, <1>6, <1>7, <1>9, <2>1 DEF Next, WorkerStep

\* A sweep writes a second notice only when another was still composing one.
LEMMA NoticeStep ==
  ASSUME OneNotice, [Next]_vars
  PROVE  OneNotice'
<1> USE DEF OneNotice, notices
<1>1. ASSUME NEW s \in Sweeps, BeginNotice(s) \/ CommitNotice(s)
      PROVE  OneNotice'
  BY <1>1 DEF BeginNotice, CommitNotice
<1>2. CASE UNCHANGED notices
  BY <1>2
<1> QED
  BY <1>1, <1>2
  DEF Next, WorkerStep, Pick, Accept, Succeed, Unreachable, Fail, Undeliverable, Crash,
      CloseBreaker, BeginReport, CommitReport, Reported, NightAndDay, BeginAlert, CommitAlert, BeginRequeue,
      CommitRequeue, vars

\* Whatever workers, crashes, lost outcomes and administrators do to a message, every copy
\* but one is explained by one of them; and a second notice by sweeps that overlapped.
THEOREM CopiesAreExplained == Spec => []SentOnce
<1>1. Init => CopiesExplained /\ OneNotice
  BY DEF Init, CopiesExplained, OneNotice
<1>2. CopiesExplained /\ OneNotice => SentOnce
  <2> SUFFICES ASSUME OneNotice, ~ overlapped PROVE ~ (Cardinality(written) > 1)
    BY DEF CopiesExplained, SentOnce
  <2>1. CASE written = {}
    BY <2>1, FS_EmptySet
  <2>2. CASE \E s \in written : TRUE
    <3>1. PICK s \in written : written = {s}
      BY <2>2 DEF OneNotice
    <3>2. Cardinality(written) = 1
      BY <3>1, FS_Singleton
    <3> QED
      BY <3>2
  <2> QED
    BY <2>1, <2>2
<1> QED
  BY <1>1, <1>2, CopiesStep, NoticeStep, LockHolds, PTL DEF Spec

-----------------------------------------------------------------------------
(* The report.                                                              *)

\* A message no trouble befell was taken by the provider once at most: its one verdict is
\* all that can be reported, and is written when the message is delivered for good. One
\* without a sender was never taken.
OneVerdict ==
  /\ \A m \in Messages : reporting[m] \subseteq fate[m]
  /\ \A m \in Messages \ known : fate[m] = {}
  /\ \A m \in Messages \ troubled :
       /\ fate[m] # {} => InFlight(m) \/ message[m] = "delivered"
       /\ \A a, b \in fate[m] : a = b
       /\ notification[m] = "delivered" =>
            "delivered" \in fate[m] /\ message[m] = "delivered"

\* A copy has one verdict, and a reported delivery is in the rows once the sender is done.
LEMMA VerdictStep ==
  ASSUME TypeOK, RowIsLocked, OneVerdict, [Next]_vars
  PROVE  OneVerdict'
<1> USE DEF mail, notices, sending, breaker, alerts, history
<1>1. ASSUME NEW s \in Sweeps, CommitNotice(s)
      PROVE  OneVerdict'
  BY <1>1 DEF CommitNotice, OneVerdict, InFlight, TypeOK
<1>2. ASSUME NEW w \in Workers, NEW m \in Messages, Pick(w, m)
      PROVE  OneVerdict'
  BY <1>2 DEF Pick, RowIsLocked, OneVerdict, InFlight, TypeOK
<1>3. ASSUME NEW w \in Workers, Accept(w)
      PROVE  OneVerdict'
  <2>1. PICK verdict \in TERMINAL :
          fate' = [fate EXCEPT ![working[w]] = @ \cup {verdict}]
    BY <1>3 DEF Accept
  <2>2. /\ working[w] \in Messages /\ message[working[w]] = "pending"
        /\ ~ InFlight(working[w]) /\ accepted' = accepted \cup {w}
        /\ working[w] \in known
        /\ UNCHANGED <<mail, notices, working, reporting, troubled>>
    BY <1>3, KnownIsHeld DEF Accept, RowIsLocked, InFlight, TypeOK
  <2>3. working[w] \notin troubled => fate[working[w]] = {}
    BY <2>2 DEF OneVerdict
  <2>4. \A m \in Messages : fate'[m] = IF m = working[w] THEN fate[m] \cup {verdict} ELSE fate[m]
    BY <2>1, <2>2 DEF TypeOK
  <2>5. \A m \in Messages : m = working[w] \/ InFlight(m) => InFlight(m)'
    BY <2>2 DEF InFlight
  <2>6. \A m \in Messages : reporting[m] \subseteq fate'[m]
    BY <2>4 DEF OneVerdict
  <2>8. \A m \in Messages \ known : fate'[m] = {}
    BY <2>2, <2>4 DEF OneVerdict
  <2>7. ASSUME NEW m \in Messages \ troubled
        PROVE  /\ fate'[m] # {} => InFlight(m)' \/ message[m] = "delivered"
               /\ \A a, b \in fate'[m] : a = b
               /\ notification[m] = "delivered" =>
                    "delivered" \in fate'[m] /\ message[m] = "delivered"
    <3>1. CASE m = working[w]
      <4>1. fate'[m] = {verdict} /\ notification[m] # "delivered"
        BY <2>2, <2>3, <2>4, <3>1 DEF OneVerdict
      <4> QED
        BY <2>5, <3>1, <4>1
    <3>2. CASE m # working[w]
      BY <2>4, <2>5, <3>2 DEF OneVerdict
    <3> QED
      BY <3>1, <3>2
  <2> QED
    BY <2>2, <2>6, <2>7, <2>8 DEF OneVerdict
<1>4. ASSUME NEW w \in Workers, Succeed(w) \/ Unreachable(w)
      PROVE  OneVerdict'
  <2>1. /\ working[w] \in Messages /\ message[working[w]] = "pending"
        /\ \A m \in Messages : notification'[m] # notification[m] =>
             m = working[w] /\ notification'[m] # "delivered"
        /\ \A m \in Messages : message'[m] = IF m = working[w] THEN "delivered" ELSE message[m]
        /\ accepted' = accepted \ {w}
        /\ \A v \in Workers \ {w} : working'[v] = working[v]
        /\ UNCHANGED <<fate, reporting, troubled, known>>
    BY <1>4, KnownIsHeld, DeliveryAssumption
    DEF Succeed, Unreachable, Delivered, LetGo, RowIsLocked, TypeOK
  <2>2. \A m \in Messages \ {working[w]} : InFlight(m) => InFlight(m)'
    BY <2>1 DEF InFlight, TypeOK
  <2>3. ASSUME NEW m \in Messages \ troubled, notification'[m] = "delivered"
        PROVE  m # working[w] /\ notification[m] = "delivered"
    BY <2>1, <2>3 DEF OneVerdict
  <2> QED
    BY <2>1, <2>2, <2>3 DEF OneVerdict
<1>5. ASSUME NEW w \in Workers, Fail(w) \/ Crash(w)
      PROVE  OneVerdict'
  <2>1. /\ working[w] \in Messages /\ message[working[w]] = "pending"
        /\ \A m \in Messages \ {working[w]} : message'[m] = message[m]
        /\ accepted' = accepted \ {w}
        /\ \A v \in Workers \ {w} : working'[v] = working[v]
        /\ troubled' = IF w \in accepted THEN troubled \cup {working[w]} ELSE troubled
        /\ UNCHANGED <<notification, fate, reporting, known>>
    BY <1>5, KnownIsHeld DEF Fail, Crash, Excuse, LetGo, RowIsLocked, TypeOK
  <2>2. working[w] \notin troubled' => fate[working[w]] = {}
    BY <2>1 DEF RowIsLocked, OneVerdict, InFlight, TypeOK
  <2> QED
    BY <2>1, <2>2 DEF OneVerdict, InFlight, TypeOK
<1>11. ASSUME NEW w \in Workers, Undeliverable(w)
       PROVE  OneVerdict'
  <2>1. /\ working[w] \in Messages \ known
        /\ \A m \in Messages \ {working[w]} : message'[m] = message[m]
        /\ accepted' = accepted \ {w}
        /\ \A v \in Workers \ {w} : working'[v] = working[v]
        /\ UNCHANGED <<notification, fate, reporting, troubled, known>>
    BY <1>11 DEF Undeliverable, LetGo, TypeOK
  <2>2. fate[working[w]] = {}
    BY <2>1 DEF OneVerdict
  <2>3. working[w] \notin troubled => notification[working[w]] # "delivered"
    BY <2>1, <2>2 DEF OneVerdict
  <2> QED
    BY <2>1, <2>2, <2>3 DEF OneVerdict, InFlight, TypeOK
<1>6. ASSUME NEW m \in Messages, BeginReport(m)
      PROVE  OneVerdict'
  BY <1>6 DEF BeginReport, OneVerdict, InFlight, TypeOK
<1>7. ASSUME NEW m \in Messages, CommitReport(m)
      PROVE  OneVerdict'
  <2>1. PICK verdict \in reporting[m] : Reported(m, verdict)
    BY <1>7 DEF CommitReport
  <2>2. /\ \A n \in Messages : reporting'[n] \subseteq reporting[n]
        /\ \A n \in Messages : notification'[n] = IF n = m THEN verdict ELSE notification[n]
        /\ UNCHANGED <<message, working, accepted, fate, troubled, known>>
    BY <2>1 DEF Reported, TypeOK
  <2>3. verdict \in fate[m] /\ ~ InFlight(m)
    BY <1>7, <2>1 DEF CommitReport, Locked, OneVerdict, InFlight, TypeOK
  <2> QED
    BY <2>2, <2>3 DEF OneVerdict, InFlight
<1>8. CASE CommitAlert
  BY <1>8 DEF CommitAlert, OneVerdict, InFlight, TypeOK
<1>9. ASSUME NEW e \in Employees, CommitRequeue(e)
      PROVE  OneVerdict'
  BY <1>9 DEF CommitRequeue, Revive, Excuse, Read, OneVerdict, InFlight, TypeOK
<1>10. CASE UNCHANGED <<message, notification, working, accepted, fate, reporting, troubled,
                     known>>
  BY <1>10 DEF OneVerdict, InFlight
<1> QED
  <2>1. CASE \/ \E s \in Sweeps : BeginNotice(s)
             \/ \E w \in Workers : CloseBreaker(w)
             \/ \E e \in Employees, m \in Messages : BeginRequeue(e, m)
             \/ NightAndDay \/ BeginAlert \/ UNCHANGED vars
    BY <1>10, <2>1 DEF BeginNotice, CloseBreaker, BeginRequeue, NightAndDay, BeginAlert, vars
  <2> QED
    BY <1>1, <1>2, <1>3, <1>4, <1>5, <1>6, <1>7, <1>8, <1>9, <1>11, <2>1
    DEF Next, WorkerStep

\* A reported delivery is kept, for any number of workers and reports: the sender's "sent"
\* and the alert's "failed" never land on it, and no other verdict exists.
THEOREM ReportsAreKept == Spec => ReportKept
<1>1. Init => OneVerdict
  BY DEF Init, OneVerdict
<1>2. TypeOK /\ RowIsLocked /\ OneVerdict /\ [Next]_vars =>
        [\A m \in Messages :
           notification[m] = "delivered" /\ notification'[m] # "delivered" =>
           m \in troubled]_vars
  <2> SUFFICES ASSUME TypeOK, RowIsLocked, OneVerdict, [Next]_vars, NEW m \in Messages,
                      notification[m] = "delivered", notification'[m] # "delivered",
                      m \notin troubled
               PROVE  FALSE
    OBVIOUS
  <2>1. message[m] = "delivered" /\ fate[m] \subseteq {"delivered"}
    BY DEF OneVerdict
  <2>2. ASSUME NEW w \in Workers, Succeed(w) \/ Unreachable(w)
        PROVE  FALSE
    BY <2>1, <2>2, KnownIsHeld DEF Succeed, Unreachable, RowIsLocked, TypeOK
  <2>3. ASSUME NEW n \in Messages, CommitReport(n)
        PROVE  FALSE
    BY <2>1, <2>3 DEF CommitReport, Reported, OneVerdict, TypeOK
  <2>4. CASE CommitAlert
    BY <2>4 DEF CommitAlert
  <2>5. CASE UNCHANGED notification
    BY <2>5
  <2> QED
    BY <2>2, <2>3, <2>4, <2>5
    DEF Next, WorkerStep, BeginNotice, CommitNotice, Pick, Accept, Fail, Undeliverable, Crash,
        CloseBreaker, BeginReport, NightAndDay, BeginAlert, BeginRequeue, CommitRequeue, mail, vars
<1> QED
  BY <1>1, <1>2, VerdictStep, LockHolds, PTL DEF Spec, ReportKept
=============================================================================
