----------------------- MODULE SettlementLocksProofs -----------------------
(***************************************************************************)
(* Row locks make the requests of SettlementLocks atomic: every commit is  *)
(* one step of Settlement, for any number of sessions, sweeps, invoices,   *)
(* transactions and confirmations, and whatever their requests wait for.   *)
(***************************************************************************)
EXTENDS SettlementLocks, TLAPS, FiniteSetTheorems, SequenceTheorems

\* What is proved of Settlement, of the committed rows.
Proved == INSTANCE SettlementProofs

-----------------------------------------------------------------------------
(* The inductive invariant: what a session has read is still so, because of *)
(* the locks it holds.                                                      *)

Settles(r) == job[r].kind \in {"perform", "confirm"}

\* The requests and their points: a cancellation never waits for an invoice, because an
\* application its owner may withdraw has none.
Shape(r) ==
  /\ pc[r] = "idle" <=> job[r] = NoJob
  /\ Settles(r) => pc[r] \in {"source", "invoice", "application", "commit"}
  /\ job[r].kind = "reverse" => pc[r] \in {"source", "share"}
  /\ job[r].kind = "withdraw" => pc[r] \in {"application", "commit"}
  /\ job[r].kind = "sweep" => /\ pc[r] \in {"invoice", "application", "commit"}
                              /\ pc[r] = "commit" <=> left[r] = <<>>
  /\ job[r].kind # "sweep" => left[r] = <<>> /\ done[r] = {}

\* What a request found in its transaction or confirmation, and keeps locked.
KnowsSource(r) ==
  LET s == job[r].source IN
  /\ job[r].kind \in {"perform", "reverse"} => state[s] # "none"
  /\ job[r].kind = "confirm" => conf[s] # "none"
  /\ (Settles(r) \/ job[r].kind = "reverse") /\ pc[r] # "source" =>
       owner[<<"source", s>>] = r
  /\ job[r].kind = "perform" /\ pc[r] # "source" => state[s] = "1"
  /\ job[r].kind = "reverse" /\ pc[r] # "source" => state[s] = "2"
  /\ job[r].kind = "confirm" /\ pc[r] # "source" =>
       conf[s] = "pending_check" /\ maker[s] # job[r].by

\* What it found in the invoice and the application.
KnowsInvoice(r) ==
  /\ Settles(r) /\ pc[r] \in {"application", "commit"} =>
       /\ owner[<<"invoice", Target(r)>>] = r
       /\ invoice[Target(r)] = "pending"
       /\ Committed!SplitFits(Target(r), amount[job[r].source])
  /\ Settles(r) /\ pc[r] = "commit" => owner[<<"application", Target(r)>>] = r
  /\ job[r].kind = "withdraw" /\ pc[r] = "commit" =>
       /\ owner[<<"application", job[r].app>>] = r
       /\ application[job[r].app] \in CANCELLABLE_BY_APPLICANT_STATUSES

\* What a sweep found: the rows it expired are locked, and no row comes twice.
KnowsBatch(r) ==
  /\ \A i \in 1 .. Len(left[r]) :
       /\ overdue[left[r][i]] /\ invoice[left[r][i]] # "none"
       /\ left[r][i] \notin done[r]
       /\ \A j \in 1 .. Len(left[r]) : left[r][i] = left[r][j] => i = j
  /\ \A a \in done[r] :
       /\ owner[<<"invoice", a>>] = r /\ owner[<<"application", a>>] = r
       /\ invoice[a] = "pending" /\ overdue[a]
  /\ job[r].kind = "sweep" /\ pc[r] = "application" =>
       /\ owner[<<"invoice", Head(left[r])>>] = r
       /\ invoice[Head(left[r])] = "pending"

\* What a lock says of the session that holds it.
Holds(r) ==
  /\ \A s \in Sources : owner[<<"source", s>>] = r =>
       (Settles(r) \/ job[r].kind = "reverse") /\ pc[r] # "source"
  /\ \A a \in Apps : owner[<<"invoice", a>>] = r =>
       \/ job[r].kind = "sweep"
       \/ Settles(r) /\ pc[r] \in {"application", "commit"}
  /\ \A a \in Apps : owner[<<"application", a>>] = r =>
       \/ job[r].kind = "sweep" /\ a \in done[r]
       \/ (Settles(r) \/ job[r].kind = "withdraw") /\ pc[r] = "commit"

LocksInv ==
  /\ TypeOK
  /\ Committed!Inductive
  /\ \A r \in Sessions :
       Shape(r) /\ KnowsSource(r) /\ KnowsInvoice(r) /\ KnowsBatch(r) /\ Holds(r)

-----------------------------------------------------------------------------
(* Settlement's own theorems, about the committed rows.                     *)

\* The two instances of Settlement are one: same variables, same constants.
LEMMA SameRows ==
  /\ Proved!vars = Committed!vars
  /\ Proved!Init <=> Committed!Init
  /\ Proved!Next <=> Committed!Next
  /\ Proved!Inductive <=> Committed!Inductive
  /\ (Proved!Inductive <=> Committed!Inductive)'
<1> USE DEF Proved!Sources, Proved!appVars, Proved!confVars, Proved!bookVars, Proved!vars,
            Proved!INVOICE_STATUSES, Proved!STATE_CREATED, Proved!STATE_PERFORMED,
            Proved!STATE_CANCELLED_BEFORE, Proved!STATE_CANCELLED_AFTER, Proved!STATES,
            Proved!MANUAL_CONFIRMATION_STATUSES, Proved!RECONCILIATION_STATUSES,
            Proved!SetStatus, Proved!SetInvoice, Proved!InForce, Proved!SplitFits,
            Proved!FreeSettlement, Proved!ConfirmPayment, Proved!RecordReversal, Proved!Init,
            Proved!sourceVars, Proved!Review, Proved!IssueInvoice, Proved!Approve,
            Proved!Cancel, Proved!AfterPayment, Proved!CheckInvoiceForPayment,
            Proved!CreateTransaction, Proved!CreateTransactionExisting,
            Proved!PerformTransaction, Proved!CancelTransaction, Proved!BeginFiling,
            Proved!FileManualConfirmation, Proved!ConfirmAndPay,
            Proved!CheckManualConfirmation, Proved!Abandon, Proved!ResolveReconciliation,
            Proved!InvoiceFallsDue, Proved!CanExpire, Proved!ExpirySweep, Proved!Next,
            Proved!TypeOK, Proved!InvoiceFollowsApplication, Proved!Booked,
            Proved!SettledOnce, Proved!LedgerMatchesProvider, Proved!ManualNeedsTwo,
            Proved!DiscrepancyRegistered, Proved!Billed, Proved!RowsAreBilled,
            Proved!NothingHalfDone, Proved!Inductive, Proved!APPLICATION_STATUSES,
            Proved!APPLICATION_TRANSITIONS, Proved!MayMove,
            Proved!CANCELLABLE_BY_APPLICANT_STATUSES, Proved!UNDECIDED_STATUSES,
            Committed!Sources, Committed!appVars, Committed!confVars, Committed!bookVars,
            Committed!vars, Committed!INVOICE_STATUSES, Committed!STATE_CREATED,
            Committed!STATE_PERFORMED, Committed!STATE_CANCELLED_BEFORE,
            Committed!STATE_CANCELLED_AFTER, Committed!STATES,
            Committed!MANUAL_CONFIRMATION_STATUSES, Committed!RECONCILIATION_STATUSES,
            Committed!SetStatus, Committed!SetInvoice, Committed!InForce, Committed!SplitFits,
            Committed!FreeSettlement, Committed!ConfirmPayment, Committed!RecordReversal,
            Committed!Init, Committed!sourceVars, Committed!Review, Committed!IssueInvoice,
            Committed!Approve, Committed!Cancel, Committed!AfterPayment,
            Committed!CheckInvoiceForPayment, Committed!CreateTransaction,
            Committed!CreateTransactionExisting, Committed!PerformTransaction,
            Committed!CancelTransaction, Committed!BeginFiling,
            Committed!FileManualConfirmation, Committed!ConfirmAndPay,
            Committed!CheckManualConfirmation, Committed!Abandon,
            Committed!ResolveReconciliation, Committed!InvoiceFallsDue, Committed!CanExpire,
            Committed!ExpirySweep, Committed!Next, Committed!TypeOK,
            Committed!InvoiceFollowsApplication, Committed!Booked, Committed!SettledOnce,
            Committed!LedgerMatchesProvider, Committed!ManualNeedsTwo,
            Committed!DiscrepancyRegistered, Committed!Billed, Committed!RowsAreBilled,
            Committed!NothingHalfDone, Committed!Inductive, Committed!APPLICATION_STATUSES,
            Committed!APPLICATION_TRANSITIONS, Committed!MayMove,
            Committed!CANCELLABLE_BY_APPLICANT_STATUSES, Committed!UNDECIDED_STATUSES
<1> QED
  OBVIOUS

\* A step of Settlement keeps its invariant, and keeps the rows that were inserted.
LEMMA CommittedStep ==
  Committed!Inductive /\ [Committed!Next]_(Committed!vars)
    => Committed!Inductive' /\ Proved!Stays
<1>1. Proved!Inductive /\ [Proved!Next]_(Proved!vars) => Proved!Inductive'
  BY Proved!InductiveStep, SessionsAssumption
<1>2. Proved!Inductive /\ [Proved!Next]_(Proved!vars) => Proved!Stays
  BY Proved!RowsStay, SessionsAssumption
<1>3. [Committed!Next]_(Committed!vars) => [Proved!Next]_(Proved!vars)
  <2>1. (UNCHANGED Committed!vars) => UNCHANGED Proved!vars
    BY DEF Committed!vars, Proved!vars
  <2> QED
    BY <2>1, SameRows
<1> QED
  BY <1>1, <1>2, <1>3, SameRows

-----------------------------------------------------------------------------
(* Every step is a step of Settlement, or changes no row.                   *)

\* What a session's job carries, by its kind.
LEMMA JobCases ==
  ASSUME TypeOK, NEW r \in Sessions
  PROVE  \/ job[r] = NoJob /\ job[r].kind = "none"
         \/ job[r].kind \in {"perform", "reverse"} /\ job[r].source \in Txns
         \/ job[r].kind = "confirm" /\ job[r].source \in Confs /\ job[r].by \in Staff
         \/ job[r].kind = "withdraw" /\ job[r].app \in Apps
         \/ job[r].kind = "sweep"
<1>1. job[r] \in Jobs \cup {NoJob}
  BY DEF TypeOK
<1> QED
  BY <1>1 DEF Jobs, NoJob

\* The row behind an invoice that a settling or reversing request works on exists, and so
\* does the invoice.
LEMMA TargetExists ==
  ASSUME LocksInv, NEW r \in Sessions, Settles(r) \/ job[r].kind = "reverse"
  PROVE  /\ job[r].source \in Sources
         /\ Target(r) = inv[job[r].source] /\ Target(r) \in Apps
         /\ invoice[Target(r)] # "none"
<1> USE DEF LocksInv, KnowsSource, Settles
<1>1. Target(r) = inv[job[r].source]
  BY DEF Target
<1>2. CASE job[r].kind \in {"perform", "reverse"}
  <2>1. job[r].source \in Txns /\ state[job[r].source] # "none"
    BY <1>2, JobCases
  <2> QED
    BY <1>1, <2>1
    DEF Sources, Committed!Inductive, Committed!RowsAreBilled, Committed!Billed
<1>3. CASE job[r].kind = "confirm"
  <2>1. job[r].source \in Confs /\ conf[job[r].source] # "none"
    BY <1>3, JobCases
  <2> QED
    BY <1>1, <2>1
    DEF Sources, Committed!Inductive, Committed!RowsAreBilled, Committed!Billed
<1> QED
  BY <1>2, <1>3

\* What a transaction decided is what Settlement would decide at its commit.
LEMMA CommitIsStep ==
  ASSUME LocksInv, NEW r \in Sessions, Commit(r)
  PROVE  Committed!Next \/ UNCHANGED rowVars
<1> USE DEF LocksInv, Commit
<1>1. CASE Settles(r)
  <2> DEFINE s == job[r].source
             a == Target(r)
  <2>1. s \in Sources /\ a = inv[s] /\ a \in Apps
    BY <1>1, TargetExists
  <2>2. invoice[a] = "pending" /\ Committed!SplitFits(a, amount[s])
    BY <1>1 DEF KnowsInvoice
  <2>3. application[a] = "INVOICED"
    BY <2>1, <2>2 DEF Committed!Inductive, Committed!InvoiceFollowsApplication
  <2>4. /\ state' = [state EXCEPT ![s] = "2"]
        /\ payments' = [payments EXCEPT ![s] = @ + 1]
        /\ invoice' = [invoice EXCEPT ![a] = "paid"]
        /\ application' = [application EXCEPT ![a] = "PAID"]
        /\ UNCHANGED <<overdue, inv, amount, maker, corrections, recon, checked>>
    BY <1>1 DEF Write, Settles
  <2>5. Committed!ConfirmPayment(s, inv[s], amount[s])
    <3>1. Committed!MayMove("INVOICED", "PAID")
      BY DEF Committed!MayMove, Committed!APPLICATION_TRANSITIONS
    <3> QED
      BY <2>1, <2>2, <2>3, <2>4, <3>1
      DEF Committed!ConfirmPayment, Committed!SetInvoice, Committed!SetStatus
  <2>6. CASE job[r].kind = "perform"
    <3>1. s \in Txns /\ state[s] = "1"
      BY <1>1, <2>6, JobCases DEF KnowsSource
    <3>2. UNCHANGED <<conf, checker>>
      BY <2>6 DEF Write
    <3>3. Committed!PerformTransaction(s, FALSE)
      BY <2>1, <2>2, <2>4, <2>5, <3>1, <3>2
      DEF Committed!PerformTransaction, Committed!confVars, Committed!STATE_CREATED,
          Committed!STATE_PERFORMED
    <3> QED
      BY <3>1, <3>3 DEF Committed!Next
  <2>7. CASE job[r].kind = "confirm"
    <3>1. /\ s \in Confs /\ job[r].by \in Staff
          /\ conf[s] = "pending_check" /\ maker[s] # job[r].by
      BY <1>1, <2>7, JobCases DEF KnowsSource
    <3>2. /\ conf' = [conf EXCEPT ![s] = "confirmed"]
          /\ checker' = [checker EXCEPT ![s] = job[r].by]
      BY <2>7 DEF Write
    <3>3. Committed!CheckManualConfirmation(s, job[r].by, TRUE)
      BY <2>1, <2>2, <2>4, <2>5, <3>1, <3>2
      DEF Committed!CheckManualConfirmation, Committed!ConfirmAndPay, Committed!STATE_PERFORMED
    <3> QED
      BY <3>1, <3>3 DEF Committed!Next
  <2> QED
    BY <1>1, <2>6, <2>7 DEF Settles
<1>2. CASE job[r].kind = "withdraw"
  <2> DEFINE a == job[r].app
  <2>1. a \in Apps /\ Target(r) = a
    BY <1>2, JobCases DEF Target
  <2>2. application[a] \in CANCELLABLE_BY_APPLICANT_STATUSES
    BY <1>2 DEF KnowsInvoice
  <2>3. /\ application' = [application EXCEPT ![a] = "CANCELLED"]
        /\ invoice' = [invoice EXCEPT ![a] = IF @ = "pending" THEN "cancelled" ELSE @]
        /\ UNCHANGED <<overdue, inv, state, amount, conf, maker, checker, payments,
                       corrections, recon, checked>>
    BY <1>2, <2>1 DEF Write
  <2>4. invoice[a] = "none"
    BY <2>1, <2>2
    DEF Committed!Inductive, Committed!InvoiceFollowsApplication,
        CANCELLABLE_BY_APPLICANT_STATUSES, Committed!UNDECIDED_STATUSES
  <2>5. invoice' = invoice
    BY <2>1, <2>3, <2>4 DEF Committed!Inductive, Committed!TypeOK
  <2>6. Committed!MayMove(application[a], "CANCELLED")
    BY <2>2 DEF Committed!MayMove, Committed!APPLICATION_TRANSITIONS,
                CANCELLABLE_BY_APPLICANT_STATUSES
  <2>7. Committed!Cancel(a)
    BY <2>1, <2>2, <2>3, <2>4, <2>5, <2>6
    DEF Committed!Cancel, Committed!SetStatus, Committed!sourceVars, Committed!confVars,
        Committed!bookVars, CANCELLABLE_BY_APPLICANT_STATUSES,
        Committed!CANCELLABLE_BY_APPLICANT_STATUSES
  <2> QED
    BY <2>1, <2>7 DEF Committed!Next
<1>3. CASE job[r].kind = "sweep"
  <2> DEFINE S == done[r]
  <2>1. S \in SUBSET Apps
    BY DEF TypeOK
  <2>2. /\ application' = [b \in Apps |-> IF b \in S THEN "EXPIRED_UNPAID" ELSE application[b]]
        /\ invoice' = [b \in Apps |-> IF b \in S THEN "expired" ELSE invoice[b]]
        /\ UNCHANGED <<overdue, inv, state, amount, conf, maker, checker, payments,
                       corrections, recon, checked>>
    BY <1>3 DEF Write
  <2>3. CASE S = {}
    <3>1. application' = application /\ invoice' = invoice
      BY <2>2, <2>3 DEF Committed!Inductive, Committed!TypeOK
    <3> QED
      BY <2>2, <3>1 DEF rowVars
  <2>4. CASE S # {}
    <3>1. \A b \in S : invoice[b] = "pending" /\ overdue[b]
      BY DEF KnowsBatch
    <3>2. \A b \in S : application[b] = "INVOICED"
      BY <2>1, <3>1 DEF Committed!Inductive, Committed!InvoiceFollowsApplication
    <3>3. Committed!MayMove("INVOICED", "EXPIRED_UNPAID")
      BY DEF Committed!MayMove, Committed!APPLICATION_TRANSITIONS
    <3>4. Committed!ExpirySweep(S)
      BY <2>2, <2>4, <3>1, <3>2, <3>3
      DEF Committed!ExpirySweep, Committed!CanExpire, Committed!sourceVars,
          Committed!confVars, Committed!bookVars
    <3> QED
      BY <2>1, <3>4 DEF Committed!Next
  <2> QED
    BY <2>3, <2>4
<1>4. job[r].kind \in {"perform", "confirm", "withdraw", "sweep"}
  BY JobCases DEF Shape
<1> QED
  BY <1>1, <1>2, <1>3, <1>4 DEF Settles

\* A reversal is Settlement's cancellation of a performed transaction.
LEMMA ReversalIsStep ==
  ASSUME LocksInv, NEW r \in Sessions, CommitReversal(r)
  PROVE  Committed!Next
<1> USE DEF LocksInv
<1>1. job[r].kind = "reverse"
  BY JobCases DEF CommitReversal, Shape, Settles, NoJob
<1>2. job[r].source \in Txns /\ state[job[r].source] = "2"
  BY <1>1, JobCases DEF KnowsSource, CommitReversal
<1>3. Committed!CancelTransaction(job[r].source)
  BY <1>2
  DEF CommitReversal, Committed!CancelTransaction, Committed!RecordReversal,
      Committed!appVars, Committed!confVars, Committed!STATE_CREATED,
      Committed!STATE_PERFORMED, Committed!STATE_CANCELLED_AFTER
<1> QED
  BY <1>2, <1>3 DEF Committed!Next

\* The requests that hold one lock, or none, are steps of Settlement as they stand.
LEMMA WholeIsStep == OneLock \/ NoLock \/ Insert => Committed!Next
<1>1. OneLock => Committed!Next
  <2> SUFFICES ASSUME OneLock PROVE Committed!Next
    OBVIOUS
  <2>1. CASE \E a \in Apps : \/ Committed!Approve(a)
                             \/ \E to \in APPLICATION_STATUSES :
                                  Committed!Review(a, to) \/ Committed!AfterPayment(a, to)
    <3>1. APPLICATION_STATUSES = Committed!APPLICATION_STATUSES
      BY DEF APPLICATION_STATUSES, Committed!APPLICATION_STATUSES
    <3> QED
      BY <2>1, <3>1 DEF Committed!Next
  <2>2. CASE \E t \in Txns : \/ Committed!CreateTransactionExisting(t)
                             \/ Committed!PerformTransaction(t, TRUE)
                             \/ Committed!CancelTransaction(t)
    BY <2>2 DEF Committed!Next
  <2>3. CASE \E c \in Confs, k \in Staff : Committed!CheckManualConfirmation(c, k, FALSE)
    BY <2>3 DEF Committed!Next
  <2> QED
    BY <2>1, <2>2, <2>3 DEF OneLock
<1>2. NoLock => Committed!Next
  BY DEF NoLock, Committed!Next, Sources, Committed!Sources
<1>3. Insert => Committed!Next
  BY DEF Insert, Committed!Next
<1> QED
  BY <1>1, <1>2, <1>3

\* What a session does by itself, between two commits.
Alone(r) ==
  \/ \E j \in Jobs \ {[kind |-> "sweep"]} : Serve(r, j)
  \/ \E batch \in SetToSeqs({a \in Apps : invoice[a] = "pending" /\ overdue[a]}) :
       BeginSweep(r, batch)
  \/ LockSource(r)
  \/ LockInvoice(r)
  \/ LockApplication(r)
  \/ Victim(r)
  \/ Fail(r)

\* Taking and freeing locks writes no row.
LEMMA AloneWritesNothing ==
  ASSUME NEW r \in Sessions, Alone(r)
  PROVE  UNCHANGED rowVars
<1> USE DEF Refuse, Proceed, NextRow
<1>1. ASSUME NEW j, Serve(r, j)
      PROVE  UNCHANGED rowVars
  BY <1>1 DEF Serve
<1>2. ASSUME NEW batch, BeginSweep(r, batch)
      PROVE  UNCHANGED rowVars
  BY <1>2 DEF BeginSweep
<1>3. CASE LockSource(r)
  BY <1>3 DEF LockSource
<1>4. CASE LockInvoice(r)
  BY <1>4 DEF LockInvoice
<1>5. CASE LockApplication(r)
  BY <1>5 DEF LockApplication
<1>6. CASE Victim(r)
  BY <1>6 DEF Victim
<1>7. CASE Fail(r)
  BY <1>7 DEF Fail
<1> QED
  BY <1>1, <1>2, <1>3, <1>4, <1>5, <1>6, <1>7 DEF Alone

\* The disjuncts of the next-state relation.
LEMMA NextCases ==
  ASSUME Next
  PROVE  \/ OneLock \/ NoLock \/ Insert
         \/ \E r \in Sessions : Alone(r) \/ Commit(r) \/ CommitReversal(r)
BY DEF Next, Step, Alone

\* Whatever the sessions do, the rows make one step of Settlement or none.
LEMMA RequestIsStep ==
  ASSUME LocksInv, [Next]_vars
  PROVE  [Committed!Next]_(Committed!vars)
<1>1. UNCHANGED rowVars => UNCHANGED Committed!vars
  BY DEF rowVars, Committed!vars
<1>2. CASE OneLock \/ NoLock \/ Insert
  BY <1>2, WholeIsStep
<1>3. ASSUME NEW r \in Sessions, Alone(r)
      PROVE  [Committed!Next]_(Committed!vars)
  BY <1>1, <1>3, AloneWritesNothing
<1>4. ASSUME NEW r \in Sessions, Commit(r)
      PROVE  [Committed!Next]_(Committed!vars)
  BY <1>1, <1>4, CommitIsStep
<1>5. ASSUME NEW r \in Sessions, CommitReversal(r)
      PROVE  [Committed!Next]_(Committed!vars)
  BY <1>5, ReversalIsStep
<1>6. CASE UNCHANGED vars
  BY <1>1, <1>6 DEF vars
<1> QED
  BY <1>2, <1>3, <1>4, <1>5, <1>6, NextCases

-----------------------------------------------------------------------------
(* Nobody changes a row that another session has locked.                    *)

Keeps(r) == Shape(r) /\ KnowsSource(r) /\ KnowsInvoice(r) /\ KnowsBatch(r) /\ Holds(r)

\* What r found in the rows it has locked is left as it is.
Protected(r) ==
  /\ \A t \in Txns : owner[<<"source", t>>] = r /\ state[t] # "none" => state'[t] = state[t]
  /\ \A c \in Confs : owner[<<"source", c>>] = r /\ conf[c] # "none" => conf'[c] = conf[c]
  /\ \A a \in Apps : owner[<<"invoice", a>>] = r /\ invoice[a] = "pending" =>
       invoice'[a] = "pending"
  /\ \A a \in Apps :
       owner[<<"application", a>>] = r /\ application[a] \in CANCELLABLE_BY_APPLICANT_STATUSES =>
         application'[a] = application[a]

\* r itself does nothing, and its locks stay with it.
Still(r) ==
  /\ pc'[r] = pc[r] /\ job'[r] = job[r] /\ left'[r] = left[r] /\ done'[r] = done[r]
  /\ \A row \in Rows : owner'[row] = r <=> owner[row] = r

\* A session that does nothing still knows what it knew.
LEMMA StillKeeps ==
  ASSUME LocksInv, NEW r \in Sessions, Still(r), Protected(r), Proved!Stays
  PROVE  Keeps(r)'
<1> USE DEF LocksInv, Still
<1>1. /\ \A s \in Sources : owner'[<<"source", s>>] = r <=> owner[<<"source", s>>] = r
      /\ \A a \in Apps : /\ owner'[<<"invoice", a>>] = r <=> owner[<<"invoice", a>>] = r
                         /\ owner'[<<"application", a>>] = r <=> owner[<<"application", a>>] = r
  BY DEF Rows
<1>2. Shape(r)'
  BY DEF Shape, Settles
<1>3. KnowsSource(r)'
  BY <1>1, JobCases DEF KnowsSource, Settles, Protected, Proved!Stays, Sources
<1>4. KnowsInvoice(r)'
  <2>1. ASSUME Settles(r)
        PROVE  Target(r)' = Target(r) /\ Target(r) \in Apps
               /\ amount'[job[r].source] = amount[job[r].source]
    <3>1. Target(r) = inv[job[r].source] /\ Target(r) \in Apps
      BY <2>1, TargetExists
    <3>2. Target(r)' = inv'[job[r].source]
      BY <2>1 DEF Target, Settles
    <3>3. CASE job[r].kind = "perform"
      <4>1. job[r].source \in Txns /\ state[job[r].source] # "none"
        BY <3>3, JobCases DEF KnowsSource
      <4> QED
        BY <3>1, <3>2, <4>1 DEF Proved!Stays
    <3>4. CASE job[r].kind = "confirm"
      <4>1. job[r].source \in Confs /\ conf[job[r].source] # "none"
        BY <3>4, JobCases DEF KnowsSource
      <4> QED
        BY <3>1, <3>2, <4>1 DEF Proved!Stays
    <3> QED
      BY <2>1, <3>3, <3>4 DEF Settles
  <2>2. ASSUME Settles(r)', pc'[r] \in {"application", "commit"}
        PROVE  /\ owner'[<<"invoice", Target(r)'>>] = r
               /\ invoice'[Target(r)'] = "pending"
               /\ Committed!SplitFits(Target(r), amount[job[r].source])'
               /\ pc'[r] = "commit" => owner'[<<"application", Target(r)'>>] = r
    <3>1. Settles(r)
      BY <2>2 DEF Settles
    <3> QED
      BY <1>1, <2>1, <2>2, <3>1 DEF KnowsInvoice, Protected, Committed!SplitFits
  <2>3. ASSUME job'[r].kind = "withdraw", pc'[r] = "commit"
        PROVE  /\ owner'[<<"application", job'[r].app>>] = r
               /\ application'[job'[r].app] \in CANCELLABLE_BY_APPLICANT_STATUSES
    <3>1. job[r].app \in Apps
      BY <2>3, JobCases
    <3>2. /\ owner[<<"application", job[r].app>>] = r
          /\ application[job[r].app] \in CANCELLABLE_BY_APPLICANT_STATUSES
      BY <2>3 DEF KnowsInvoice
    <3>3. application'[job[r].app] = application[job[r].app]
      BY <3>1, <3>2 DEF Protected
    <3> QED
      BY <1>1, <3>1, <3>2, <3>3
  <2> QED
    BY <2>2, <2>3 DEF KnowsInvoice, CANCELLABLE_BY_APPLICANT_STATUSES
<1>5. KnowsBatch(r)'
  <2>1. left[r] \in Seq(Apps) /\ done[r] \subseteq Apps
    BY DEF TypeOK
  <2>2. \A i \in 1 .. Len(left[r]) : left[r][i] \in Apps
    BY <2>1
  <2>3. job[r].kind = "sweep" /\ pc[r] = "application" => Head(left[r]) \in Apps
    BY <2>1 DEF Shape
  <2>4. \A i \in 1 .. Len(left[r]) :
          /\ overdue'[left[r][i]] /\ invoice'[left[r][i]] # "none"
          /\ left[r][i] \notin done[r]
          /\ \A j \in 1 .. Len(left[r]) : left[r][i] = left[r][j] => i = j
    BY <2>2 DEF KnowsBatch, Proved!Stays
  <2>5. \A a \in done[r] :
          /\ owner'[<<"invoice", a>>] = r /\ owner'[<<"application", a>>] = r
          /\ invoice'[a] = "pending" /\ overdue'[a]
    <3> SUFFICES ASSUME NEW a \in done[r]
                 PROVE  /\ owner'[<<"invoice", a>>] = r /\ owner'[<<"application", a>>] = r
                        /\ invoice'[a] = "pending" /\ overdue'[a]
      OBVIOUS
    <3>1. /\ a \in Apps /\ invoice[a] = "pending" /\ overdue[a]
          /\ owner[<<"invoice", a>>] = r /\ owner[<<"application", a>>] = r
      BY <2>1 DEF KnowsBatch
    <3> QED
      BY <1>1, <3>1 DEF Protected, Proved!Stays
  <2>6. job[r].kind = "sweep" /\ pc[r] = "application" =>
          owner'[<<"invoice", Head(left[r])>>] = r /\ invoice'[Head(left[r])] = "pending"
    BY <1>1, <2>3 DEF KnowsBatch, Protected
  <2> QED
    BY <2>4, <2>5, <2>6 DEF KnowsBatch
<1>6. Holds(r)'
  <2>1. Settles(r)' <=> Settles(r)
    BY DEF Settles
  <2>2. Holds(r)
    OBVIOUS
  <2> QED
    BY <1>1, <2>1, <2>2 DEF Holds, Sources
<1> QED
  BY <1>2, <1>3, <1>4, <1>5, <1>6 DEF Keeps

\* A session takes free rows only, and gives back its own only.
LEMMA OthersStill ==
  ASSUME LocksInv, NEW q \in Sessions, NEW r \in Sessions, q # r,
         Alone(q) \/ Commit(q) \/ CommitReversal(q)
  PROVE  Still(r)
<1> USE DEF LocksInv, TypeOK, Still, Goto
<1>1. Nobody # r
  BY SessionsAssumption
<1>2. Release(q) => Still(r)
  BY <1>1 DEF Release
<1>3. ASSUME NEW step, Available(q, Wanted(q)), Proceed(q, step)
      PROVE  Still(r)
  BY <1>1, <1>3 DEF Proceed, Available, Take
<1>4. ASSUME NEW expired, NEW keep, keep => Available(q, Wanted(q)), NextRow(q, expired, keep)
      PROVE  Still(r)
  BY <1>1, <1>4 DEF NextRow, Available
<1>5. ASSUME NEW j, Serve(q, j)
      PROVE  Still(r)
  BY <1>5 DEF Serve
<1>6. ASSUME NEW batch, BeginSweep(q, batch)
      PROVE  Still(r)
  BY <1>6 DEF BeginSweep
<1>7. CASE LockSource(q)
  BY <1>2, <1>3, <1>7 DEF LockSource, Refuse
<1>8. CASE LockInvoice(q)
  BY <1>2, <1>3, <1>4, <1>8 DEF LockInvoice, Refuse
<1>9. CASE LockApplication(q)
  BY <1>2, <1>3, <1>4, <1>9 DEF LockApplication, Refuse
<1>10. CASE Victim(q)
  BY <1>2, <1>4, <1>10 DEF Victim, Refuse
<1>11. CASE Fail(q)
  BY <1>2, <1>11 DEF Fail, Refuse
<1>12. CASE Commit(q) \/ CommitReversal(q)
  BY <1>2, <1>12 DEF Commit, CommitReversal
<1> QED
  BY <1>5, <1>6, <1>7, <1>8, <1>9, <1>10, <1>11, <1>12 DEF Alone

\* A request without a row lock of its own changes no locked row.
LEMMA WholeProtects ==
  ASSUME LocksInv, NEW r \in Sessions, OneLock \/ NoLock \/ Insert
  PROVE  Protected(r)
<1> USE DEF LocksInv, Protected, Unlocked, Committed!Inductive, Committed!TypeOK,
            Committed!Sources
<1>1. Nobody # r
  BY SessionsAssumption
<1>2. ASSUME NEW a \in Apps, Unlocked(<<"application", a>>), Committed!Approve(a)
      PROVE  Protected(r)
  <2>1. application[a] = "IN_REVIEW"
    BY <1>2 DEF Committed!Approve, Committed!MayMove, Committed!APPLICATION_TRANSITIONS
  <2>2. invoice[a] = "none"
    BY <2>1 DEF Committed!InvoiceFollowsApplication, Committed!UNDECIDED_STATUSES
  <2> QED
    BY <1>1, <1>2, <2>2
    DEF Committed!Approve, Committed!IssueInvoice, Committed!SetInvoice, Committed!sourceVars,
        Committed!confVars
<1>3. ASSUME NEW a \in Apps, Unlocked(<<"application", a>>), NEW to,
             Committed!Review(a, to) \/ Committed!AfterPayment(a, to)
      PROVE  Protected(r)
  BY <1>1, <1>3
  DEF Committed!Review, Committed!AfterPayment, Committed!SetStatus, Committed!sourceVars,
      Committed!confVars
<1>4. ASSUME NEW t \in Txns, Unlocked(<<"source", t>>),
             \/ Committed!CreateTransactionExisting(t)
             \/ Committed!PerformTransaction(t, TRUE)
             \/ Committed!CancelTransaction(t)
      PROVE  Protected(r)
  BY <1>1, <1>4
  DEF Committed!CreateTransactionExisting, Committed!PerformTransaction,
      Committed!CancelTransaction, Committed!appVars, Committed!confVars
<1>5. ASSUME NEW c \in Confs, NEW k \in Staff, Unlocked(<<"source", c>>),
             Committed!CheckManualConfirmation(c, k, FALSE)
      PROVE  Protected(r)
  BY <1>1, <1>5 DEF Committed!CheckManualConfirmation
<1>6. CASE OneLock
  BY <1>2, <1>3, <1>4, <1>5, <1>6 DEF OneLock
<1>7. CASE NoLock
  BY <1>7
  DEF NoLock, Committed!InvoiceFallsDue, Committed!CheckInvoiceForPayment,
      Committed!BeginFiling, Committed!Abandon, Committed!ResolveReconciliation,
      Committed!appVars, Committed!confVars, Committed!sourceVars
<1>8. CASE Insert
  <2>1. ASSUME NEW t \in Txns, Committed!CreateTransaction(t)
        PROVE  Protected(r)
    BY <2>1 DEF Committed!CreateTransaction, Committed!appVars, Committed!confVars
  <2>2. ASSUME NEW c \in Confs, NEW k, NEW n, Committed!FileManualConfirmation(c, k, n)
        PROVE  Protected(r)
    <3>1. conf[c] = "none"
      BY <2>2 DEF Committed!FileManualConfirmation, Committed!RowsAreBilled
    <3> QED
      BY <2>2, <3>1 DEF Committed!FileManualConfirmation, Committed!appVars
  <2> QED
    BY <1>8, <2>1, <2>2 DEF Insert
<1> QED
  BY <1>6, <1>7, <1>8

\* A commit writes only the rows its session has locked.
LEMMA CommitProtects ==
  ASSUME LocksInv, NEW q \in Sessions, NEW r \in Sessions, q # r,
         Commit(q) \/ CommitReversal(q)
  PROVE  Protected(r)
<1> USE DEF LocksInv, Protected, Committed!Inductive, Committed!TypeOK
<1>1. CASE Commit(q) /\ Settles(q)
  <2>1. /\ job[q].source \in Sources /\ Target(q) \in Apps
        /\ owner[<<"source", job[q].source>>] = q
        /\ owner[<<"invoice", Target(q)>>] = q /\ owner[<<"application", Target(q)>>] = q
    BY <1>1, TargetExists DEF Commit, KnowsSource, KnowsInvoice
  <2>2. /\ state' = [state EXCEPT ![job[q].source] = "2"]
        /\ conf' = conf \/ conf' = [conf EXCEPT ![job[q].source] = "confirmed"]
        /\ invoice' = [invoice EXCEPT ![Target(q)] = "paid"]
        /\ application' = [application EXCEPT ![Target(q)] = "PAID"]
    BY <1>1 DEF Commit, Write, Settles
  <2> QED
    BY <2>1, <2>2
<1>2. CASE Commit(q) /\ job[q].kind = "withdraw"
  <2>1. /\ Target(q) = job[q].app /\ job[q].app \in Apps
        /\ owner[<<"application", job[q].app>>] = q
        /\ application[job[q].app] \in CANCELLABLE_BY_APPLICANT_STATUSES
    BY <1>2, JobCases DEF Commit, KnowsInvoice, Target
  <2>2. invoice[job[q].app] = "none"
    BY <2>1
    DEF Committed!InvoiceFollowsApplication, CANCELLABLE_BY_APPLICANT_STATUSES,
        Committed!UNDECIDED_STATUSES
  <2> QED
    BY <1>2, <2>1, <2>2 DEF Commit, Write
<1>3. CASE Commit(q) /\ job[q].kind = "sweep"
  <2>1. \A a \in done[q] : owner[<<"invoice", a>>] = q /\ owner[<<"application", a>>] = q
    BY DEF KnowsBatch
  <2>2. /\ application' = [b \in Apps |-> IF b \in done[q] THEN "EXPIRED_UNPAID"
                                                          ELSE application[b]]
        /\ invoice' = [b \in Apps |-> IF b \in done[q] THEN "expired" ELSE invoice[b]]
        /\ UNCHANGED <<state, conf>>
    BY <1>3 DEF Commit, Write
  <2> QED
    BY <2>1, <2>2
<1>4. Commit(q) => job[q].kind \in {"perform", "confirm", "withdraw", "sweep"}
  BY JobCases DEF Commit, Shape, Settles, NoJob
<1>5. CASE CommitReversal(q)
  <2>1. job[q].kind = "reverse"
    BY <1>5, JobCases DEF CommitReversal, Shape, Settles, NoJob
  <2>2. owner[<<"source", job[q].source>>] = q
    BY <1>5, <2>1 DEF CommitReversal, KnowsSource
  <2> QED
    BY <1>5, <2>2 DEF CommitReversal
<1> QED
  BY <1>1, <1>2, <1>3, <1>4, <1>5 DEF Settles

-----------------------------------------------------------------------------
(* A session that moves knows, at its next point, what that point asks for. *)

\* A session that ended knows nothing and holds nothing.
LEMMA ReleaseKeeps ==
  ASSUME LocksInv, NEW r \in Sessions, Release(r)
  PROVE  Keeps(r)'
<1> USE DEF LocksInv, TypeOK, Release, Goto, NoJob
<1>1. /\ \A s \in Sources : owner'[<<"source", s>>] # r
      /\ \A a \in Apps : owner'[<<"invoice", a>>] # r /\ owner'[<<"application", a>>] # r
  BY SessionsAssumption DEF Rows
<1>2. pc'[r] = "idle" /\ job'[r] = NoJob /\ left'[r] = <<>> /\ done'[r] = {}
  OBVIOUS
<1>3. ~ Settles(r)' /\ job'[r].kind = "none"
  BY <1>2 DEF Settles
<1>4. Shape(r)' /\ KnowsSource(r)' /\ KnowsInvoice(r)'
  BY <1>2, <1>3 DEF Shape, KnowsSource, KnowsInvoice
<1>5. KnowsBatch(r)'
  BY <1>2, <1>3 DEF KnowsBatch
<1>6. Holds(r)'
  BY <1>1 DEF Holds, Sources
<1> QED
  BY <1>4, <1>5, <1>6 DEF Keeps

\* An idle session has nothing.
LEMMA IdleHoldsNothing ==
  ASSUME LocksInv, NEW r \in Sessions, pc[r] = "idle"
  PROVE  /\ job[r] = NoJob /\ left[r] = <<>> /\ done[r] = {}
         /\ \A s \in Sources : owner[<<"source", s>>] # r
         /\ \A a \in Apps : owner[<<"invoice", a>>] # r /\ owner[<<"application", a>>] # r
<1>1. Shape(r) /\ Holds(r)
  BY DEF LocksInv
<1>2. job[r] = NoJob /\ job[r].kind = "none"
  BY <1>1 DEF Shape, NoJob
<1> QED
  BY <1>1, <1>2 DEF Shape, Holds, Settles

\* A request that arrives has read its row, and waits for its first lock.
LEMMA ServeKeeps ==
  ASSUME LocksInv, NEW r \in Sessions, NEW j \in Jobs \ {[kind |-> "sweep"]}, Serve(r, j)
  PROVE  Keeps(r)'
<1> USE DEF LocksInv, TypeOK, Goto
<1>1. /\ pc[r] = "idle" /\ job'[r] = j /\ UNCHANGED <<state, conf, left, done, owner>>
      /\ pc'[r] = IF j.kind = "withdraw" THEN "application" ELSE "source"
      /\ j.kind \in {"perform", "reverse"} => state[j.source] # "none"
      /\ j.kind = "confirm" => conf[j.source] # "none"
  BY DEF Serve, rowVars
<1>2. j.kind \in {"perform", "reverse", "confirm", "withdraw"}
  BY DEF Jobs
<1>3. Shape(r)'
  BY <1>1, <1>2, IdleHoldsNothing DEF Shape, Settles, NoJob
<1>4. KnowsSource(r)'
  BY <1>1, <1>2 DEF KnowsSource, Settles
<1>5. KnowsInvoice(r)'
  BY <1>1, <1>2 DEF KnowsInvoice, Settles
<1>6. KnowsBatch(r)'
  <2>1. left'[r] = <<>> /\ done'[r] = {} /\ job'[r].kind # "sweep"
    BY <1>1, <1>2, IdleHoldsNothing
  <2> QED
    BY <2>1 DEF KnowsBatch
<1>7. Holds(r)'
  BY <1>1, IdleHoldsNothing DEF Holds, Sources
<1> QED
  BY <1>3, <1>4, <1>5, <1>6, <1>7 DEF Keeps

\* A scan gives every row of its set once, in some order.
LEMMA ScanOrder ==
  ASSUME NEW S \in SUBSET Apps, NEW batch \in SetToSeqs(S)
  PROVE  /\ batch \in Seq(Apps)
         /\ \A i \in 1 .. Len(batch) :
              batch[i] \in S /\ \A j \in 1 .. Len(batch) : batch[i] = batch[j] => i = j
<1>1. IsFiniteSet(S) /\ Cardinality(S) \in Nat
  BY SessionsAssumption, FS_Subset, FS_CardinalityType
<1>2. /\ batch \in [1 .. Cardinality(S) -> S]
      /\ \A i, j \in 1 .. Cardinality(S) : i # j => batch[i] # batch[j]
  BY DEF SetToSeqs
<1>3. batch \in Seq(S) /\ Len(batch) = Cardinality(S)
  BY <1>1, <1>2
<1> QED
  BY <1>2, <1>3

\* A sweep starts with rows that are due, each of them once.
LEMMA SweepKeeps ==
  ASSUME LocksInv, NEW r \in Sessions,
         NEW batch \in SetToSeqs({a \in Apps : invoice[a] = "pending" /\ overdue[a]}),
         BeginSweep(r, batch)
  PROVE  Keeps(r)' /\ batch \in Seq(Apps)
<1> USE DEF LocksInv, TypeOK, Goto
<1> DEFINE S == {a \in Apps : invoice[a] = "pending" /\ overdue[a]}
<1>1. /\ batch \in Seq(Apps)
      /\ \A i \in 1 .. Len(batch) :
           batch[i] \in S /\ \A j \in 1 .. Len(batch) : batch[i] = batch[j] => i = j
  <2>1. S \in SUBSET Apps
    OBVIOUS
  <2> QED
    BY <2>1, ScanOrder
<1>2. /\ pc[r] = "idle" /\ batch # <<>> /\ job'[r] = [kind |-> "sweep"]
      /\ left'[r] = batch /\ pc'[r] = "invoice" /\ UNCHANGED <<rowVars, done, owner>>
  BY DEF BeginSweep
<1>3. UNCHANGED <<invoice, overdue>>
  BY <1>2 DEF rowVars
<1>4. done'[r] = {}
  BY <1>2, IdleHoldsNothing
<1>5. ~ Settles(r)' /\ job'[r].kind = "sweep"
  BY <1>2 DEF Settles
<1>6. Shape(r)' /\ KnowsSource(r)' /\ KnowsInvoice(r)'
  BY <1>2, <1>5 DEF Shape, KnowsSource, KnowsInvoice, NoJob
<1>7. KnowsBatch(r)'
  BY <1>1, <1>2, <1>3, <1>4 DEF KnowsBatch
<1>8. Holds(r)'
  BY <1>2, IdleHoldsNothing DEF Holds, Sources
<1> QED
  BY <1>1, <1>6, <1>7, <1>8 DEF Keeps

\* A settling or reversing request that holds its transaction or confirmation goes on to
\* the invoice.
LEMMA LockSourceKeeps ==
  ASSUME LocksInv, NEW r \in Sessions, LockSource(r)
  PROVE  Keeps(r)'
<1> USE DEF LocksInv, TypeOK
<1>1. CASE Refuse(r)
  BY <1>1, ReleaseKeeps DEF Refuse
<1>2. CASE ~ Refuse(r)
  <2> DEFINE step == IF job[r].kind = "reverse" THEN "share" ELSE "invoice"
  <2>0. /\ Proceed(r, step)
        /\ Settles(r) \/ job[r].kind = "reverse"
        /\ job[r].kind = "perform" => state[job[r].source] = "1"
        /\ job[r].kind = "reverse" => state[job[r].source] = "2"
        /\ job[r].kind = "confirm" => /\ conf[job[r].source] = "pending_check"
                                      /\ maker[job[r].source] # job[r].by
    BY <1>2 DEF LockSource, Settles
  <2>1. /\ pc[r] = "source" /\ pc'[r] = step
        /\ owner' = [owner EXCEPT ![<<"source", job[r].source>>] = r]
        /\ UNCHANGED <<state, conf, maker, job, left, done>>
    BY <2>0 DEF LockSource, Proceed, Take, Goto, Wanted, rowVars
  <2>2. job[r].source \in Sources
    BY <2>0, TargetExists
  <2>3. owner'[<<"source", job[r].source>>] = r
    BY <2>1, <2>2 DEF Rows
  <2>4. left[r] = <<>> /\ done[r] = {} /\ job[r].kind # "sweep" /\ job[r].kind # "withdraw"
    BY <2>0 DEF Shape, Settles
  <2>5. Shape(r)'
    BY <2>0, <2>1, <2>4 DEF Shape, Settles
  <2>6. KnowsSource(r)'
    BY <2>0, <2>1, <2>3 DEF KnowsSource, Settles
  <2>7. KnowsInvoice(r)' /\ KnowsBatch(r)'
    BY <2>0, <2>1, <2>4 DEF KnowsInvoice, KnowsBatch
  <2>8. Holds(r)'
    <3>1. \A a \in Apps : owner[<<"invoice", a>>] # r /\ owner[<<"application", a>>] # r
      BY <2>1, <2>4 DEF Holds
    <3>2. \A a \in Apps : owner'[<<"invoice", a>>] # r /\ owner'[<<"application", a>>] # r
      BY <2>1, <3>1 DEF Rows
    <3> QED
      BY <2>0, <2>1, <3>2 DEF Holds, Settles, Sources
  <2> QED
    BY <2>5, <2>6, <2>7, <2>8 DEF Keeps
<1> QED
  BY <1>1, <1>2

\* What a sweep's next row is.
LEMMA BatchHead ==
  ASSUME LocksInv, NEW r \in Sessions, job[r].kind = "sweep", pc[r] # "commit"
  PROVE  /\ Target(r) = Head(left[r]) /\ Target(r) = left[r][1] /\ Target(r) \in Apps
         /\ Target(r) \notin done[r] /\ overdue[Target(r)]
         /\ Tail(left[r]) \in Seq(Apps) /\ Len(left[r]) \in Nat \ {0}
         /\ Len(Tail(left[r])) = Len(left[r]) - 1
         /\ Tail(left[r]) = <<>> <=> Len(left[r]) = 1
         /\ \A i \in 1 .. Len(Tail(left[r])) : Tail(left[r])[i] = left[r][i + 1]
<1> USE DEF LocksInv, TypeOK
<1>1. left[r] \in Seq(Apps) /\ left[r] # <<>>
  BY DEF Shape
<1>2. Target(r) = Head(left[r])
  BY DEF Target
<1>3. 1 \in 1 .. Len(left[r])
  BY <1>1
<1>4. left[r][1] \notin done[r] /\ overdue[left[r][1]]
  BY <1>3 DEF KnowsBatch
<1>5. /\ Tail(left[r]) \in Seq(Apps) /\ Len(left[r]) \in Nat \ {0}
      /\ Len(Tail(left[r])) = Len(left[r]) - 1
  BY <1>1
<1>6. Tail(left[r]) = <<>> <=> Len(left[r]) = 1
  <2>1. Tail(left[r]) = <<>> <=> Len(Tail(left[r])) = 0
    BY <1>5, EmptySeq
  <2> QED
    BY <1>5, <2>1
<1> QED
  BY <1>1, <1>2, <1>4, <1>5, <1>6

\* A sweep goes on to its next row: what it expired stays locked and pending, and a row
\* that was rolled back is none of those.
LEMMA NextRowKeeps ==
  ASSUME LocksInv, NEW r \in Sessions, NEW expired \in BOOLEAN, NEW keep \in BOOLEAN,
         job[r].kind = "sweep", pc[r] \in {"invoice", "application"},
         expired => keep /\ pc[r] = "application",
         keep /\ pc[r] = "application" => expired,
         NextRow(r, expired, keep)
  PROVE  Keeps(r)'
<1> USE DEF LocksInv, TypeOK
<1> DEFINE a == Target(r)
           mine == {<<"invoice", a>>, <<"application", a>>}
<1>1. /\ left' = [left EXCEPT ![r] = Tail(@)]
      /\ done' = [done EXCEPT ![r] = IF expired THEN @ \cup {a} ELSE @]
      /\ pc' = [pc EXCEPT ![r] = IF Len(left[r]) = 1 THEN "commit" ELSE "invoice"]
      /\ UNCHANGED <<rowVars, job>>
      /\ owner' = [row \in Rows |->
                     IF row \notin mine THEN owner[row]
                     ELSE IF keep THEN (IF row = Wanted(r) THEN r ELSE owner[row])
                     ELSE IF owner[row] = r THEN Nobody ELSE owner[row]]
  BY DEF NextRow, Goto
<1>2. UNCHANGED <<invoice, overdue>>
  BY <1>1 DEF rowVars
<1>3. /\ a = Head(left[r]) /\ a = left[r][1] /\ a \in Apps /\ a \notin done[r] /\ overdue[a]
      /\ Tail(left[r]) \in Seq(Apps) /\ Len(left[r]) \in Nat \ {0}
      /\ Len(Tail(left[r])) = Len(left[r]) - 1
      /\ Tail(left[r]) = <<>> <=> Len(left[r]) = 1
      /\ \A i \in 1 .. Len(Tail(left[r])) : Tail(left[r])[i] = left[r][i + 1]
  BY BatchHead
<1>4. /\ job'[r] = job[r] /\ left'[r] = Tail(left[r])
      /\ done'[r] = IF expired THEN done[r] \cup {a} ELSE done[r]
      /\ pc'[r] = IF Len(left[r]) = 1 THEN "commit" ELSE "invoice"
  BY <1>1
<1>5. Wanted(r) = IF pc[r] = "invoice" THEN <<"invoice", a>> ELSE <<"application", a>>
  BY DEF Wanted
<1>6. /\ \A b \in Apps \ {a} : /\ owner'[<<"invoice", b>>] = owner[<<"invoice", b>>]
                              /\ owner'[<<"application", b>>] = owner[<<"application", b>>]
      /\ \A s \in Sources : owner'[<<"source", s>>] = owner[<<"source", s>>]
  BY <1>1 DEF Rows
<1>7. ~ Settles(r)' /\ ~ Settles(r)
  BY <1>4 DEF Settles
<1>8. Shape(r)'
  <2>1. pc'[r] = "commit" <=> left'[r] = <<>>
    BY <1>3, <1>4
  <2> QED
    BY <1>4, <1>7, <2>1 DEF Shape, NoJob
<1>9. KnowsSource(r)' /\ KnowsInvoice(r)'
  BY <1>4, <1>7 DEF KnowsSource, KnowsInvoice
<1>10. KnowsBatch(r)'
  <2>1. \A i \in 1 .. Len(left'[r]) :
          /\ overdue[left'[r][i]] /\ invoice[left'[r][i]] # "none"
          /\ left'[r][i] \notin done[r] /\ left'[r][i] # a
          /\ \A j \in 1 .. Len(left'[r]) : left'[r][i] = left'[r][j] => i = j
    <3> SUFFICES ASSUME NEW i \in 1 .. Len(Tail(left[r]))
                 PROVE  /\ overdue[Tail(left[r])[i]] /\ invoice[Tail(left[r])[i]] # "none"
                        /\ Tail(left[r])[i] \notin done[r] /\ Tail(left[r])[i] # a
                        /\ \A j \in 1 .. Len(Tail(left[r])) :
                             Tail(left[r])[i] = Tail(left[r])[j] => i = j
      BY <1>4
    <3>1. Tail(left[r])[i] = left[r][i + 1] /\ i + 1 \in 1 .. Len(left[r]) /\ i + 1 # 1
          /\ 1 \in 1 .. Len(left[r])
      BY <1>3
    <3>2. \A j \in 1 .. Len(Tail(left[r])) :
            Tail(left[r])[j] = left[r][j + 1] /\ j + 1 \in 1 .. Len(left[r])
      BY <1>3
    <3>3. KnowsBatch(r)
      OBVIOUS
    <3>4. /\ overdue[left[r][i + 1]] /\ invoice[left[r][i + 1]] # "none"
          /\ left[r][i + 1] \notin done[r]
          /\ \A j \in 1 .. Len(left[r]) : left[r][i + 1] = left[r][j] => i + 1 = j
      BY <3>1, <3>3 DEF KnowsBatch
    <3> QED
      BY <1>3, <3>1, <3>2, <3>4
  <2>2. \A b \in done'[r] :
          /\ owner'[<<"invoice", b>>] = r /\ owner'[<<"application", b>>] = r
          /\ invoice[b] = "pending" /\ overdue[b]
    <3>1. \A b \in done[r] :
            /\ b \in Apps \ {a} /\ owner[<<"invoice", b>>] = r /\ owner[<<"application", b>>] = r
            /\ invoice[b] = "pending" /\ overdue[b]
      <4>1. KnowsBatch(r) /\ done[r] \subseteq Apps
        OBVIOUS
      <4>2. a \notin done[r]
        BY <1>3
      <4> HIDE DEF LocksInv, TypeOK, a, mine
      <4> QED
        BY <4>1, <4>2 DEF KnowsBatch
    <3>2. ASSUME expired
          PROVE  /\ owner'[<<"invoice", a>>] = r /\ owner'[<<"application", a>>] = r
                 /\ invoice[a] = "pending"
      <4>1. owner[<<"invoice", a>>] = r /\ invoice[a] = "pending"
        <5>1. KnowsBatch(r) /\ pc[r] = "application"
          BY <3>2
        <5> QED
          BY <1>3, <5>1 DEF KnowsBatch
      <4>2. Wanted(r) = <<"application", a>> /\ keep
        BY <1>5, <3>2
      <4> QED
        BY <1>1, <1>3, <4>1, <4>2 DEF Rows
    <3>3. \A b \in done[r] : /\ owner'[<<"invoice", b>>] = r
                            /\ owner'[<<"application", b>>] = r
      BY <1>6, <3>1
    <3>4. overdue[a] /\ done'[r] = IF expired THEN done[r] \cup {a} ELSE done[r]
      BY <1>3, <1>4
    <3> SUFFICES ASSUME NEW b \in done'[r]
                 PROVE  /\ owner'[<<"invoice", b>>] = r /\ owner'[<<"application", b>>] = r
                        /\ invoice[b] = "pending" /\ overdue[b]
      OBVIOUS
    <3> HIDE DEF LocksInv, TypeOK, a, mine
    <3>5. CASE b \in done[r]
      BY <3>1, <3>3, <3>5
    <3>6. CASE expired /\ b = a
      BY <3>2, <3>4, <3>6
    <3> QED
      BY <3>4, <3>5, <3>6
  <2>3. pc'[r] # "application"
    BY <1>4
  <2> QED
    BY <1>2, <1>4, <2>1, <2>2, <2>3 DEF KnowsBatch
<1>11. Holds(r)'
  <2>1. \A s \in Sources : owner'[<<"source", s>>] # r
    BY <1>6, <1>7 DEF Holds
  <2>2. \A b \in Apps : owner[<<"application", b>>] = r => b \in done[r]
    BY <1>7 DEF Holds
  <2>3. ASSUME owner'[<<"application", a>>] = r
        PROVE  expired
    <3>1. owner[<<"application", a>>] # r
      BY <1>3, <2>2
    <3>2. Nobody # r
      BY SessionsAssumption
    <3> QED
      BY <1>1, <1>3, <1>5, <2>3, <3>1, <3>2 DEF Rows
  <2>4. \A b \in Apps : owner'[<<"application", b>>] = r => b \in done'[r]
    BY <1>4, <1>6, <2>2, <2>3
  <2> QED
    BY <1>4, <2>1, <2>4 DEF Holds, Sources
<1> QED
  BY <1>8, <1>9, <1>10, <1>11 DEF Keeps

\* The invoice, re-read under its lock, is pending when a request or a sweep goes on to
\* the application.
LEMMA LockInvoiceKeeps ==
  ASSUME LocksInv, NEW r \in Sessions, LockInvoice(r)
  PROVE  Keeps(r)'
<1> USE DEF LocksInv, TypeOK
<1> DEFINE a == Target(r)
<1>0. pc[r] = "invoice" /\ (job[r].kind = "sweep" \/ Settles(r))
  BY JobCases DEF LockInvoice, Shape, Settles, NoJob
<1>1. CASE Refuse(r)
  BY <1>1, ReleaseKeeps DEF Refuse
<1>2. CASE NextRow(r, FALSE, TRUE) /\ job[r].kind = "sweep"
  BY <1>0, <1>2, NextRowKeeps
<1>3. CASE ~ Refuse(r) /\ ~ (job[r].kind = "sweep" /\ NextRow(r, FALSE, TRUE))
  <2>1. /\ Proceed(r, "application")
        /\ invoice[a] = "pending"
        /\ Settles(r) => Committed!SplitFits(a, amount[job[r].source])
    BY <1>0, <1>3 DEF LockInvoice, Settles
  <2>2. /\ pc'[r] = "application" /\ Wanted(r) = <<"invoice", a>>
        /\ owner' = [owner EXCEPT ![<<"invoice", a>>] = r]
        /\ UNCHANGED <<inv, invoice, overdue, amount, state, conf, maker, job, left, done>>
    BY <1>0, <2>1 DEF Proceed, Take, Goto, Wanted, rowVars
  <2>3. a \in Apps
    BY <1>0, BatchHead, TargetExists
  <2>4. owner'[<<"invoice", a>>] = r
    BY <2>2, <2>3 DEF Rows
  <2>5. /\ \A s \in Sources : owner'[<<"source", s>>] = owner[<<"source", s>>]
        /\ \A b \in Apps : owner'[<<"application", b>>] = owner[<<"application", b>>]
        /\ \A b \in Apps : owner[<<"invoice", b>>] = r => owner'[<<"invoice", b>>] = r
    BY <2>2 DEF Rows
  <2>6. Settles(r)' <=> Settles(r)
    BY <2>2 DEF Settles
  <2>7. Target(r)' = a
    BY <2>2 DEF Target
  <2>8. Shape(r)'
    BY <1>0, <2>2, <2>6 DEF Shape, Settles
  <2>9. KnowsSource(r)'
    <3>1. KnowsSource(r)
      OBVIOUS
    <3>2. Settles(r) => job[r].source \in Sources
      BY TargetExists
    <3> HIDE DEF LocksInv, TypeOK
    <3> QED
      BY <1>0, <2>2, <2>5, <2>6, <3>1, <3>2 DEF KnowsSource, Settles
  <2>10. KnowsInvoice(r)'
    BY <1>0, <2>1, <2>2, <2>4, <2>6, <2>7 DEF KnowsInvoice, Committed!SplitFits, Settles
  <2>11. KnowsBatch(r)'
    <3>1. \A i \in 1 .. Len(left[r]) :
            /\ overdue[left[r][i]] /\ invoice[left[r][i]] # "none"
            /\ left[r][i] \notin done[r]
            /\ \A j \in 1 .. Len(left[r]) : left[r][i] = left[r][j] => i = j
      BY DEF KnowsBatch
    <3>2. \A b \in done[r] :
            /\ owner'[<<"invoice", b>>] = r /\ owner'[<<"application", b>>] = r
            /\ invoice[b] = "pending" /\ overdue[b]
      <4>1. KnowsBatch(r) /\ done[r] \subseteq Apps
        OBVIOUS
      <4> HIDE DEF LocksInv, TypeOK
      <4> QED
        BY <2>5, <4>1 DEF KnowsBatch
    <3>3. job[r].kind = "sweep" => a = Head(left[r])
      BY <1>0, BatchHead
    <3> HIDE DEF LocksInv, TypeOK, a
    <3> QED
      BY <2>1, <2>2, <2>4, <3>1, <3>2, <3>3 DEF KnowsBatch
  <2>12. Holds(r)'
    <3>1. Holds(r)
      OBVIOUS
    <3> HIDE DEF LocksInv, TypeOK
    <3>2. \A s \in Sources : owner'[<<"source", s>>] = r => Settles(r)
      BY <1>0, <2>5, <3>1 DEF Holds, Settles
    <3>3. \A b \in Apps : owner'[<<"application", b>>] = r => job[r].kind = "sweep" /\ b \in done[r]
      BY <1>0, <2>5, <3>1 DEF Holds, Settles
    <3> QED
      BY <1>0, <2>2, <2>6, <3>2, <3>3 DEF Holds, Sources
  <2> QED
    BY <2>8, <2>9, <2>10, <2>11, <2>12 DEF Keeps
<1> QED
  BY <1>1, <1>2, <1>3

\* An application that its owner may withdraw has no invoice to wait for.
LEMMA NothingInForce ==
  ASSUME LocksInv, NEW a \in Apps, application[a] \in CANCELLABLE_BY_APPLICANT_STATUSES
  PROVE  ~ Committed!InForce(a)
BY DEF LocksInv, Committed!Inductive, Committed!InvoiceFollowsApplication, Committed!InForce,
       Committed!UNDECIDED_STATUSES, CANCELLABLE_BY_APPLICANT_STATUSES

\* The application may still move when a request has it: the request commits.
LEMMA LockApplicationKeeps ==
  ASSUME LocksInv, NEW r \in Sessions, LockApplication(r)
  PROVE  Keeps(r)'
<1> USE DEF LocksInv, TypeOK
<1> DEFINE a == Target(r)
<1>0. pc[r] = "application" /\ job[r].kind \in {"sweep", "withdraw", "perform", "confirm"}
  BY JobCases DEF LockApplication, Shape, Settles, NoJob
<1>1. CASE Refuse(r)
  BY <1>1, ReleaseKeeps DEF Refuse
<1>2. CASE job[r].kind = "sweep"
  <2>1. NextRow(r, TRUE, TRUE) \/ NextRow(r, FALSE, FALSE)
    BY <1>2 DEF LockApplication
  <2> QED
    BY <1>0, <1>2, <2>1, NextRowKeeps
<1>3. CASE ~ Refuse(r) /\ job[r].kind # "sweep"
  <2>1. a \in Apps /\ (job[r].kind = "withdraw" => a = job[r].app)
    BY <1>0, <1>3, JobCases, TargetExists DEF Target, Settles
  <2>2. /\ Proceed(r, "commit")
        /\ job[r].kind = "withdraw" => application[a] \in CANCELLABLE_BY_APPLICANT_STATUSES
    BY <1>0, <1>3, <2>1, NothingInForce DEF LockApplication
  <2>3. /\ pc'[r] = "commit"
        /\ owner' = [owner EXCEPT ![<<"application", a>>] = r]
        /\ UNCHANGED <<inv, application, invoice, overdue, amount, state, conf, maker, job,
                       left, done>>
    BY <1>0, <2>2 DEF Proceed, Take, Goto, Wanted, rowVars
  <2>4. owner'[<<"application", a>>] = r
    BY <2>1, <2>3 DEF Rows
  <2>5. /\ \A s \in Sources : owner'[<<"source", s>>] = owner[<<"source", s>>]
        /\ \A b \in Apps : owner'[<<"invoice", b>>] = owner[<<"invoice", b>>]
    BY <2>3 DEF Rows
  <2>6. Settles(r)' <=> Settles(r)
    BY <2>3 DEF Settles
  <2>7. Target(r)' = a
    BY <2>3 DEF Target
  <2>8. left[r] = <<>> /\ done[r] = {}
    BY <1>3 DEF Shape
  <2>9. Shape(r)'
    BY <1>0, <1>3, <2>3, <2>6, <2>8 DEF Shape, Settles, NoJob
  <2>10. KnowsSource(r)'
    <3>1. KnowsSource(r)
      OBVIOUS
    <3>2. Settles(r) => job[r].source \in Sources
      BY TargetExists
    <3> HIDE DEF LocksInv, TypeOK
    <3> QED
      BY <1>0, <2>3, <2>5, <2>6, <3>1, <3>2 DEF KnowsSource, Settles
  <2>11. KnowsInvoice(r)'
    <3>1. KnowsInvoice(r)
      OBVIOUS
    <3>2. Settles(r) => /\ owner[<<"invoice", a>>] = r /\ invoice[a] = "pending"
                        /\ Committed!SplitFits(a, amount[job[r].source])
      BY <1>0, <3>1 DEF KnowsInvoice
    <3> HIDE DEF LocksInv, TypeOK, a
    <3> QED
      BY <2>1, <2>2, <2>3, <2>4, <2>5, <2>6, <2>7, <3>2
      DEF KnowsInvoice, Committed!SplitFits, CANCELLABLE_BY_APPLICANT_STATUSES
  <2>12. KnowsBatch(r)'
    BY <1>3, <2>3, <2>8 DEF KnowsBatch
  <2>13. Holds(r)'
    <3>1. Holds(r)
      OBVIOUS
    <3> HIDE DEF LocksInv, TypeOK
    <3>2. \A s \in Sources : owner'[<<"source", s>>] = r => Settles(r)
      BY <1>0, <2>5, <3>1 DEF Holds, Settles
    <3>3. \A b \in Apps : owner'[<<"invoice", b>>] = r => Settles(r)
      BY <1>3, <2>5, <3>1 DEF Holds
    <3> QED
      BY <1>0, <1>3, <2>3, <2>6, <3>2, <3>3 DEF Holds, Sources, Settles
  <2> QED
    BY <2>9, <2>10, <2>11, <2>12, <2>13 DEF Keeps
<1> QED
  BY <1>1, <1>2, <1>3

\* PostgreSQL ends a deadlock: a sweep loses its row's savepoint, another request ends.
LEMMA VictimKeeps ==
  ASSUME LocksInv, NEW r \in Sessions, Victim(r)
  PROVE  Keeps(r)'
<1>1. Waiting(r)
  BY DEF Victim, Deadlocked, WaitsFor
<1>2. CASE job[r].kind = "sweep"
  <2>1. pc[r] \in {"invoice", "application"}
    BY <1>1, <1>2 DEF LocksInv, Shape, Waiting
  <2> QED
    BY <1>2, <2>1, NextRowKeeps DEF Victim
<1>3. CASE job[r].kind # "sweep"
  BY <1>3, ReleaseKeeps DEF Victim, Refuse
<1> QED
  BY <1>2, <1>3

\* Every move of a session.
LEMMA AloneKeeps ==
  ASSUME LocksInv, NEW r \in Sessions, Alone(r)
  PROVE  Keeps(r)'
<1>1. Fail(r) => Keeps(r)'
  BY ReleaseKeeps DEF Fail, Refuse
<1> QED
  BY <1>1, ServeKeeps, SweepKeeps, LockSourceKeeps, LockInvoiceKeeps, LockApplicationKeeps,
     VictimKeeps DEF Alone

-----------------------------------------------------------------------------
(* The inductive invariant.                                                 *)

\* Every move of a session, a commit included, keeps the types of the session's variables.
LEMMA SessionTypes ==
  ASSUME LocksInv, NEW r \in Sessions, Alone(r) \/ Commit(r) \/ CommitReversal(r)
  PROVE  /\ pc' \in [Sessions -> PCS]
         /\ job' \in [Sessions -> Jobs \cup {NoJob}]
         /\ left' \in [Sessions -> Seq(Apps)]
         /\ done' \in [Sessions -> SUBSET Apps]
         /\ owner' \in [Rows -> Sessions \cup {Nobody}]
<1> DEFINE Types == /\ pc' \in [Sessions -> PCS]
                    /\ job' \in [Sessions -> Jobs \cup {NoJob}]
                    /\ left' \in [Sessions -> Seq(Apps)]
                    /\ done' \in [Sessions -> SUBSET Apps]
                    /\ owner' \in [Rows -> Sessions \cup {Nobody}]
<1>0. /\ pc \in [Sessions -> PCS]
      /\ job \in [Sessions -> Jobs \cup {NoJob}]
      /\ left \in [Sessions -> Seq(Apps)]
      /\ done \in [Sessions -> SUBSET Apps]
      /\ owner \in [Rows -> Sessions \cup {Nobody}]
  BY DEF LocksInv, TypeOK
<1>1. Release(r) => Types
  BY <1>0 DEF Release, Goto, PCS
<1>2. ASSUME NEW step \in PCS, Proceed(r, step)
      PROVE  Types
  BY <1>0, <1>2 DEF Proceed, Take, Goto
<1>3. ASSUME NEW expired, NEW keep, NextRow(r, expired, keep),
             job[r].kind = "sweep", pc[r] # "commit"
      PROVE  Types
  <2>1. Target(r) \in Apps /\ Tail(left[r]) \in Seq(Apps)
    BY <1>3, BatchHead
  <2> QED
    BY <1>0, <1>3, <2>1 DEF NextRow, Goto, PCS
<1>4. ASSUME NEW j \in Jobs, Serve(r, j)
      PROVE  Types
  BY <1>0, <1>4 DEF Serve, Goto, PCS
<1>5. ASSUME NEW batch \in SetToSeqs({a \in Apps : invoice[a] = "pending" /\ overdue[a]}),
             BeginSweep(r, batch)
      PROVE  Types
  <2>1. batch \in Seq(Apps)
    BY <1>5, SweepKeeps
  <2> QED
    BY <1>0, <1>5, <2>1 DEF BeginSweep, Goto, PCS, Jobs
<1> SUFFICES Types
  OBVIOUS
<1> HIDE DEF Types
<1>6. CASE LockSource(r)
  BY <1>1, <1>2, <1>6 DEF LockSource, Refuse, PCS
<1>7. CASE LockInvoice(r)
  <2>1. pc[r] # "commit"
    BY <1>7 DEF LockInvoice
  <2> QED
    BY <1>1, <1>2, <1>3, <1>7, <2>1 DEF LockInvoice, Refuse, PCS
<1>8. CASE LockApplication(r)
  <2>1. pc[r] # "commit"
    BY <1>8 DEF LockApplication
  <2> QED
    BY <1>1, <1>2, <1>3, <1>8, <2>1 DEF LockApplication, Refuse, PCS
<1>9. CASE Victim(r)
  <2>1. pc[r] # "commit"
    BY <1>9 DEF Victim, Deadlocked, WaitsFor, Waiting
  <2> QED
    BY <1>1, <1>3, <1>9, <2>1 DEF Victim, Refuse
<1>10. CASE Fail(r) \/ Commit(r) \/ CommitReversal(r)
  BY <1>1, <1>10 DEF Fail, Refuse, Commit, CommitReversal
<1> QED
  BY <1>4, <1>5, <1>6, <1>7, <1>8, <1>9, <1>10 DEF Alone

\* No step of any session breaks the invariant.
LEMMA LocksInductive == LocksInv /\ [Next]_vars => LocksInv'
<1> SUFFICES ASSUME LocksInv, [Next]_vars PROVE LocksInv'
  OBVIOUS
<1>1. Committed!Inductive' /\ Proved!Stays
  BY RequestIsStep, CommittedStep DEF LocksInv
<1>2. Committed!TypeOK'
  BY <1>1 DEF Committed!Inductive
<1>3. CASE OneLock \/ NoLock \/ Insert \/ UNCHANGED vars
  <2>1. UNCHANGED sessionVars
    BY <1>3 DEF OneLock, NoLock, Insert, vars
  <2>2. TypeOK'
    BY <1>2, <2>1
    DEF LocksInv, TypeOK, sessionVars, PCS, Jobs, NoJob, Rows, Sources
  <2>3. ASSUME NEW r \in Sessions
        PROVE  Keeps(r)'
    <3>1. Still(r)
      BY <2>1 DEF Still, sessionVars
    <3>2. UNCHANGED vars => Protected(r)
      BY DEF vars, rowVars, Protected
    <3> QED
      BY <1>1, <1>3, <3>1, <3>2, WholeProtects, StillKeeps
  <2> QED
    BY <1>1, <2>2, <2>3 DEF LocksInv, Keeps
<1>4. ASSUME NEW q \in Sessions, Alone(q) \/ Commit(q) \/ CommitReversal(q)
      PROVE  LocksInv'
  <2>1. TypeOK'
    <3>1. /\ pc' \in [Sessions -> PCS]
          /\ job' \in [Sessions -> Jobs \cup {NoJob}]
          /\ left' \in [Sessions -> Seq(Apps)]
          /\ done' \in [Sessions -> SUBSET Apps]
          /\ owner' \in [Rows -> Sessions \cup {Nobody}]
      BY <1>4, SessionTypes
    <3> QED
      BY <1>2, <3>1 DEF TypeOK, PCS, Jobs, NoJob, Rows, Sources
  <2>2. Keeps(q)'
    <3>1. Commit(q) \/ CommitReversal(q) => Release(q)
      BY DEF Commit, CommitReversal
    <3> QED
      BY <1>4, <3>1, AloneKeeps, ReleaseKeeps
  <2>3. ASSUME NEW r \in Sessions, r # q
        PROVE  Keeps(r)'
    <3>1. Still(r)
      BY <1>4, <2>3, OthersStill
    <3>2. Protected(r)
      <4>1. UNCHANGED rowVars => Protected(r)
        BY DEF rowVars, Protected
      <4> QED
        BY <1>4, <2>3, <4>1, AloneWritesNothing, CommitProtects
    <3> QED
      BY <1>1, <3>1, <3>2, StillKeeps
  <2> QED
    BY <1>1, <2>1, <2>2, <2>3 DEF LocksInv, Keeps
<1> QED
  BY <1>3, <1>4, NextCases

\* It holds when the tables are empty and every session is idle.
LEMMA LocksInitially == Init => LocksInv
<1> SUFFICES ASSUME Init PROVE LocksInv
  OBVIOUS
<1> USE DEF Init
<1>1. Committed!Inductive
  BY Proved!InitInductive, SameRows, SessionsAssumption
<1>2. TypeOK
  BY <1>1, EmptySeq DEF Committed!Inductive, TypeOK, PCS
<1>3. ASSUME NEW r \in Sessions
      PROVE  Shape(r) /\ KnowsSource(r) /\ KnowsInvoice(r) /\ KnowsBatch(r) /\ Holds(r)
  <2>1. pc[r] = "idle" /\ job[r] = NoJob /\ left[r] = <<>> /\ done[r] = {}
    BY <1>3
  <2>2. \A row \in Rows : owner[row] # r
    BY <1>3, SessionsAssumption
  <2>3. job[r].kind = "none"
    BY <2>1 DEF NoJob
  <2>4. Shape(r) /\ KnowsSource(r) /\ KnowsInvoice(r)
    BY <2>1, <2>3 DEF Shape, KnowsSource, KnowsInvoice, Settles
  <2>5. KnowsBatch(r)
    BY <2>1, <2>3 DEF KnowsBatch
  <2>6. Holds(r)
    BY <2>2 DEF Holds, Rows
  <2> QED
    BY <2>4, <2>5, <2>6
<1> QED
  BY <1>1, <1>2, <1>3 DEF LocksInv

\* The invariant holds of every behaviour.
LEMMA LocksInvariant == Spec => []LocksInv
BY LocksInitially, LocksInductive, PTL DEF Spec

-----------------------------------------------------------------------------
(* No circle of waiting requests, but one of sweeps.                        *)

\* The row a session waits for, by the point it is at.
LEMMA WantedRow ==
  ASSUME LocksInv, NEW r \in Sessions, Waiting(r)
  PROVE  \/ /\ pc[r] = "source" /\ job[r].source \in Sources
            /\ Wanted(r) = <<"source", job[r].source>>
            /\ job[r].kind # "sweep" /\ job[r].kind # "withdraw"
         \/ /\ pc[r] \in {"share", "invoice"} /\ Target(r) \in Apps
            /\ Wanted(r) = <<"invoice", Target(r)>>
         \/ /\ pc[r] = "application" /\ Target(r) \in Apps
            /\ Wanted(r) = <<"application", Target(r)>>
<1>1. Shape(r) /\ pc[r] \in {"source", "share", "invoice", "application"}
  BY DEF LocksInv, Waiting
<1>2. CASE Settles(r) \/ job[r].kind = "reverse"
  <2>1. job[r].source \in Sources /\ Target(r) \in Apps
    BY <1>2, TargetExists
  <2> QED
    BY <1>1, <1>2, <2>1 DEF Wanted, Settles
<1>3. CASE job[r].kind = "withdraw"
  <2>1. Target(r) \in Apps
    BY <1>3, JobCases DEF LocksInv, Target
  <2> QED
    BY <1>1, <1>3, <2>1 DEF Wanted, Shape
<1>4. CASE job[r].kind = "sweep"
  <2>1. pc[r] \in {"invoice", "application"}
    BY <1>1, <1>4 DEF Shape
  <2>2. Target(r) \in Apps
    BY <1>4, <2>1, BatchHead
  <2> QED
    BY <2>1, <2>2 DEF Wanted
<1> QED
  BY <1>1, <1>2, <1>3, <1>4, JobCases DEF LocksInv, Shape, Settles, NoJob

\* In a circle nobody waits for a transaction or a confirmation: whoever does has no lock
\* for the circle to wait for.
LEMMA NobodyAtSource ==
  ASSUME LocksInv, NEW Q \in SUBSET Sessions, Deadlocked(Q), NEW p \in Q
  PROVE  pc[p] # "source"
<1> SUFFICES ASSUME pc[p] = "source" PROVE FALSE
  OBVIOUS
<1>1. PICK q \in Q : WaitsFor(q, p)
  BY DEF Deadlocked
<1>2. owner[Wanted(q)] = p /\ Waiting(q) /\ Waiting(p)
  BY <1>1 DEF Deadlocked, WaitsFor
<1>3. Holds(p) /\ job[p].kind # "sweep"
  BY <1>2, WantedRow DEF LocksInv
<1> QED
  BY <1>2, <1>3, WantedRow DEF Holds

\* A request in a circle that is not a sweep holds an invoice and waits for its
\* application, which only a sweep can hold; but that sweep would have the invoice too.
LEMMA CirclesAreSweeps == LocksInv => OnlySweepsDeadlock
<1> SUFFICES ASSUME LocksInv, NEW Q \in SUBSET Sessions, Deadlocked(Q), NEW p \in Q,
                    job[p].kind # "sweep"
             PROVE  FALSE
  BY DEF OnlySweepsDeadlock
<1>1. PICK z \in Q : WaitsFor(z, p)
  BY DEF Deadlocked
<1>2. PICK q \in Q : WaitsFor(p, q)
  BY DEF Deadlocked
<1>3. /\ owner[Wanted(z)] = p /\ owner[Wanted(p)] = q /\ p # q
      /\ Waiting(z) /\ Waiting(p)
  BY <1>1, <1>2 DEF WaitsFor
<1>4. Waiting(q)
  BY DEF Deadlocked, WaitsFor
<1>5. pc[p] # "commit" /\ pc[q] # "commit"
  BY <1>3, <1>4 DEF Waiting
<1>6. Settles(p) /\ pc[p] = "application"
  <2>1. Holds(p)
    BY DEF LocksInv
  <2>2. pc[z] # "source"
    BY NobodyAtSource
  <2>3. \/ \E a \in Apps : owner[<<"invoice", a>>] = p
        \/ \E a \in Apps : owner[<<"application", a>>] = p
    BY <1>3, <2>2, WantedRow
  <2> QED
    BY <1>5, <2>1, <2>3 DEF Holds
<1>7. /\ Target(p) \in Apps /\ owner[<<"application", Target(p)>>] = q
      /\ owner[<<"invoice", Target(p)>>] = p
  BY <1>3, <1>6, WantedRow DEF LocksInv, KnowsInvoice
<1>8. Target(p) \in done[q]
  BY <1>5, <1>7 DEF LocksInv, Holds
<1>9. owner[<<"invoice", Target(p)>>] = q
  BY <1>8 DEF LocksInv, KnowsBatch
<1> QED
  BY <1>3, <1>7, <1>9

\* At most one sweep, where the scheduler runs at most one.
OneSweep ==
  \A q, r \in Sessions : job[q].kind = "sweep" /\ job[r].kind = "sweep" => q = r

\* A second sweep does not begin beside the first.
LEMMA SweepsAreCounted ==
  ASSUME MaxSweeps <= 1, LocksInv, OneSweep, [Next]_vars
  PROVE  OneSweep'
<1>1. ASSUME NEW r \in Sessions,
             NEW batch \in SetToSeqs({a \in Apps : invoice[a] = "pending" /\ overdue[a]}),
             BeginSweep(r, batch)
      PROVE  OneSweep'
  <2> DEFINE S == {q \in Sessions : job[q].kind = "sweep"}
  <2>1. IsFiniteSet(S) /\ Cardinality(S) \in Nat
    BY SessionsAssumption, FS_Subset, FS_CardinalityType
  <2>2. Cardinality(S) = 0
    BY <1>1, <2>1, SessionsAssumption DEF BeginSweep
  <2>3. S = {}
    BY <2>1, <2>2, FS_EmptySet
  <2>4. job' = [job EXCEPT ![r] = [kind |-> "sweep"]]
    BY <1>1 DEF BeginSweep
  <2> QED
    BY <2>3, <2>4 DEF OneSweep, LocksInv, TypeOK
<1>2. ASSUME NEW r \in Sessions, Alone(r) \/ Commit(r) \/ CommitReversal(r),
             \A batch \in SetToSeqs({a \in Apps : invoice[a] = "pending" /\ overdue[a]}) :
               ~ BeginSweep(r, batch)
      PROVE  OneSweep'
  <2>1. \A q \in Sessions \ {r} : job'[q] = job[q]
    BY <1>2, OthersStill DEF Still
  <2>2. job'[r].kind = "sweep" => job[r].kind = "sweep"
    <3>1. Release(r) => job'[r].kind = "none"
      BY DEF Release, LocksInv, TypeOK, NoJob
    <3>2. ASSUME NEW j \in Jobs \ {[kind |-> "sweep"]}, Serve(r, j)
          PROVE  job'[r].kind # "sweep"
      BY <3>2 DEF Serve, Jobs, LocksInv, TypeOK
    <3>3. Release(r) \/ UNCHANGED job \/ \E j \in Jobs \ {[kind |-> "sweep"]} : Serve(r, j)
      BY <1>2 DEF Alone, LockSource, LockInvoice, LockApplication, Victim, Fail, Commit,
                  CommitReversal, Refuse, Proceed, NextRow
    <3> QED
      BY <3>1, <3>2, <3>3
  <2> QED
    BY <2>1, <2>2 DEF OneSweep
<1>3. CASE OneLock \/ NoLock \/ Insert \/ UNCHANGED vars
  <2>1. UNCHANGED job
    BY <1>3 DEF OneLock, NoLock, Insert, vars, sessionVars
  <2> QED
    BY <2>1 DEF OneSweep
<1> QED
  BY <1>1, <1>2, <1>3, NextCases

-----------------------------------------------------------------------------
(* What the invariant is for.                                               *)

\* The types of the rows, the sessions and the locks.
THEOREM TypeCorrect == Spec => []TypeOK
<1>1. LocksInv => TypeOK
  BY DEF LocksInv
<1> QED
  BY <1>1, LocksInvariant, PTL

\* Every interleaving of locks and commits is a behaviour of Settlement, in which each
\* request is one step: what a request decided is still so when it commits.
THEOREM RequestsImplementSettlement == Spec => AtomicRequests
<1>1. Init => Committed!Init
  BY DEF Init
<1>2. LocksInv /\ [Next]_vars => [Committed!Next]_(Committed!vars)
  BY RequestIsStep
<1> QED
  BY <1>1, <1>2, LocksInvariant, PTL DEF Spec, AtomicRequests

\* What Settlement promises of the committed rows holds between the steps of any number of
\* interleaved requests.
THEOREM CommittedRowsAreSettled ==
  Spec => [](/\ Committed!SettledOnce
             /\ Committed!InvoiceFollowsApplication
             /\ Committed!LedgerMatchesProvider
             /\ Committed!ManualNeedsTwo
             /\ Committed!DiscrepancyRegistered)
<1>1. LocksInv => /\ Committed!SettledOnce
                  /\ Committed!InvoiceFollowsApplication
                  /\ Committed!LedgerMatchesProvider
                  /\ Committed!ManualNeedsTwo
                  /\ Committed!DiscrepancyRegistered
  BY DEF LocksInv, Committed!Inductive
<1> QED
  BY <1>1, LocksInvariant, PTL

\* Requests of different kinds never wait for each other in a circle.
THEOREM LockOrderHolds == Spec => []OnlySweepsDeadlock
  BY CirclesAreSweeps, LocksInvariant, PTL

\* Where at most one sweep runs at a time, no requests wait for each other in a circle at
\* all: what the comment on the order of the locks promises.
THEOREM OneSweepNeverDeadlocks == MaxSweeps <= 1 => (Spec => []NoLockCycle)
<1> SUFFICES ASSUME MaxSweeps <= 1 PROVE Spec => []NoLockCycle
  OBVIOUS
<1>1. Init => OneSweep
  BY DEF Init, OneSweep, NoJob
<1>2. LocksInv /\ OneSweep /\ [Next]_vars => OneSweep'
  BY SweepsAreCounted
<1>3. LocksInv /\ OneSweep => NoLockCycle
  <2> SUFFICES ASSUME LocksInv, OneSweep, NEW Q \in SUBSET Sessions, Deadlocked(Q)
               PROVE  FALSE
    BY DEF NoLockCycle
  <2>1. \A r \in Q : job[r].kind = "sweep"
    BY CirclesAreSweeps DEF OnlySweepsDeadlock
  <2> QED
    BY <2>1 DEF Deadlocked, WaitsFor, OneSweep
<1> QED
  BY <1>1, <1>2, <1>3, LocksInvariant, PTL DEF Spec
=============================================================================
