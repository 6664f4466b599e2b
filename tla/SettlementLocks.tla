-------------------------- MODULE SettlementLocks --------------------------
(***************************************************************************)
(* The requests of Settlement, taken apart at their row locks.             *)
(*                                                                         *)
(* PostgreSQL runs them at READ COMMITTED: a request takes a row lock      *)
(* (SELECT ... FOR UPDATE, re-reading the row), decides by what the row    *)
(* says, goes on to the next lock, and writes what it decided when it      *)
(* commits, without looking again.  The order of the locks is              *)
(*                                                                         *)
(*   transaction or confirmation  ->  invoice  ->  application             *)
(*                                                                         *)
(* except for the owner's cancellation, which holds the application before *)
(* it reaches for an invoice in force.  What has to be shown is that every *)
(* commit is one atomic step of Settlement, and that no requests wait for  *)
(* each other in a circle.                                                 *)
(***************************************************************************)
EXTENDS ApplicationStatus, Integers, FiniteSets, SequencesExt

CONSTANTS
  Apps, Txns, Confs, Staff, Amounts, Price, Exempt, SplitFloor, NoApp, Nobody,
  Sessions,   \* database sessions that serve the locking requests
  MaxSweeps   \* how many of them may run the nightly sweep at once

\* What Settlement assumes, of the same rows; a table is finite, and so is the pool of
\* database connections.
ASSUME SessionsAssumption ==
  /\ Txns \cap Confs = {}
  /\ IsFiniteSet(Apps)
  /\ Amounts \subseteq Nat \ {0}
  /\ Price \in [Apps -> Nat]
  /\ Exempt \subseteq Apps
  /\ SplitFloor \in [Apps -> Nat]
  /\ NoApp \notin Apps
  /\ Nobody \notin Staff
  /\ Nobody \notin Sessions
  /\ IsFiniteSet(Sessions)
  /\ MaxSweeps \in Nat

VARIABLES
  application, invoice, overdue, inv, state, amount, conf, maker, checker,
  payments, corrections, recon, checked,
  pc,      \* session -> what it does next: the lock it waits for, or "commit"
  job,     \* session -> the request it serves
  left,    \* session -> the rest of a sweep's batch, in its scan's order
  done,    \* session -> the invoices its sweep has expired so far
  owner    \* row -> the session that holds its lock, or Nobody

sessionVars == <<pc, job, left, done, owner>>
rowVars == <<application, invoice, overdue, inv, state, amount, conf, maker, checker,
             payments, corrections, recon, checked>>
vars == <<rowVars, sessionVars>>

\* The committed rows, under the same names.
Committed == INSTANCE Settlement

Sources == Txns \cup Confs
Rows == ({"source"} \X Sources) \cup ({"invoice"} \X Apps) \cup ({"application"} \X Apps)

NoJob == [kind |-> "none"]
Jobs ==
  [kind : {"perform", "reverse"}, source : Txns]
    \cup [kind : {"confirm"}, source : Confs, by : Staff]
    \cup [kind : {"withdraw"}, app : Apps]
    \cup {[kind |-> "sweep"]}

PCS == {"idle", "source", "share", "invoice", "application", "commit"}

-----------------------------------------------------------------------------
\* The application whose rows a request works on; a sweep's is the head of its batch.
Target(r) ==
  CASE job[r].kind = "withdraw" -> job[r].app
    [] job[r].kind = "sweep"    -> Head(left[r])
    [] OTHER                    -> inv[job[r].source]

\* The row a session waits for.  A row inserted behind an invoice takes FOR KEY SHARE on
\* it ("share"), which an invoice locked FOR UPDATE refuses.
Wanted(r) ==
  CASE pc[r] = "source"      -> <<"source", job[r].source>>
    [] pc[r] \in {"invoice", "share"} -> <<"invoice", Target(r)>>
    [] OTHER                 -> <<"application", Target(r)>>

\* Mutated: the row is read without FOR UPDATE.
AvailableUnlocked(r, row) == owner[row] \in Sessions \cup {Nobody}

Available(r, row) == owner[row] \in {r, Nobody}
Waiting(r) == pc[r] \in {"source", "share", "invoice", "application"}
Unlocked(row) == owner[row] = Nobody

Take(r, row) == owner' = [owner EXCEPT ![row] = r]
\* Mutated: a session that ends is never idle again.
GotoForGood(r, step) == pc' = [pc EXCEPT ![r] = IF step = "idle" THEN "closed" ELSE step]

Goto(r, step) == pc' = [pc EXCEPT ![r] = step]

\* The end of a transaction: every lock goes at once.
Release(r) ==
  /\ owner' = [row \in Rows |-> IF owner[row] = r THEN Nobody ELSE owner[row]]
  /\ Goto(r, "idle")
  /\ job' = [job EXCEPT ![r] = NoJob]
  /\ left' = [left EXCEPT ![r] = <<>>]
  /\ done' = [done EXCEPT ![r] = {}]

\* A refusal, or a failure: the transaction ends and its writes are not there.
Refuse(r) == Release(r) /\ UNCHANGED rowVars

\* The request holds the row it wanted and goes on.
Proceed(r, step) ==
  /\ Take(r, Wanted(r))
  /\ Goto(r, step)
  /\ UNCHANGED <<rowVars, job, left, done>>

\* Mutated: a row that did not expire is tried again.
NextRowRetries(r, expired, keep) ==
  LET a == Target(r)
      mine == {<<"invoice", a>>, <<"application", a>>}
  IN /\ owner' = [row \in Rows |->
                    IF row \notin mine THEN owner[row]
                    ELSE IF keep THEN (IF row = Wanted(r) THEN r ELSE owner[row])
                    ELSE IF owner[row] = r THEN Nobody ELSE owner[row]]
     /\ left' = [left EXCEPT ![r] = IF expired THEN Tail(@) ELSE @]
     /\ done' = [done EXCEPT ![r] = IF expired THEN @ \cup {a} ELSE @]
     /\ Goto(r, IF expired /\ Len(left[r]) = 1 THEN "commit" ELSE "invoice")
     /\ UNCHANGED <<rowVars, job>>

\* A sweep's row is over: keep its locks (released savepoint) or give them back (rolled
\* back savepoint), and go on to the next row or to the commit.
NextRow(r, expired, keep) ==
  LET a == Target(r)
      mine == {<<"invoice", a>>, <<"application", a>>}
  IN /\ owner' = [row \in Rows |->
                    IF row \notin mine THEN owner[row]
                    ELSE IF keep THEN (IF row = Wanted(r) THEN r ELSE owner[row])
                    ELSE IF owner[row] = r THEN Nobody ELSE owner[row]]
     /\ left' = [left EXCEPT ![r] = Tail(@)]
     /\ done' = [done EXCEPT ![r] = IF expired THEN @ \cup {a} ELSE @]
     /\ Goto(r, IF Len(left[r]) = 1 THEN "commit" ELSE "invoice")
     /\ UNCHANGED <<rowVars, job>>

-----------------------------------------------------------------------------
Init ==
  /\ Committed!Init
  /\ pc = [r \in Sessions |-> "idle"]
  /\ job = [r \in Sessions |-> NoJob]
  /\ left = [r \in Sessions |-> <<>>]
  /\ done = [r \in Sessions |-> {}]
  /\ owner = [row \in Rows |-> Nobody]

-----------------------------------------------------------------------------
(* A request of one lock is one critical section: it runs in one step, when *)
(* nobody else holds its row.  A request that only inserts a row behind an  *)
(* invoice waits while that invoice is locked.                              *)

OneLock ==
  /\ UNCHANGED sessionVars
  /\ \/ \E a \in Apps :
          /\ Unlocked(<<"application", a>>)
          /\ \/ Committed!Approve(a)
             \/ \E to \in APPLICATION_STATUSES :
                  Committed!Review(a, to) \/ Committed!AfterPayment(a, to)
     \/ \E t \in Txns :
          /\ Unlocked(<<"source", t>>)
          /\ state[t] = "1"
          /\ \/ Committed!CreateTransactionExisting(t)
             \/ Committed!PerformTransaction(t, TRUE)
             \/ Committed!CancelTransaction(t)
     \/ \E c \in Confs, k \in Staff :
          /\ Unlocked(<<"source", c>>)
          /\ Committed!CheckManualConfirmation(c, k, FALSE)

NoLock ==
  /\ UNCHANGED sessionVars
  /\ \/ \E a \in Apps :
          \/ Committed!InvoiceFallsDue(a)
          \/ \E t \in Txns : Committed!CheckInvoiceForPayment(t, a)
          \/ \E c \in Confs : Committed!BeginFiling(c, a)
     \/ \E s \in Sources : Committed!Abandon(s) \/ Committed!ResolveReconciliation(s)

Insert ==
  /\ UNCHANGED sessionVars
  /\ \E s \in Sources :
       /\ checked[s] \in Apps
       /\ Unlocked(<<"invoice", checked[s]>>)
       /\ \/ s \in Txns /\ Committed!CreateTransaction(s)
          \/ s \in Confs /\ \E k \in Staff, n \in Amounts :
                              Committed!FileManualConfirmation(s, k, n)

-----------------------------------------------------------------------------
(* A request of several locks, session by session.                          *)

\* A request whose row exists arrives; a cancellation starts from the application.
Serve(r, j) ==
  /\ pc[r] = "idle"
  /\ j.kind \in {"perform", "reverse"} => state[j.source] # "none"
  /\ j.kind = "confirm" => conf[j.source] # "none"
  /\ job' = [job EXCEPT ![r] = j]
  /\ Goto(r, IF j.kind = "withdraw" THEN "application" ELSE "source")
  /\ UNCHANGED <<rowVars, left, done, owner>>

\* list_invoices_past_due: an unlocked scan, in whatever order the rows come.
BeginSweep(r, batch) ==
  /\ pc[r] = "idle"
  /\ Cardinality({q \in Sessions : job[q].kind = "sweep"}) < MaxSweeps
  /\ batch # <<>>
  /\ job' = [job EXCEPT ![r] = [kind |-> "sweep"]]
  /\ left' = [left EXCEPT ![r] = batch]
  /\ Goto(r, "invoice")
  /\ UNCHANGED <<rowVars, done, owner>>

\* The transaction or the confirmation, read again under its lock.
LockSource(r) ==
  /\ pc[r] = "source"
  /\ Available(r, Wanted(r))
  /\ LET s == job[r].source IN
       CASE job[r].kind = "perform" /\ state[s] = "1" -> Proceed(r, "invoice")
         [] job[r].kind = "reverse" /\ state[s] = "2" -> Proceed(r, "share")
         [] job[r].kind = "confirm" /\ conf[s] = "pending_check" /\ maker[s] # job[r].by
              -> Proceed(r, "invoice")
         [] OTHER -> Refuse(r)

\* get_invoice_for_update, which re-reads the row.
LockInvoice(r) ==
  /\ pc[r] = "invoice"
  /\ Available(r, Wanted(r))
  /\ LET payable == invoice[Target(r)] = "pending" IN
       CASE job[r].kind = "sweep" ->
              IF payable THEN Proceed(r, "application") ELSE NextRow(r, FALSE, TRUE)
         [] job[r].kind = "withdraw" -> Proceed(r, "commit")
         [] OTHER ->
              IF payable /\ Committed!SplitFits(Target(r), amount[job[r].source])
              THEN Proceed(r, "application")
              ELSE Refuse(r)

\* set_status (or cancel, which comes here first).
LockApplication(r) ==
  /\ pc[r] = "application"
  /\ Available(r, Wanted(r))
  /\ LET a == Target(r) IN
       CASE job[r].kind = "sweep" ->
              IF MayMove(application[a], "EXPIRED_UNPAID")
              THEN NextRow(r, TRUE, TRUE)
              ELSE NextRow(r, FALSE, FALSE)
         [] job[r].kind = "withdraw" ->
              IF application[a] \in CANCELLABLE_BY_APPLICANT_STATUSES
              THEN Proceed(r, IF Committed!InForce(a) THEN "invoice" ELSE "commit")
              ELSE Refuse(r)
         [] OTHER ->
              IF MayMove(application[a], "PAID") THEN Proceed(r, "commit") ELSE Refuse(r)

\* What a transaction decided at its locks becomes visible.
Write(r) ==
  LET s == job[r].source
      a == Target(r)
  IN CASE job[r].kind \in {"perform", "confirm"} ->
            /\ state' = [state EXCEPT ![s] = "2"]
            /\ payments' = [payments EXCEPT ![s] = @ + 1]
            /\ invoice' = [invoice EXCEPT ![a] = "paid"]
            /\ application' = [application EXCEPT ![a] = "PAID"]
            /\ IF job[r].kind = "confirm"
               THEN /\ conf' = [conf EXCEPT ![s] = "confirmed"]
                    /\ checker' = [checker EXCEPT ![s] = job[r].by]
               ELSE UNCHANGED <<conf, checker>>
            /\ UNCHANGED <<overdue, inv, amount, maker, corrections, recon, checked>>
       [] job[r].kind = "withdraw" ->
            /\ application' = [application EXCEPT ![a] = "CANCELLED"]
            /\ invoice' = [invoice EXCEPT ![a] = IF @ = "pending" THEN "cancelled" ELSE @]
            /\ UNCHANGED <<overdue, inv, state, amount, conf, maker, checker, payments,
                           corrections, recon, checked>>
       [] job[r].kind = "sweep" ->
            /\ application' = [b \in Apps |-> IF b \in done[r] THEN "EXPIRED_UNPAID"
                                                               ELSE application[b]]
            /\ invoice' = [b \in Apps |-> IF b \in done[r] THEN "expired" ELSE invoice[b]]
            /\ UNCHANGED <<overdue, inv, state, amount, conf, maker, checker, payments,
                           corrections, recon, checked>>

Commit(r) ==
  /\ pc[r] = "commit"
  /\ Write(r)
  /\ Release(r)

\* record_reversal: behind the transaction's lock, correction rows that reference the
\* invoice, and the commit.
CommitReversal(r) ==
  /\ pc[r] = "share"
  /\ Available(r, Wanted(r))
  /\ state' = [state EXCEPT ![job[r].source] = "-2"]
  /\ Committed!RecordReversal(job[r].source)
  /\ Release(r)
  /\ UNCHANGED <<application, invoice, overdue, inv, amount, conf, maker, checker,
                 payments, checked>>

\* The worker dies or the statement fails: PostgreSQL rolls the transaction back.
Fail(r) ==
  /\ pc[r] # "idle"
  /\ Refuse(r)

-----------------------------------------------------------------------------
\* p cannot go on before q's transaction ends.
WaitsFor(p, q) == Waiting(p) /\ p # q /\ owner[Wanted(p)] = q

Deadlocked(Q) ==
  /\ Q # {}
  /\ \A p \in Q : (\E q \in Q : WaitsFor(p, q)) /\ (\E q \in Q : WaitsFor(q, p))

\* PostgreSQL ends a deadlock by failing one statement; in the sweep it is caught by the
\* row's savepoint.
Victim(r) ==
  /\ \E Q \in SUBSET Sessions : r \in Q /\ Deadlocked(Q)
  /\ IF job[r].kind = "sweep" THEN NextRow(r, FALSE, FALSE) ELSE Refuse(r)

Step(r) ==
  LockSource(r) \/ LockInvoice(r) \/ LockApplication(r) \/ CommitReversal(r) \/ Commit(r)

Next ==
  \/ OneLock
  \/ NoLock
  \/ Insert
  \/ \E r \in Sessions :
       \/ \E j \in Jobs \ {[kind |-> "sweep"]} : Serve(r, j)
       \/ \E batch \in SetToSeqs({a \in Apps : invoice[a] = "pending" /\ overdue[a]}) :
            BeginSweep(r, batch)
       \/ Step(r)
       \/ Victim(r)
       \/ Fail(r)

\* A session runs on, and PostgreSQL serves the waiters of a row in turn.
Spec == Init /\ [][Next]_vars /\ \A r \in Sessions : SF_vars(Step(r)) /\ WF_vars(Victim(r))

-----------------------------------------------------------------------------
(* Properties.                                                              *)

TypeOK ==
  /\ Committed!TypeOK
  /\ pc \in [Sessions -> PCS]
  /\ job \in [Sessions -> Jobs \cup {NoJob}]
  /\ left \in [Sessions -> Seq(Apps)]
  /\ done \in [Sessions -> SUBSET Apps]
  /\ owner \in [Rows -> Sessions \cup {Nobody}]

\* What a request decided at its locks is still true when it commits: every interleaving
\* of locks and commits is a behaviour of Settlement, where a request is one step.
AtomicRequests == Committed!Init /\ [][Committed!Next]_(Committed!vars)

\* "... and no cycle is possible": no set of requests waits for each other's rows.
NoLockCycle == \A Q \in SUBSET Sessions : ~ Deadlocked(Q)

\* What does hold: the order of the locks keeps different kinds of request from waiting
\* for each other, so a circle is made of sweeps alone.
OnlySweepsDeadlock ==
  \A Q \in SUBSET Sessions : Deadlocked(Q) => \A r \in Q : job[r].kind = "sweep"

\* Every request ends, committed or refused, whatever rows the others hold.
EveryRequestEnds == \A r \in Sessions : pc[r] # "idle" ~> pc[r] = "idle"
=============================================================================
