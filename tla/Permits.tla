------------------------------ MODULE Permits ------------------------------
(***************************************************************************)
(* The permits of one plot, from the paid application through issuance,    *)
(* signatures, decisions and tickets to the nightly jobs that end them.    *)
(*                                                                         *)
(* A permit has its application's name: permits.application_id is unique.  *)
(* A request that holds a lock is two actions, what it reads under the     *)
(* lock and what it commits; the others are one statement or hold every    *)
(* row they read.                                                          *)
(***************************************************************************)
EXTENDS Integers, FiniteSets, FiniteSetsExt, ApplicationStatus

CONSTANTS
  Permits,      \* permits by id, in the order of the ids
  Parent,       \* the permit an extension extends, or NoPermit
  NoPermit,
  First, Last,  \* periods, both days included
  Load,         \* sb_load, or quantity where the activity is not grazing
  Total,        \* SQL's SUM of it over a set of permits
  Capacities,   \* what published norms may allow, NoNorm among them
  NoNorm,
  Purposes,     \* signature purposes
  RequiredSets, \* what permit_required_signatures may be set to
  BatchSize,    \* BATCH_SIZE of the jobs
  TicketLast,   \* the last day a permit's tickets are asked for
  Broken,       \* permits whose expiry fails every night
  MaxRequests,  \* bound: requests at work at one time
  MaxUnusual,   \* bound: permits that are suspended, were resumed or are archived
  Horizon       \* the last day looked at

NoTicket == -1
Extensions == {p \in Permits : Parent[p] # NoPermit}

\* An extension may be extended in its turn, and a load may be zero.
ASSUME PermitsAssumption ==
  /\ Permits \subseteq Nat \ {0} /\ IsFiniteSet(Permits)
  /\ NoPermit \notin Permits
  /\ NoNorm \in Capacities
  /\ Parent \in [Permits -> Permits \cup {NoPermit}]
  /\ First \in [Permits -> Nat]
  /\ Last \in [Permits -> Nat]
  /\ Load \in [Permits -> Nat]
  /\ Capacities \ {NoNorm} \subseteq Nat
  /\ Total \in [SUBSET Permits -> Nat]
  /\ Total[{}] = 0
  /\ \A S \in SUBSET Permits : \A p \in Permits \ S : Total[S \cup {p}] = Total[S] + Load[p]
  /\ \A S, T \in SUBSET Permits : S \subseteq T => Total[S] <= Total[T]
  /\ RequiredSets \subseteq SUBSET Purposes
  /\ BatchSize \in Nat \ {0}
  /\ TicketLast \in [Permits -> Nat]
  /\ Broken \subseteq Permits
  /\ MaxRequests \in Nat
  /\ MaxUnusual \in Nat
  /\ Horizon \in Nat

VARIABLES
  application,  \* applications.status; "none" while an extension is not asked for
  status,       \* permits.status; "none" while no row exists
  signed,       \* purposes with a valid signature
  ticket,       \* the last day of the live forest ticket
  norm,         \* the capacity of the effective norm
  required,     \* the setting permit_required_signatures
  today,        \* business_today()
  issuing,      \* issuances that hold the plot's advisory lock
  norm_seen,    \* the norm it read
  signing,      \* signatures at work: permit, purpose, the signatures and the parent seen
  ticketing,    \* tickets at work, and the last day asked for
  cursor,       \* after_id of the expiry job, 0 between its runs
  told,         \* stalled permits somebody was told of
  resumed,      \* permits that came back from suspension (kept for the properties)
  waived        \* pending permits a change of the setting completed (likewise)

requestVars == <<issuing, norm_seen, signing, ticketing>>
jobVars == <<cursor, told>>
rowVars == <<application, status, signed, ticket>>
settingVars == <<norm, required, today>>
vars == <<rowVars, settingVars, requestVars, jobVars, resumed, waived>>

PERMIT_STATUSES ==
  {"none", "pending_signatures", "active", "suspended", "revoked", "expired", "archived"}

\* Mutated: as the providers once did, only what is in force counts.
OCCUPYING_STATUSES_ACTIVE == {"active"}

OCCUPYING_STATUSES == {"pending_signatures", "active"}

\* The pairs <<from, to>>; archived has no way out.
PERMIT_TRANSITIONS ==
  UNION {{"pending_signatures"} \X {"active"},
         {"active"} \X {"suspended", "revoked", "expired"},
         {"suspended"} \X {"active", "revoked", "expired"},
         {"revoked", "expired"} \X {"archived"}}

FINISHED_STATUSES == {"expired", "revoked"}

Occupying == {p \in Permits : status[p] \in OCCUPYING_STATUSES}
Missing(p) == required \ signed[p]

\* The bound on requests.
MayBegin ==
  Cardinality(issuing) + Cardinality(signing) + Cardinality(ticketing) < MaxRequests

\* Mutated: tickets are issued without a lock on their permit.
RowFreeOfSigners(p) == \A s \in signing : s.permit # p

\* permit_by_id_for_update: nobody else is at work on the row.
RowFree(p) ==
  /\ \A s \in signing : s.permit # p
  /\ p \notin ticketing

\* Mutated: the lock is keyed by the application, and excludes nobody.
PlotFreePerApplication == TRUE

\* pg_advisory_xact_lock on contour and activity
PlotFree == issuing = {}

-----------------------------------------------------------------------------
Init ==
  /\ application = [p \in Permits |-> IF p \in Extensions THEN "none" ELSE "PAID"]
  /\ status = [p \in Permits |-> "none"]
  /\ signed = [p \in Permits |-> {}]
  /\ ticket = [p \in Permits |-> NoTicket]
  /\ norm \in Capacities
  /\ required \in RequiredSets
  /\ today = 0
  /\ issuing = {}
  /\ norm_seen = NoNorm
  /\ signing = {}
  /\ ticketing = {}
  /\ cursor = 0
  /\ told = {}
  /\ resumed = {}
  /\ waived = {}

-----------------------------------------------------------------------------
(* Issuance.                                                                *)

\* Two inclusive periods meet.
Meet(p, q) == First[p] <= Last[q] /\ First[q] <= Last[p]

\* committed_sb_load, committed_capacity_quantity
Committed(p) == Total[{q \in Occupying : Meet(p, q)}]

\* _assert_contour_still_has_room: beside a sum under a norm, alone without one.
ContourStillHasRoom(p) ==
  IF norm = NoNorm
    THEN \A q \in Occupying : ~ Meet(p, q)
    ELSE Load[p] <= norm - Committed(p)

\* issue, up to the room it finds under the advisory lock. The application is read without
\* a lock: only its own permit takes it out of PAID.
BeginIssue(p) ==
  /\ application[p] = "PAID"
  /\ status[p] = "none"
  /\ MayBegin
  /\ PlotFree
  /\ ContourStillHasRoom(p)
  /\ issuing' = issuing \cup {p}
  /\ norm_seen' = norm
  /\ UNCHANGED <<rowVars, settingVars, signing, ticketing, jobVars, resumed, waived>>

\* ... and the permit it inserts; the lock goes with the commit.
CommitIssue(p) ==
  /\ p \in issuing
  /\ issuing' = issuing \ {p}
  /\ norm_seen' = NoNorm
  /\ status' = [status EXCEPT ![p] = "pending_signatures"]
  /\ waived' = IF required = {} THEN waived \cup {p} ELSE waived
  /\ UNCHANGED <<application, signed, ticket, settingVars, signing, ticketing, jobVars,
                 resumed>>

\* A later refusal (no template, no number) or a lost connection.
AbortIssue(p) ==
  /\ p \in issuing
  /\ issuing' = issuing \ {p}
  /\ norm_seen' = NoNorm
  /\ UNCHANGED <<rowVars, settingVars, signing, ticketing, jobVars, resumed, waived>>

-----------------------------------------------------------------------------
(* Signatures.                                                              *)

\* sign, sign_simple: a purpose that is required and has no valid signature yet; another
\* one is refused by the check or by uq_signatures_valid_purpose.
Signable(p, purpose) == purpose \in required \ signed[p]

\* What a signature at work knows: the parent's status is not read yet.
NewSignature(p, purpose) ==
  [permit |-> p, purpose |-> purpose, saw |-> signed[p], parent |-> "none"]

\* Mutated: the permit is read without its lock.
BeginSignatureUnlocked(p, purpose) ==
  /\ status[p] = "pending_signatures"
  /\ MayBegin
  /\ Signable(p, purpose)
  /\ signing' = signing \cup {NewSignature(p, purpose)}
  /\ UNCHANGED <<rowVars, settingVars, issuing, norm_seen, ticketing, jobVars, resumed,
                 waived>>

\* add_signature, up to the signature it inserts: the permit is locked and pending.
BeginSignature(p, purpose) ==
  /\ status[p] = "pending_signatures"
  /\ MayBegin
  /\ RowFree(p)
  /\ Signable(p, purpose)
  /\ signing' = signing \cup {NewSignature(p, purpose)}
  /\ UNCHANGED <<rowVars, settingVars, issuing, norm_seen, ticketing, jobVars, resumed,
                 waived>>

\* missing_purposes: nothing is missing among the signatures it sees, its own and those
\* committed before.
Completes(s) == required \subseteq s.saw \cup {s.purpose}

\* _close_parent_permit_if_extension reads the parent without a lock ...
LookAtParent(s) ==
  /\ s \in signing
  /\ Completes(s)
  /\ Parent[s.permit] # NoPermit
  /\ s.parent = "none"
  /\ signing' =
       (signing \ {s}) \cup
       {[s EXCEPT !.parent = IF status[Parent[s.permit]] = "active" THEN "active" ELSE "over"]}
  /\ UNCHANGED <<rowVars, settingVars, issuing, norm_seen, ticketing, jobVars, resumed,
                 waived>>

\* Mutated: an extension leaves its parent in force.
ParentLeftInForce(s) == {}

\* ... and closes one it found active, and no other.
ClosedParent(s) == IF s.parent = "active" THEN {Parent[s.permit]} ELSE {}

\* _activate: the permit, the parent it replaces and the application, all or none. The
\* parent goes through set_status, which locks it and asks the table again: suspended
\* meanwhile it still expires, revoked or expired it refuses the signature.
Activate(s) ==
  LET p == s.permit
  IN /\ MayMove(application[p], "PERMIT_ISSUED")
     /\ Parent[p] # NoPermit => s.parent # "none"
     /\ \A q \in ClosedParent(s) :
          RowFree(q) /\ <<status[q], "expired">> \in PERMIT_TRANSITIONS
     /\ status' = [q \in Permits |-> IF q = p THEN "active"
                                    ELSE IF q \in ClosedParent(s) THEN "expired"
                                    ELSE status[q]]
     /\ application' = [application EXCEPT ![p] = "PERMIT_ISSUED"]

\* The rest of add_signature.
CommitSignature(s) ==
  /\ s \in signing
  /\ signing' = signing \ {s}
  /\ signed' = [signed EXCEPT ![s.permit] = @ \cup {s.purpose}]
  /\ IF Completes(s) THEN Activate(s) ELSE UNCHANGED <<status, application>>
  /\ UNCHANGED <<ticket, settingVars, issuing, norm_seen, ticketing, jobVars, resumed,
                 waived>>

\* The provider refuses the envelope, the parent's move is refused, or the connection is
\* lost.
AbortSignature(s) ==
  /\ s \in signing
  /\ signing' = signing \ {s}
  /\ UNCHANGED <<rowVars, settingVars, issuing, norm_seen, ticketing, jobVars, resumed,
                 waived>>

\* An administrator saves another list of required signatures. Bound: a shorter one; a
\* longer one asks a pending permit for one more signature and does nothing else.
ChangeRequired(purposes) ==
  /\ purposes \subseteq required
  /\ purposes # required
  /\ required' = purposes
  /\ waived' = waived \cup {p \in Permits : /\ status[p] = "pending_signatures"
                                            /\ purposes \subseteq signed[p]}
  /\ UNCHANGED <<rowVars, norm, today, requestVars, jobVars, resumed>>

-----------------------------------------------------------------------------
(* Decisions about a permit, tickets and extensions, under the permit's lock. *)

\* set_status
SetStatus(p, to) ==
  /\ RowFree(p)
  /\ <<status[p], to>> \in PERMIT_TRANSITIONS
  /\ status' = [status EXCEPT ![p] = to]

\* decide: ground, document and signature are the employee's to bring.
Decide(p, to) ==
  /\ SetStatus(p, to)
  /\ UNCHANGED <<application, signed, settingVars, requestVars, jobVars, waived>>

\* The bound on suspensions and on the archive.
MayBeUnusual(p) ==
  Cardinality({q \in Permits : status[q] \in {"suspended", "archived"}} \cup resumed \cup {p})
    <= MaxUnusual

Suspend(p) ==
  /\ MayBeUnusual(p)
  /\ Decide(p, "suspended")
  /\ UNCHANGED <<ticket, resumed>>

\* Nobody asks whether the plot still has room.
Resume(p) ==
  /\ status[p] = "suspended"
  /\ Decide(p, "active")
  /\ resumed' = resumed \cup {p}
  /\ UNCHANGED ticket

\* revoke_tickets_of, in the revocation's own transaction
RevokeTicketsOf(p) == ticket' = [ticket EXCEPT ![p] = NoTicket]

Revoke(p) == Decide(p, "revoked") /\ RevokeTicketsOf(p) /\ UNCHANGED resumed

\* archive_object of a permit: it is over, whatever became of its application. (That of an
\* application is in Settlement.)
ArchivePermit(p) ==
  /\ MayBeUnusual(p)
  /\ Decide(p, "archived")
  /\ UNCHANGED <<ticket, resumed>>

\* issue_forest_ticket, up to its insert: the permit is active, the days lie within its own.
BeginTicket(p) ==
  /\ MayBegin
  /\ RowFree(p)
  /\ status[p] = "active"
  /\ TicketLast[p] <= Last[p]
  /\ ticketing' = ticketing \cup {p}
  /\ UNCHANGED <<rowVars, settingVars, issuing, norm_seen, signing, jobVars, resumed, waived>>

\* uq_forest_tickets_active: a second live ticket is refused.
CommitTicket(p) ==
  /\ p \in ticketing
  /\ ticketing' = ticketing \ {p}
  /\ ticket' = [ticket EXCEPT ![p] = IF @ = NoTicket THEN TicketLast[p] ELSE @]
  /\ UNCHANGED <<application, status, signed, settingVars, issuing, norm_seen, signing,
                 jobVars, resumed, waived>>

\* OPEN_EXTENSION_STATUSES
OpenExtension(a) ==
  a \in {"SUBMITTED", "IN_REVIEW", "PENDING_INFO", "RETURNED", "APPROVED", "INVOICED",
         "PAID", "PERMIT_ISSUED"}

\* extend: the holder files an application of its own kind.
Extend(p) ==
  /\ application[p] = "none"
  /\ Parent[p] # NoPermit
  /\ RowFree(Parent[p])
  /\ status[Parent[p]] = "active"
  /\ today <= Last[Parent[p]]
  /\ \A q \in Extensions : Parent[q] = Parent[p] => ~ OpenExtension(application[q])
  /\ application' = [application EXCEPT ![p] = "SUBMITTED"]
  /\ UNCHANGED <<status, signed, ticket, settingVars, requestVars, jobVars, resumed, waived>>

\* What becomes of it in the other modules: it is paid for or turned down.
SettleExtension(p, to) ==
  /\ application[p] = "SUBMITTED"
  /\ application' = [application EXCEPT ![p] = to]
  /\ UNCHANGED <<status, signed, ticket, settingVars, requestVars, jobVars, resumed, waived>>

-----------------------------------------------------------------------------
(* The calendar, the norms and the nightly jobs.                            *)

Tick ==
  /\ today < Horizon
  /\ today' = today + 1
  /\ UNCHANGED <<rowVars, norm, required, requestVars, jobVars, resumed, waived>>

\* A norm is published or archived; no permit and no issuance is asked.
PublishNorm(capacity) ==
  /\ capacity # norm
  /\ norm' = capacity
  /\ UNCHANGED <<rowVars, required, today, requestVars, jobVars, resumed, waived>>

\* permits_ending_before
EndingBefore(after) ==
  {p \in Permits : status[p] \in {"active", "suspended"} /\ Last[p] < today /\ p > after}

\* The first BatchSize of some rows, in the order of their ids.
Batch(rows) == {p \in rows : Cardinality({q \in rows : q < p}) < BatchSize}

\* Mutated: every batch starts from the first row again.
NextAfterRestarts(rows) == 0

\* Mutated: the next batch begins behind the row that follows the last one.
NextAfterSkipping(rows) == IF Cardinality(rows) < BatchSize THEN 0 ELSE Max(rows) + 1

\* _drain_batches: on behind the last row, until a batch comes short.
NextAfter(rows) == IF Cardinality(rows) < BatchSize THEN 0 ELSE Max(rows)

\* expire_permits, one batch and its commit: a row that fails rolls back alone.
ExpirePermits ==
  LET rows == Batch(EndingBefore(cursor))
  IN /\ rows # {} \/ cursor # 0
     /\ \A p \in rows : RowFree(p)
     /\ status' = [p \in Permits |-> IF p \in rows \ Broken THEN "expired" ELSE status[p]]
     /\ cursor' = NextAfter(rows)
     /\ UNCHANGED <<application, signed, ticket, settingVars, requestVars, told,
                    resumed, waived>>

\* close_finished
CloseFinished ==
  LET rows == {p \in Permits : /\ status[p] \in FINISHED_STATUSES
                               /\ application[p] = "PERMIT_ISSUED"}
  IN /\ rows # {}
     /\ application' = [p \in Permits |-> IF p \in rows THEN "CLOSED" ELSE application[p]]
     /\ UNCHANGED <<status, signed, ticket, settingVars, requestVars, jobVars, resumed,
                    waived>>

\* expire_forest_tickets
ExpireForestTickets ==
  LET rows == {p \in Permits : ticket[p] # NoTicket /\ ticket[p] < today}
  IN /\ rows # {}
     /\ ticket' = [p \in Permits |-> IF p \in rows THEN NoTicket ELSE ticket[p]]
     /\ UNCHANGED <<application, status, signed, settingVars, requestVars, jobVars, resumed,
                    waived>>

\* watch_stalled_permits: whoever the application is assigned to is told once.
\* (Bound: every paid application is assigned to somebody.)
WatchStalledPermits ==
  LET rows == {p \in Permits \ told : status[p] = "pending_signatures" /\ Last[p] < today}
  IN /\ rows # {}
     /\ told' = told \cup rows
     /\ UNCHANGED <<rowVars, settingVars, requestVars, cursor, resumed, waived>>

-----------------------------------------------------------------------------
Issuance(p) == BeginIssue(p) \/ CommitIssue(p) \/ AbortIssue(p)
Signature ==
  \/ \E p \in Permits, purpose \in Purposes : BeginSignature(p, purpose)
  \/ \E s \in signing : LookAtParent(s) \/ CommitSignature(s) \/ AbortSignature(s)
Ticket(p) == BeginTicket(p) \/ CommitTicket(p)
Decision(p) == Suspend(p) \/ Resume(p) \/ Revoke(p) \/ ArchivePermit(p)
Extension(p) == Extend(p) \/ \E to \in {"PAID", "REJECTED"} : SettleExtension(p, to)
Jobs == ExpirePermits \/ CloseFinished \/ ExpireForestTickets \/ WatchStalledPermits

Next ==
  \/ \E p \in Permits : Issuance(p) \/ Decision(p) \/ Ticket(p) \/ Extension(p)
  \/ Signature
  \/ \E purposes \in RequiredSets : ChangeRequired(purposes)
  \/ \E capacity \in Capacities : PublishNorm(capacity)
  \/ Tick
  \/ Jobs

\* Jobs run every night; a row lock is granted in the order of asking, so a job that waits
\* for a row gets it; a request ends. The two jobs asked for together run out of work.
Fairness ==
  /\ SF_vars(ExpirePermits)
  /\ WF_vars(CloseFinished \/ WatchStalledPermits)
  /\ WF_vars(\E s \in signing : CommitSignature(s) \/ AbortSignature(s))
  /\ WF_vars(\E p \in Permits : CommitTicket(p))

Spec == Init /\ [][Next]_vars
FairSpec == Spec /\ Fairness

-----------------------------------------------------------------------------
TypeOK ==
  /\ application \in [Permits -> APPLICATION_STATUSES \cup {"none"}]
  /\ status \in [Permits -> PERMIT_STATUSES]
  /\ signed \in [Permits -> SUBSET Purposes]
  /\ ticket \in [Permits -> Nat \cup {NoTicket}]
  /\ norm \in Capacities
  /\ required \in RequiredSets
  /\ today \in 0 .. Horizon
  /\ issuing \in SUBSET Permits
  /\ norm_seen \in Capacities
  /\ signing \in SUBSET [permit : Permits, purpose : Purposes, saw : SUBSET Purposes,
                         parent : {"none", "active", "over"}]
  /\ ticketing \in SUBSET Permits
  /\ cursor \in Permits \cup {0}
  /\ told \in SUBSET Permits
  /\ resumed \in SUBSET Permits
  /\ waived \in SUBSET Permits

\* An extension of the permit came into force.
Replaced(q) ==
  \E p \in Extensions : Parent[p] = q /\ status[p] \notin {"none", "pending_signatures"}

\* The permits that occupy the plot because they were issued, not resumed.
Held == Occupying \ resumed

\* While somebody issues, the plot is under the norm that was read.
PlotNorm == IF issuing = {} THEN norm ELSE norm_seen

GivenPlot == INSTANCE Plot WITH
  Claims <- Permits, held <- Held, capacity <- PlotNorm

\* Issuance gives a part of the plot only where there is room (lock_contour_activity and
\* the check under it), whatever is signed, suspended, ended or published meanwhile. Two
\* ways around it are named: a resumed permit is not asked for room, and a norm published
\* during an issuance counts for the next.
ImplementsPlot == GivenPlot!Spec

NeverOvergiven == GivenPlot!NeverOvergiven

\* A permit with every signature is in force: of two last signatures that land together
\* one sees both (permit_by_id_for_update). The exception is a list of required
\* signatures that shrank after they were given, since nobody is left to sign then.
SignedIsInForce ==
  \A p \in Permits :
    status[p] = "pending_signatures" => Missing(p) # {} \/ p \in waived

\* An extension in force replaced its parent: the two are in force together only after a
\* suspended parent was resumed, and a permit was ended before its last day for nothing
\* but an extension that came into force (_close_parent_permit_if_extension), however the
\* signature that activates it meets a decision about the parent, or its own extension.
ExtensionReplacesParent ==
  /\ \A p \in Extensions :
       status[p] = "active" /\ status[Parent[p]] = "active" => Parent[p] \in resumed
  /\ \A q \in Permits : status[q] = "expired" /\ today <= Last[q] => Replaced(q)

\* A live ticket whose days still run has a permit that is in force or suspended, or that
\* an extension replaced: no revocation, no night and no archive leaves it behind
\* (issue_forest_ticket, revoke and expire_permits take turns on the permit's row). That
\* activation closes a parent and not its ticket is the exception, against "a ticket only
\* ever rides an in-force permit".
TicketsFollowPermit ==
  \A p \in Permits :
    ticket[p] # NoTicket =>
      \/ status[p] \in {"active", "suspended"}
      \/ status[p] \in {"expired", "archived"} /\ (ticket[p] < today \/ Replaced(p))

\* A permit whose period is over is ended by the nightly job and its application closed,
\* whatever row before it fails every night (expire_permits, close_finished); one that is
\* still unsigned stays so, but somebody is told (watch_stalled_permits). The exception is a
\* permit archived between its end and the night: close_finished looks at it no more.
EndedIsClosed ==
  \A p \in Permits \ Broken :
    status[p] \in {"pending_signatures", "active", "suspended"} /\ Last[p] < today
      ~> \/ application[p] = "CLOSED"
         \/ status[p] = "archived" /\ application[p] = "PERMIT_ISSUED"
         \/ status[p] = "pending_signatures" /\ p \in told
=============================================================================
