--------------------------- MODULE PermitsProofs ---------------------------
(***************************************************************************)
(* Theorems about Permits, for any permits, periods, loads, norms, lists of*)
(* required signatures and number of requests at work.                     *)
(***************************************************************************)
EXTENDS Permits, TLAPS, FiniteSetTheorems

-----------------------------------------------------------------------------
(* Type correctness.                                                        *)

\* A finite set of ids has a largest one: where it is well founded to ask for fewer ids
\* above, some id has the fewest.
LEMMA MaxExists ==
  ASSUME NEW S, S \subseteq Nat, IsFiniteSet(S), S # {}
  PROVE  Max(S) \in S
<1> DEFINE Above(x) == {y \in S : y > x}
           Aboves == {Above(x) : x \in S}
<1>1. IsWellFoundedOn(StrictSubsetOrdering(S), FiniteSubsetsOf(S))
  BY FS_StrictSubsetOrderingWellFounded
<1>2. Aboves \subseteq FiniteSubsetsOf(S)
  BY FS_Subset DEF FiniteSubsetsOf
<1>3. Aboves # {}
  OBVIOUS
<1>4. PICK U \in Aboves : \A V \in Aboves : <<V, U>> \notin StrictSubsetOrdering(S)
  <2> HIDE DEF Aboves
  <2> QED
    BY <1>1, <1>2, <1>3, WFMin
<1>5. PICK x \in S : U = Above(x)
  BY <1>4
<1>6. \A y \in S : x >= y
  <2> SUFFICES ASSUME NEW y \in S, ~ (x >= y) PROVE FALSE
    OBVIOUS
  <2>1. y > x /\ ~ (y > y) /\ \A z \in S : z > y => z > x
    <3>1. x \in Nat /\ y \in Nat /\ \A z \in S : z \in Nat
      OBVIOUS
    <3> HIDE DEF Aboves
    <3> QED
      BY <3>1
  <2>2. Above(y) \in Aboves
    OBVIOUS
  <2> HIDE DEF Aboves
  <2>3. Above(y) \subseteq Above(x) /\ y \in Above(x) /\ y \notin Above(y)
    BY <2>1
  <2>4. <<Above(y), Above(x)>> \in StrictSubsetOrdering(S)
    BY <2>3 DEF StrictSubsetOrdering
  <2> QED
    BY <1>4, <1>5, <2>2, <2>4
<1> QED
  BY <1>6 DEF Max

\* The cursor stays on a permit, or at the start.
LEMMA CursorIsPermit ==
  ASSUME NEW rows \in SUBSET Permits
  PROVE  NextAfter(rows) \in Permits \cup {0}
<1>1. IsFiniteSet(rows) /\ rows \subseteq Nat
  BY PermitsAssumption, FS_Subset
<1>2. CASE Cardinality(rows) < BatchSize
  BY <1>2 DEF NextAfter
<1>3. CASE ~ (Cardinality(rows) < BatchSize)
  <2>1. rows # {}
    <3>1. Cardinality({}) = 0 /\ 0 < BatchSize
      BY FS_EmptySet, PermitsAssumption
    <3> QED
      BY <1>3, <3>1
  <2>2. Max(rows) \in rows
    BY <1>1, <2>1, MaxExists
  <2> QED
    BY <1>3, <2>2 DEF NextAfter
<1> QED
  BY <1>2, <1>3

\* What a signature at work knows after its look at the parent.
Looked(s) ==
  [s EXCEPT !.parent = IF status[Parent[s.permit]] = "active" THEN "active" ELSE "over"]

\* The look changes that, and nothing else.
LEMMA LookSteps ==
  ASSUME TypeOK, NEW s \in signing, LookAtParent(s)
  PROVE  /\ signing' = (signing \ {s}) \cup {Looked(s)}
         /\ Looked(s).permit = s.permit /\ Looked(s).saw = s.saw
         /\ Looked(s).parent = "over" => status[Parent[s.permit]] # "active"
<1>1. signing' = (signing \ {s}) \cup {Looked(s)}
  BY DEF LookAtParent, Looked
<1>2. s \in [permit : Permits, purpose : Purposes, saw : SUBSET Purposes,
            parent : {"none", "active", "over"}]
  BY DEF TypeOK
<1> QED
  BY <1>1, <1>2 DEF Looked

\* Every step, or stutter, keeps every variable in its domain.
LEMMA TypeStep ==
  ASSUME TypeOK, [Next]_vars
  PROVE  TypeOK'
<1> USE DEF TypeOK, rowVars, settingVars, requestVars, jobVars, PERMIT_STATUSES
<1>1. ASSUME NEW p \in Permits, Issuance(p)
      PROVE  TypeOK'
  <2>1. CASE BeginIssue(p)
    BY <2>1 DEF BeginIssue
  <2>2. CASE CommitIssue(p)
    BY <2>2, PermitsAssumption DEF CommitIssue
  <2>3. CASE AbortIssue(p)
    BY <2>3, PermitsAssumption DEF AbortIssue
  <2> QED
    BY <1>1, <2>1, <2>2, <2>3 DEF Issuance
<1>2. ASSUME NEW p \in Permits, NEW purpose \in Purposes, BeginSignature(p, purpose)
      PROVE  TypeOK'
  <2>1. NewSignature(p, purpose)
          \in [permit : Permits, purpose : Purposes, saw : SUBSET Purposes,
              parent : {"none", "active", "over"}]
    BY DEF NewSignature
  <2> QED
    BY <1>2, <2>1 DEF BeginSignature
<1>16. ASSUME NEW s \in signing, LookAtParent(s)
      PROVE  TypeOK'
  BY <1>16 DEF LookAtParent
<1>3. ASSUME NEW s \in signing, CommitSignature(s)
      PROVE  TypeOK'
  <2>1. s.permit \in Permits /\ s.purpose \in Purposes
    OBVIOUS
  <2>2. /\ signing' \in SUBSET signing
        /\ signed' \in [Permits -> SUBSET Purposes]
        /\ UNCHANGED <<ticket, settingVars, issuing, norm_seen, ticketing, jobVars, resumed,
                       waived>>
    BY <1>3, <2>1 DEF CommitSignature
  <2>3. /\ status' \in [Permits -> PERMIT_STATUSES]
        /\ application' \in [Permits -> APPLICATION_STATUSES \cup {"none"}]
    BY <1>3, <2>1 DEF CommitSignature, Activate, APPLICATION_STATUSES
  <2> QED
    BY <2>2, <2>3
<1>4. ASSUME NEW s \in signing, AbortSignature(s)
      PROVE  TypeOK'
  BY <1>4 DEF AbortSignature
<1>5. ASSUME NEW purposes \in RequiredSets, ChangeRequired(purposes)
      PROVE  TypeOK'
  BY <1>5 DEF ChangeRequired
<1>6. ASSUME NEW p \in Permits, Decision(p)
      PROVE  TypeOK'
  <2>1. ASSUME NEW to \in PERMIT_STATUSES, SetStatus(p, to)
        PROVE  status' \in [Permits -> PERMIT_STATUSES]
    BY <2>1 DEF SetStatus
  <2>2. CASE Suspend(p)
    BY <2>1, <2>2 DEF Suspend, Decide
  <2>3. CASE Resume(p)
    BY <2>1, <2>3 DEF Resume, Decide
  <2>4. CASE Revoke(p)
    BY <2>1, <2>4 DEF Revoke, RevokeTicketsOf, Decide
  <2>5. CASE ArchivePermit(p)
    BY <2>1, <2>5 DEF ArchivePermit, Decide
  <2> QED
    BY <1>6, <2>2, <2>3, <2>4, <2>5 DEF Decision
<1>7. ASSUME NEW p \in Permits, Ticket(p)
      PROVE  TypeOK'
  <2>1. CASE BeginTicket(p)
    BY <2>1 DEF BeginTicket
  <2>2. CASE CommitTicket(p)
    <3>1. TicketLast[p] \in Nat
      BY PermitsAssumption
    <3> QED
      BY <2>2, <3>1 DEF CommitTicket
  <2> QED
    BY <1>7, <2>1, <2>2 DEF Ticket
<1>8. ASSUME NEW p \in Permits, Extension(p)
      PROVE  TypeOK'
  BY <1>8 DEF Extension, Extend, SettleExtension, APPLICATION_STATUSES
<1>9. ASSUME NEW capacity \in Capacities, PublishNorm(capacity)
      PROVE  TypeOK'
  BY <1>9 DEF PublishNorm
<1>10. CASE Tick
  BY <1>10, PermitsAssumption DEF Tick
<1>11. CASE ExpirePermits
  <2> DEFINE rows == Batch(EndingBefore(cursor))
  <2>1. rows \in SUBSET Permits
    BY DEF Batch, EndingBefore
  <2>2. cursor' \in Permits \cup {0}
    BY <1>11, <2>1, CursorIsPermit DEF ExpirePermits
  <2>3. status' \in [Permits -> PERMIT_STATUSES]
    BY <1>11 DEF ExpirePermits
  <2>4. UNCHANGED <<application, signed, ticket, settingVars, requestVars, told,
                    resumed, waived>>
    BY <1>11 DEF ExpirePermits
  <2> QED
    BY <2>2, <2>3, <2>4
<1>12. CASE CloseFinished
  BY <1>12 DEF CloseFinished, APPLICATION_STATUSES
<1>13. CASE ExpireForestTickets
  BY <1>13 DEF ExpireForestTickets
<1>14. CASE WatchStalledPermits
  BY <1>14 DEF WatchStalledPermits
<1>15. CASE UNCHANGED vars
  BY <1>15 DEF vars
<1> QED
  BY <1>1, <1>2, <1>3, <1>4, <1>5, <1>6, <1>7, <1>8, <1>9, <1>10, <1>11, <1>12, <1>13,
     <1>14, <1>15, <1>16 DEF Next, Signature, Jobs

\* The variables keep their types, for any permits and any number of requests at work.
THEOREM TypeCorrect == Spec => []TypeOK
<1>1. Init => TypeOK
  BY PermitsAssumption
  DEF Init, TypeOK, APPLICATION_STATUSES, PERMIT_STATUSES
<1> QED
  BY <1>1, TypeStep, PTL DEF Spec

-----------------------------------------------------------------------------
(* What the locks keep apart.                                               *)

\* One issuance at a time, of a permit that has no row yet; a signature at work has its
\* permit to itself and has seen every signature that is committed; a ticket at work has
\* a permit in force; an extension has an application, and that a parent that was in force.
RowLocks ==
  /\ \A p, q \in issuing : p = q
  /\ \A p \in issuing : status[p] = "none" /\ application[p] # "none"
  /\ \A p \in Permits : status[p] = "none" => signed[p] = {}
  /\ \A p \in Permits : application[p] = "none" => status[p] = "none"
  /\ \A p \in Extensions :
       application[p] # "none" => status[Parent[p]] \notin {"none", "pending_signatures"}
  /\ \A s \in signing : status[s.permit] = "pending_signatures" /\ s.saw = signed[s.permit]
  /\ \A s, t \in signing : s.permit = t.permit => s = t
  /\ \A p \in ticketing : status[p] = "active"

\* A permit that was in force moves while nobody else is at work on it; one that is over
\* moves into the archive only.
Moved(q) ==
  /\ RowFree(q)
  /\ \/ status[q] \in {"active", "suspended"} /\ status'[q] \in {"active", "suspended", "revoked", "expired"}
     \/ status[q] \in {"revoked", "expired"} /\ status'[q] = "archived"

\* A decision moves one permit, and that one from suspended or active.
LEMMA DecisionSteps ==
  ASSUME TypeOK, NEW p \in Permits, Decision(p)
  PROVE  \A q \in Permits : status'[q] = status[q] \/ Moved(q)
<1>1. ASSUME NEW to \in {"active", "suspended", "revoked", "archived"},
             SetStatus(p, to), to = "active" => status[p] = "suspended"
      PROVE  \A q \in Permits : status'[q] = status[q] \/ Moved(q)
  BY <1>1 DEF SetStatus, PERMIT_TRANSITIONS, Moved, TypeOK
<1> QED
  BY <1>1 DEF Decision, Suspend, Resume, Revoke, ArchivePermit, Decide

\* Where permits only move like that, the locks hold.
LEMMA MovedKeepsLocks ==
  ASSUME TypeOK, RowLocks, UNCHANGED <<application, signed, issuing, signing, ticketing>>,
         \A q \in Permits : status'[q] = status[q] \/ Moved(q)
  PROVE  RowLocks'
<1>1. \A q \in Permits :
        /\ status'[q] \in {"none", "pending_signatures"} => status'[q] = status[q]
        /\ status[q] \in {"none", "pending_signatures"} => status'[q] = status[q]
        /\ ~ RowFree(q) => status'[q] = status[q]
  BY DEF Moved
<1>2. \A p \in Extensions : p \in Permits /\ Parent[p] \in Permits
  BY PermitsAssumption DEF Extensions
<1>3. \A s \in signing : s.permit \in Permits /\ ~ RowFree(s.permit)
  BY DEF TypeOK, RowFree
<1>4. \A p \in ticketing : p \in Permits /\ ~ RowFree(p)
  BY DEF TypeOK, RowFree
<1>5. \A p \in issuing : p \in Permits
  BY DEF TypeOK
<1> QED
  BY <1>1, <1>2, <1>3, <1>4, <1>5 DEF RowLocks

\* Where an application is only filed behind a parent in force, the locks hold.
LEMMA ApplicationKeepsLocks ==
  ASSUME TypeOK, RowLocks, UNCHANGED <<status, signed, issuing, signing, ticketing>>,
         \A q \in Permits : application'[q] = "none" => application[q] = "none",
         \A q \in Permits : application[q] = "none" /\ application'[q] # "none" =>
           status[Parent[q]] = "active"
  PROVE  RowLocks'
<1>1. \A q \in Extensions : q \in Permits
  BY DEF Extensions
<1>2. \A q \in issuing : q \in Permits
  BY DEF TypeOK
<1> QED
  BY <1>1, <1>2 DEF RowLocks

\* The locks hold through every step.
LEMMA RowLocksStep ==
  ASSUME TypeOK, RowLocks, [Next]_vars
  PROVE  RowLocks'
<1> USE DEF rowVars, settingVars, requestVars, jobVars
<1>1. ASSUME NEW p \in Permits, BeginIssue(p)
      PROVE  RowLocks'
  BY <1>1 DEF BeginIssue, PlotFree, RowLocks
<1>2. ASSUME NEW p \in Permits, CommitIssue(p)
      PROVE  RowLocks'
  BY <1>2, PermitsAssumption DEF CommitIssue, RowLocks, TypeOK, Extensions
<1>3. ASSUME NEW p \in Permits, AbortIssue(p)
      PROVE  RowLocks'
  BY <1>3 DEF AbortIssue, RowLocks
<1>4. ASSUME NEW p \in Permits, NEW purpose \in Purposes, BeginSignature(p, purpose)
      PROVE  RowLocks'
  BY <1>4 DEF BeginSignature, NewSignature, RowFree, RowLocks, TypeOK
<1>13. ASSUME NEW s \in signing, LookAtParent(s)
      PROVE  RowLocks'
  <2>1. UNCHANGED <<application, status, signed, issuing, ticketing>>
    BY <1>13 DEF LookAtParent
  <2> DEFINE n == Looked(s)
  <2>2. /\ signing' = (signing \ {s}) \cup {n}
        /\ n.permit = s.permit /\ n.saw = s.saw
    BY <1>13, LookSteps
  <2> HIDE DEF n
  <2>3. \A t \in signing' : t = n \/ (t \in signing /\ t.permit # s.permit)
    BY <2>2 DEF RowLocks
  <2>4. \A t \in signing' : status[t.permit] = "pending_signatures" /\ t.saw = signed[t.permit]
    BY <2>2, <2>3 DEF RowLocks
  <2>5. \A t, u \in signing' : t.permit = u.permit => t = u
    BY <2>2, <2>3 DEF RowLocks
  <2> QED
    BY <2>1, <2>4, <2>5 DEF RowLocks
<1>5. ASSUME NEW s \in signing, CommitSignature(s)
      PROVE  RowLocks'
  <2>1. s.permit \in Permits /\ s.purpose \in Purposes
    BY DEF TypeOK
  <2>2. /\ signing' = signing \ {s}
        /\ signed' = [signed EXCEPT ![s.permit] = @ \cup {s.purpose}]
        /\ UNCHANGED <<issuing, ticketing>>
    BY <1>5 DEF CommitSignature
  <2>3. /\ \A q \in Permits : application'[q] = "none" => application[q] = "none"
        /\ \A q \in Permits : application[q] = "none" => application'[q] = "none" \/ q = s.permit
    BY <1>5, <2>1 DEF CommitSignature, Activate, TypeOK
  <2>4. \A q \in Permits :
          \/ status'[q] = status[q]
          \/ q = s.permit /\ status'[q] = "active"
          \/ status[q] \in {"active", "suspended"} /\ RowFree(q) /\ status'[q] = "expired"
    <3>1. CASE UNCHANGED status
      BY <3>1
    <3>2. CASE Activate(s)
      <4>1. ASSUME NEW q \in ClosedParent(s), q \in Permits
            PROVE  status[q] \in {"active", "suspended"} /\ RowFree(q)
        <5>1. RowFree(q) /\ <<status[q], "expired">> \in PERMIT_TRANSITIONS
          BY <3>2, <4>1 DEF Activate
        <5> QED
          BY <5>1 DEF PERMIT_TRANSITIONS
      <4>2. \A q \in Permits : status'[q] = IF q = s.permit THEN "active"
                                            ELSE IF q \in ClosedParent(s) THEN "expired"
                                            ELSE status[q]
        BY <3>2 DEF Activate
      <4> QED
        BY <4>1, <4>2
    <3> QED
      BY <1>5, <3>1, <3>2 DEF CommitSignature
  <2>5. status[s.permit] = "pending_signatures" /\ application[s.permit] # "none"
    BY <2>1 DEF RowLocks
  <2>6. \A q \in issuing' : status'[q] = "none" /\ application'[q] # "none"
    BY <2>2, <2>3, <2>4, <2>5 DEF RowLocks, TypeOK
  <2>7. \A q \in Permits : status'[q] = "none" => signed'[q] = {} /\ status[q] = "none"
    BY <2>1, <2>2, <2>4, <2>5 DEF RowLocks, TypeOK
  <2>8. \A q \in Permits : application'[q] = "none" => status'[q] = "none"
    BY <2>3, <2>4, <2>5 DEF RowLocks
  <2>9. \A q \in Extensions :
          application'[q] # "none" => status'[Parent[q]] \notin {"none", "pending_signatures"}
    <3>1. \A q \in Extensions : q \in Permits /\ Parent[q] \in Permits
      BY PermitsAssumption DEF Extensions
    <3> QED
      BY <2>3, <2>4, <2>5, <3>1 DEF RowLocks
  <2>10. \A t \in signing' : /\ status'[t.permit] = "pending_signatures"
                             /\ t.saw = signed'[t.permit]
    <3>1. \A t \in signing' : t \in signing /\ t.permit \in Permits /\ t.permit # s.permit
      BY <2>2 DEF RowLocks, TypeOK
    <3> QED
      BY <2>1, <2>2, <2>4, <3>1 DEF RowLocks, TypeOK
  <2>11. \A q \in ticketing' : status'[q] = "active"
    BY <2>2, <2>4 DEF RowLocks, TypeOK, RowFree
  <2> QED
    BY <2>2, <2>6, <2>7, <2>8, <2>9, <2>10, <2>11 DEF RowLocks
<1>6. ASSUME NEW s \in signing, AbortSignature(s)
      PROVE  RowLocks'
  BY <1>6 DEF AbortSignature, RowLocks
<1>7. ASSUME NEW p \in Permits, Decision(p)
      PROVE  RowLocks'
  <2>1. UNCHANGED <<application, signed, settingVars, requestVars>>
    BY <1>7 DEF Decision, Suspend, Resume, Revoke, ArchivePermit, Decide
  <2> QED
    BY <1>7, <2>1, DecisionSteps, MovedKeepsLocks
<1>8. ASSUME NEW p \in Permits, Ticket(p)
      PROVE  RowLocks'
  <2>1. /\ UNCHANGED <<application, status, signed, issuing, signing>>
        /\ \A q \in ticketing' : q \in ticketing \/ status[q] = "active"
    BY <1>8 DEF Ticket, BeginTicket, CommitTicket
  <2> QED
    BY <2>1 DEF RowLocks
<1>9. ASSUME NEW p \in Permits, Extension(p)
      PROVE  RowLocks'
  <2>1. /\ UNCHANGED <<status, signed, issuing, signing, ticketing>>
        /\ \A q \in Permits : application'[q] = "none" => application[q] = "none"
        /\ \A q \in Permits : application[q] = "none" /\ application'[q] # "none" =>
             status[Parent[q]] = "active"
    BY <1>9 DEF Extension, Extend, SettleExtension, TypeOK
  <2> QED
    BY <2>1, ApplicationKeepsLocks
<1>10. CASE ExpirePermits
  <2>1. UNCHANGED <<application, signed, ticket, settingVars, requestVars>>
    BY <1>10 DEF ExpirePermits
  <2>2. \A q \in Permits :
          \/ status'[q] = status[q]
          \/ Moved(q)
    BY <1>10 DEF ExpirePermits, Batch, EndingBefore, Moved
  <2> QED
    BY <2>1, <2>2, MovedKeepsLocks
<1>11. CASE CloseFinished
  <2>1. /\ UNCHANGED <<status, signed, issuing, signing, ticketing>>
        /\ \A q \in Permits : application'[q] = "none" => application[q] = "none"
        /\ \A q \in Permits : application[q] = "none" => application'[q] = "none"
    BY <1>11 DEF CloseFinished, TypeOK
  <2> QED
    BY <2>1, ApplicationKeepsLocks
<1>12. CASE UNCHANGED <<application, status, signed, issuing, signing, ticketing>>
  BY <1>12 DEF RowLocks
<1> QED
  <2>1. CASE \/ \E purposes \in RequiredSets : ChangeRequired(purposes)
             \/ \E capacity \in Capacities : PublishNorm(capacity)
             \/ Tick \/ ExpireForestTickets \/ WatchStalledPermits \/ UNCHANGED vars
    BY <1>12, <2>1
    DEF ChangeRequired, PublishNorm, Tick, ExpireForestTickets, WatchStalledPermits, vars
  <2> QED
    BY <1>1, <1>2, <1>3, <1>4, <1>5, <1>6, <1>7, <1>8, <1>9, <1>10, <1>11, <1>13, <2>1
    DEF Next, Issuance, Signature, Jobs

\* Whatever requests meet, the locks keep the steps of a permit's life apart.
THEOREM LocksHold == Spec => []RowLocks
<1>1. Init => RowLocks
  BY DEF Init, RowLocks, Extensions
<1> QED
  BY <1>1, RowLocksStep, TypeCorrect, PTL DEF Spec

-----------------------------------------------------------------------------
(* Signatures.                                                              *)

\* The signature that completes a permit puts it in force, for any list of purposes and any
\* number of signatures that meet: of two last ones, one sees the other
\* (permit_by_id_for_update).
THEOREM SignaturesComplete == Spec => []SignedIsInForce
<1>1. Init => SignedIsInForce
  BY DEF Init, SignedIsInForce
<1>2. ASSUME TypeOK, RowLocks, SignedIsInForce, [Next]_vars
      PROVE  SignedIsInForce'
  <2> USE DEF SignedIsInForce, Missing, TypeOK, rowVars, settingVars
  <2>1. ASSUME NEW p \in Permits, CommitIssue(p)
        PROVE  SignedIsInForce'
    BY <1>2, <2>1 DEF CommitIssue, RowLocks
  <2>2. ASSUME NEW s \in signing, CommitSignature(s)
        PROVE  SignedIsInForce'
    <3>1. s.permit \in Permits /\ s.saw = signed[s.permit]
      BY <1>2 DEF RowLocks
    <3>2. ASSUME required \subseteq s.saw \cup {s.purpose}
          PROVE  status'[s.permit] = "active"
      BY <1>2, <2>2, <3>1, <3>2 DEF CommitSignature, Completes, Activate
    <3>3. signed'[s.permit] = s.saw \cup {s.purpose} /\ UNCHANGED <<required, waived>>
      BY <1>2, <2>2, <3>1 DEF CommitSignature
    <3>4. \A q \in Permits \ {s.permit} :
            signed'[q] = signed[q] /\ (status'[q] = status[q] \/ status'[q] # "pending_signatures")
      BY <1>2, <2>2, <3>1 DEF CommitSignature, Activate
    <3> QED
      BY <1>2, <3>2, <3>3, <3>4
  <2>3. ASSUME NEW purposes \in RequiredSets, ChangeRequired(purposes)
        PROVE  SignedIsInForce'
    BY <1>2, <2>3 DEF ChangeRequired
  <2>4. ASSUME UNCHANGED <<signed, required, waived>>,
               \A q \in Permits : status'[q] = status[q] \/ Moved(q)
        PROVE  SignedIsInForce'
    BY <1>2, <2>4 DEF Moved
  <2>5. ASSUME NEW p \in Permits, Decision(p)
        PROVE  SignedIsInForce'
    <3>1. UNCHANGED <<signed, required, waived>>
      BY <2>5 DEF Decision, Suspend, Resume, Revoke, ArchivePermit, Decide
    <3> QED
      BY <1>2, <2>4, <2>5, <3>1, DecisionSteps
  <2>6. CASE ExpirePermits
    BY <2>4, <2>6 DEF ExpirePermits, Batch, EndingBefore, Moved
  <2>7. CASE UNCHANGED <<status, signed, required, waived>>
    BY <1>2, <2>7
  <2> QED
    <3>1. CASE \/ \E p \in Permits : \/ BeginIssue(p) \/ AbortIssue(p)
                                     \/ Ticket(p) \/ Extension(p)
               \/ \E p \in Permits, purpose \in Purposes : BeginSignature(p, purpose)
               \/ \E s \in signing : LookAtParent(s) \/ AbortSignature(s)
      BY <2>7, <3>1 DEF BeginIssue, AbortIssue, Ticket, BeginTicket, CommitTicket, Extension,
                        Extend, SettleExtension, BeginSignature, LookAtParent, AbortSignature
    <3>2. CASE \/ \E capacity \in Capacities : PublishNorm(capacity)
               \/ Tick \/ CloseFinished \/ ExpireForestTickets \/ WatchStalledPermits
               \/ UNCHANGED vars
      BY <2>7, <3>2 DEF PublishNorm, Tick, CloseFinished, ExpireForestTickets,
                        WatchStalledPermits, vars
    <3> QED
      BY <1>2, <2>1, <2>2, <2>3, <2>5, <2>6, <3>1, <3>2
      DEF Next, Issuance, Signature, Jobs
<1> QED
  BY <1>1, <1>2, TypeCorrect, LocksHold, PTL DEF Spec

-----------------------------------------------------------------------------
(* Tickets.                                                                 *)

\* A ticket runs within its permit's days, and is inserted while the permit is in force.
TicketsWithin ==
  /\ \A p \in Permits : ticket[p] # NoTicket => ticket[p] <= Last[p]
  /\ \A p \in ticketing : TicketLast[p] <= Last[p]

\* No step but a ticket's own touches that.
LEMMA TicketsWithinStep ==
  ASSUME TypeOK, TicketsWithin, [Next]_vars
  PROVE  TicketsWithin'
<1> USE DEF TicketsWithin, rowVars, settingVars, requestVars
<1>1. ASSUME NEW p \in Permits, Ticket(p)
      PROVE  TicketsWithin'
  BY <1>1 DEF Ticket, BeginTicket, CommitTicket, TypeOK
<1>2. ASSUME NEW p \in Permits, Decision(p)
      PROVE  TicketsWithin'
  BY <1>2 DEF Decision, Suspend, Resume, Revoke, RevokeTicketsOf, ArchivePermit, Decide, TypeOK
<1>3. CASE ExpireForestTickets
  BY <1>3 DEF ExpireForestTickets, TypeOK
<1>4. CASE UNCHANGED <<ticket, ticketing>>
  BY <1>4
<1> QED
  <2>1. CASE \/ \E p \in Permits : Issuance(p) \/ Extension(p)
             \/ Signature
    BY <1>4, <2>1 DEF Issuance, BeginIssue, CommitIssue, AbortIssue, Extension, Extend,
      SettleExtension, Signature, BeginSignature, LookAtParent, CommitSignature, AbortSignature
  <2>2. CASE \/ \E purposes \in RequiredSets : ChangeRequired(purposes)
             \/ \E capacity \in Capacities : PublishNorm(capacity)
             \/ Tick \/ ExpirePermits \/ CloseFinished \/ WatchStalledPermits
             \/ UNCHANGED vars
    BY <1>4, <2>2 DEF ChangeRequired, PublishNorm, Tick, ExpirePermits, CloseFinished,
                      WatchStalledPermits, vars
  <2> QED
    BY <1>1, <1>2, <1>3, <2>1, <2>2 DEF Next, Jobs

\* A live ticket whose days still run has a permit in force or suspended, or one that an
\* extension replaced, for any permits, periods and chains of extensions: revocation takes
\* the ticket along, the night comes after its last day, and the request that issues it
\* holds the permit's row.
THEOREM TicketsFollow == Spec => []TicketsFollowPermit
<1>1. Init => TicketsFollowPermit /\ TicketsWithin
  BY DEF Init, TicketsFollowPermit, TicketsWithin
<1>2. ASSUME TypeOK, RowLocks, TicketsWithin, TicketsFollowPermit, [Next]_vars
      PROVE  TicketsFollowPermit'
  <2> USE DEF TicketsFollowPermit, TypeOK, rowVars, settingVars
  <2>10. \A p \in Permits : Last[p] \in Nat
    BY PermitsAssumption
  <2>11. \A p \in Extensions : p \in Permits
    BY DEF Extensions
  \* Who was replaced stays replaced, where no permit falls back.
  <2>12. ASSUME \A q \in Permits : status'[q] \in {"none", "pending_signatures"} =>
                                     status[q] \in {"none", "pending_signatures"}
         PROVE  \A q \in Permits : Replaced(q) => Replaced(q)'
    BY <2>11, <2>12 DEF Replaced
  <2>4. ASSUME \A q \in Permits : Replaced(q) => Replaced(q)',
               \A q \in Permits : ticket'[q] # NoTicket => ticket'[q] = ticket[q],
               today' \in Nat, today <= today',
               \A q \in Permits : ticket'[q] # NoTicket =>
                 \/ status'[q] = status[q]
                 \/ status'[q] \in {"active", "suspended"}
                 \/ status[q] = "expired" /\ status'[q] = "archived"
                 \/ status'[q] = "expired" /\ (Last[q] < today \/ Replaced(q)')
        PROVE  TicketsFollowPermit'
    <3> SUFFICES ASSUME NEW q \in Permits, ticket'[q] # NoTicket
                 PROVE  \/ status'[q] \in {"active", "suspended"}
                        \/ /\ status'[q] \in {"expired", "archived"}
                           /\ ticket'[q] < today' \/ Replaced(q)'
      OBVIOUS
    <3>1. ticket'[q] = ticket[q] /\ ticket[q] # NoTicket /\ ticket[q] \in Nat
      BY <1>2, <2>4
    <3>2. ticket[q] <= Last[q] /\ Last[q] \in Nat /\ today \in Nat
      BY <1>2, <2>10, <3>1 DEF TicketsWithin
    <3>3. \/ status[q] \in {"active", "suspended"}
          \/ status[q] \in {"expired", "archived"} /\ (ticket[q] < today \/ Replaced(q))
      BY <1>2, <3>1
    <3>4. ticket[q] < today => ticket'[q] < today'
      BY <2>4, <3>1, <3>2
    <3>5. Last[q] < today => ticket'[q] < today'
      BY <2>4, <3>1, <3>2
    <3>6. Replaced(q) => Replaced(q)'
      BY <2>4
    <3> QED
      BY <2>4, <3>3, <3>4, <3>5, <3>6
  <2>13. ASSUME UNCHANGED <<status, today>>,
                \A q \in Permits : ticket'[q] # NoTicket => ticket'[q] = ticket[q]
         PROVE  TicketsFollowPermit'
    <3>1. \A q \in Permits : Replaced(q) => Replaced(q)'
      BY <2>12, <2>13
    <3> QED
      BY <1>2, <2>4, <2>13, <3>1
  <2>1. ASSUME NEW p \in Permits, CommitTicket(p)
        PROVE  TicketsFollowPermit'
    <3>1. status[p] = "active" /\ UNCHANGED <<status, today>>
      BY <1>2, <2>1 DEF CommitTicket, RowLocks
    <3>2. \A q \in Permits : Replaced(q) => Replaced(q)'
      BY <2>12, <3>1
    <3>3. \A q \in Permits : q # p => ticket'[q] = ticket[q]
      BY <1>2, <2>1 DEF CommitTicket
    <3> QED
      BY <1>2, <3>1, <3>2, <3>3
  <2>3. CASE ExpireForestTickets
    <3>1. /\ UNCHANGED <<status, today>>
          /\ \A q \in Permits : ticket'[q] # NoTicket => ticket'[q] = ticket[q]
      BY <1>2, <2>3 DEF ExpireForestTickets
    <3> QED
      BY <2>13, <3>1
  <2>5. ASSUME NEW p \in Permits, Decision(p)
        PROVE  TicketsFollowPermit'
    <3>1. /\ today' = today /\ today \in Nat
          /\ \A q \in Permits : q # p => status'[q] = status[q] /\ ticket'[q] = ticket[q]
          /\ <<status[p], status'[p]>> \in PERMIT_TRANSITIONS
          /\ status'[p] \in {"suspended", "active", "archived"} => ticket' = ticket
          /\ status'[p] = "revoked" => ticket'[p] = NoTicket
          /\ status'[p] \in {"suspended", "active", "archived", "revoked"}
          /\ status[p] = "pending_signatures" => FALSE
      BY <1>2, <2>5 DEF Decision, Suspend, Resume, Revoke, RevokeTicketsOf, ArchivePermit,
                        Decide, SetStatus, PERMIT_TRANSITIONS
    <3>2. \A q \in Permits : Replaced(q) => Replaced(q)'
      BY <2>12, <3>1
    <3>3. \A q \in Permits : ticket'[q] # NoTicket => ticket'[q] = ticket[q]
      BY <3>1
    <3>4. ASSUME NEW q \in Permits, ticket'[q] # NoTicket
          PROVE  \/ status'[q] = status[q]
                 \/ status'[q] \in {"active", "suspended"}
                 \/ status[q] = "expired" /\ status'[q] = "archived"
      <4>1. CASE q # p
        BY <3>1, <4>1
      <4>2. CASE q = p
        <5>1. ticket[p] # NoTicket => status[p] # "revoked"
          BY <1>2
        <5>2. status'[p] = "archived" => status[p] \in {"revoked", "expired"}
          BY <3>1 DEF PERMIT_TRANSITIONS
        <5> QED
          BY <3>1, <3>3, <3>4, <4>2, <5>1, <5>2
      <4> QED
        BY <4>1, <4>2
    <3> QED
      BY <2>4, <3>1, <3>2, <3>3, <3>4
  <2>6. ASSUME NEW p \in Permits, CommitIssue(p)
        PROVE  TicketsFollowPermit'
    <3>1. status[p] = "none" /\ UNCHANGED <<ticket, today>>
      BY <1>2, <2>6 DEF CommitIssue, RowLocks
    <3>2. \A q \in Permits : q # p => status'[q] = status[q]
      BY <1>2, <2>6 DEF CommitIssue
    <3>3. \A q \in Permits : Replaced(q) => Replaced(q)'
      BY <2>12, <3>1, <3>2
    <3>4. ticket[p] = NoTicket
      BY <1>2, <3>1
    <3> QED
      BY <1>2, <2>4, <3>1, <3>2, <3>3, <3>4
  <2>7. ASSUME NEW s \in signing, CommitSignature(s)
        PROVE  TicketsFollowPermit'
    <3>1. /\ s.permit \in Permits /\ status[s.permit] = "pending_signatures"
          /\ UNCHANGED <<ticket, today>> /\ today \in Nat
      BY <1>2, <2>7 DEF CommitSignature, RowLocks
    <3>2. CASE UNCHANGED status
      BY <2>13, <3>1, <3>2
    <3>3. CASE Activate(s)
      <4>1. \A q \in Permits : status'[q] = IF q = s.permit THEN "active"
                                            ELSE IF q \in ClosedParent(s) THEN "expired"
                                            ELSE status[q]
        BY <3>3 DEF Activate
      <4>2. \A q \in Permits : Replaced(q) => Replaced(q)'
        BY <2>12, <4>1
      <4>3. ASSUME NEW q \in Permits, q \in ClosedParent(s), q # s.permit
            PROVE  Replaced(q)'
        <5>1. Parent[s.permit] = q /\ s.permit \in Extensions
          BY <3>1, <4>3, PermitsAssumption DEF ClosedParent, Extensions
        <5> QED
          BY <3>1, <4>1, <5>1 DEF Replaced
      <4> QED
        BY <2>4, <3>1, <4>1, <4>2, <4>3
    <3> QED
      BY <2>7, <3>2, <3>3 DEF CommitSignature
  <2>8. CASE ExpirePermits
    <3>1. UNCHANGED <<ticket, today>> /\ today \in Nat
      BY <1>2, <2>8 DEF ExpirePermits
    <3>2. \A q \in Permits :
            \/ status'[q] = status[q]
            \/ status'[q] = "expired" /\ Last[q] < today
      BY <2>8 DEF ExpirePermits, Batch, EndingBefore
    <3>3. \A q \in Permits : Replaced(q) => Replaced(q)'
      BY <2>12, <3>2
    <3> QED
      BY <2>4, <3>1, <3>2, <3>3
  <2>9. CASE UNCHANGED <<status, ticket, today>>
    BY <2>9, <2>13
  <2>14. CASE Tick
    <3>1. /\ UNCHANGED <<status, ticket>> /\ today' \in Nat /\ today <= today'
      BY <1>2, <2>14 DEF Tick
    <3>2. \A q \in Permits : Replaced(q) => Replaced(q)'
      BY <2>12, <3>1
    <3> QED
      BY <2>4, <3>1, <3>2
  <2> QED
    <3>1. CASE \/ \E p \in Permits : \/ BeginIssue(p) \/ AbortIssue(p)
                                     \/ BeginTicket(p) \/ Extension(p)
               \/ \E p \in Permits, purpose \in Purposes : BeginSignature(p, purpose)
               \/ \E s \in signing : LookAtParent(s) \/ AbortSignature(s)
      BY <2>9, <3>1 DEF BeginIssue, AbortIssue, BeginTicket, Extension, Extend,
                        SettleExtension, BeginSignature, LookAtParent, AbortSignature
    <3>2. CASE \/ \E purposes \in RequiredSets : ChangeRequired(purposes)
               \/ \E capacity \in Capacities : PublishNorm(capacity)
               \/ CloseFinished \/ WatchStalledPermits \/ UNCHANGED vars
      BY <2>9, <3>2 DEF ChangeRequired, PublishNorm, CloseFinished, WatchStalledPermits, vars
    <3> QED
      BY <1>2, <2>1, <2>3, <2>5, <2>6, <2>7, <2>8, <2>14, <3>1, <3>2
      DEF Next, Issuance, Signature, Ticket, Jobs
<1> QED
  BY <1>1, <1>2, TicketsWithinStep, TypeCorrect, LocksHold, PTL DEF Spec

-----------------------------------------------------------------------------
(* Extensions.                                                              *)

\* The extension need not be in force any more: once it was, its parent is in force only if
\* it was resumed. A signature that found the parent no longer in force finds it so still,
\* or resumed.
ReplacedForGood ==
  /\ ExtensionReplacesParent
  /\ \A p \in Extensions :
       status[p] \notin {"none", "pending_signatures"} /\ status[Parent[p]] = "active" =>
         Parent[p] \in resumed
  /\ \A s \in signing :
       s.parent # "none" =>
         /\ Parent[s.permit] # NoPermit
         /\ s.parent = "over" /\ status[Parent[s.permit]] = "active" =>
              Parent[s.permit] \in resumed

\* An extension that comes into force ends its parent in the same commit, and nothing else
\* ends a permit early: for any chain of extensions, and although the parent is read without
\* a lock, when a suspension, a resumption or an end of it comes in between.
THEOREM ExtensionsReplace == Spec => []ExtensionReplacesParent
<1> USE DEF ReplacedForGood, ExtensionReplacesParent, Replaced
<1>1. Init => ReplacedForGood
  BY PermitsAssumption DEF Init, Extensions
<1>2. ASSUME TypeOK, RowLocks, ReplacedForGood, [Next]_vars
      PROVE  ReplacedForGood'
  <2> USE DEF TypeOK, rowVars, settingVars
  <2>1. \A p \in Extensions : p \in Permits /\ Parent[p] \in Permits
    BY PermitsAssumption DEF Extensions
  <2>2. \A p \in Permits : Last[p] \in Nat
    BY PermitsAssumption
  <2>9. \A s \in signing : /\ s.permit \in Permits
                           /\ s.parent \in {"none", "active", "over"}
                           /\ s.parent # "none" => s.permit \in Extensions
    BY <1>2 DEF Extensions
  <2>3. ASSUME NEW s \in signing, CommitSignature(s)
        PROVE  ReplacedForGood'
    <3>1. /\ s.permit \in Permits /\ status[s.permit] = "pending_signatures"
          /\ application[s.permit] # "none"
      BY <1>2 DEF RowLocks
    <3>2. UNCHANGED <<today, resumed>> /\ signing' \subseteq signing
      BY <2>3 DEF CommitSignature
    <3>3. CASE UNCHANGED status
      BY <1>2, <3>2, <3>3
    <3>4. CASE Activate(s)
      <4>1. \A q \in Permits :
              status'[q] = IF q = s.permit THEN "active"
                           ELSE IF s.parent = "active" /\ q = Parent[s.permit] THEN "expired"
                           ELSE status[q]
        BY <3>4 DEF Activate, ClosedParent
      <4>2. /\ \A q \in Permits : q = Parent[s.permit] => s.permit \in Extensions
            /\ Parent[s.permit] # NoPermit => s.parent \in {"active", "over"}
        BY <2>9, <3>1, <3>4, PermitsAssumption DEF Activate, Extensions
      <4>3. \A p \in Extensions : Parent[p] = s.permit =>
              status[p] \in {"none", "pending_signatures"} /\ p # s.permit
        BY <1>2, <2>1, <3>1 DEF RowLocks
      <4>4. \A p \in Extensions :
              status'[p] \notin {"none", "pending_signatures"} /\ status'[Parent[p]] = "active"
                => Parent[p] \in resumed
        <5> SUFFICES ASSUME NEW p \in Extensions,
                            status'[p] \notin {"none", "pending_signatures"},
                            status'[Parent[p]] = "active"
                     PROVE  Parent[p] \in resumed
          OBVIOUS
        <5>1. p \in Permits /\ Parent[p] \in Permits
          BY <2>1
        <5>2. CASE Parent[p] = s.permit
          <6>1. status[p] \in {"none", "pending_signatures"} /\ p # s.permit
            BY <4>3, <5>2
          <6>2. s.parent = "active" => p # Parent[s.permit]
            BY <1>2, <2>9, <3>1, <6>1 DEF RowLocks
          <6> QED
            BY <4>1, <5>1, <6>1, <6>2
        <5>3. CASE Parent[p] # s.permit /\ p = s.permit
          <6>1. s.parent = "over" /\ status[Parent[p]] = "active"
            BY <4>1, <4>2, <5>1, <5>3, PermitsAssumption
          <6> QED
            BY <1>2, <5>3, <6>1
        <5>4. CASE Parent[p] # s.permit /\ p # s.permit
          <6>1. status[Parent[p]] = "active"
            BY <4>1, <5>1, <5>4
          <6>2. status[p] \notin {"none", "pending_signatures"}
            <7>1. CASE s.parent = "active" /\ p = Parent[s.permit]
              BY <1>2, <2>9, <3>1, <7>1 DEF RowLocks
            <7>2. CASE ~ (s.parent = "active" /\ p = Parent[s.permit])
              BY <4>1, <5>1, <5>4, <7>2
            <7> QED
              BY <7>1, <7>2
          <6> QED
            BY <1>2, <6>1, <6>2
        <5> QED
          BY <5>2, <5>3, <5>4
      <4>5. \A q \in Permits : status'[q] = "expired" /\ today <= Last[q] =>
              \E p \in Extensions :
                Parent[p] = q /\ status'[p] \notin {"none", "pending_signatures"}
        <5> SUFFICES ASSUME NEW q \in Permits, status'[q] = "expired", today <= Last[q]
                     PROVE  \E p \in Extensions :
                       Parent[p] = q /\ status'[p] \notin {"none", "pending_signatures"}
          OBVIOUS
        <5>1. CASE q = Parent[s.permit]
          BY <3>1, <4>1, <4>2, <5>1
        <5>2. CASE q # Parent[s.permit]
          <6>1. status[q] = "expired"
            BY <4>1, <5>2
          <6>2. PICK p \in Extensions :
                  Parent[p] = q /\ status[p] \notin {"none", "pending_signatures"}
            BY <1>2, <6>1
          <6>3. status'[p] \notin {"none", "pending_signatures"}
            BY <2>1, <4>1, <6>2
          <6> QED
            BY <6>2, <6>3
        <5> QED
          BY <5>1, <5>2
      <4>6. \A t \in signing' :
              t.parent # "none" =>
                /\ Parent[t.permit] # NoPermit
                /\ t.parent = "over" /\ status'[Parent[t.permit]] = "active" =>
                     Parent[t.permit] \in resumed
        <5> SUFFICES ASSUME NEW t \in signing', t.parent # "none"
                     PROVE  /\ Parent[t.permit] # NoPermit
                            /\ t.parent = "over" /\ status'[Parent[t.permit]] = "active" =>
                                 Parent[t.permit] \in resumed
          OBVIOUS
        <5>1. t \in signing /\ t.permit \in Extensions
          BY <2>9, <3>2
        <5>2. Parent[t.permit] \in Permits /\ application[t.permit] # "none"
          BY <1>2, <2>1, <5>1 DEF RowLocks
        <5>3. Parent[t.permit] # s.permit
          BY <1>2, <3>1, <5>1, <5>2 DEF RowLocks
        <5> QED
          BY <1>2, <4>1, <5>1, <5>2, <5>3
      <4> QED
        BY <2>1, <3>2, <4>4, <4>5, <4>6
    <3> QED
      BY <2>3, <3>3, <3>4 DEF CommitSignature
  <2>10. ASSUME NEW s \in signing, LookAtParent(s)
         PROVE  ReplacedForGood'
    <3>1. UNCHANGED <<status, today, resumed>>
      BY <2>10 DEF LookAtParent
    <3> DEFINE n == Looked(s)
    <3>2. /\ signing' = (signing \ {s}) \cup {n}
          /\ n.permit = s.permit
          /\ n.parent = "over" => status[Parent[s.permit]] # "active"
      BY <1>2, <2>10, LookSteps
    <3> HIDE DEF n
    <3>3. Parent[s.permit] # NoPermit
      BY <2>10 DEF LookAtParent
    <3> QED
      BY <1>2, <3>1, <3>2, <3>3
  <2>11. ASSUME NEW p \in Permits, NEW purpose \in Purposes, BeginSignature(p, purpose)
         PROVE  ReplacedForGood'
    <3>1. UNCHANGED <<status, today, resumed>>
      BY <2>11 DEF BeginSignature
    <3>2. PICK n : signing' = signing \cup {n} /\ n.parent = "none"
      <4>1. NewSignature(p, purpose).parent = "none"
        BY DEF NewSignature
      <4>2. signing' = signing \cup {NewSignature(p, purpose)}
        BY <2>11 DEF BeginSignature
      <4> QED
        BY <4>1, <4>2
    <3> QED
      BY <1>2, <3>1, <3>2
  <2>4. ASSUME NEW p \in Permits, CommitIssue(p)
        PROVE  ReplacedForGood'
    <3>1. status[p] = "none" /\ UNCHANGED <<today, resumed, signing>>
      BY <1>2, <2>4 DEF CommitIssue, RowLocks
    <3>2. \A q \in Permits : status'[q] = IF q = p THEN "pending_signatures" ELSE status[q]
      BY <1>2, <2>4 DEF CommitIssue
    <3> QED
      BY <1>2, <2>1, <2>9, <3>1, <3>2
  <2>5. ASSUME NEW p \in Permits, Decision(p)
        PROVE  ReplacedForGood'
    <3>1. UNCHANGED <<today, signing>>
      BY <2>5 DEF Decision, Suspend, Resume, Revoke, ArchivePermit, Decide, requestVars
    <3>2. \A q \in Permits :
            /\ status'[q] \in {"none", "pending_signatures"}
                 <=> status[q] \in {"none", "pending_signatures"}
            /\ status'[q] = "expired" => status[q] = "expired"
            /\ status'[q] = "active" => status[q] = "active" \/ q \in resumed'
            /\ q \in resumed => q \in resumed'
      BY <1>2, <2>5 DEF Decision, Suspend, Resume, Revoke, ArchivePermit, Decide,
                        SetStatus, PERMIT_TRANSITIONS
    <3> QED
      BY <1>2, <2>1, <2>9, <3>1, <3>2
  <2>6. CASE ExpirePermits
    <3>1. UNCHANGED <<today, resumed, signing>>
      BY <2>6 DEF ExpirePermits, requestVars
    <3>2. \A q \in Permits :
            \/ status'[q] = status[q]
            \/ /\ status[q] \in {"active", "suspended"} /\ status'[q] = "expired"
               /\ Last[q] < today
      BY <2>6 DEF ExpirePermits, Batch, EndingBefore
    <3> QED
      BY <1>2, <2>1, <2>2, <2>9, <3>1, <3>2
  <2>7. CASE Tick
    BY <1>2, <2>2, <2>7 DEF Tick, requestVars
  <2>12. ASSUME UNCHANGED <<status, today, resumed>>, signing' \subseteq signing
         PROVE  ReplacedForGood'
    BY <1>2, <2>12
  <2> QED
    <3>1. CASE \/ \E p \in Permits : \/ BeginIssue(p) \/ AbortIssue(p)
                                     \/ Ticket(p) \/ Extension(p)
               \/ \E s \in signing : AbortSignature(s)
      BY <2>12, <3>1 DEF BeginIssue, AbortIssue, Ticket, BeginTicket, CommitTicket, Extension,
                         Extend, SettleExtension, AbortSignature, requestVars
    <3>2. CASE \/ \E purposes \in RequiredSets : ChangeRequired(purposes)
               \/ \E capacity \in Capacities : PublishNorm(capacity)
               \/ CloseFinished \/ ExpireForestTickets \/ WatchStalledPermits
               \/ UNCHANGED vars
      BY <2>12, <3>2 DEF ChangeRequired, PublishNorm, CloseFinished, ExpireForestTickets,
                         WatchStalledPermits, vars, requestVars
    <3> QED
      BY <1>2, <2>3, <2>4, <2>5, <2>6, <2>7, <2>10, <2>11, <3>1, <3>2
      DEF Next, Issuance, Signature, Jobs
<1>3. ReplacedForGood => ExtensionReplacesParent
  OBVIOUS
<1> QED
  BY <1>1, <1>2, <1>3, TypeCorrect, LocksHold, PTL DEF Spec

-----------------------------------------------------------------------------
(* Permits implements Plot.                                                 *)

\* Whoever is issuing still fits beside what is held: only it may add to it.
RoomIsKept == \A p \in issuing : GivenPlot!Fits(p, Held, norm_seen)

\* There is as much room beside fewer claims.
LEMMA FitsShrinks ==
  ASSUME NEW p \in Permits, NEW S \in SUBSET Permits, NEW T \in SUBSET S,
         NEW n \in Capacities, GivenPlot!Fits(p, S, n)
  PROVE  GivenPlot!Fits(p, T, n)
<1> DEFINE met(R) == {q \in R : GivenPlot!Meet(p, q)}
<1>1. CASE n = NoNorm
  BY <1>1 DEF GivenPlot!Fits
<1>2. CASE n # NoNorm
  <2>1. met(S) \in SUBSET Permits /\ met(T) \in SUBSET Permits /\ met(T) \subseteq met(S)
    OBVIOUS
  <2>2. Total[met(T)] <= Total[met(S)]
    BY <2>1, PermitsAssumption
  <2>3. /\ Total[met(T)] \in Nat /\ Total[met(S)] \in Nat
        /\ n \in Nat /\ Load[p] \in Nat
    BY <1>2, <2>1, PermitsAssumption
  <2>4. Load[p] <= n - Total[met(S)]
    BY <1>2 DEF GivenPlot!Fits
  <2>5. Load[p] <= n - Total[met(T)]
    <3> HIDE DEF met
    <3> QED
      BY <2>2, <2>3, <2>4
  <2> QED
    BY <1>2, <2>5 DEF GivenPlot!Fits
<1> QED
  BY <1>1, <1>2

\* A permit holds a part of the plot from its issuance; every other step keeps or gives back.
LEMMA HeldSteps ==
  ASSUME TypeOK, RowLocks, [Next]_vars
  PROVE  \/ \E p \in issuing : CommitIssue(p)
         \/ \E p \in Permits : BeginIssue(p) /\ Held' \subseteq Held
         \/ issuing' = {} /\ Held' \subseteq Held
         \/ UNCHANGED <<issuing, norm_seen>> /\ Held' \subseteq Held
<1> USE DEF Held, Occupying, OCCUPYING_STATUSES, TypeOK, rowVars, settingVars, requestVars
<1>1. CASE \E p \in Permits : CommitIssue(p)
  BY <1>1 DEF CommitIssue
<1>2. CASE \E p \in Permits : BeginIssue(p)
  BY <1>2 DEF BeginIssue
<1>3. ASSUME NEW p \in Permits, AbortIssue(p)
      PROVE  issuing' = {} /\ Held' \subseteq Held
  BY <1>3 DEF AbortIssue, RowLocks
<1>4. ASSUME NEW s \in signing, CommitSignature(s)
      PROVE  UNCHANGED <<issuing, norm_seen>> /\ Held' \subseteq Held
  BY <1>4 DEF CommitSignature, Activate, RowLocks
<1>5. ASSUME NEW p \in Permits, Decision(p)
      PROVE  UNCHANGED <<issuing, norm_seen>> /\ Held' \subseteq Held
  <2>1. CASE Resume(p)
    BY <2>1 DEF Resume, Decide, SetStatus
  <2>2. CASE Suspend(p)
    BY <2>2 DEF Suspend, Decide, SetStatus
  <2>3. CASE Revoke(p)
    BY <2>3 DEF Revoke, Decide, SetStatus
  <2>4. CASE ArchivePermit(p)
    BY <2>4 DEF ArchivePermit, Decide, SetStatus
  <2> QED
    BY <1>5, <2>1, <2>2, <2>3, <2>4 DEF Decision
<1>6. ASSUME ExpirePermits
      PROVE  UNCHANGED <<issuing, norm_seen>> /\ Held' \subseteq Held
  BY <1>6 DEF ExpirePermits
<1>7. CASE UNCHANGED <<status, resumed, issuing, norm_seen>>
  BY <1>7
<1> QED
  <2>1. CASE \/ \E p \in Permits : Ticket(p) \/ Extension(p)
             \/ \E p \in Permits, purpose \in Purposes : BeginSignature(p, purpose)
             \/ \E s \in signing : LookAtParent(s) \/ AbortSignature(s)
    BY <1>7, <2>1 DEF LookAtParent, Ticket, BeginTicket, CommitTicket, Extension, Extend, SettleExtension,
                      BeginSignature, AbortSignature
  <2>2. CASE \/ \E purposes \in RequiredSets : ChangeRequired(purposes)
             \/ \E capacity \in Capacities : PublishNorm(capacity)
             \/ Tick \/ CloseFinished \/ ExpireForestTickets \/ WatchStalledPermits
             \/ UNCHANGED vars
    BY <1>7, <2>2 DEF ChangeRequired, PublishNorm, Tick, CloseFinished, ExpireForestTickets,
                      WatchStalledPermits, vars
  <2> QED
    BY <1>1, <1>2, <1>3, <1>4, <1>5, <1>6, <2>1, <2>2
    DEF Next, Issuance, Signature, Jobs

\* Nothing that happens while a permit is being issued takes its room.
LEMMA RoomStep ==
  ASSUME TypeOK, TypeOK', RowLocks, RoomIsKept, [Next]_vars
  PROVE  RoomIsKept'
<1> USE DEF RoomIsKept
<1>1. Held \in SUBSET Permits
  BY DEF Held, Occupying
<1>2. CASE issuing' = {}
  BY <1>2
<1>3. ASSUME NEW p \in issuing, CommitIssue(p)
      PROVE  issuing' = {}
  BY <1>3 DEF CommitIssue, RowLocks
<1>4. ASSUME NEW p \in Permits, BeginIssue(p), Held' \subseteq Held
      PROVE  RoomIsKept'
  <2>1. GivenPlot!Fits(p, Occupying, norm)
    BY <1>4 DEF BeginIssue, ContourStillHasRoom, Committed, GivenPlot!Fits, GivenPlot!Meet, Meet
  <2>2. Occupying \in SUBSET Permits /\ Held' \in SUBSET Occupying /\ norm \in Capacities
    BY <1>4 DEF Held, Occupying, TypeOK
  <2>3. GivenPlot!Fits(p, Held', norm)
    BY <2>1, <2>2, FitsShrinks
  <2>4. issuing' = {p} /\ norm_seen' = norm
    BY <1>4 DEF BeginIssue, PlotFree
  <2> QED
    BY <2>3, <2>4 DEF GivenPlot!Fits, GivenPlot!Meet
<1>5. ASSUME UNCHANGED <<issuing, norm_seen>>, Held' \subseteq Held
      PROVE  RoomIsKept'
  <2>1. \A p \in issuing : GivenPlot!Fits(p, Held', norm_seen)
    BY <1>1, <1>5, FitsShrinks DEF TypeOK
  <2> QED
    BY <1>5, <2>1 DEF GivenPlot!Fits, GivenPlot!Meet
<1> QED
  BY <1>2, <1>3, <1>4, <1>5, HeldSteps

\* Issuance promises what Plot promises: a step of Permits takes a part of the plot where
\* there is room, or gives back, or leaves it as it is.
THEOREM PermitsImplementPlot == Spec => ImplementsPlot
<1>1. Init => GivenPlot!Init
  BY DEF Init, GivenPlot!Init, Held, Occupying, OCCUPYING_STATUSES, PlotNorm
<1>2. ASSUME TypeOK, TypeOK', RowLocks, RoomIsKept, [Next]_vars
      PROVE  [GivenPlot!Next]_(GivenPlot!vars)
  <2>1. PlotNorm' \in Capacities
    BY <1>2 DEF TypeOK, PlotNorm
  <2>2. CASE Held' \subseteq Held
    BY <2>1, <2>2 DEF GivenPlot!Next, GivenPlot!Release
  <2>3. ASSUME NEW p \in issuing, CommitIssue(p), ~ (Held' \subseteq Held)
        PROVE  GivenPlot!Take(p)
    <3>1. p \in Permits /\ p \notin Held
      BY <1>2 DEF TypeOK, RowLocks, Held, Occupying, OCCUPYING_STATUSES
    <3>2. Held' = Held \cup {p}
      BY <1>2, <2>3 DEF CommitIssue, TypeOK, Held, Occupying, OCCUPYING_STATUSES
    <3>3. GivenPlot!Fits(p, Held, PlotNorm)
      BY <1>2 DEF RoomIsKept, PlotNorm
    <3> QED
      BY <3>1, <3>2, <3>3 DEF GivenPlot!Take
  <2> QED
    BY <1>2, <2>1, <2>2, <2>3, HeldSteps DEF GivenPlot!Next, TypeOK
<1>3. Init => RoomIsKept
  BY DEF Init, RoomIsKept
<1>4. Spec => []RoomIsKept
  BY <1>3, RoomStep, TypeCorrect, LocksHold, PTL DEF Spec
<1> QED
  BY <1>1, <1>2, <1>4, TypeCorrect, LocksHold, PTL DEF Spec, ImplementsPlot, GivenPlot!Spec

\* What is proved of every plot, of this one.
GivenPlotTheorems == INSTANCE PlotProofs WITH
  Claims <- Permits, held <- Held, capacity <- PlotNorm

\* No day of the plot is given beyond a norm that was in force, except to one permit alone,
\* however issuances, signatures, decisions and the jobs meet; resumed permits aside.
THEOREM PermitsNeverOvergiven == Spec => []NeverOvergiven
<1>1. GivenPlotTheorems!PlotAssumption
  BY PermitsAssumption DEF GivenPlotTheorems!PlotAssumption
<1>2. GivenPlotTheorems!Spec => []GivenPlotTheorems!NeverOvergiven
  BY <1>1, GivenPlotTheorems!PlotNeverOvergiven
<1>3. Spec => ImplementsPlot
  BY PermitsImplementPlot
<1>4. GivenPlot!Init => GivenPlotTheorems!Init
  BY DEF GivenPlot!Init, GivenPlotTheorems!Init
<1>5. [GivenPlot!Next]_(GivenPlot!vars) => [GivenPlotTheorems!Next]_(GivenPlotTheorems!vars)
  BY DEF GivenPlot!Next, GivenPlot!vars, GivenPlot!Take, GivenPlot!Release, GivenPlot!Fits,
         GivenPlot!Meet, GivenPlotTheorems!Next, GivenPlotTheorems!vars,
         GivenPlotTheorems!Take, GivenPlotTheorems!Release, GivenPlotTheorems!Fits,
         GivenPlotTheorems!Meet
<1>6. GivenPlotTheorems!NeverOvergiven => NeverOvergiven
  BY DEF NeverOvergiven, GivenPlot!NeverOvergiven, GivenPlot!Days, GivenPlot!HoldersOn,
         GivenPlotTheorems!NeverOvergiven, GivenPlotTheorems!Days, GivenPlotTheorems!HoldersOn
<1> QED
  BY <1>2, <1>3, <1>4, <1>5, <1>6, PTL
  DEF ImplementsPlot, GivenPlot!Spec, GivenPlotTheorems!Spec
=============================================================================
