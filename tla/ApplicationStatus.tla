------------------------- MODULE ApplicationStatus -------------------------
(***************************************************************************)
(* The status machine of a forest-use application.  Every module that      *)
(* moves an application (applications, payments, permits, archive) goes    *)
(* through the one table below; the other modules of this development      *)
(* extend this one.                                                        *)
(***************************************************************************)

APPLICATION_STATUSES ==
  {"SUBMITTED", "IN_REVIEW", "PENDING_INFO", "RETURNED", "APPROVED",
   "INVOICED", "PAID", "PERMIT_ISSUED", "REJECTED", "CANCELLED",
   "EXPIRED_UNPAID", "CLOSED", "ARCHIVED"}

\* The pairs <<from, to>> of the code's table; ARCHIVED has no way out.
APPLICATION_TRANSITIONS ==
  UNION {{"SUBMITTED"} \X {"IN_REVIEW", "RETURNED", "REJECTED", "CANCELLED"},
         {"IN_REVIEW"} \X {"PENDING_INFO", "APPROVED", "REJECTED", "RETURNED",
                           "CANCELLED"},
         {"PENDING_INFO"} \X {"IN_REVIEW", "CANCELLED"},
         {"RETURNED"} \X {"SUBMITTED", "CANCELLED"},
         {"APPROVED"} \X {"INVOICED"},
         {"INVOICED"} \X {"PAID", "EXPIRED_UNPAID", "CANCELLED"},
         {"PAID"} \X {"PERMIT_ISSUED"},
         {"PERMIT_ISSUED"} \X {"CLOSED"},
         {"REJECTED", "CANCELLED", "EXPIRED_UNPAID", "CLOSED"} \X {"ARCHIVED"}}

\* _assert_transition: the only question asked before a status is written.
MayMove(from, to) == <<from, to>> \in APPLICATION_TRANSITIONS

\* Mutated: the owner may withdraw an application that is billed already.
CANCELLABLE_UNTIL_PAID == {"SUBMITTED", "IN_REVIEW", "INVOICED"}

\* Where the owner may still withdraw.
CANCELLABLE_BY_APPLICANT_STATUSES == {"SUBMITTED", "IN_REVIEW"}

\* The statuses an application holds before anybody decided it.
UNDECIDED_STATUSES == {"SUBMITTED", "IN_REVIEW", "PENDING_INFO", "RETURNED"}
=============================================================================
