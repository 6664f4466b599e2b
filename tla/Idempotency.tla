----------------------------- MODULE Idempotency -----------------------------
(***************************************************************************)
(* One Idempotency-Key of one user: core/idempotency.py, its dependency in *)
(* auth/deps.py, and the three exception handlers of main.py that settle   *)
(* the key of a request that failed.                                       *)
(*                                                                         *)
(* The requests that carry the key are a client's first call, its retries  *)
(* and its duplicates.  begin() is a loop of short statements, each        *)
(* committed before the next; the handler's own work and the answer that   *)
(* save() stores are one commit.  An action is one such statement or       *)
(* commit.                                                                 *)
(***************************************************************************)
EXTENDS Naturals

CONSTANTS
  Requests,     \* the calls that carry the key; each is repeated until it is answered
  Bodies,       \* what a call may ask for, as its fingerprint tells calls apart
  Body,         \* Requests -> Bodies
  NoBody, NoResponse

ASSUME IdempotencyAssumption ==
  /\ Body \in [Requests -> Bodies]
  /\ NoBody \notin Bodies
  /\ NoResponse \notin [body : Bodies, ok : BOOLEAN]

VARIABLES
  fingerprint,  \* idempotency_keys.fingerprint, NoBody while there is no row
  response,     \* response_status and response_body, NoResponse while NULL
  age,          \* of created_at: "new", "stale" (IN_FLIGHT_TTL) or "old" (retention)
  pc,           \* request -> the statement it comes to next
  answer,       \* request -> the response its client received
  effects,      \* body -> how often a handler committed it; 2 stands for "or more"
  lapsed        \* the key lost its row, or its claim, by the passing of time

marker == <<fingerprint, response, age>>
vars == <<marker, pc, answer, effects, lapsed>>

Responses == [body : Bodies, ok : BOOLEAN]

AGES == {"new", "stale", "old"}
PCS == {"insert", "lookup", "reclaim", "handler", "close", "unclaim", "again", "answered",
        "mismatch"}

Goto(r, step) == pc' = [pc EXCEPT ![r] = step]

Answered(r, res) ==
  /\ Goto(r, "answered")
  /\ answer' = [answer EXCEPT ![r] = res]

DeleteMarker ==
  /\ fingerprint' = NoBody
  /\ response' = NoResponse
  /\ age' = "new"

\* Mutated: an upsert, which may write an answer to no row.
SaveUpsert(res) ==
  /\ response' = res
  /\ UNCHANGED <<fingerprint, age>>

\* IdempotencyContext.save: an UPDATE of whatever row the key has by now.
Save(res) ==
  /\ response' = IF fingerprint = NoBody THEN NoResponse ELSE res
  /\ UNCHANGED <<fingerprint, age>>

-----------------------------------------------------------------------------
Init ==
  /\ fingerprint = NoBody
  /\ response = NoResponse
  /\ age = "new"
  /\ pc = [r \in Requests |-> "insert"]
  /\ answer = [r \in Requests |-> NoResponse]
  /\ effects = [b \in Bodies |-> 0]
  /\ lapsed = FALSE

\* Mutated: the marker is left to the handler's own commit, so nobody sees it.
InsertUnseen(r) ==
  /\ pc[r] = "insert"
  /\ Goto(r, IF fingerprint = NoBody THEN "handler" ELSE "lookup")
  /\ UNCHANGED <<marker, answer, effects, lapsed>>

\* INSERT ... ON CONFLICT DO NOTHING, and the commit that shows the marker to others.
Insert(r) ==
  /\ pc[r] = "insert"
  /\ IF fingerprint = NoBody
     THEN /\ fingerprint' = Body[r]
          /\ Goto(r, "handler")
     ELSE /\ UNCHANGED fingerprint
          /\ Goto(r, "lookup")
  /\ UNCHANGED <<response, age, answer, effects, lapsed>>

\* Mutated: the time limit is compared the wrong way round.
IsStaleInTime == age = "new"

\* created_at < now - IN_FLIGHT_TTL
IsStale == age # "new"

\* Mutated: the fingerprint is not compared.
LookupAnyBody(r) ==
  /\ pc[r] = "lookup"
  /\ \/ /\ fingerprint = NoBody
        /\ Goto(r, "insert")
        /\ UNCHANGED answer
     \/ /\ response # NoResponse
        /\ Answered(r, response)
     \/ /\ fingerprint # NoBody
        /\ response = NoResponse
        /\ Goto(r, IF IsStale THEN "reclaim" ELSE "again")
        /\ UNCHANGED answer
  /\ UNCHANGED <<marker, effects, lapsed>>

\* The row that was in the way, read once: gone, another call's, answered, stale or busy.
Lookup(r) ==
  /\ pc[r] = "lookup"
  /\ \/ /\ fingerprint = NoBody
        /\ Goto(r, "insert")
        /\ UNCHANGED answer
     \/ /\ fingerprint \notin {NoBody, Body[r]}
        /\ Goto(r, "mismatch")
        /\ UNCHANGED answer
     \/ /\ fingerprint = Body[r]
        /\ response # NoResponse
        /\ Answered(r, response)
     \/ /\ fingerprint = Body[r]
        /\ response = NoResponse
        /\ Goto(r, IF IsStale THEN "reclaim" ELSE "again")
        /\ UNCHANGED answer
  /\ UNCHANGED <<marker, effects, lapsed>>

\* The DELETE of a stale marker, by key and user alone, and its commit.
Reclaim(r) ==
  /\ pc[r] = "reclaim"
  /\ DeleteMarker
  /\ Goto(r, "insert")
  /\ UNCHANGED <<answer, effects, lapsed>>

-----------------------------------------------------------------------------
(* The handler.                                                             *)

\* It succeeds: its work and its answer become visible together, before the answer is
\* sent (CommitBeforeResponseMiddleware); the answer may be lost on its way.
Succeed(r, lost) ==
  /\ pc[r] = "handler"
  /\ effects' = [effects EXCEPT ![Body[r]] = IF @ = 0 THEN 1 ELSE 2]
  /\ Save([body |-> Body[r], ok |-> TRUE])
  /\ IF lost
     THEN Goto(r, "again") /\ UNCHANGED answer
     ELSE Answered(r, [body |-> Body[r], ok |-> TRUE])
  /\ UNCHANGED lapsed

\* Mutated: the answer was saved in a session of its own, which the rollback misses.
RaiseKeepsAnswer(r, step) ==
  /\ pc[r] = "handler"
  /\ step \in {"close", "unclaim"}
  /\ Save([body |-> Body[r], ok |-> TRUE])
  /\ Goto(r, step)
  /\ UNCHANGED <<answer, effects, lapsed>>

\* It refuses (DomainError, RequestValidationError) or breaks: get_db rolls its work back.
Raise(r, step) ==
  /\ pc[r] = "handler"
  /\ step \in {"close", "unclaim"}
  /\ Goto(r, step)
  /\ UNCHANGED <<marker, answer, effects, lapsed>>

\* _settle_idempotency_record(close=(status, body)), in a session of its own.
Close(r) ==
  /\ pc[r] = "close"
  /\ Save([body |-> Body[r], ok |-> FALSE])
  /\ Answered(r, [body |-> Body[r], ok |-> FALSE])
  /\ UNCHANGED <<effects, lapsed>>

\* _settle_idempotency_record(close=None): a 500, and the same call may come again.
Unclaim(r) ==
  /\ pc[r] = "unclaim"
  /\ DeleteMarker
  /\ Goto(r, "again")
  /\ UNCHANGED <<answer, effects, lapsed>>

\* The process dies, and with it what was not committed.
Crash(r) ==
  /\ pc[r] \in {"handler", "close", "unclaim"}
  /\ Goto(r, "again")
  /\ UNCHANGED <<marker, answer, effects, lapsed>>

\* The client had no answer, a 500 or the 409 `in_flight`, and calls again.
Retry(r) ==
  /\ pc[r] = "again"
  /\ Goto(r, "insert")
  /\ UNCHANGED <<marker, answer, effects, lapsed>>

-----------------------------------------------------------------------------
(* Time.                                                                    *)

\* IN_FLIGHT_TTL passes.
GrowStale ==
  /\ fingerprint # NoBody
  /\ age = "new"
  /\ age' = "stale"
  /\ lapsed' = (lapsed \/ response = NoResponse)
  /\ UNCHANGED <<fingerprint, response, pc, answer, effects>>

\* purge_idempotency_after_hours pass.
GrowOld ==
  /\ age = "stale"
  /\ age' = "old"
  /\ UNCHANGED <<fingerprint, response, pc, answer, effects, lapsed>>

\* The nightly job deletes by age alone.
PurgeStaleRows ==
  /\ age = "old"
  /\ DeleteMarker
  /\ lapsed' = TRUE
  /\ UNCHANGED <<pc, answer, effects>>

-----------------------------------------------------------------------------
Next ==
  \/ \E r \in Requests :
       \/ Insert(r)
       \/ Lookup(r)
       \/ Reclaim(r)
       \/ \E lost \in BOOLEAN : Succeed(r, lost)
       \/ \E step \in {"close", "unclaim"} : Raise(r, step)
       \/ Close(r)
       \/ Unclaim(r)
       \/ Crash(r)
       \/ Retry(r)
  \/ GrowStale
  \/ GrowOld
  \/ PurgeStaleRows

Statement(r) == Insert(r) \/ Lookup(r) \/ Reclaim(r) \/ Unclaim(r) \/ Retry(r)
Finish(r) == Succeed(r, FALSE) \/ Close(r)

\* A statement that can run does, time passes, clients call again, and a call that is
\* handled again and again does not break down every time.
Fairness ==
  /\ WF_vars(GrowStale)
  /\ \A r \in Requests : WF_vars(Statement(r)) /\ SF_vars(Finish(r))

Spec == Init /\ [][Next]_vars /\ Fairness

-----------------------------------------------------------------------------
(* Properties.                                                              *)

\* Every column and every request is where it can be, and no row has no answer.
TypeOK ==
  /\ fingerprint \in Bodies \cup {NoBody}
  /\ response \in Responses \cup {NoResponse}
  /\ age \in AGES
  /\ fingerprint = NoBody => response = NoResponse /\ age = "new"
  /\ pc \in [Requests -> PCS]
  /\ answer \in [Requests -> Responses \cup {NoResponse}]
  /\ effects \in [Bodies -> 0 .. 2]
  /\ lapsed \in BOOLEAN

\* While the key has not lapsed, its work is done at most once whatever duplicates,
\* retries, failures and lost answers there are, for at most one body, ...
OnceUnlessLapsed ==
  ~ lapsed => \A b \in Bodies :
                /\ effects[b] <= 1
                /\ \A c \in Bodies : effects[b] > 0 /\ effects[c] > 0 => b = c

\* ... and whoever got an answer got the one to what it asked.
AnswersOwnBody ==
  ~ lapsed => \A r \in Requests : answer[r] # NoResponse => answer[r].body = Body[r]

\* Requests between their claim of the key and its settlement.
Working(r) == pc[r] \in {"handler", "close", "unclaim"}

\* Why: until the key lapses, its row belongs to the one request at work, which alone
\* answers or deletes it; nobody has found it stale, and nothing is done before it is
\* answered.
ClaimIsExclusive ==
  ~ lapsed =>
    /\ \A r \in Requests :
         /\ pc[r] # "reclaim"
         /\ Working(r) => fingerprint = Body[r] /\ response = NoResponse
         /\ \A q \in Requests : Working(r) /\ Working(q) => r = q
    /\ age # "new" => response # NoResponse
    /\ response = NoResponse => \A b \in Bodies : effects[b] = 0
    /\ response # NoResponse =>
         /\ response.body = fingerprint
         /\ effects[fingerprint] <= 1
         /\ \A b \in Bodies \ {fingerprint} : effects[b] = 0

\* No success is stored or told before the work is committed, lapsed or not: a crash, a
\* rollback or a reclaimed marker never leaves a success nobody did.
SuccessMeansDone ==
  /\ \A r \in Requests :
       answer[r] # NoResponse /\ answer[r].ok => effects[answer[r].body] > 0
  /\ response # NoResponse /\ response.ok => effects[response.body] > 0

\* "markers older than 5 minutes with no response are re-claimed": no other marker is
\* deleted to be claimed again.
ReclaimsStaleOnly ==
  [][\A r \in Requests :
       pc[r] = "reclaim" /\ pc'[r] = "insert" /\ fingerprint # NoBody
         => IsStale /\ response = NoResponse]_vars

\* "a crashed handler must not block retries": whoever keeps calling is answered, by the
\* handler, by a replay or by the refusal of another body.
EveryCallIsAnswered ==
  \A r \in Requests : <>(pc[r] \in {"answered", "mismatch"})
=============================================================================
