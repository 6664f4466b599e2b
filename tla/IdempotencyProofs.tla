-------------------------- MODULE IdempotencyProofs --------------------------
(***************************************************************************)
(* Theorems about Idempotency, for any number of requests and bodies.      *)
(***************************************************************************)
EXTENDS Idempotency, TLAPS

\* An answer is never mistaken for the absence of one.
LEMMA ResponseIsResponse ==
  ASSUME NEW b \in Bodies, NEW ok \in BOOLEAN
  PROVE  /\ [body |-> b, ok |-> ok] \in Responses
         /\ [body |-> b, ok |-> ok] # NoResponse
  BY IdempotencyAssumption DEF Responses

\* The initial state satisfies every invariant below.
LEMMA Initially == Init => TypeOK /\ ClaimIsExclusive /\ AnswersOwnBody /\ SuccessMeansDone
<1> SUFFICES ASSUME Init
             PROVE  TypeOK /\ ClaimIsExclusive /\ AnswersOwnBody /\ SuccessMeansDone
  OBVIOUS
<1>1. TypeOK
  <2>1. effects \in [Bodies -> 0 .. 2]
    BY DEF Init
  <2>2. lapsed \in BOOLEAN
    BY DEF Init
  <2> QED  BY <2>1, <2>2 DEF Init, TypeOK, AGES, PCS
<1>2. ClaimIsExclusive
  BY DEF Init, ClaimIsExclusive, Working
<1>3. AnswersOwnBody /\ SuccessMeansDone
  BY DEF Init, AnswersOwnBody, SuccessMeansDone
<1> QED  BY <1>1, <1>2, <1>3

-----------------------------------------------------------------------------
(* Type correctness.                                                        *)

\* Every step, or stutter, keeps every column and request where it can be.
LEMMA TypeStep ==
  ASSUME TypeOK, [Next]_vars
  PROVE  TypeOK'
<1> USE IdempotencyAssumption DEF TypeOK, Goto, Answered, DeleteMarker, Save, marker,
                                  AGES, PCS
<1>1. ASSUME NEW r \in Requests, Insert(r)
      PROVE  TypeOK'
  BY <1>1 DEF Insert
<1>2. ASSUME NEW r \in Requests, Lookup(r)
      PROVE  TypeOK'
  BY <1>2 DEF Lookup
<1>3. ASSUME NEW r \in Requests, Reclaim(r)
      PROVE  TypeOK'
  BY <1>3 DEF Reclaim
<1>4. ASSUME NEW r \in Requests, NEW lost \in BOOLEAN, Succeed(r, lost)
      PROVE  TypeOK'
  <2>1. [body |-> Body[r], ok |-> TRUE] \in Responses
    BY ResponseIsResponse
  <2>2. effects' \in [Bodies -> 0 .. 2]
    BY <1>4 DEF Succeed
  <2>3. pc' \in [Requests -> PCS] /\ answer' \in [Requests -> Responses \cup {NoResponse}]
    BY <1>4, <2>1 DEF Succeed
  <2> QED  BY <1>4, <2>1, <2>2, <2>3 DEF Succeed
<1>5. ASSUME NEW r \in Requests, NEW step \in {"close", "unclaim"}, Raise(r, step)
      PROVE  TypeOK'
  BY <1>5 DEF Raise
<1>6. ASSUME NEW r \in Requests, Close(r)
      PROVE  TypeOK'
  <2>1. [body |-> Body[r], ok |-> FALSE] \in Responses
    BY ResponseIsResponse
  <2> QED  BY <1>6, <2>1 DEF Close
<1>7. ASSUME NEW r \in Requests, Unclaim(r) \/ Crash(r) \/ Retry(r)
      PROVE  TypeOK'
  BY <1>7 DEF Unclaim, Crash, Retry
<1>8. ASSUME GrowStale \/ GrowOld \/ PurgeStaleRows
      PROVE  TypeOK'
  BY <1>8 DEF GrowStale, GrowOld, PurgeStaleRows
<1>9. CASE UNCHANGED vars
  BY <1>9 DEF vars
<1> QED  BY <1>1, <1>2, <1>3, <1>4, <1>5, <1>6, <1>7, <1>8, <1>9 DEF Next

\* Every reachable state has the types of the table and of the code's variables.
THEOREM TypeCorrect == Spec => []TypeOK
<1>1. Init => TypeOK
  BY Initially
<1>2. TypeOK /\ [Next]_vars => TypeOK'
  BY TypeStep
<1> QED  BY <1>1, <1>2, PTL DEF Spec

-----------------------------------------------------------------------------
(* The claim of the key.                                                    *)

\* Whatever a request does, a key that has not lapsed belongs to one request at work.
LEMMA ClaimStep ==
  ASSUME TypeOK, ClaimIsExclusive, [Next]_vars
  PROVE  ClaimIsExclusive'
<1> SUFFICES ASSUME ~ lapsed'
             PROVE  ClaimIsExclusive'
  BY DEF ClaimIsExclusive
<1> USE IdempotencyAssumption DEF TypeOK, ClaimIsExclusive, Working, Goto, Answered,
                                  DeleteMarker, Save, marker, AGES, PCS
<1>1. ASSUME NEW r \in Requests, Insert(r)
      PROVE  ClaimIsExclusive'
  <2>1. CASE fingerprint = NoBody
    BY <1>1, <2>1 DEF Insert
  <2>2. CASE fingerprint # NoBody
    BY <1>1, <2>2 DEF Insert
  <2> QED  BY <2>1, <2>2
<1>2. ASSUME NEW r \in Requests, Lookup(r)
      PROVE  ClaimIsExclusive'
  BY <1>2 DEF Lookup, IsStale
<1>3. ASSUME NEW r \in Requests, Reclaim(r)
      PROVE  ClaimIsExclusive'
  BY <1>3 DEF Reclaim
<1>4. ASSUME NEW r \in Requests, NEW lost \in BOOLEAN, Succeed(r, lost)
      PROVE  ClaimIsExclusive'
  <2> DEFINE res == [body |-> Body[r], ok |-> TRUE]
  <2>1. res # NoResponse /\ res.body = Body[r]
    BY ResponseIsResponse
  <2>2. ~ lapsed /\ fingerprint = Body[r] /\ response = NoResponse /\ response' = res
    BY <1>4 DEF Succeed
  <2>3. effects' = [effects EXCEPT ![Body[r]] = 1]
    BY <1>4, <2>2 DEF Succeed
  <2>4. \A q \in Requests : pc'[q] # "reclaim" /\ ~ Working(q)'
    BY <1>4, <2>2 DEF Succeed
  <2>5. UNCHANGED <<fingerprint, age>>
    BY <1>4 DEF Succeed
  <2> HIDE DEF res
  <2> QED  BY <2>1, <2>2, <2>3, <2>4, <2>5
<1>5. ASSUME NEW r \in Requests, NEW step \in {"close", "unclaim"}, Raise(r, step)
      PROVE  ClaimIsExclusive'
  BY <1>5 DEF Raise
<1>6. ASSUME NEW r \in Requests, Close(r)
      PROVE  ClaimIsExclusive'
  <2> DEFINE res == [body |-> Body[r], ok |-> FALSE]
  <2>1. res # NoResponse /\ res.body = Body[r]
    BY ResponseIsResponse
  <2>2. ~ lapsed /\ fingerprint = Body[r] /\ response = NoResponse /\ response' = res
    BY <1>6 DEF Close
  <2>3. \A q \in Requests : pc'[q] # "reclaim" /\ ~ Working(q)'
    BY <1>6, <2>2 DEF Close
  <2>4. UNCHANGED <<fingerprint, age, effects>>
    BY <1>6 DEF Close
  <2> HIDE DEF res
  <2> QED  BY <2>1, <2>2, <2>3, <2>4
<1>7. ASSUME NEW r \in Requests, Unclaim(r)
      PROVE  ClaimIsExclusive'
  BY <1>7 DEF Unclaim
<1>8. ASSUME NEW r \in Requests, Crash(r) \/ Retry(r)
      PROVE  ClaimIsExclusive'
  BY <1>8 DEF Crash, Retry
<1>9. ASSUME GrowStale \/ GrowOld \/ PurgeStaleRows
      PROVE  ClaimIsExclusive'
  BY <1>9 DEF GrowStale, GrowOld, PurgeStaleRows
<1>10. CASE UNCHANGED vars
  BY <1>10 DEF vars
<1> QED  BY <1>1, <1>2, <1>3, <1>4, <1>5, <1>6, <1>7, <1>8, <1>9, <1>10 DEF Next

\* Until the key lapses, at most one request works under it, and nothing else moves it.
THEOREM ExclusiveClaim == Spec => []ClaimIsExclusive
<1>1. Init => TypeOK /\ ClaimIsExclusive
  BY Initially
<1>2. TypeOK /\ ClaimIsExclusive /\ [Next]_vars => TypeOK' /\ ClaimIsExclusive'
  BY TypeStep, ClaimStep
<1> QED  BY <1>1, <1>2, PTL DEF Spec

\* Until the key lapses, the work asked for under it is committed at most once.
THEOREM DoneOnce == Spec => []OnceUnlessLapsed
<1>1. TypeOK /\ ClaimIsExclusive => OnceUnlessLapsed
  BY DEF TypeOK, ClaimIsExclusive, OnceUnlessLapsed
<1> QED  BY <1>1, TypeCorrect, ExclusiveClaim, PTL

-----------------------------------------------------------------------------
(* Answers.                                                                 *)

\* Only Lookup, Succeed and Close answer anybody.
LEMMA WhoAnswers ==
  ASSUME [Next]_vars
  PROVE  \/ UNCHANGED answer
         \/ \E r \in Requests : Lookup(r) \/ Close(r) \/ \E lost \in BOOLEAN : Succeed(r, lost)
  BY DEF Next, vars, Insert, Reclaim, Raise, Unclaim, Crash, Retry, GrowStale, GrowOld,
         PurgeStaleRows

\* The fingerprint guards what is replayed, as long as the row is its own claim's.
LEMMA OwnBodyStep ==
  ASSUME TypeOK, ClaimIsExclusive, AnswersOwnBody, [Next]_vars
  PROVE  AnswersOwnBody'
<1> SUFFICES ASSUME ~ lapsed'
             PROVE  AnswersOwnBody'
  BY DEF AnswersOwnBody
<1>1. ~ lapsed
  BY DEF TypeOK, Next, vars, Insert, Lookup, Reclaim, Succeed, Raise, Close, Unclaim, Crash,
         Retry, GrowStale, GrowOld, PurgeStaleRows
<1>2. CASE UNCHANGED answer
  BY <1>1, <1>2 DEF AnswersOwnBody
<1>3. ASSUME NEW r \in Requests, Lookup(r)
      PROVE  AnswersOwnBody'
  <2>1. CASE UNCHANGED answer
    BY <1>1, <2>1 DEF AnswersOwnBody
  <2>2. CASE /\ fingerprint = Body[r] /\ response # NoResponse
             /\ answer' = [answer EXCEPT ![r] = response]
    BY <1>1, <2>2 DEF AnswersOwnBody, ClaimIsExclusive, TypeOK
  <2> QED  BY <1>3, <2>1, <2>2 DEF Lookup, Answered
<1>4. ASSUME NEW r \in Requests, NEW ok \in BOOLEAN,
             answer' = [answer EXCEPT ![r] = [body |-> Body[r], ok |-> ok]]
      PROVE  AnswersOwnBody'
  BY <1>1, <1>4 DEF AnswersOwnBody, TypeOK
<1>5. ASSUME NEW r \in Requests,
             Close(r) \/ \E lost \in BOOLEAN : Succeed(r, lost)
      PROVE  AnswersOwnBody'
  BY <1>2, <1>4, <1>5 DEF Close, Succeed, Answered
<1> QED  BY <1>2, <1>3, <1>5, WhoAnswers

\* Until the key lapses, whoever is answered is answered what it asked.
THEOREM OwnAnswer == Spec => []AnswersOwnBody
<1>1. Init => AnswersOwnBody
  BY Initially
<1>2. TypeOK /\ ClaimIsExclusive /\ AnswersOwnBody /\ [Next]_vars => AnswersOwnBody'
  BY OwnBodyStep
<1> QED  BY <1>1, <1>2, TypeCorrect, ExclusiveClaim, PTL DEF Spec

\* What is done stays done, so an answer that was true stays true.
LEMMA EffectsGrow ==
  ASSUME TypeOK, [Next]_vars, NEW b \in Bodies, effects[b] > 0
  PROVE  effects'[b] > 0
<1>1. CASE UNCHANGED effects
  BY <1>1
<1>2. ASSUME NEW r \in Requests, NEW lost \in BOOLEAN, Succeed(r, lost)
      PROVE  effects'[b] > 0
  BY <1>2 DEF Succeed, TypeOK
<1> QED
  BY <1>1, <1>2 DEF Next, vars, Insert, Lookup, Reclaim, Raise, Close, Unclaim, Crash,
                    Retry, GrowStale, GrowOld, PurgeStaleRows

\* A success is stored and told only with, or after, the commit of the work.
LEMMA SuccessStep ==
  ASSUME TypeOK, SuccessMeansDone, [Next]_vars
  PROVE  SuccessMeansDone'
<1> USE DEF TypeOK, Responses
<1>1. CASE response' \in {response, NoResponse} /\ UNCHANGED answer
  BY <1>1, EffectsGrow DEF SuccessMeansDone
<1>2. ASSUME NEW r \in Requests, Lookup(r)
      PROVE  SuccessMeansDone'
  BY <1>1, <1>2 DEF Lookup, Answered, SuccessMeansDone, marker
<1>3. ASSUME NEW r \in Requests, NEW lost \in BOOLEAN, Succeed(r, lost)
      PROVE  SuccessMeansDone'
  <2> DEFINE res == [body |-> Body[r], ok |-> TRUE]
  <2>1. Body[r] \in Bodies /\ res.body = Body[r]
    BY IdempotencyAssumption
  <2>2. effects'[Body[r]] > 0
    BY <1>3, <2>1 DEF Succeed
  <2>3. /\ response' \in {NoResponse, res}
        /\ \A q \in Requests : answer'[q] \in {answer[q], res}
    BY <1>3 DEF Succeed, Save, Answered
  <2>4. \A q \in Requests : answer'[q] = answer[q] \/ answer'[q] = res
    BY <2>3
  <2> HIDE DEF res
  <2> QED  BY <2>1, <2>2, <2>3, <2>4, EffectsGrow DEF SuccessMeansDone
<1>4. ASSUME NEW r \in Requests, Close(r)
      PROVE  SuccessMeansDone'
  <2> DEFINE res == [body |-> Body[r], ok |-> FALSE]
  <2>1. ~ res.ok
    OBVIOUS
  <2>2. /\ response' \in {NoResponse, res}
        /\ \A q \in Requests : answer'[q] = answer[q] \/ answer'[q] = res
    BY <1>4 DEF Close, Save, Answered
  <2> HIDE DEF res
  <2> QED  BY <2>1, <2>2, EffectsGrow DEF SuccessMeansDone
<1> QED
  BY <1>1, <1>2, <1>3, <1>4
  DEF Next, vars, marker, Insert, Reclaim, DeleteMarker, Raise, Unclaim, Crash, Retry,
      GrowStale, GrowOld, PurgeStaleRows

\* Lapsed or not, nobody is told of a success that was not committed.
THEOREM SuccessIsDone == Spec => []SuccessMeansDone
<1>1. Init => SuccessMeansDone
  BY Initially
<1>2. TypeOK /\ SuccessMeansDone /\ [Next]_vars => SuccessMeansDone'
  BY SuccessStep
<1> QED  BY <1>1, <1>2, TypeCorrect, PTL DEF Spec
=============================================================================
