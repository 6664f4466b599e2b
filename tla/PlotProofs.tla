----------------------------- MODULE PlotProofs -----------------------------
(***************************************************************************)
(* A plot is never given beyond a norm, for any claims and any norms.      *)
(***************************************************************************)
EXTENDS Plot, TLAPS

\* The constants and variables of a plot keep their types, whoever takes and leaves.
THEOREM PlotTypeCorrect == PlotAssumption => (Spec => []TypeOK)
<1>1. Init => TypeOK
  BY DEF Init, TypeOK
<1>2. TypeOK /\ [Next]_vars => TypeOK'
  BY DEF TypeOK, Next, Take, Release, vars
<1> QED
  BY <1>1, <1>2, PTL DEF Spec

\* What is taken on a day is either old, or all of it meets the new claim.
LEMMA TakeFits ==
  ASSUME PlotAssumption, TypeOK, NeverOvergiven, NEW p \in Claims, Take(p), NEW day \in Days
  PROVE  \/ \E norm \in Capacities \ {NoNorm} : Total[HoldersOn(day)'] <= norm
         \/ \E q \in Claims : HoldersOn(day)' \subseteq {q}
<1> DEFINE met == {q \in held : Meet(p, q)}
<1>1. CASE ~ (First[p] <= day /\ day <= Last[p])
  <2>1. HoldersOn(day)' = HoldersOn(day)
    BY <1>1 DEF Take, HoldersOn
  <2> QED
    BY <2>1 DEF NeverOvergiven
<1>2. CASE First[p] <= day /\ day <= Last[p]
  <2>1. day \in Int /\ \A q \in Claims : First[q] \in Nat /\ Last[q] \in Nat
    BY DEF Days, PlotAssumption
  <2>2. HoldersOn(day) \subseteq met
    BY <1>2, <2>1 DEF HoldersOn, Meet, TypeOK
  <2>3. HoldersOn(day)' \subseteq met \cup {p}
    BY <2>2 DEF Take, HoldersOn
  <2>4. CASE capacity = NoNorm
    <3>1. met = {}
      BY <2>4 DEF Take, Fits
    <3> QED
      BY <3>1, <2>3
  <2>5. CASE capacity # NoNorm
    <3>1. capacity \in Capacities \ {NoNorm} /\ capacity \in Nat
      BY <2>5 DEF TypeOK, PlotAssumption
    <3>2. Load[p] <= capacity - Total[met]
      BY <2>5 DEF Take, Fits
    <3>3. met \in SUBSET Claims /\ met \cup {p} \in SUBSET Claims /\ p \notin met
      BY DEF TypeOK, Take
    <3>4. Total[met \cup {p}] = Total[met] + Load[p]
      BY <3>3 DEF PlotAssumption
    <3>5. HoldersOn(day)' \in SUBSET Claims
      BY <2>3, <3>3
    <3>6. Total[HoldersOn(day)'] <= Total[met \cup {p}]
      BY <2>3, <3>3, <3>5 DEF PlotAssumption
    <3>7. /\ Total[met] \in Nat /\ Total[met \cup {p}] \in Nat
          /\ Total[HoldersOn(day)'] \in Nat /\ Load[p] \in Nat
      BY <3>3, <3>5 DEF PlotAssumption
    <3> HIDE DEF met
    <3>8. Total[HoldersOn(day)'] <= capacity
      BY <3>1, <3>2, <3>4, <3>6, <3>7
    <3> QED
      BY <3>1, <3>8
  <2> QED
    BY <2>4, <2>5
<1> QED
  BY <1>1, <1>2

\* Claims that leave a day leave less of it taken.
LEMMA ReleaseFits ==
  ASSUME PlotAssumption, TypeOK, NeverOvergiven, Release, NEW day \in Days
  PROVE  \/ \E norm \in Capacities \ {NoNorm} : Total[HoldersOn(day)'] <= norm
         \/ \E q \in Claims : HoldersOn(day)' \subseteq {q}
<1>1. HoldersOn(day)' \subseteq HoldersOn(day) /\ HoldersOn(day) \in SUBSET Claims
  BY DEF Release, HoldersOn, TypeOK
<1>2. HoldersOn(day)' \in SUBSET Claims
  BY <1>1
<1>3. Total[HoldersOn(day)'] <= Total[HoldersOn(day)]
  BY <1>1, <1>2 DEF PlotAssumption
<1>4. Total[HoldersOn(day)'] \in Nat /\ Total[HoldersOn(day)] \in Nat
  BY <1>1, <1>2 DEF PlotAssumption
<1>5. CASE \E q \in Claims : HoldersOn(day) \subseteq {q}
  BY <1>1, <1>5
<1>6. CASE \E norm \in Capacities \ {NoNorm} : Total[HoldersOn(day)] <= norm
  <2>1. PICK norm \in Capacities \ {NoNorm} : Total[HoldersOn(day)] <= norm
    BY <1>6
  <2>2. norm \in Nat
    BY DEF PlotAssumption
  <2>3. Total[HoldersOn(day)'] <= norm
    BY <1>3, <1>4, <2>1, <2>2
  <2> QED
    BY <2>3
<1> QED
  BY <1>5, <1>6 DEF NeverOvergiven

\* The sum over the periods that meet a new one bounds every single day: in whatever
\* order claims come and go, a day is never given beyond a norm that was in force, except
\* to one claim alone (_assert_contour_still_has_room).
THEOREM PlotNeverOvergiven == PlotAssumption => (Spec => []NeverOvergiven)
<1> SUFFICES ASSUME PlotAssumption PROVE Spec => []NeverOvergiven
  OBVIOUS
<1>1. TypeOK /\ Init => NeverOvergiven
  <2> SUFFICES ASSUME TypeOK, Init, NEW day \in Days
      PROVE \E q \in Claims : HoldersOn(day) \subseteq {q}
    BY DEF NeverOvergiven
  <2>1. PICK q \in Claims : day \in First[q] .. Last[q]
    BY DEF Days
  <2>2. HoldersOn(day) = {}
    BY DEF Init, HoldersOn
  <2> QED
    BY <2>1, <2>2
<1>2. TypeOK /\ NeverOvergiven /\ [Next]_vars => NeverOvergiven'
  <2> SUFFICES ASSUME TypeOK, NeverOvergiven, [Next]_vars PROVE NeverOvergiven'
    OBVIOUS
  <2>1. CASE \E p \in Claims : Take(p)
    BY <2>1, TakeFits DEF NeverOvergiven, Days
  <2>2. CASE Release
    BY <2>2, ReleaseFits DEF NeverOvergiven, Days
  <2>3. CASE UNCHANGED vars
    BY <2>3 DEF vars, NeverOvergiven, HoldersOn, Days
  <2> QED
    BY <2>1, <2>2, <2>3 DEF Next
<1>3. Spec => []TypeOK
  BY PlotTypeCorrect
<1>4. TypeOK /\ Init => NeverOvergiven
  BY <1>1
<1> QED
  BY <1>2, <1>3, <1>4, PTL DEF Spec
=============================================================================
