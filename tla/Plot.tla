-------------------------------- MODULE Plot --------------------------------
(***************************************************************************)
(* What issuance promises about one plot (a contour and an activity): a    *)
(* permit is given only if it fits beside every permit that already holds  *)
(* a part of the plot in some day of its period.  How that is decided -    *)
(* requests, locks, a norm read earlier - is Permits' business.            *)
(***************************************************************************)
EXTENDS Integers, FiniteSets

CONSTANTS
  Claims,       \* whatever may hold a part of the plot
  First, Last,  \* the period of each claim, both days included
  Load,         \* how much of the plot it takes
  Total,        \* SUM over a set of claims
  Capacities,   \* what norms may allow
  NoNorm        \* no norm: the plot is for one claim at a time

\* What the module that uses this one assumes of them.
PlotAssumption ==
  /\ First \in [Claims -> Nat]
  /\ Last \in [Claims -> Nat]
  /\ Load \in [Claims -> Nat]
  /\ Capacities \ {NoNorm} \subseteq Nat
  /\ Total \in [SUBSET Claims -> Nat]
  /\ Total[{}] = 0
  /\ \A S \in SUBSET Claims : \A p \in Claims \ S : Total[S \cup {p}] = Total[S] + Load[p]
  /\ \A S, T \in SUBSET Claims : S \subseteq T => Total[S] <= Total[T]

VARIABLES
  capacity,  \* what the plot's norm allows
  held       \* the claims that hold a part of it

vars == <<capacity, held>>

\* Two inclusive periods meet.
Meet(p, q) == First[p] <= Last[q] /\ First[q] <= Last[p]

\* Room beside the claims of S, under a norm.
Fits(p, S, norm) ==
  LET met == {q \in S : Meet(p, q)}
  IN IF norm = NoNorm THEN met = {} ELSE Load[p] <= norm - Total[met]

TypeOK ==
  /\ capacity \in Capacities
  /\ held \in SUBSET Claims

Init ==
  /\ capacity \in Capacities
  /\ held = {}

Take(p) ==
  /\ p \in Claims \ held
  /\ Fits(p, held, capacity)
  /\ held' = held \cup {p}

Release == held' \in SUBSET held

\* A norm may be published at any time, and may be lower than what is held.
Next ==
  /\ (\E p \in Claims : Take(p)) \/ Release
  /\ capacity' \in Capacities

Spec == Init /\ [][Next]_vars

-----------------------------------------------------------------------------
Days == UNION {First[p] .. Last[p] : p \in Claims}
HoldersOn(day) == {p \in held : First[p] <= day /\ day <= Last[p]}

\* On no day is more of the plot held than some norm allowed, unless one claim holds it
\* alone: _assert_contour_still_has_room adds up all periods that meet the new one, and
\* that must be enough for every single day, in whatever order claims come and go.
NeverOvergiven ==
  \A day \in Days :
    \/ \E norm \in Capacities \ {NoNorm} : Total[HoldersOn(day)] <= norm
    \/ \E p \in Claims : HoldersOn(day) \subseteq {p}
=============================================================================
