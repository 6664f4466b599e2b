------------------------------ MODULE MCReview ------------------------------
(***************************************************************************)
(* A forestry under a region under the agency: the meadow is the           *)
(* forestry's, the grove the region's own. Under the                       *)
(* high tariff a plot is beyond what the head may decide, and the grove is *)
(* too large for the head under any.                                       *)
(***************************************************************************)
EXTENDS Review

CONSTANTS north, region, agency, meadow, grove, clerk, head, director, low, high, member, disabled

MCParentOrg == [o \in Organizations |-> CASE o = north -> region
                                         [] o = region -> agency
                                         [] OTHER -> None]
MCOrgOf == [c \in Contours |-> IF c = meadow THEN north ELSE region]
MCZone == [u \in Users |-> IF u = clerk THEN {north}
                          ELSE IF u = head THEN {north, region} ELSE Organizations]
MCLimit == [u \in Deciders |-> IF u = head THEN 1 ELSE None]
MCAreaOf == [c \in Contours |-> IF c = meadow THEN 1 ELSE 2]
MCMaxArea == [u \in Deciders |-> IF u = head THEN 1 ELSE None]
MCPrice == [x \in Contours \X Tariffs |-> IF x[2] = high THEN 2 ELSE 1]
=============================================================================
