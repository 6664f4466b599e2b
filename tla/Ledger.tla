------------------------------ MODULE Ledger ------------------------------
(***************************************************************************)
(* payments/ledger.py: how money that arrived is divided, and the rows the *)
(* division writes.  Amounts are whole tiyin; a percentage is in hundredths *)
(* of a percent (Numeric(5, 2)).                                           *)
(***************************************************************************)
EXTENDS Integers, SequencesExt

CONSTANT Leshoz   \* recipient_id NULL: the forestry that gets the remainder

HUNDRED == 10000

\* One rule's share: a percentage floored to the tiyin, or a fixed amount.
Part(amount, rule) ==
  CASE rule.kind = "percent" -> (amount * rule.percent) \div HUNDRED
    [] rule.kind = "fixed"   -> IF amount = 0 THEN 0 ELSE rule.fixed_amount

\* What the rows at the positions S add up to, and all of them.
Booked(rows, S) == SumFunctionOnSet([i \in DOMAIN rows |-> rows[i].amount], S)
Total(rows) == Booked(rows, DOMAIN rows)

ConfiguredShares(amount, rules) ==
  [i \in DOMAIN rules |-> [recipient |-> rules[i].recipient,
                           amount |-> Part(amount, rules[i])]]

\* Mutated: a remainder below zero is clamped.
RemainderClamped(amount, rules) ==
  LET rest == amount - Total(ConfiguredShares(amount, rules))
  IN IF rest < 0 THEN 0 ELSE rest

\* What is left for the leshoz; below zero, the code raises SplitDoesNotFit.
Remainder(amount, rules) == amount - Total(ConfiguredShares(amount, rules))

Fits(amount, rules) == Remainder(amount, rules) >= 0

SplitPayment(amount, rules) ==
  Append(ConfiguredShares(amount, rules),
         [recipient |-> Leshoz, amount |-> Remainder(amount, rules)])

\* The rows of the ledger: what kind of entry, for which refund, whose, how much.
Entry(type, refund, recipient, amount) ==
  [entry_type |-> type, refund |-> refund, recipient |-> recipient, amount |-> amount]

EntriesForShares(shares, none) ==
  [i \in DOMAIN shares |-> Entry("payment", none, shares[i].recipient, shares[i].amount)]
=============================================================================
