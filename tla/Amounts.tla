------------------------------- MODULE Amounts -------------------------------
(***************************************************************************)
(* Exact amounts: how they are rounded, divided into shares, resolved from *)
(* the lines of a template and made into the postings of an entry.         *)
(* crates/means-core/src: money.rs, splits.rs, templates.rs and prepare of *)
(* journal.rs.                                                             *)
(*                                                                         *)
(* An amount is a count of minor units.  There are two commodities of one  *)
(* precision: the functional currency of the books and a foreign one.      *)
(***************************************************************************)
EXTENDS Splits, FiniteSets, SequencesExt

CONSTANTS Home, Foreign,  \* commodities: functional, and another one
          Accounts,       \* accounts that take postings
          Commodity,      \* account -> Home or Foreign
          FxGainLoss,     \* the account with the role fx_gain_loss
          Rate,           \* <<n, d>>: n/d Home for one Foreign, or NoRate
          NoRate,
          MaxMinor        \* the largest i64

Fits(n)  == -MaxMinor - 1 <= n /\ n <= MaxMinor
Abs(n)   == IF n < 0 THEN -n ELSE n
Sign(n)  == IF n < 0 THEN -1 ELSE 1

(* Slip caught by SharesAreFair: half a unit is always rounded up. *)
HalfUp(n, d) == (2 * n + d) \div (2 * d)

(* n/d to the nearest integer, halves to the even one. *)
HalfEven(n, d) ==
  LET q == n \div d
      r == n % d
  IN  IF 2 * r < d \/ (2 * r = d /\ q % 2 = 0) THEN q ELSE q + 1

(* Equal shares of a total: the earlier ones take the remainder, and a negative
   total has the negated shares. *)
Split(total, n) ==
  [i \in 1..n |->
     Sign(total) * (Abs(total) \div n + IF i <= Abs(total) % n THEN 1 ELSE 0)]

(* Slip caught by SharesAreFair: what the quotas leave goes to the first line. *)
FirstTakesAll(total, ratios) ==
  LET sum   == SumFunction(ratios)
      quota == [i \in DOMAIN ratios |-> (Abs(total) * ratios[i]) \div sum]
  IN  [i \in DOMAIN ratios |->
         Sign(total) * (quota[i] + IF i = 1 THEN Abs(total) - SumFunction(quota) ELSE 0)]

(* Shares by ratio: the whole quotas, and one unit more for the largest
   remainders, the earlier share first among equal ones. *)
Allocate(total, ratios) ==
  LET sum       == SumFunction(ratios)
      quota     == [i \in DOMAIN ratios |-> (Abs(total) * ratios[i]) \div sum]
      rest      == [i \in DOMAIN ratios |-> (Abs(total) * ratios[i]) % sum]
      before(i) == {j \in DOMAIN ratios : rest[j] > rest[i] \/ (rest[j] = rest[i] /\ j < i)}
      left      == Abs(total) - SumFunction(quota)
  IN  [i \in DOMAIN ratios |->
         Sign(total) * (quota[i] + IF Cardinality(before(i)) < left THEN 1 ELSE 0)]

(* The shares of a group of percentages of one sign: of the rounded total, in the
   ratio of the percentages, which need not sum to a hundred. *)
AllocatePercentages(base, percentages) ==
  LET total   == HalfEven(base * SumFunction(percentages), 100)
      weights == [i \in DOMAIN percentages |-> Abs(percentages[i])]
  IN  IF SumFunction(weights) = 0 THEN [i \in DOMAIN percentages |-> total]
      ELSE IF \A i \in DOMAIN weights : weights[i] = weights[1] THEN Split(total, Len(percentages))
      ELSE Allocate(total, weights)

(* The postings that replace the Uncategorized one of a draft: the bank posting keeps
   its amount, the splits share it at the booked rate, and the last one absorbs the
   rounding.  Splits are on accounts in the functional currency. *)
Categories(bank, legs) ==
  LET shares == ResolveSplits(Abs(bank.quantity), legs)
      early  == [i \in 1..Len(legs) - 1 |-> HalfEven(-bank.amount * shares[i], Abs(bank.quantity))]
      amount == Append(early, -bank.amount - SumFunction(early))
  IN  IF shares = Refused
         \/ \E i \in DOMAIN legs :
              amount[i] = 0 \/ Sign(amount[i]) # Sign(-bank.amount) * Sign(shares[i])
      THEN Refused ELSE amount

(***************************************************************************)
(* The lines of a template: [account, method, value, of]                   *)
(***************************************************************************)

Valid(lines) ==
  /\ Len(lines) >= 2
  /\ \A i \in DOMAIN lines :
       /\ lines[i].method = "fixed" => lines[i].value # Unstated
       /\ lines[i].method = "percent_of" =>
            lines[i].of \in DOMAIN lines \ {i} /\ lines[i].value # Unstated
  /\ Cardinality({i \in DOMAIN lines : lines[i].method = "balance"}) <= 1

(* A value and its commodity. *)
Money(minor, commodity) == [minor |-> minor, commodity |-> commodity]

(* What a line says by itself; inputs give some of the lines their values. *)
Stated(lines, inputs, i) ==
  LET l     == lines[i]
      value == IF l.method = "input" /\ i \in DOMAIN inputs THEN inputs[i] ELSE l.value
  IN  IF l.method \in {"fixed", "input"} /\ value # Unstated
      THEN Money(value, Commodity[l.account]) ELSE Unstated

(* Slip caught by SharesAreFair: debit and credit shares of one line are netted. *)
AllPercentagesOf(lines, i) ==
  {j \in DOMAIN lines : lines[j].method = "percent_of" /\ lines[j].of = lines[i].of}

(* The percentages of one line with one sign are one distribution. *)
GroupOf(lines, i) ==
  {j \in DOMAIN lines :
     /\ lines[j].method = "percent_of" /\ lines[j].of = lines[i].of
     /\ (lines[j].value < 0) = (lines[i].value < 0)}

(* The share of a line in its group, in the order of the template. *)
ShareOf(lines, i, base) ==
  LET group  == SetToSortSeq(GroupOf(lines, i), <)
      shares == AllocatePercentages(base.minor, [k \in DOMAIN group |-> lines[group[k]].value])
      k      == CHOOSE k \in DOMAIN group : group[k] = i
  IN  Money(shares[k], base.commodity)

(* resolve_lines: as many passes as there are lines; a percentage is resolved after
   the line it is of, in that line's commodity.  A percentage of a balance or a ring
   of percentages is never resolved. *)
ResolveLines(lines, inputs) ==
  LET pass[n \in 0..Len(lines)] ==
        IF n = 0 THEN [i \in DOMAIN lines |-> Stated(lines, inputs, i)]
        ELSE [i \in DOMAIN lines |->
                IF lines[i].method = "percent_of" /\ pass[n - 1][lines[i].of] # Unstated
                THEN ShareOf(lines, i, pass[n - 1][lines[i].of])
                ELSE pass[n - 1][i]]
  IN  pass[Len(lines)]

(***************************************************************************)
(* prepare: the postings of an entry, [account, quantity, amount]          *)
(***************************************************************************)

(* value_functional: without a rate one is taken for one. *)
Value(commodity, q) ==
  IF commodity = Home \/ Rate = NoRate THEN q ELSE HalfEven(q * Rate[1], Rate[2])

(* convert: an amount in the functional currency, in the account's commodity. *)
Convert(account, a) ==
  IF Commodity[account] = Home \/ Rate = NoRate THEN a ELSE HalfEven(a * Rate[2], Rate[1])

(* A value in another commodity is converted by way of the functional one. *)
Posting(account, money) ==
  LET amount == Value(money.commodity, money.minor)
  IN  [account |-> account, amount |-> amount,
       quantity |-> IF money.commodity = Commodity[account] THEN money.minor
                    ELSE Convert(account, amount)]

(* Slip caught by EntriesBalance: the balancing posting repeats the total. *)
Repeating(account, total) == [account |-> account, amount |-> total, quantity |-> Convert(account, total)]

Balancing(account, total) == [account |-> account, amount |-> -total, quantity |-> Convert(account, -total)]

(* The balancing line takes what the others leave; without one, what is left is an
   exchange difference. *)
Prepare(lines, values) ==
  LET given    == {i \in DOMAIN lines : lines[i].method # "balance"}
      postings == [i \in given |-> Posting(lines[i].account, values[i])]
      total    == SumFunction([i \in given |-> postings[i].amount])
      all      == [i \in DOMAIN lines |->
                     IF i \in given THEN postings[i] ELSE Balancing(lines[i].account, total)]
  IN  IF given = DOMAIN lines /\ total # 0 THEN Append(all, Balancing(FxGainLoss, total)) ELSE all

(* Nothing at all, a balancing posting that rounds to zero, or beyond 64 bits. *)
Unacceptable(lines, postings) ==
  \/ \A i \in DOMAIN postings : postings[i].quantity = 0
  \/ \E i \in DOMAIN lines :
       lines[i].method = "balance" /\ postings[i].quantity = 0 /\ postings[i].amount # 0
  \/ \E i \in DOMAIN postings : ~Fits(postings[i].quantity) \/ ~Fits(postings[i].amount)

(* apply_template: the postings of the lines with these inputs. *)
Booking(lines, inputs) ==
  LET values   == ResolveLines(lines, inputs)
      postings == Prepare(lines, values)
  IN  IF \/ \E i \in DOMAIN lines : lines[i].method # "balance" /\ values[i] = Unstated
         \/ Unacceptable(lines, postings)
      THEN Refused ELSE postings
==============================================================================
