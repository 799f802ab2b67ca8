----------------------------- MODULE Statements -----------------------------
(***************************************************************************)
(* Reading one account's statement from a bank that answers in windows of   *)
(* days and numbered pages (inter_pj.rs, statement_http.rs of means-server).*)
(* The bank may change what it lists between two answers, once: only the    *)
(* totals that a page announces tell, and of two changes one may hide the   *)
(* other.  wise.rs reads the same windows, each as one answer: PageSize as  *)
(* large as the list.                                                      *)
(***************************************************************************)
EXTENDS Integers, Sequences, FiniteSets, Functions

CONSTANTS Records,   \* transactions the bank may list, numbered in its order
          DayOf,     \* record -> day, 1..LastDay
          LastDay,
          WindowDays,\* days of one interval: 30 for Inter, 365 for Wise
          PageSize, MaxPages,
          MaxChanges \* changes of the list while it is read

Days == 1..LastDay

VARIABLES list,     \* what the bank lists now
          always,   \* records listed since the reading began
          from,     \* first day asked for; the last is LastDay
          win,      \* number of the window that is read
          page,     \* number of the page that comes next, 0..
          expected, \* <<pages, elements>> that the first page of the window announced
          fetched,  \* records of the window so far
          rows,     \* the statement so far
          outcome,  \* "reading", "whole", "failed"
          changes

vars == <<list, always, from, win, page, expected, fetched, rows, outcome, changes>>
bankVars == <<list, always, changes>>

Nothing == <<>>
Smaller(a, b) == IF a < b THEN a ELSE b

(* Slip caught by StatementWhole: the next window begins on the last day of this one. *)
SharingADay(first, last, days) ==
  [i \in 1..((last - first) \div days + 1) |-> <<first + (i - 1) * (days - 1), Smaller(first + (i - 1) * (days - 1) + days - 1, last)>>]

(* ranges: intervals of so many days, one after the other, the last one cut short. *)
Ranges(first, last, days) ==
  [i \in 1..((last - first) \div days + 1) |-> <<first + (i - 1) * days, Smaller(first + i * days - 1, last)>>]

Window == Ranges(from, LastDay, WindowDays)[win]
Within(r) == DayOf[r] >= Window[1] /\ DayOf[r] <= Window[2]

Sorted(S) == [k \in 1..Cardinality(S) |-> CHOOSE n \in S : Cardinality({m \in S : m <= n}) = k]

(* What the bank answers: one page of the window's records and the totals. *)
Listed   == Sorted({r \in list : Within(r)})
Totals   == <<(Len(Listed) + PageSize - 1) \div PageSize, Len(Listed)>>
PageRows == SubSeq(Listed, page * PageSize + 1, Smaller((page + 1) * PageSize, Len(Listed)))

Init ==
  /\ list \in SUBSET Records /\ always = list
  /\ from \in Days
  /\ win = 1 /\ page = 0 /\ expected = Nothing /\ fetched = 0 /\ rows = <<>>
  /\ outcome = "reading" /\ changes = 0

(* A booking appears, or is taken back. *)
Appear(r) ==
  /\ changes < MaxChanges /\ r \notin list
  /\ list' = list \cup {r} /\ changes' = changes + 1
  /\ UNCHANGED <<always, from, win, page, expected, fetched, rows, outcome>>

Disappear(r) ==
  /\ changes < MaxChanges /\ r \in list
  /\ list' = list \ {r} /\ always' = always \ {r} /\ changes' = changes + 1
  /\ UNCHANGED <<from, win, page, expected, fetched, rows, outcome>>

(* Slip caught by StatementWhole: every page announces its own totals. *)
AnyTotals == Totals[1] <= MaxPages /\ (Totals[1] = 0 => Totals[2] = 0)

(* "Inter pagination changed or exceeded its limit; retry the account". *)
SameTotals ==
  /\ Totals[1] <= MaxPages /\ (Totals[1] = 0 => Totals[2] = 0)
  /\ expected \in {Nothing, Totals}

NoRepeats == Range(rows) \cap Range(PageRows) = {}
LastPage  == page + 1 >= Totals[1]
Counted   == fetched + Len(PageRows) = Totals[2]

Fail ==
  /\ outcome = "reading"
  /\ outcome' = "failed"
  /\ UNCHANGED <<bankVars, from, win, page, expected, fetched, rows>>

NextPage ==
  /\ outcome = "reading" /\ SameTotals /\ NoRepeats /\ ~LastPage
  /\ rows' = rows \o PageRows
  /\ fetched' = fetched + Len(PageRows)
  /\ expected' = Totals
  /\ page' = page + 1
  /\ UNCHANGED <<bankVars, from, win, outcome>>

EndOfWindow ==
  /\ outcome = "reading" /\ SameTotals /\ NoRepeats /\ LastPage /\ Counted
  /\ rows' = rows \o PageRows
  /\ IF Window[2] = LastDay THEN outcome' = "whole" /\ win' = win ELSE win' = win + 1 /\ outcome' = outcome
  /\ page' = 0 /\ expected' = Nothing /\ fetched' = 0
  /\ UNCHANGED <<bankVars, from>>

Refuse ==
  /\ ~(SameTotals /\ NoRepeats /\ (LastPage => Counted))
  /\ Fail

(* A request that is not answered, or with another status than success. *)
NoAnswer == Fail

Read == NextPage \/ EndOfWindow \/ Refuse

Next ==
  \/ \E r \in Records : Appear(r) \/ Disappear(r)
  \/ Read \/ NoAnswer

Spec == Init /\ [][Next]_vars

TypeOK ==
  /\ list \subseteq Records /\ always \subseteq list
  /\ win \in 1..Len(Ranges(from, LastDay, WindowDays))
  /\ outcome \in {"reading", "whole", "failed"}

(* A statement that the bank changed while it was read is either refused or holds every
   booking that was listed all the time: no change between two pages hides one. *)
NothingSkipped ==
  outcome = "whole" => {r \in always : DayOf[r] >= from} \subseteq Range(rows)

(* A booking is in the statement once, and only when its day was asked for. *)
NothingTwice == IsInjective(rows) /\ \A r \in Range(rows) : DayOf[r] >= from

(* The intervals of any period hold each of its days once. *)
EveryDayOnce ==
  LET R == Ranges(from, LastDay, WindowDays)
  IN  \A d \in from..LastDay : Cardinality({i \in DOMAIN R : d >= R[i][1] /\ d <= R[i][2]}) = 1

(* What is published as an account's statement: all bookings of all days asked for, once. *)
StatementWhole == NothingSkipped /\ NothingTwice /\ EveryDayOnce
=============================================================================
