------------------------------ MODULE Templates ------------------------------
(***************************************************************************)
(* Entry templates, applied by hand, by a rule, or on a schedule:          *)
(* crates/means-core/src/templates.rs, and categorize of journal.rs for    *)
(* the drafts they leave.                                                  *)
(*                                                                         *)
(* The server holds its connection for a whole run of the schedules, but   *)
(* every entry is a transaction of its own: between two of them commands   *)
(* of the CLI, on the same file, delete drafts, void entries, apply rules  *)
(* or close a period, and the server dies.                                 *)
(***************************************************************************)
EXTENDS Amounts

CONSTANTS Templates,  \* 1..n, in the order of their names
          Layouts,    \* lines that a template may have
          Every,      \* intervals in days of a recurrence; 0: none
          Starts,     \* first dates of a recurrence
          Auto,       \* whether occurrences are posted
          Ends,       \* last dates of a recurrence; 0: none
          LastDay,    \* bound: schedules run up to days 1..LastDay; 0 is before them all
          Limit,      \* occurrences taken by one run
          Entries,    \* rows of the journal
          MaxVersion, \* bound on the versions of a template
          ByHand,     \* days on which people and rules apply one
          Values,     \* amounts given for the lines that ask for one
          Bank, Suspense, \* accounts of statements and of Uncategorized
          Legs        \* ways to split a draft over categories

Days   == 1..LastDay
NoDate == 0
Later  == LastDay + Max(Every \cup {0})  \* the next date of a schedule may be after them
None   == [kind |-> "none"]

VARIABLES template, \* template -> its row, or None
          entry,    \* journal entry -> its row, or None
          lock,     \* lock date of the entity
          run,      \* the run of the schedules in progress
          booked    \* occurrences ever booked, deleted or not: for the properties

vars == <<template, entry, lock, run, booked>>

Idle == [todo |-> <<>>, dates |-> <<>>, last |-> NoDate, until |-> NoDate]

Init ==
  /\ template = [t \in Templates |-> None]
  /\ entry = [e \in Entries |-> None]
  /\ lock = NoDate
  /\ run = Idle
  /\ booked = {}

Stored == {t \in Templates : template[t] # None}
Rows   == {e \in Entries : entry[e] # None}
Free   == Entries \ Rows
New    == CHOOSE e \in Free : TRUE

(***************************************************************************)
(* Templates                                                               *)
(***************************************************************************)

Bumped(old, new) == IF old.lines # new.lines THEN old.version + 1 ELSE old.version

(* save_template: the client says when the schedule is due next, or nobody does. *)
Save(t, new, next) ==
  LET row == [new EXCEPT !.next = IF new.every = 0 THEN NoDate
                                  ELSE IF next = NoDate THEN new.starts ELSE next]
  IN
  /\ run = Idle
  /\ Valid(new.lines)
  /\ t \in Stored => Bumped(template[t], row) <= MaxVersion
  /\ template' = [template EXCEPT ![t] =
       IF t \in Stored THEN [row EXCEPT !.version = Bumped(template[t], row)] ELSE row]
  /\ UNCHANGED <<entry, lock, run, booked>>

(* Slip caught by TypeOK: the template of kept entries goes. *)
DeleteAnyway(t) ==
  /\ run = Idle
  /\ t \in Stored
  /\ template' = [template EXCEPT ![t] = None]
  /\ booked' = {b \in booked : b[1] # t}
  /\ UNCHANGED <<entry, lock, run>>

(* delete_template: one that entries were made from is only made inactive. *)
Delete(t) ==
  LET used == \E e \in Rows : entry[e].template = t
  IN
  /\ run = Idle
  /\ t \in Stored
  /\ template' = [template EXCEPT ![t] = IF used THEN [@ EXCEPT !.active = FALSE] ELSE None]
  /\ booked' = IF used THEN booked ELSE {b \in booked : b[1] # t}
  /\ UNCHANGED <<entry, lock, run>>

(* An entry made from the template: its row names the template and its version.  What
   it was resolved from, and the amount of its statement line, are for the properties. *)
Applied(t, inputs, date, origin, status, line) ==
  [kind |-> "entry", template |-> t, version |-> template[t].version, date |-> date,
   origin |-> origin, status |-> status, lines |-> template[t].lines, inputs |-> inputs,
   line |-> line, postings |-> Booking(template[t].lines, inputs)]

(* apply_template: a posted entry must be after the lock date. *)
Apply(row) ==
  /\ Free # {}
  /\ row.status = "posted" => row.date > lock
  /\ row.postings # Refused
  /\ entry' = [entry EXCEPT ![New] = row]

(* The lines that ask for a value, all with the same one, or with none. *)
InputsFor(lines) ==
  {<<>>} \cup {[i \in {j \in DOMAIN lines : lines[j].method = "input"} |-> v] : v \in Values}

ApplyByHand(t, date, status) ==
  /\ run = Idle
  /\ t \in Stored
  /\ \E row \in {Applied(t, inputs, date, "manual", status, Unstated) :
                    inputs \in InputsFor(template[t].lines)} : Apply(row)
  /\ UNCHANGED <<template, lock, run, booked>>

(* Slip caught by StatementKept: any posting on the account will do. *)
AnyPosting(postings, v) == \E i \in DOMAIN postings : postings[i].account = Bank

Preserved(postings, v) ==
  \E i \in DOMAIN postings : postings[i].account = Bank /\ postings[i].quantity = v

(* The template's lines on the bank account take the amount of the statement line. *)
FromLine(t, v) ==
  LET lines == template[t].lines
  IN  [i \in {j \in DOMAIN lines : lines[j].method = "input" /\ lines[j].account = Bank} |-> v]

(* draft_from_line: a rule's entry must have the amount of the line. *)
ApplyByRule(t, date, v) ==
  /\ t \in Stored
  /\ \E row \in {Applied(t, FromLine(t, v), date, "rule", "posted", v)} :
       Apply(row) /\ Preserved(row.postings, v)
  /\ UNCHANGED <<template, lock, run, booked>>

(* create_entry_from_line, with a template chosen on the review screen: the first
   posting on the account becomes the evidence of the line, whatever its amount. *)
ApplyToLine(t, date, v, status) ==
  /\ run = Idle
  /\ t \in Stored
  /\ \E row \in {Applied(t, FromLine(t, v), date, "import", status, v)} : Apply(row)
  /\ UNCHANGED <<template, lock, run, booked>>

(***************************************************************************)
(* Runs of the schedules                                                   *)
(***************************************************************************)

(* The dates of the recurrence, from its first one, or else from the given day. *)
Recurrences(t, from) ==
  LET start == IF template[t].starts = NoDate THEN from ELSE template[t].starts
  IN  {d \in 1..Later : d >= start /\ (d - start) % template[t].every = 0}

(* occurrences: after from, until the horizon and the end; no more than the limit. *)
Occurrences(t, from, until) ==
  LET dates == {d \in Recurrences(t, from) : from < d /\ d <= until}
      first == {d \in dates : Cardinality({x \in dates : x < d}) < Limit}
      kept  == {d \in first : template[t].ends = NoDate \/ d <= template[t].ends}
  IN  SetToSortSeq(kept, <)

(* Slip caught by DueIsBooked: occurrences count from the day it is due next. *)
DueAfter(t) ==
  IF template[t].next # NoDate THEN template[t].next
  ELSE IF template[t].starts # NoDate THEN template[t].starts - 1 ELSE NoDate

(* Before the date it is due next; from the start when there is none. *)
DueFrom(t) ==
  IF template[t].next # NoDate THEN template[t].next - 1
  ELSE IF template[t].starts # NoDate THEN template[t].starts - 1 ELSE NoDate

Take(todo, until) ==
  IF todo = <<>> THEN Idle
  ELSE [todo |-> todo, dates |-> Occurrences(Head(todo), DueFrom(Head(todo)), until),
        last |-> NoDate, until |-> until]

RunSchedules(until) ==
  LET due == {t \in Stored : template[t].active /\ template[t].every # 0}
  IN
  /\ run = Idle
  /\ due # {}
  /\ run' = Take(SetToSortSeq(due, <), until)
  /\ UNCHANGED <<template, entry, lock, booked>>

(* Slip caught by EachDateOnce: a voided occurrence is booked again. *)
ExistsLive(t, d) ==
  \E e \in Rows : /\ entry[e].template = t /\ entry[e].date = d /\ entry[e].origin = "schedule"
                  /\ entry[e].status # "void"

Exists(t, d) ==
  \E e \in Rows : entry[e].template = t /\ entry[e].date = d /\ entry[e].origin = "schedule"

Taken(d) == run' = [run EXCEPT !.dates = Tail(@), !.last = d]

SkipBooked ==
  /\ run.dates # <<>>
  /\ Exists(Head(run.todo), Head(run.dates))
  /\ Taken(Head(run.dates))
  /\ UNCHANGED <<template, entry, lock, booked>>

BookOccurrence ==
  LET t == Head(run.todo)
      d == Head(run.dates)
  IN
  /\ run.dates # <<>>
  /\ ~Exists(t, d)
  /\ Apply(Applied(t, <<>>, d, "schedule", IF template[t].auto THEN "posted" ELSE "draft", Unstated))
  /\ Taken(d)
  /\ booked' = booked \cup {<<t, d>>}
  /\ UNCHANGED <<template, lock>>

(* A closed period, lines that cannot be resolved, a full disk: the run stops where
   it is, for the templates after this one too.  So does a server that dies. *)
Stop ==
  /\ run # Idle
  /\ run' = Idle
  /\ UNCHANGED <<template, entry, lock, booked>>

(* The schedule advances once all of its dates are booked; no next date is NULL. *)
Advance ==
  LET t    == Head(run.todo)
      next == Occurrences(t, run.last, Later)
  IN
  /\ run # Idle /\ run.dates = <<>>
  /\ template' = IF run.last = NoDate THEN template
                 ELSE [template EXCEPT ![t].next = IF next = <<>> THEN NoDate ELSE next[1]]
  /\ run' = Take(Tail(run.todo), run.until)
  /\ UNCHANGED <<entry, lock, booked>>

(***************************************************************************)
(* What the CLI does beside the server                                     *)
(***************************************************************************)

(* delete_entry *)
DeleteDraft(e) ==
  /\ e \in Rows /\ entry[e].status = "draft"
  /\ entry' = [entry EXCEPT ![e] = None]
  /\ UNCHANGED <<template, lock, run, booked>>

(* void_entry: the reversal names no template and is left out. *)
Void(e) ==
  /\ e \in Rows /\ entry[e].status = "posted"
  /\ entry' = [entry EXCEPT ![e].status = "void"]
  /\ UNCHANGED <<template, lock, run, booked>>

(* post_draft_to: an open draft with one bank posting and one on Uncategorized gets its
   categories, and is posted. *)
Categorize(e, legs) ==
  LET bank   == entry[e].postings[1]
      shares == Categories(bank, legs)
      account(i) == CHOOSE a \in Accounts \ {Bank, Suspense} : Commodity[a] = Home
  IN
  /\ e \in Rows /\ entry[e].status = "draft" /\ entry[e].date > lock
  /\ Len(entry[e].postings) = 2
  /\ bank.account = Bank /\ entry[e].postings[2].account = Suspense
  /\ shares # Refused
  /\ entry' = [entry EXCEPT ![e].status = "posted",
                 ![e].postings = <<bank>> \o [i \in DOMAIN shares |->
                    [account |-> account(i), amount |-> shares[i], quantity |-> shares[i]]]]
  /\ UNCHANGED <<template, lock, run, booked>>

SetLockDate(d) ==
  /\ lock' = d
  /\ UNCHANGED <<template, entry, run, booked>>

(* What a client may save; a new row has version 1. *)
NewRows ==
  {[kind |-> "template", lines |-> l, every |-> k, starts |-> s, next |-> NoDate, ends |-> x,
    auto |-> a, active |-> TRUE, version |-> 1] :
      l \in Layouts, k \in Every, s \in Starts, x \in Ends, a \in Auto}

Manage ==
  \/ \E t \in Templates, new \in NewRows, next \in {NoDate} \cup Days : Save(t, new, next)
  \/ \E t \in Templates : Delete(t)

ApplyOnce ==
  \E t \in Templates, d \in ByHand :
    \/ \E s \in {"draft", "posted"} : ApplyByHand(t, d, s) \/ \E v \in Values : ApplyToLine(t, d, v, s)
    \/ \E v \in Values : ApplyByRule(t, d, v)

GoesOn == SkipBooked \/ BookOccurrence \/ Advance
Schedule == (\E until \in Days : RunSchedules(until)) \/ GoesOn \/ Stop

Beside ==
  \/ \E e \in Entries : DeleteDraft(e) \/ Void(e) \/ \E legs \in Legs : Categorize(e, legs)
  \/ \E d \in Days : SetLockDate(d)

Next == Manage \/ ApplyOnce \/ Beside \/ Schedule

Spec == Init /\ [][Next]_vars

(***************************************************************************)
(* Properties                                                              *)
(***************************************************************************)

TemplateRows ==
  [kind : {"template"}, lines : Layouts, every : Every, starts : Starts, next : 0..Later,
   ends : Ends, auto : Auto, active : BOOLEAN, version : Nat]

(* Every variable has its type; the template of a kept entry is kept, and the run
   works on templates that are there. *)
TypeOK ==
  /\ \A t \in Stored : template[t] \in TemplateRows
  /\ \A e \in Rows : /\ entry[e].template \in Stored
                      /\ entry[e].status \in {"draft", "posted", "void"}
                      /\ entry[e].postings \in Seq([account : Accounts, amount : Int, quantity : Int])
  /\ lock \in 0..LastDay
  /\ Range(run.todo) \subseteq Stored /\ Range(run.dates) \subseteq Days

(* "Templates generate balanced entries" (docs/data-model.md:65): whatever is fixed,
   asked for, shared out or converted, the amounts of an entry sum to zero in the
   functional currency, and still do when its draft is split over categories. *)
EntriesBalance ==
  \A e \in Rows :
    SumFunction([i \in DOMAIN entry[e].postings |-> entry[e].postings[i].amount]) = 0

(* Shares lose and invent nothing: those of one sign sum to that part of the line they
   are of, to within half a unit (and to the even unit when it is just half); each is
   less than a unit from its exact proportion; and of two equal percentages the
   earlier line has the larger share. *)
SharesAreFair ==
  \A e \in Rows : LET lines  == entry[e].lines
                      values == ResolveLines(lines, entry[e].inputs)
    IN \A i \in {k \in DOMAIN lines : lines[k].method = "percent_of"} :
         LET group  == {j \in DOMAIN lines : /\ lines[j].method = "percent_of" /\ lines[j].of = lines[i].of
                                             /\ Sign(lines[j].value) = Sign(lines[i].value)}
             total  == SumFunction([j \in group |-> values[j].minor])
             whole  == SumFunction([j \in group |-> lines[j].value])
             exact  == values[lines[i].of].minor * whole
         IN  /\ 2 * Abs(100 * total - exact) <= 100
             /\ 2 * Abs(100 * total - exact) = 100 => total % 2 = 0
             /\ Abs(values[i].minor * whole - total * lines[i].value) < Abs(whole) \/ whole = 0
             /\ \A j \in group : j < i /\ lines[j].value = lines[i].value =>
                  Abs(values[j].minor) \in {Abs(values[i].minor), Abs(values[i].minor) + 1}

(* "The rule must preserve the statement account and amount" (rules.rs:228): an entry
   that a rule makes from a statement line has a posting of the line's amount on the
   line's account, whatever its template does with the amount. *)
StatementKept ==
  \A e \in Rows : entry[e].origin = "rule" =>
    \E k \in DOMAIN entry[e].postings :
      entry[e].postings[k].account = Bank /\ entry[e].postings[k].quantity = entry[e].line

(* However runs fail, die, and are repeated, and whatever is voided or categorized
   meanwhile, an occurrence is in the journal at most once. *)
EachDateOnce ==
  \A e, f \in Rows :
    /\ entry[e].origin = "schedule" /\ entry[f].origin = "schedule"
    /\ entry[e].template = entry[f].template /\ entry[e].date = entry[f].date
    => e = f

(* Somebody runs the schedules up to the last day again and again, and a run that is not
   stopped goes on.  Templates and the lock date stay, and nobody deletes an entry. *)
Keep ==
  \E t \in Templates \ Stored, new \in NewRows : Save(t, new, NoDate)

Bookable(t) == Booking(template[t].lines, <<>>) # Refused

(* Nothing due is skipped, "Stop on failure without advancing past it" (templates.rs:327):
   if somebody runs the schedules often enough, every occurrence of every schedule is
   booked, though a run stops half-way now and then, provided that each schedule's lines
   can be resolved - one that never can holds up those after it. *)
DueIsBooked ==
  \A t \in Templates, d \in Days :
    (/\ t \in Stored /\ template[t].every # 0 /\ d \in Recurrences(t, NoDate)
     /\ (template[t].ends = NoDate \/ d <= template[t].ends))
    ~> (<<t, d>> \in booked \/ \E s \in Stored : template[s].every # 0 /\ ~Bookable(s))
==============================================================================
