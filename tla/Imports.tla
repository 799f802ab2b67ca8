------------------------------- MODULE Imports -------------------------------
(***************************************************************************)
(* Statement files become statement lines, and lines evidence of journal   *)
(* entries: crates/means-core/src/imports/mod.rs, matcher.rs and rules.rs, *)
(* for the statements of one account.                                      *)
(*                                                                         *)
(* A worker is a process with the ledger open: the server, or a command of *)
(* the CLI beside it.  It runs one operation at a time.  What an operation *)
(* reads before its transaction, and each transaction, is a step of its    *)
(* own, so other processes, and its own death, come in between.            *)
(*                                                                         *)
(* Two movements with one text (date, amount and description) look alike;  *)
(* two of one amount within the window can be matched with one another.    *)
(***************************************************************************)
EXTENDS Naturals, Sequences, FiniteSets, Functions

CONSTANTS Workers,   \* processes that have the ledger open
          Moves,     \* movements of the bank account
          Text,      \* movement -> date, amount and description
          Amount,    \* movement -> amount and match window
          Files,     \* statement files
          Rows,      \* file -> its rows in order: [move, ref]
          Strict,    \* files of a source whose references identify movements
          NoRef,     \* a row or a posting without a reference
          Entries,   \* rows of the journal
          Nothing

Refs  == {NoRef} \cup UNION {{Rows[f][i].ref : i \in DOMAIN Rows[f]} : f \in Files}
Lines == UNION {{<<f, i>> : i \in DOMAIN Rows[f]} : f \in Files}

(* A file without rows would be stored and nothing else. *)
ASSUME RowsAreMovements ==
  /\ \A f \in Files : Rows[f] \in Seq([move: Moves, ref: Refs]) /\ Rows[f] # <<>>
  /\ IsFiniteSet(Lines) /\ DOMAIN Amount = Moves
ASSUME LookAlikes == \A m, n \in Moves : Text[m] = Text[n] => Amount[m] = Amount[n]
ASSUME Nobody     == Nothing \notin Entries \cup Lines /\ Nothing # "import"

VARIABLES stored,    \* the files in the imports table
          line,      \* statement_lines: status, journal_entry_id, duplicate_of_id,
                     \* and who made it evidence
          status,    \* status of an entry, "none" without a row
          amount,    \* what the entry's posting on the account is for: see Amount
          external,  \* external_id of the entry's posting on the account
          reconciled,\* entries whose posting has a reconciled_at
          job        \* what a worker is doing

entryVars == <<status, amount, external, reconciled>>
vars      == <<stored, line, entryVars, job>>

Move(l)   == Rows[l[1]][l[2]].move
Ref(l)    == Rows[l[1]][l[2]].ref
LinesOf(f) == [i \in DOMAIN Rows[f] |-> <<f, i>>]

(* fingerprint: the text, and how many rows above in the file have it too. *)
Fingerprint(l) ==
  <<Text[Move(l)], Cardinality({i \in 1..l[2] - 1 : Text[Move(<<l[1], i>>)] = Text[Move(l)]})>>

(* Lines of one file in their order. *)
Orders(S)  == Injection(1..Cardinality(S), S)
InOrder(S) == {todo \in Orders(S) : \A i, j \in DOMAIN todo : i < j => todo[i][2] < todo[j][2]}

(* list_lines of several files, newest first: only of one day's rows the order is that of
   their file, and look-alikes are of one day. *)
Queue(S) ==
  {todo \in Orders(S) : \A i, j \in DOMAIN todo :
     i < j /\ todo[i][1] = todo[j][1] /\ Text[Move(todo[i])] = Text[Move(todo[j])] =>
       todo[i][2] < todo[j][2]}

Present == {l \in Lines : l[1] \in stored}
Live    == {e \in Entries : status[e] \in {"draft", "posted"}}
Free    == {e \in Entries : status[e] = "none"}

NoLine  == [status |-> "none", entry |-> Nothing, dup |-> Nothing, by |-> Nothing]
Idle    == [op |-> "none", todo |-> <<>>, step |-> "none", found |-> Nothing]

Init ==
  /\ stored = {}
  /\ line = [l \in Lines |-> NoLine]
  /\ status = [e \in Entries |-> "none"]
  /\ amount = [e \in Entries |-> Nothing]
  /\ external = [e \in Entries |-> NoRef]
  /\ reconciled = {}
  /\ job = [w \in Workers |-> Idle]

(* The line is evidence of an entry. *)
Held(l) == line[l].status \in {"matched", "created"}

(***************************************************************************)
(* Jobs                                                                    *)
(***************************************************************************)

Doing(w, step) == job[w].step = step
Current(w)     == Head(job[w].todo)
Booker(w)      == CASE job[w].op \in {"match", "create"} -> "person"
                    [] job[w].op = "rules" -> "rules"
                    [] OTHER -> "import"

Begin(w, op, todo, step, found) ==
  /\ job[w] = Idle
  /\ job' = [job EXCEPT ![w] = [op |-> op, todo |-> todo, step |-> step, found |-> found]]

Decide(w, step, found) == job' = [job EXCEPT ![w].step = step, ![w].found = found]

(* The next line: an import looks for what is known of it, rules just draft. *)
Advance(w) ==
  LET rest == Tail(job[w].todo)
      step == IF job[w].op = "rules" THEN "draft" ELSE "reference"
  IN  job' = [job EXCEPT ![w] =
                IF rest = <<>> THEN Idle
                ELSE [op |-> job[w].op, todo |-> rest, step |-> step, found |-> Nothing]]

(* UPDATE statement_lines of one row: nothing, when the row is gone. *)
Put(l, new) == line' = IF l \in Present THEN [line EXCEPT ![l] = new] ELSE line

(***************************************************************************)
(* An import, and the steps of process_line                                *)
(***************************************************************************)

(* run_import: the file is stored with all its lines, once. *)
Import(w, f) ==
  /\ f \notin stored
  /\ Begin(w, "import", LinesOf(f), "reference", Nothing)
  /\ stored' = stored \cup {f}
  /\ line' = [l \in Lines |-> IF l[1] = f THEN [NoLine EXCEPT !.status = "unmatched"] ELSE line[l]]
  /\ UNCHANGED entryVars

(* Slip caught by CompletedNotReplayed: every line of the file is taken up again. *)
AnyLine(l) == line[l].status # "skipped"

(* Slip caught by RetrySettles: lines that never were tried are forgotten. *)
FailedOnly(l) == line[l].status = "error" /\ line[l].entry = Nothing

Unfinished(l) == line[l].status \in {"unmatched", "error"} /\ line[l].entry = Nothing

(* retry_import: the list of unfinished lines is read once. *)
Retry(w, f) ==
  /\ f \in stored
  /\ \E todo \in InOrder({l \in Range(LinesOf(f)) : Unfinished(l)}) :
       todo # <<>> /\ Begin(w, "retry", todo, "reference", Nothing)
  /\ UNCHANGED <<stored, line, entryVars>>

(* Slip caught by BookedOnce: only the lines of the same file are searched. *)
EarlierInFile(l) == {k \in Present \ {l} : k[1] = l[1] /\ Ref(k) = Ref(l) /\ Held(k)}

EarlierByReference(l) == {k \in Present \ {l} : Ref(k) = Ref(l) /\ Held(k)}
PostedAs(l)           == {e \in Live : external[e] = Ref(l)}

(* Slip caught by BookedOnce: a line matched with an entry is not searched. *)
CreatedByFingerprint(l) ==
  {k \in Present \ {l} : Fingerprint(k) = Fingerprint(l) /\ line[k].status = "created"}

EarlierByFingerprint(l) ==
  {k \in Present \ {l} : Fingerprint(k) = Fingerprint(l) /\ Held(k)}

(* Slip caught by BookedOnce: a new reference is not enough. *)
AlwaysFingerprint(l) == "fingerprint"

(* A new reference of a source whose references identify movements is a new
   movement; other exports change theirs, so the fingerprint is asked as well. *)
AfterReference(l) == IF Ref(l) # NoRef /\ l[1] \in Strict THEN "match" ELSE "fingerprint"

(* candidates_for: nobody's evidence yet, and the same amount. *)
Candidates(l) ==
  {e \in Live \ reconciled :
     amount[e] = Amount[Move(l)] /\ \A k \in Lines : line[k].entry # e}

CheckReference(w) ==
  LET l == Current(w)
  IN
  /\ Doing(w, "reference")
  /\ IF Ref(l) # NoRef /\ EarlierByReference(l) # {}
       THEN \E k \in EarlierByReference(l) : Decide(w, "duplicate", k)
     ELSE IF Ref(l) # NoRef /\ PostedAs(l) # {}
       THEN \E e \in PostedAs(l) : Decide(w, "attach", e)
     ELSE Decide(w, AfterReference(l), Nothing)
  /\ UNCHANGED <<stored, line, entryVars>>

CheckFingerprint(w) ==
  LET earlier == EarlierByFingerprint(Current(w))
  IN
  /\ Doing(w, "fingerprint")
  /\ IF earlier # {} THEN \E k \in earlier : Decide(w, "duplicate", k)
     ELSE Decide(w, "match", Nothing)
  /\ UNCHANGED <<stored, line, entryVars>>

(* The best candidate depends on dates and words: any of them may be it. *)
FindMatch(w) ==
  /\ Doing(w, "match")
  /\ IF Candidates(Current(w)) # {} THEN \E e \in Candidates(Current(w)) : Decide(w, "attach", e)
     ELSE Decide(w, "draft", Nothing)
  /\ UNCHANGED <<stored, line, entryVars>>

(* mark_duplicate, without looking again; the earlier line must be there, for the
   foreign key. *)
MarkDuplicate(w) ==
  LET l == Current(w)
  IN
  /\ Doing(w, "duplicate")
  /\ job[w].found \in Present
  /\ Put(l, [line[l] EXCEPT !.status = "duplicate", !.dup = job[w].found])
  /\ Advance(w)
  /\ UNCHANGED <<stored, entryVars>>

(* Slip caught by OneLinePerEntry: any live entry takes the line. *)
AttachableAgain(e, l) == e \in Live

(* attach_in_transaction looks again: the entry is there, not void, and not the
   evidence of another line. *)
Attachable(e, l) ==
  /\ e \in Live
  /\ e \in reconciled => \A k \in Lines \ {l} : line[k].entry # e

(* The posting takes the bank's reference when it has none and the unique index
   allows it. *)
Attach(w) ==
  LET l == Current(w)
      e == job[w].found
      named == external[e] = NoRef /\ \A x \in Entries : external[x] # Ref(l)
  IN
  /\ Doing(w, "attach")
  /\ Attachable(e, l)
  /\ status'     = [status EXCEPT ![e] = "posted"]
  /\ reconciled' = reconciled \cup {e}
  /\ external'   = IF named THEN [external EXCEPT ![e] = Ref(l)] ELSE external
  /\ Put(l, [line[l] EXCEPT !.status = "matched", !.entry = e, !.by = Booker(w)])
  /\ Advance(w)
  /\ UNCHANGED <<stored, amount>>

(* posting_reference: a void entry keeps its reference to itself. *)
PostingReference(r) ==
  IF \E x \in Entries : status[x] = "void" /\ external[x] = r THEN NoRef ELSE r

(* draft_from_line, create_entry_from_line: a new entry, posted when a rule or the
   user says so.  One made by a template, which a rule posts,
   has no reference; otherwise a live entry
   that holds the reference makes the insert fail. *)
Draft(w, e, posted) ==
  LET l == Current(w)
  IN
  /\ Doing(w, "draft")
  /\ e \in Free
  /\ \E ref \in {PostingReference(Ref(l))} \cup IF posted \/ Booker(w) = "person" THEN {NoRef} ELSE {} :
       /\ ref = NoRef \/ \A x \in Entries : external[x] # ref
       /\ external' = [external EXCEPT ![e] = ref]
  /\ status'     = [status EXCEPT ![e] = IF posted THEN "posted" ELSE "draft"]
  /\ amount'      = [amount EXCEPT ![e] = Amount[Move(l)]]
  /\ reconciled' = reconciled \cup {e}
  /\ Put(l, [line[l] EXCEPT !.status = "created", !.entry = e, !.by = Booker(w)])
  /\ Advance(w)
  /\ UNCHANGED stored

(* A closed period or account, a conflict: the transaction is rolled back; an
   import notes the error on the line, other operations only report it. *)
Fail(w) ==
  LET l == Current(w)
  IN
  /\ job[w].step \in {"duplicate", "attach", "draft"}
  /\ IF job[w].op \in {"import", "retry"} THEN Put(l, [line[l] EXCEPT !.status = "error"])
     ELSE UNCHANGED line
  /\ Advance(w)
  /\ UNCHANGED <<stored, entryVars>>

(* The process dies, or refuses: what it has not committed is gone. *)
Crash(w) ==
  /\ job[w] # Idle
  /\ job' = [job EXCEPT ![w] = Idle]
  /\ UNCHANGED <<stored, line, entryVars>>

(***************************************************************************)
(* The review screen and the journal                                       *)
(***************************************************************************)

(* match_line, create_entry_from_line, skip_line: the status of the line is read
   before the transaction. *)
MatchByHand(w, l, e) ==
  /\ l \in Present /\ ~Held(l)
  /\ e \in Live /\ amount[e] = Amount[Move(l)]
  /\ Begin(w, "match", <<l>>, "attach", e)
  /\ UNCHANGED <<stored, line, entryVars>>

CreateByHand(w, l) ==
  /\ l \in Present /\ ~Held(l)
  /\ Begin(w, "create", <<l>>, "draft", Nothing)
  /\ UNCHANGED <<stored, line, entryVars>>

SkipOrNot(w, l) ==
  /\ l \in Present /\ ~Held(l)
  /\ Begin(w, IF line[l].status = "skipped" THEN "unskip" ELSE "skip", <<l>>, "skip", Nothing)
  /\ UNCHANGED <<stored, line, entryVars>>

Skip(w) ==
  LET l == Current(w)
  IN
  /\ Doing(w, "skip")
  /\ Put(l, [line[l] EXCEPT !.status = IF job[w].op = "skip" THEN "skipped" ELSE "unmatched"])
  /\ Advance(w)
  /\ UNCHANGED <<stored, entryVars>>

(* run_rules: every unmatched line a rule matches is drafted, as it was read. *)
RunRules(w) ==
  /\ \E S \in SUBSET {l \in Present : line[l].status = "unmatched"} : \E todo \in Queue(S) :
       todo # <<>> /\ Begin(w, "rules", todo, "draft", Nothing)
  /\ UNCHANGED <<stored, line, entryVars>>

(* An entry captured by hand or by a schedule before the bank shows it. *)
Capture(w, e, a, posted) ==
  /\ job[w] = Idle
  /\ e \in Free
  /\ status'   = [status EXCEPT ![e] = IF posted THEN "posted" ELSE "draft"]
  /\ amount'    = [amount EXCEPT ![e] = a]
  /\ external' = [external EXCEPT ![e] = NoRef]
  /\ UNCHANGED <<stored, line, reconciled, job>>

(* post_entry, categorize, an edit of a draft that posts it. *)
Post(w, e) ==
  /\ job[w] = Idle
  /\ status[e] = "draft"
  /\ status' = [status EXCEPT ![e] = "posted"]
  /\ UNCHANGED <<stored, line, amount, external, reconciled, job>>

(* Slip caught by EvidenceAgrees: the line keeps the entry it evidenced. *)
KeepLines(e) == UNCHANGED line

ReleaseLines(e) ==
  line' = [l \in Lines |-> IF line[l].entry = e
                           THEN [line[l] EXCEPT !.status = "unmatched", !.entry = Nothing, !.by = Nothing]
                           ELSE line[l]]

(* void_entry: the entry's lines go back to the queue.  The reversal is never a
   candidate and has no reference, so it is left out. *)
Void(w, e) ==
  /\ job[w] = Idle
  /\ status[e] = "posted"
  /\ status' = [status EXCEPT ![e] = "void"]
  /\ ReleaseLines(e)
  /\ UNCHANGED <<stored, amount, external, reconciled, job>>

(* delete_entry: that it is a draft was read before the transaction. *)
DeleteDraft(w, e) ==
  /\ status[e] = "draft"
  /\ Begin(w, "delete", <<>>, "delete", e)
  /\ UNCHANGED <<stored, line, entryVars>>

(* The rows of S and their postings are gone. *)
Erase(S) ==
  /\ status'   = [e \in Entries |-> IF e \in S THEN "none" ELSE status[e]]
  /\ amount'    = [e \in Entries |-> IF e \in S THEN Nothing ELSE amount[e]]
  /\ external' = [e \in Entries |-> IF e \in S THEN NoRef ELSE external[e]]

Delete(w) ==
  /\ Doing(w, "delete")
  /\ Erase({job[w].found})
  /\ ReleaseLines(job[w].found)
  /\ reconciled' = reconciled \ {job[w].found}
  /\ job' = [job EXCEPT ![w] = Idle]
  /\ UNCHANGED stored

(***************************************************************************)
(* Rolling an import back                                                  *)
(***************************************************************************)

(* delete_import reads the lines before its transaction. *)
Rollback(w, f) ==
  /\ f \in stored
  /\ Begin(w, "rollback", LinesOf(f), "rollback", [l \in Range(LinesOf(f)) |-> line[l]])
  /\ UNCHANGED <<stored, line, entryVars>>

(* The entries of the lines of a reading that have the status. *)
EntriesAs(s, read) == {read[l].entry : l \in {k \in DOMAIN read : read[k].status = s}} \ {Nothing}

(* Slip caught by NoRingOfDuplicates: duplicates of the import's lines do not
   keep it, and point nowhere afterwards. *)
UnreferencedByEntry(f, created) ==
  \A k \in Present : k[1] # f => line[k].entry \notin created

(* No line of another import shares a created entry or is a duplicate of a line
   of this one: the first is checked, the second is a foreign key. *)
Unreferenced(f, created) ==
  \A k \in Present : k[1] # f =>
    line[k].entry \notin created /\ (line[k].dup # Nothing => line[k].dup[1] # f)

(* Slip caught by TypeOK: the lines outlive their file. *)
Orphans(f) == UNCHANGED line

(* Deleting an import deletes its lines. *)
Cascade(f) == line' = [l \in Lines |-> IF l[1] = f THEN NoLine ELSE line[l]]

CommitRollback(w) ==
  LET read    == job[w].found
      f       == Current(w)[1]
      created == EntriesAs("created", read)
      matched == EntriesAs("matched", read)
      kept    == {e \in matched : \E k \in Present : k[1] # f /\ Held(k) /\ line[k].entry = e}
  IN
  /\ Doing(w, "rollback")
  /\ created \cup matched \subseteq {e \in Entries : status[e] # "none"}
  /\ Unreferenced(f, created)
  /\ Erase(created)
  /\ reconciled' = reconciled \ (created \cup (matched \ kept))
  /\ stored' = stored \ {f}
  /\ Cascade(f)
  /\ job' = [job EXCEPT ![w] = Idle]

Complete(w) ==
  MarkDuplicate(w) \/ Attach(w) \/ \E e \in Entries, posted \in BOOLEAN : Draft(w, e, posted)

ProcessLine(w) == CheckReference(w) \/ CheckFingerprint(w) \/ FindMatch(w) \/ Complete(w)

ByHand(w) ==
  \/ \E l \in Lines : SkipOrNot(w, l) \/ CreateByHand(w, l) \/ \E e \in Entries : MatchByHand(w, l, e)
  \/ Skip(w)
  \/ \E e \in Entries : Post(w, e) \/ Void(w, e) \/ DeleteDraft(w, e)
  \/ \E e \in Entries, a \in Range(Amount), posted \in BOOLEAN : Capture(w, e, a, posted)
  \/ Delete(w)

Operate(w) ==
  \/ \E f \in Files : Import(w, f) \/ Retry(w, f) \/ Rollback(w, f)
  \/ ProcessLine(w) \/ Fail(w) \/ Crash(w) \/ CommitRollback(w)
  \/ ByHand(w)

Next == \E w \in Workers : Operate(w) \/ RunRules(w)

Spec == Init /\ [][Next]_vars

(* Processes that import, match by hand, capture and undo beside one another; nobody
   skips a line, books one by hand, rolls back or runs the rules. *)
Compete(w) ==
  \/ \E f \in Files : Import(w, f) \/ Retry(w, f)
  \/ ProcessLine(w) \/ Fail(w) \/ Crash(w)
  \/ \E l \in Lines, e \in Entries : MatchByHand(w, l, e)
  \/ \E e \in Entries : Void(w, e)
  \/ \E e \in Entries, a \in Range(Amount) : Capture(w, e, a, FALSE)

(***************************************************************************)
(* Properties                                                              *)
(***************************************************************************)

LineRecords ==
  [status : {"none", "unmatched", "error", "duplicate", "matched", "created", "skipped"},
   entry  : Entries \cup {Nothing}, dup : Lines \cup {Nothing}, by : {Nothing, "import", "rules", "person"}]

(* Every variable has its type, and a line has a status exactly while its file is
   stored. *)
TypeOK ==
  /\ stored \subseteq Files
  /\ line \in [Lines -> LineRecords]
  /\ \A l \in Lines : line[l].status = "none" <=> l \notin Present
  /\ status \in [Entries -> {"none", "draft", "posted", "void"}]
  /\ \A e \in Entries : IF status[e] = "none" THEN amount[e] = Nothing ELSE amount[e] \in Range(Amount)
  /\ external \in [Entries -> Refs]
  /\ reconciled \subseteq Entries
  /\ \A w \in Workers : Range(job[w].todo) \subseteq Lines

(* Reconciliation and evidence are two records of one fact: a line that counts as
   matched or created has a live reconciled entry, no other line has an entry, and
   every live reconciled entry is the evidence of exactly one line - through voids,
   deletions, rollbacks, hand matches and crashes. *)
EvidenceAgrees ==
  /\ \A l \in Lines : IF Held(l) THEN line[l].entry \in Live \cap reconciled
                                  ELSE line[l].entry = Nothing
  /\ \A e \in Live \cap reconciled : Cardinality({l \in Lines : line[l].entry = e}) = 1

LooksNew(l, k) ==
  /\ Ref(l) # NoRef => Ref(l) # Ref(k)
  /\ AfterReference(l) = "fingerprint" /\ AfterReference(k) = "fingerprint" =>
       Fingerprint(l) # Fingerprint(k)

(* Nothing is booked twice by imports and retries: whatever is voided, deleted,
   rolled back, matched by hand or drafted by rules in between, no two lines that
   they made evidence have one reference, nor one fingerprint where both sources
   use it.  And separate charges stay separate (docs/import-formats.md:197-200): where
   the bank's references identify movements, a duplicate is the movement it is a
   duplicate of, however alike two movements look. *)
BookedOnce ==
  /\ \A l, k \in {x \in Lines : line[x].by = "import"} : l # k => LooksNew(l, k)
  /\ \A l \in Lines :
       line[l].status = "duplicate" /\ l[1] \in Strict /\ Ref(l) # NoRef =>
         Move(line[l].dup) = Move(l)

(* "Overlapping statements only add new lines" (README.md:120): the same, for
   whatever no person decided. *)
OverlapAddsNothing ==
  \A l, k \in {x \in Lines : line[x].by \in {"import", "rules"}} : l # k => LooksNew(l, k)

(* No movement is lost among duplicates: following duplicate_of_id from a duplicate
   always ends at a stored line that is not one, so a person sees it in the queue
   or as evidence. *)
NoRingOfDuplicates ==
  LET Duplicates == {l \in Lines : line[l].status = "duplicate"}
  IN  /\ \A l \in Duplicates : line[l].dup \in Present
      /\ \A S \in (SUBSET Duplicates) \ {{}} : \E l \in S : line[l].dup \notin S

(* Whoever attaches, an entry never has two lines: the look taken inside of the
   transaction is enough even with two processes. *)
OneLinePerEntry ==
  \A l, k \in Lines : line[l].entry # Nothing /\ line[l].entry = line[k].entry => l = k

(* Completed lines are never replayed (imports/mod.rs:548): a line that is evidence
   of an entry becomes evidence of another one, or a duplicate, only after the entry
   was voided or deleted. *)
CompletedStep ==
  \A l \in Lines : Held(l) /\ l \in Present' =>
    \/ line'[l].entry = line[l].entry /\ line'[l].status \in {"matched", "created"}
    \/ line'[l].status = "unmatched" /\ line[l].entry \notin Live'

CompletedNotReplayed == [][CompletedStep]_vars

(* Bound: a void entry is used up, so there must be more than the lines need. *)
Spare == Cardinality(Free) > Cardinality({l \in Lines : line[l].entry = Nothing})

(* A process that keeps retrying, and whose transactions succeed now and then,
   settles every line it left unfinished, unless the file is rolled back. *)
Recover(w) ==
  \/ \E f \in Files : Import(w, f) \/ Retry(w, f) \/ Rollback(w, f)
  \/ ProcessLine(w) \/ Fail(w) \/ Crash(w) \/ CommitRollback(w)
  \/ Spare /\ \E e \in Entries : Void(w, e)

Persistence ==
  \A w \in Workers, l \in Lines :
    /\ WF_vars(job[w] # Idle /\ Recover(w))
    /\ SF_vars(Retry(w, l[1]))
    /\ SF_vars(CheckReference(w) /\ Current(w) = l)
    /\ SF_vars(CheckFingerprint(w) /\ Current(w) = l)
    /\ SF_vars(FindMatch(w) /\ Current(w) = l)
    /\ SF_vars(Complete(w) /\ Current(w) = l)

RetrySettles ==
  \A l \in Lines :
    line[l].status \in {"unmatched", "error"} ~> line[l].status \notin {"unmatched", "error"}
==============================================================================
