------------------------------- MODULE Intake -------------------------------
(***************************************************************************)
(* How bank evidence reaches the ledger: a pull of one Pluggy account with  *)
(* its cursor (crates/means-core/src/imports/pluggy.rs), the inbox folder   *)
(* that the server scans (imports/inbox.rs), and the accounts it has        *)
(* learned for files (resolve_account, learn_profile, channel_connections). *)
(*                                                                         *)
(* A file is an export that somebody drops into the folder, or what the     *)
(* n-th pull wrote.  What happens to the lines of a committed import is the *)
(* matter of Imports.  The server holds the database for a whole scan and   *)
(* for a whole completion, so that nothing comes between their steps; but   *)
(* each step is written on its own, and every one of them may fail or be    *)
(* the last.                                                               *)
(***************************************************************************)
EXTENDS Integers, Sequences, FiniteSets

CONSTANTS Txs,      \* transactions of the provider's account, posted when recorded
          DayOf,    \* transaction -> booking date, 1..
          MaxClock, \* moments are 1..MaxClock
          MaxPulls, \* files that pulls may write
          Sinces,   \* moments that a human gives to a pull (--since)
          Cutoffs,  \* booking cutoffs of the connection, 0 for none
          Exports,  \* files that people drop
          Source, Shape, \* export -> its bank, and its name with digit runs as *;
                    \* a pattern matches the names of its own shape only
          Generic,  \* sources without a source-wide default (generic_csv)
          Accounts, NoAccount

Moments == 1..MaxClock
Pulled  == 1..MaxPulls
Files   == Exports \cup Pulled

VARIABLES clock,    \* the moment it is
          recorded, \* transaction -> moment the provider recorded it, 0 before
          conn,     \* the row of channel_connections: cursor, cutoff, account
          pull,     \* the pull that runs, as a function of its locals
          wrote,    \* number of pull -> the transactions in its file
          inbox,    \* files in the folder
          dropped,  \* files that have ever been there
          rows,     \* rows of imports: file, account, status
          work,     \* what the scan or the completion is doing
          cut,      \* history, which no step reads: the imports whose completion ended
                    \* after their commit and before the end of the pending row
          profile,  \* <<source, shape or "">> -> learned account
          open      \* accounts that take statements

vars == <<clock, recorded, conn, pull, wrote, inbox, dropped, rows, work, cut, profile, open>>
bankVars   == <<clock, recorded>>
pullVars   == <<pull, wrote>>
ledgerVars == <<rows, work, cut, profile>>

NoPull == [step |-> "idle"]
NoWork == [step |-> "idle"]
Written == {n \in Pulled : n <= Cardinality(DOMAIN wrote)}

Init ==
  /\ clock = 1
  /\ recorded = [t \in Txs |-> 0]
  /\ conn = [cursor |-> 0, cutoff |-> 0, account |-> NoAccount]
  /\ pull = NoPull
  /\ wrote = <<>>
  /\ inbox = {}
  /\ dropped = {}
  /\ rows = {}
  /\ work = NoWork
  /\ cut = {}
  /\ profile = [k \in {Source[e] : e \in Exports} \X ({""} \cup {Shape[e] : e \in Exports}) |-> NoAccount]
  /\ open = Accounts

(***************************************************************************)
(* The bank, and people                                                    *)
(***************************************************************************)

Tick ==
  /\ clock < MaxClock
  /\ clock' = clock + 1
  /\ UNCHANGED <<recorded, conn, pullVars, inbox, dropped, ledgerVars, open>>

Record(t) ==
  /\ recorded[t] = 0
  /\ recorded' = [recorded EXCEPT ![t] = clock]
  /\ UNCHANGED <<clock, conn, pullVars, inbox, dropped, ledgerVars, open>>

(* configure in connections.rs: an open account or none, and the booking cutoff. *)
Configure(a, cutoff) ==
  /\ work = NoWork /\ a \in open \cup {NoAccount}
  /\ conn' = [conn EXCEPT !.account = a, !.cutoff = cutoff]
  /\ UNCHANGED <<bankVars, pullVars, inbox, dropped, ledgerVars, open>>

(* The same content may be dropped again at any time. *)
Drop(e) ==
  /\ e \in Exports \ inbox
  /\ inbox' = inbox \cup {e}
  /\ dropped' = dropped \cup {e}
  /\ UNCHANGED <<bankVars, conn, pullVars, ledgerVars, open>>

OpenOrClose(a) ==
  /\ work = NoWork
  /\ open' = IF a \in open THEN open \ {a} ELSE open \cup {a}
  /\ UNCHANGED <<bankVars, conn, pullVars, inbox, dropped, ledgerVars>>

DeleteProfile(k) ==
  /\ work = NoWork /\ profile[k] # NoAccount
  /\ profile' = [profile EXCEPT ![k] = NoAccount]
  /\ UNCHANGED <<bankVars, conn, pullVars, inbox, dropped, rows, work, cut, open>>

(***************************************************************************)
(* A pull                                                                  *)
(***************************************************************************)

(* What the pull asks for: records from --since, all records when there is a booking
   cutoff, or those since the cursor. *)
StartPull(since) ==
  /\ pull = NoPull /\ Cardinality(DOMAIN wrote) < MaxPulls
  /\ pull' = [step |-> "fetching", started |-> clock, cutoff |-> conn.cutoff, got |-> {},
              from |-> IF since # 0 THEN since ELSE IF conn.cutoff # 0 THEN 0 ELSE conn.cursor]
  /\ UNCHANGED <<bankVars, conn, wrote, inbox, dropped, ledgerVars, open>>

(* A page: transactions that may have been recorded since the pull began. *)
Page(txs) ==
  /\ pull.step = "fetching" /\ txs # {}
  /\ \A t \in txs : recorded[t] # 0 /\ recorded[t] >= pull.from /\ t \notin pull.got
  /\ pull' = [pull EXCEPT !.got = @ \cup txs]
  /\ UNCHANGED <<bankVars, conn, wrote, inbox, dropped, ledgerVars, open>>

(* The last page has been read: nothing older than the pull is missing.  The file appears
   at once, under its own name, before the cursor is written. *)
Publish ==
  /\ pull.step = "fetching"
  /\ \A t \in Txs : recorded[t] # 0 /\ recorded[t] >= pull.from /\ recorded[t] < pull.started => t \in pull.got
  /\ wrote' = Append(wrote, {t \in pull.got : DayOf[t] >= pull.cutoff})
  /\ inbox' = inbox \cup {Cardinality(DOMAIN wrote) + 1}
  /\ dropped' = dropped \cup {Cardinality(DOMAIN wrote) + 1}
  /\ pull' = [pull EXCEPT !.step = "published"]
  /\ UNCHANGED <<bankVars, conn, ledgerVars, open>>

(* Slip caught by NothingLost: the cursor is the moment the pull ended. *)
CursorAtEnd == IF pull.cutoff # 0 THEN conn.cursor ELSE clock

(* A pull with a booking cutoff leaves the cursor; any other moves it to its own start. *)
NextCursor == IF pull.cutoff # 0 THEN conn.cursor ELSE pull.started

SaveCursor ==
  /\ pull.step = "published"
  /\ conn' = [conn EXCEPT !.cursor = NextCursor]
  /\ pull' = NoPull
  /\ UNCHANGED <<bankVars, wrote, inbox, dropped, ledgerVars, open>>

(* An answer that cannot be used, a cursor that cannot be written, or the end of the
   process. *)
PullFails ==
  /\ pull # NoPull
  /\ pull' = NoPull
  /\ UNCHANGED <<bankVars, conn, wrote, inbox, dropped, ledgerVars, open>>

(***************************************************************************)
(* The inbox                                                               *)
(***************************************************************************)

Open(a) == IF a \in open THEN a ELSE NoAccount

(* resolve_account: the connection of a pulled file; for an export the pattern of its
   name, then the default of its source, leaving out accounts that take no statements. *)
Route(f) ==
  IF f \in Pulled THEN Open(conn.account)
  ELSE LET byShape == Open(profile[<<Source[f], Shape[f]>>])
       IN  IF byShape # NoAccount THEN byShape ELSE Open(profile[<<Source[f], "">>])

(* Slip caught by ProcessedOnce: only finished imports are looked up, as run_import does. *)
Imported(f) == \E r \in rows : r.file = f /\ r.status = "done" /\ r.account = Route(f)

(* The checksum of the file is in a row of imports. *)
Known(f) == \E r \in rows : r.file = f

Row(f, a, status) == [file |-> f, account |-> a, status |-> status]

(* Slip caught by KeptUntilRecorded: the file is moved away before its import. *)
TakeMoving(f) ==
  /\ work = NoWork /\ f \in inbox
  /\ inbox' = inbox \ {f}
  /\ work' = IF Known(f) THEN NoWork ELSE [step |-> "commit", file |-> f, account |-> Route(f), by |-> "scan"]
  /\ UNCHANGED <<bankVars, conn, pullVars, dropped, rows, cut, profile, open>>

(* take_file: the steps up to the move into done/.  The scan works through the folder; a
   file that an account is known for is imported, another is recorded as pending. *)
Take(f) ==
  /\ work = NoWork /\ f \in inbox
  /\ IF Known(f) THEN work' = [step |-> "stash", file |-> f] /\ UNCHANGED rows
     ELSE IF Route(f) # NoAccount
     THEN work' = [step |-> "commit", file |-> f, account |-> Route(f), by |-> "scan"] /\ UNCHANGED rows
     ELSE work' = [step |-> "stash", file |-> f] /\ rows' = rows \cup {Row(f, NoAccount, "pending")}
  /\ UNCHANGED <<bankVars, conn, pullVars, inbox, dropped, cut, profile, open>>

(* complete_import: the stored content into the account that a human has chosen; run_import
   refuses the account that has it. *)
Complete(f, a) ==
  /\ work = NoWork /\ Row(f, NoAccount, "pending") \in rows
  /\ Row(f, a, "done") \notin rows
  /\ work' = [step |-> "commit", file |-> f, account |-> a, by |-> "human"]
  /\ UNCHANGED <<bankVars, conn, pullVars, inbox, dropped, rows, cut, profile, open>>

Next1 == [commit |-> "learn", learn |-> IF work.by = "scan" THEN "stash" ELSE "forget"]

(* run_import: the row and its lines in one transaction. *)
Commit ==
  /\ work.step = "commit"
  /\ rows' = rows \cup {Row(work.file, work.account, "done")}
  /\ work' = [work EXCEPT !.step = Next1.commit]
  /\ UNCHANGED <<bankVars, conn, pullVars, inbox, dropped, cut, profile, open>>

(* Slip caught by KeepsRoutes: the default of the source goes to the last account. *)
LearnedAsDefault(f, a) == [profile EXCEPT ![<<Source[f], "">>] = a]

(* learn_profile: the first account of a source is its default, except for generic files;
   another account is remembered for the shape of the name. *)
Learned(f, a) ==
  LET default == <<Source[f], "">>
  IN  IF profile[default] = NoAccount /\ Source[f] \notin Generic THEN [profile EXCEPT ![default] = a]
      ELSE IF profile[default] = a THEN profile
      ELSE [profile EXCEPT ![<<Source[f], Shape[f]>>] = a]

(* The end of run_import, after the lines: where such files go from now on. *)
Learn ==
  /\ work.step = "learn"
  /\ IF work.file \in Pulled
     THEN conn' = [conn EXCEPT !.account = work.account] /\ UNCHANGED profile
     ELSE profile' = Learned(work.file, work.account) /\ UNCHANGED conn
  /\ work' = [work EXCEPT !.step = Next1.learn]
  /\ UNCHANGED <<bankVars, pullVars, inbox, dropped, rows, cut, open>>

(* What a completion that ends here leaves behind: after its commit, its import and the
   pending row. *)
CutShort ==
  cut' = IF work.step \in {"learn", "forget"} /\ work.by = "human"
         THEN cut \cup {Row(work.file, work.account, "done")} ELSE cut

(* run_import fails, before its commit or after it: reading the rules, writing the counts,
   learning and the audit may all fail.  A row remembers it of a scan; a completion keeps
   the pending row, with the error. *)
ImportFails ==
  /\ work.step \in {"commit", "learn"}
  /\ IF work.by = "scan"
     THEN work' = [step |-> "stash", file |-> work.file] /\ rows' = rows \cup {Row(work.file, NoAccount, "failed")}
     ELSE work' = NoWork /\ UNCHANGED rows
  /\ CutShort
  /\ UNCHANGED <<bankVars, conn, pullVars, inbox, dropped, profile, open>>

Stash ==
  /\ work.step = "stash"
  /\ inbox' = inbox \ {work.file}
  /\ work' = NoWork
  /\ UNCHANGED <<bankVars, conn, pullVars, dropped, rows, cut, profile, open>>

(* The pending row of a completed import goes. *)
Forget ==
  /\ work.step = "forget"
  /\ rows' = rows \ {Row(work.file, NoAccount, "pending")}
  /\ work' = NoWork
  /\ UNCHANGED <<bankVars, conn, pullVars, inbox, dropped, cut, profile, open>>

(* The scan or the completion ends anywhere: the process dies, or the failed row, the move
   or the end of the pending row fails. *)
Crash ==
  /\ work # NoWork
  /\ work' = NoWork
  /\ CutShort
  /\ UNCHANGED <<bankVars, conn, pullVars, inbox, dropped, rows, profile, open>>

Scan == (\E f \in Files : Take(f)) \/ Commit \/ Learn \/ Stash \/ Forget

Next ==
  \/ Tick
  \/ \E t \in Txs : Record(t)
  \/ \E a \in Accounts \cup {NoAccount}, c \in Cutoffs : Configure(a, c)
  \/ \E e \in Exports : Drop(e)
  \/ \E a \in Accounts : OpenOrClose(a)
  \/ \E k \in DOMAIN profile : DeleteProfile(k)
  \/ \E s \in Sinces \cup {0} : StartPull(s)
  \/ \E txs \in SUBSET Txs : Page(txs)
  \/ Publish \/ SaveCursor \/ PullFails
  \/ Scan
  \/ \E f \in Files, a \in Accounts : Complete(f, a)
  \/ ImportFails \/ Crash

Spec == Init /\ [][Next]_vars

(***************************************************************************)
(* Properties                                                              *)
(***************************************************************************)

TypeOK ==
  /\ conn.cursor \in {0} \cup Moments /\ conn.account \in Accounts \cup {NoAccount}
  /\ inbox \subseteq dropped /\ dropped \subseteq Exports \cup Written
  /\ \A r \in rows : r.file \in dropped /\ (r.status = "done") = (r.account # NoAccount)
  /\ work.step \in {"idle", "commit", "learn", "stash", "forget"}

(* Whatever the provider recorded before the cursor is in a file, unless it was already
   booked before the cutoff: pulls that overlap new records, fail, or die between the file
   and the cursor lose no transaction.  "A date-limited export must not consume the
   unrestricted stream's cursor" (pluggy.rs:432). *)
NothingLost ==
  \A t \in Txs : recorded[t] # 0 /\ recorded[t] < conn.cursor => \E n \in Written : t \in wrote[n]

(* A file is in the folder until a row of imports holds its content, also when the process
   dies at any step. *)
KeptUntilRecorded == \A f \in dropped : f \in inbox \/ Known(f)

(* A file is imported once, dropped again, completed by hand, routed elsewhere in between or
   cut short at any step; and never twice into one account.  Beside the imports whose
   completion ended between their commit and the end of the pending row there is at most
   one.  After such an end a person can complete the file again, into another account: "a
   file is never processed twice" (README.md:95) holds no further than this. *)
ProcessedOnce ==
  /\ work.step = "commit" => Row(work.file, work.account, "done") \notin rows
  /\ \A r, s \in rows \ cut : r.file = s.file /\ r.status = "done" /\ s.status = "done" => r = s

(* An import teaches a route for files of its own name, or of its source as long as they had
   none: where the files of another shape go does not change. *)
KeepsRoutes ==
  Learn => \A e \in Exports :
    Route(e) # NoAccount /\ (work.file \in Pulled \/ Shape[e] # Shape[work.file]) => Route(e)' = Route(e)
=============================================================================
