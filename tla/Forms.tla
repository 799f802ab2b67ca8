------------------------------- MODULE Forms -------------------------------
(***************************************************************************)
(* The forms of the terminal that change something only after a review:     *)
(* a CSV import and a tracker backup (means-tui/src/import.rs), payees       *)
(* (payees.rs), sharing (sharing.rs; means-server/src/sharing.rs,            *)
(* means-sharing/src/store.rs), and the split editor (split.rs), while the   *)
(* books go on changing.                                                    *)
(*                                                                         *)
(* What is typed into a form is a number, 0 when it was opened.  A payee     *)
(* or sharing preview says what would happen to the books as they are, and   *)
(* carries a token; an import preview is the file read with the mapping.     *)
(***************************************************************************)
EXTENDS Splits, FiniteSets

CONSTANTS Kinds,     \* of {"csv", "tracker", "payee", "grant", "revoke", "split"}
          MaxFields, \* what can be typed: 1..MaxFields
          MaxBooks,  \* the books change at most this often
          Typed,     \* what can be typed as the amount of a split, and Unstated
          MaxRows    \* splits in the editor

Fields   == 0..MaxFields
Tokened  == {"payee", "grant", "revoke"}

VARIABLES books,   \* a version of everything that a preview looks at
          kind,    \* the form on the screen
          fields, mapped, \* what is typed; "use mapping" of a CSV form
          shown,   \* the preview, {} or one record
          reviewing, done,
          applied, \* what the server did on the last call: {} or one record
          rows, total, step, editing, asked, inputs \* the split editor

form   == <<kind, fields, mapped, shown, reviewing, done>>
editor == <<rows, total, step, editing, asked, inputs>>
vars   == <<books, form, applied, editor>>

Init ==
  /\ books = 0 /\ kind \in Kinds /\ fields = 0 /\ mapped = FALSE
  /\ shown = {} /\ reviewing = FALSE /\ done = FALSE /\ applied = {}
  /\ rows = <<>> /\ total \in {1, 2} /\ step = "list" /\ editing = 0 /\ asked = 0 /\ inputs = <<>>

BooksChange ==
  /\ books < MaxBooks /\ books' = books + 1 /\ applied' = {}
  /\ UNCHANGED <<form, editor>>

(***************************************************************************)
(* The server: what a request does to the books as they are, and the token  *)
(* of its preview.                                                         *)
(***************************************************************************)

Request == [kind |-> kind, fields |-> fields, mapped |-> mapped]
Effect  == [request |-> Request, books |-> IF kind \in Tokened THEN books ELSE 0]

(* Slip caught by AppliesWhatWasShown: the token does not bind the books. *)
RequestToken == Request
(* preview of a grant digests the whole vault, that of a revocation the grant. *)
Token == <<Request, books>>

(***************************************************************************)
(* Keys.                                                                   *)
(***************************************************************************)

(* Slip caught by AppliesWhatWasShown: keys still reach the fields under the preview. *)
EditsAnytime == ~done
(* A form under review takes no text; a preview must be left first. *)
MayEdit == kind # "split" /\ ~done /\ ~reviewing /\ (kind \in Tokened => shown = {})

Type ==
  /\ MayEdit /\ fields' \in Fields /\ mapped' = (kind = "csv" \/ mapped)
  /\ applied' = {} /\ UNCHANGED <<books, kind, shown, reviewing, done, editor>>

(* Ctrl-P of a CSV form: no mapping yet for a file of a kind that needs one, a column that
   the file does not have, no lines, a failed call; or the lines to review. *)
PreviewFile ==
  /\ kind = "csv" /\ ~done /\ ~reviewing
  /\ \/ /\ shown' = {[effect |-> Effect, token |-> <<>>]} /\ reviewing' = TRUE /\ UNCHANGED mapped
     \/ /\ shown' = {} /\ reviewing' = FALSE /\ mapped' \in {mapped, TRUE}
  /\ applied' = {} /\ UNCHANGED <<books, kind, fields, done, editor>>

(* Enter of a tracker form: the mapping itself is what is reviewed. *)
ReviewTracker ==
  /\ kind = "tracker" /\ ~done /\ ~reviewing /\ fields # 0
  /\ reviewing' = TRUE /\ shown' = {[effect |-> Effect, token |-> <<>>]}
  /\ applied' = {} /\ UNCHANGED <<books, kind, fields, mapped, done, editor>>

(* Ctrl-P of a payee or sharing form, at any time before it is done; an error clears the
   preview. *)
PreviewChange ==
  /\ kind \in Tokened /\ (kind = "payee" \/ ~done)
  /\ \/ shown' = {} /\ UNCHANGED done
     \/ shown' = {[effect |-> Effect, token |-> Token]} /\ done' = FALSE
  /\ applied' = {} /\ UNCHANGED <<books, kind, fields, mapped, reviewing, editor>>

(* y: the request with what is in the fields. *)
ConfirmImport ==
  /\ kind \in {"csv", "tracker"} /\ reviewing /\ ~done /\ shown # {}
  /\ \/ applied' = {Effect} /\ done' = TRUE /\ UNCHANGED <<shown, reviewing, books>>
     \/ applied' = {} /\ shown' = {} /\ reviewing' = FALSE /\ UNCHANGED <<done, books>>
  /\ UNCHANGED <<kind, fields, mapped, editor>>

(* Ctrl-Y: the request with what is in the fields and the token of its preview; an error,
   a stale token among them, clears the preview. *)
ConfirmChange ==
  /\ kind \in Tokened /\ shown # {}
  /\ \/ /\ \A s \in shown : s.token = Token
        /\ applied' = {Effect} /\ done' = TRUE
     \/ applied' = {} /\ UNCHANGED done
  /\ shown' = {}
  /\ UNCHANGED <<books, kind, fields, mapped, reviewing, editor>>

(* Esc under review, Backspace over a preview. *)
Back ==
  /\ ~done /\ shown # {} /\ shown' = {} /\ reviewing' = FALSE
  /\ applied' = {} /\ UNCHANGED <<books, kind, fields, mapped, done, editor>>

(* Esc otherwise closes; the next form is a new one. *)
Open ==
  /\ ~reviewing /\ step = "list"
  /\ kind' \in Kinds /\ fields' = 0 /\ mapped' = FALSE /\ shown' = {} /\ reviewing' = FALSE /\ done' = FALSE
  /\ applied' = {} /\ rows' = <<>> /\ total' \in {1, 2} /\ step' = "list" /\ editing' = 0 /\ asked' = 0 /\ inputs' = <<>>
  /\ UNCHANGED books

(***************************************************************************)
(* The split editor: rows of amounts, the last of which may be left out.    *)
(* `editing` is the row that e was pressed on, 0 for none; `asked` is the    *)
(* row that the human means.                                               *)
(***************************************************************************)

Still == kind = "split" /\ UNCHANGED <<books, form, applied, total>>

(* Slip caught by AppliesWhatWasShown: a new row does not forget the row edited before. *)
KeepsEditing ==
  /\ step = "list" /\ Len(rows) < MaxRows /\ step' = "category" /\ asked' = Len(rows) + 1
  /\ UNCHANGED <<rows, editing, inputs>> /\ Still

AddRow ==
  /\ step = "list" /\ Len(rows) < MaxRows /\ step' = "category" /\ asked' = Len(rows) + 1
  /\ editing' = 0 /\ UNCHANGED <<rows, inputs>> /\ Still

ChooseCategory == step = "category" /\ step' = "amount" /\ UNCHANGED <<rows, editing, asked, inputs>> /\ Still

EditRow ==
  /\ step = "list" /\ step' = "amount"
  /\ editing' \in DOMAIN rows /\ asked' = editing' /\ UNCHANGED <<rows, inputs>> /\ Still

RemoveRow ==
  /\ step = "list"
  /\ \E k \in DOMAIN rows : rows' = [i \in 1..Len(rows) - 1 |-> IF i < k THEN rows[i] ELSE rows[i + 1]]
  /\ UNCHANGED <<step, editing, asked, inputs>> /\ Still

EnterAmount ==
  /\ step = "amount" /\ step' = "list" /\ editing' = 0
  /\ \E a \in Typed \ {0} : rows' = IF editing # 0 THEN [rows EXCEPT ![editing] = a] ELSE Append(rows, a)
  /\ UNCHANGED <<asked, inputs>> /\ Still

LeaveStep == step # "list" /\ step' = "list" /\ UNCHANGED <<rows, editing, asked, inputs>> /\ Still

(* Slip caught by AppliesWhatWasShown: any row may be left out. *)
BlankAnywhere ==
  total > 0 /\ rows # <<>> /\
  SumFunction([i \in {k \in DOMAIN rows : rows[k] # Unstated} |-> rows[i]]) <= total

(* inputs: what Enter accepts.  The remainder is sent as none. *)
Acceptable ==
  LET known == SumFunction([i \in {k \in DOMAIN rows : rows[k] # Unstated} |-> rows[i]])
  IN  /\ total > 0 /\ rows # <<>>
      /\ \A i \in 1..Len(rows) - 1 : rows[i] # Unstated
      /\ IF rows[Len(rows)] = Unstated THEN known < total ELSE known = total

ApplySplits ==
  /\ step = "list" /\ Acceptable /\ inputs' = rows /\ rows' = <<>>
  /\ UNCHANGED <<step, editing, asked>> /\ Still

Next ==
  \/ BooksChange \/ Type \/ PreviewFile \/ ReviewTracker \/ PreviewChange
  \/ ConfirmImport \/ ConfirmChange \/ Back \/ Open
  \/ AddRow \/ ChooseCategory \/ EditRow \/ RemoveRow \/ EnterAmount \/ LeaveStep \/ ApplySplits

Spec == Init /\ [][Next]_vars

(***************************************************************************)
(* Properties                                                              *)
(***************************************************************************)

TypeOK ==
  /\ books \in 0..MaxBooks /\ fields \in Fields /\ Cardinality(shown) <= 1 /\ Cardinality(applied) <= 1
  /\ editing \in 0..MaxRows /\ step \in {"list", "category", "amount"}

(* "Review all rows ... y import" (import.rs:336), "confirm preview" (tui sharing.rs:55): a form
   does what its preview showed, to books as its preview saw them; the split editor changes
   the row that was asked for and sends only splits that the server takes for that total. *)
AppliesWhatWasShown ==
  /\ applied' \notin {{}, applied} => \E s \in shown : applied' = {s.effect}
  /\ step = "amount" /\ rows' # rows => \A k \in DOMAIN rows : k # asked => rows'[k] = rows[k]
  /\ inputs' \notin {<<>>, inputs} => ResolveSplits(total, inputs') # Refused
=============================================================================
