------------------------------- MODULE Payees -------------------------------
(***************************************************************************)
(* Canonical payees and their aliases (crates/means-core/src/payees.rs):    *)
(* how a new entry finds its payee, and the previewed changes (save,        *)
(* backfill, reassign and merge) that are applied only with the token of    *)
(* their preview.                                                          *)
(*                                                                         *)
(* One entity.  A statement text is the set of the alias words that it      *)
(* contains, {} for no evidence or none that a word is in.  `merged`        *)
(* remembers the payees that a merge has archived.                          *)
(***************************************************************************)
EXTENDS Integers, FiniteSets

CONSTANTS Payees,   \* payees that may exist
          Words,    \* alias words, in normal form
          MaxEntry, \* entries are 1..MaxEntry, in the order of their ids
          NoPayee, NoEntry \* SQL NULL

Entries == 1..MaxEntry
Texts   == SUBSET Words
Unknown == [active |-> FALSE, aliases |-> {}]
NoRow   == [payee |-> NoPayee, of |-> NoEntry, text |-> {}, status |-> "none"]

VARIABLES known,  \* payees that have been created
          payee,  \* payee -> active or archived, and its aliases
          entry,  \* entry -> canonical link, original, evidence, status
          merged, \* payees archived by a merge and not made active since
          shown   \* the last preview, {} or one record

vars == <<known, payee, entry, merged, shown>>

Rows  == {e \in Entries : entry[e].status # "none"}
NewId == Cardinality(Rows) + 1

Init ==
  /\ known = {}
  /\ payee = [p \in Payees |-> Unknown]
  /\ entry = [e \in Entries |-> NoRow]
  /\ merged = {}
  /\ shown = {}

(* Slip caught by MergedAway: archived payees are candidates too. *)
AnyCandidate(table, text) == {p \in Payees : table[p].aliases \cap text # {}}

(* candidates: active payees with an alias that the text contains. *)
Candidates(table, text) == {p \in Payees : table[p].active /\ table[p].aliases \cap text # {}}

(* resolve, and every use of it: several candidates are as good as none. *)
Only(candidates) == IF Cardinality(candidates) = 1 THEN CHOOSE p \in candidates : TRUE ELSE NoPayee
Resolve(text)    == Only(Candidates(payee, text))

(* explicit: the payee of that very name, if it is active. *)
Explicit(p) == IF p \in known /\ payee[p].active THEN p ELSE NoPayee

Add(p, of, text) ==
  /\ NewId \in Entries
  /\ entry' = [entry EXCEPT ![NewId] = [payee |-> p, of |-> of, text |-> text, status |-> "posted"]]

(* A human's entry, by the name that was typed. *)
Capture(p) ==
  /\ Add(Explicit(p), NoEntry, {})
  /\ UNCHANGED <<known, payee, merged, shown>>

(* A statement line becomes an entry: the payee of a rule or of the human wins over the
   aliases. *)
Book(text, named) ==
  /\ Add(IF named # NoPayee THEN Explicit(named) ELSE Resolve(text), NoEntry, text)
  /\ UNCHANGED <<known, payee, merged, shown>>

(* A line matched to an entry is its evidence and does not relink it. *)
Match(e, text) ==
  /\ e \in Rows /\ entry[e].status = "posted" /\ entry[e].text = {}
  /\ entry' = [entry EXCEPT ![e].text = text]
  /\ UNCHANGED <<known, payee, merged, shown>>

(* An edit of the payee's text links the exact name or nothing; a rule's new draft keeps
   the link, or resolves the evidence. *)
Relabel(e, p) ==
  /\ e \in Rows /\ entry[e].status = "posted"
  /\ \/ entry' = [entry EXCEPT ![e].payee = Explicit(p)]
     \/ /\ entry[e].payee = NoPayee
        /\ entry' = [entry EXCEPT ![e].payee = Resolve(entry[e].text)]
  /\ UNCHANGED <<known, payee, merged, shown>>

(* Refund: a new entry with evidence of its own that inherits the link. *)
Refund(o, text) ==
  /\ o \in Rows /\ entry[o].status = "posted" /\ entry[o].of = NoEntry
  /\ Add(entry[o].payee, o, text)
  /\ UNCHANGED <<known, payee, merged, shown>>

(* Void: the reversal inherits the link, the evidence goes back to the queue. *)
Void(e) ==
  /\ e \in Rows /\ entry[e].status = "posted" /\ NewId \in Entries
  /\ entry' = [entry EXCEPT
       ![e].status = "void", ![e].text = {},
       ![NewId] = [payee |-> entry[e].payee, of |-> e, text |-> {}, status |-> "posted"]]
  /\ UNCHANGED <<known, payee, merged, shown>>

(***************************************************************************)
(* Previewed changes.  What each would do is a table of payees and of      *)
(* links; the token binds what it was computed from.                       *)
(***************************************************************************)

Saves    == {[op |-> "save", payee |-> p, active |-> b, aliases |-> w] : p \in Payees, b \in BOOLEAN, w \in SUBSET Words}
Backfill == [op |-> "backfill"]
Links    == {[op |-> "link", entry |-> e, to |-> p] : e \in Entries, p \in Payees}
Merges   == {[op |-> "merge", from |-> p, to |-> q] : p \in Payees, q \in Payees}
Changes  == Saves \cup {Backfill} \cup Links \cup Merges

Valid(c) ==
  CASE c.op = "save"     -> TRUE
    [] c.op = "backfill" -> TRUE
    [] c.op = "link"     -> c.entry \in Rows /\ payee[c.to].active
    [] c.op = "merge"    -> {c.from, c.to} \subseteq known /\ c.from # c.to /\ payee[c.to].active

(* Slip caught by OffsetsGroups: only the entry that is reversed, not the original. *)
OneUp(e) == IF entry[e].of = NoEntry THEN e ELSE entry[e].of

(* The original at the end of the chain of reversals and refunds: a refund can be
   reversed, and so can its reversal. *)
Root(e) ==
  LET up[n \in 0..MaxEntry] ==
        IF n = 0 THEN e
        ELSE IF entry[up[n - 1]].of = NoEntry THEN up[n - 1] ELSE entry[up[n - 1]].of
  IN  up[MaxEntry]

Inferred(e) ==
  LET source == Root(e)
  IN  IF source # e /\ entry[source].payee # NoPayee THEN {entry[source].payee}
      ELSE Candidates(payee, entry[source].text)

PayeesAfter(c) ==
  CASE c.op = "save"  -> [payee EXCEPT ![c.payee] = [active |-> c.active, aliases |-> c.aliases]]
    [] c.op = "merge" -> [payee EXCEPT ![c.from].active = FALSE,
                                       ![c.to].aliases = @ \cup payee[c.from].aliases]
    [] OTHER          -> payee

LinksAfter(c) ==
  [e \in Rows |->
     CASE c.op = "link"     -> IF e = c.entry THEN c.to ELSE entry[e].payee
       [] c.op = "merge"    -> IF entry[e].payee = c.from THEN c.to ELSE entry[e].payee
       [] c.op = "backfill" -> IF entry[e].payee = NoPayee THEN Only(Inferred(e)) ELSE entry[e].payee
       [] OTHER             -> entry[e].payee]

(* The lines that another payee, or several, would match. *)
Impact(c) ==
  LET After(e) == Candidates(PayeesAfter(c), entry[e].text)
  IN  {<<e, After(e)>> : e \in
         {r \in Rows : Only(After(r)) # Resolve(entry[r].text) \/ Cardinality(After(r)) > 1}}

(* Slip caught by AppliesWhatWasShown: the token is over the request and the payees alone. *)
RequestToken(c) == [change |-> c, payees |-> payee]

Token(c) ==
  [change |-> c, payees |-> payee, impact |-> Impact(c),
   entries |-> CASE c.op = "save"     -> Cardinality({e \in Rows : entry[e].payee = c.payee})
                 [] c.op = "link"     -> entry[c.entry]
                 [] c.op = "merge"    -> [e \in {r \in Rows : entry[r].payee = c.from} |-> entry[e]]
                 [] c.op = "backfill" -> [e \in {r \in Rows : entry[r].payee = NoPayee} |->
                                            <<entry[e], entry[Root(e)], Inferred(e)>>]]

(* What the human reads: the links that change, the payees that change, the lines that
   will match another payee. *)
Shown(c) ==
  [payees |-> {p \in Payees : PayeesAfter(c)[p] # payee[p]},
   links  |-> {<<e, LinksAfter(c)[e]>> : e \in {r \in Rows : LinksAfter(c)[r] # entry[r].payee}},
   lines  |-> Impact(c)]

Preview(c) ==
  /\ shown = {} /\ Valid(c)
  /\ shown' = {[token |-> Token(c), change |-> c, shown |-> Shown(c)]}
  /\ UNCHANGED <<known, payee, entry, merged>>

Apply(c) ==
  /\ Valid(c)
  /\ payee' = PayeesAfter(c)
  /\ entry' = [e \in Entries |-> IF e \in Rows THEN [entry[e] EXCEPT !.payee = LinksAfter(c)[e]] ELSE entry[e]]
  /\ known' = IF c.op = "save" THEN known \cup {c.payee} ELSE known
  /\ merged' = CASE c.op = "merge" -> merged \cup {c.from}
                 [] c.op = "save"  -> IF c.active THEN merged \ {c.payee} ELSE merged
                 [] OTHER          -> merged

(* confirm: the same request with its token, or a conflict. *)
Confirm ==
  \E s \in shown :
    /\ s.token = Token(s.change)
    /\ Apply(s.change)
    /\ shown' = {}

Dismiss == shown # {} /\ shown' = {} /\ UNCHANGED <<known, payee, entry, merged>>

Next ==
  \/ \E p \in Payees : Capture(p)
  \/ \E t \in Texts, p \in Payees \cup {NoPayee} : Book(t, p)
  \/ \E e \in Entries, t \in Texts : Match(e, t) \/ Refund(e, t)
  \/ \E e \in Entries : Void(e)
  \/ \E e \in Entries, p \in Payees \cup {NoPayee} : Relabel(e, p)
  \/ \E c \in Changes : Preview(c)
  \/ Confirm
  \/ Dismiss

Spec == Init /\ [][Next]_vars

(***************************************************************************)
(* Properties                                                              *)
(***************************************************************************)

TypeOK ==
  /\ known \subseteq Payees /\ merged \subseteq known
  /\ \A p \in Payees : payee[p].active \in BOOLEAN /\ payee[p].aliases \subseteq Words
  /\ \A e \in Rows : entry[e].payee \in known \cup {NoPayee} /\ entry[e].of \in (1..e - 1) \cup {NoEntry}

(* A merged payee keeps no entry and gains none, from aliases, rules, people, refunds or
   reversals, until somebody makes it active again: "entry links and aliases transfer to
   the target; the source is archived" (docs/payee-aliases.md:31-32). *)
MergedAway == \A p \in merged : \A e \in Rows : entry[e].payee # p

(* "A changed plan or relevant state invalidates the confirmation token"
   (docs/payee-aliases.md:27-28): whatever came in since, a confirmed change does what
   its preview showed, to the entries and the lines it showed. *)
AppliesWhatWasShown ==
  \A s \in shown :
    shown' = {} /\ <<payee, entry>>' # <<payee, entry>> => s.shown = Shown(s.change)

(* Backfilled reversals and refunds "offset the same group" as the original, linked
   before or in the same backfill (docs/payee-aliases.md:72-73). *)
OffsetsGroups ==
  (\E s \in shown : s.change = Backfill) /\ shown' = {} /\ entry' # entry =>
    \A e \in Rows : entry[e].payee = NoPayee => entry'[e].payee = entry'[Root(e)].payee
=============================================================================
