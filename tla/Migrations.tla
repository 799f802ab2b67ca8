------------------------------ MODULE Migrations ------------------------------
(***************************************************************************)
(* Opening a ledger file of an older release: migrate_to of                *)
(* crates/means-core/src/db.rs, with the migrations that are code: the     *)
(* change of scale of minor_units.rs and the repairs of tags.rs.           *)
(*                                                                         *)
(* The server and every command of the CLI open the file by themselves.  A *)
(* process reads the version, then runs each migration after it, one       *)
(* transaction each; it may die between any two of them.                   *)
(***************************************************************************)
EXTENDS Integers, FiniteSets

CONSTANTS Processes,
          Last,      \* the version of this release
          Oldest,    \* the oldest version of a file
          Script,    \* migrations that are SQL: they create tables and columns
          Rescale, RepairTags, RepairChains, \* those that are code
          Digits,    \* decimals of every value before Rescale
          Precision, \* commodity -> its decimals
          NoUnit,    \* a row names no known commodity
          Figures,   \* postings and statement lines
          OldValues, \* values of a row before Rescale
          Chain,     \* length of a chain of reversals: entry n + 1 reverses entry n
          Labels     \* tags

Versions == Oldest..Last
Entries  == 1..Chain + 1
Unknown  == 0

ASSUME VersionsAreOrdered ==
  /\ Oldest \in Nat /\ Last \in Nat /\ Script \subseteq Nat
  /\ {Rescale, RepairTags, RepairChains} \subseteq Nat \ Script
  /\ Rescale < RepairTags /\ RepairTags < RepairChains
ASSUME PrecisionsFit ==
  /\ Digits \in 0..8 /\ \A c \in DOMAIN Precision : Precision[c] \in 0..Digits
  /\ NoUnit \notin DOMAIN Precision
ASSUME RowsAreNumbers == OldValues \subseteq Int /\ Chain \in Nat

VARIABLES version, \* PRAGMA user_version
          schema,  \* scripts whose tables and columns are there
          unit,    \* row -> commodity, or NoUnit
          value,   \* row -> what is stored
          first,   \* row -> what was stored in the oldest file: for the properties
          tags,    \* entry -> its tags
          edited,  \* entries whose tags somebody set: rows of the audit log
          read,    \* process -> the version it read, Unknown when it has not
          done     \* process -> the last migration it has dealt with

vars == <<version, schema, unit, value, first, tags, edited, read, done>>

Powers == <<1, 10, 100, 1000, 10000, 100000, 1000000, 10000000, 100000000>>
Divisor(r) == Powers[Digits - Precision[unit[r]] + 1]

(* A file of an older release, with what its users left in it. *)
Init ==
  /\ version \in Versions
  /\ schema = {v \in Script : v <= version}
  /\ unit \in [Figures -> DOMAIN Precision \cup {NoUnit}]
  /\ first \in [Figures -> OldValues]
  /\ version >= Rescale => \A r \in Figures : unit[r] # NoUnit /\ first[r] % Divisor(r) = 0
  /\ value = [r \in Figures |-> IF version >= Rescale THEN first[r] \div Divisor(r) ELSE first[r]]
  /\ tags \in [Entries -> SUBSET Labels]
  /\ edited \in SUBSET Entries
  /\ \A e \in Entries : tags[e] # {} /\ version < RepairTags => e = 1 \/ e \in edited
  /\ version >= RepairTags =>
       \A e \in Entries \ {1} : e \notin edited => tags[e] = {} \/ tags[e] = tags[e - 1]
  /\ version >= RepairChains =>
       \A e \in Entries \ {1} : e \notin edited => tags[e] = tags[e - 1]
  /\ read = [p \in Processes |-> Unknown]
  /\ done = [p \in Processes |-> Unknown]

(***************************************************************************)
(* The migrations                                                          *)
(***************************************************************************)

(* Slip caught by ValuesKept: a value that is no whole number of minor units is rounded. *)
Rounds(v) ==
  /\ \A r \in Figures : unit[r] # NoUnit
  /\ value' = [r \in Figures |-> value[r] \div Divisor(r)]
  /\ UNCHANGED <<schema, tags>>

(* rescale: each value in minor units of its commodity; a fraction of one is refused. *)
ToMinor(v) ==
  /\ \A r \in Figures : unit[r] # NoUnit /\ value[r] % Divisor(r) = 0
  /\ value' = [r \in Figures |-> value[r] \div Divisor(r)]
  /\ UNCHANGED <<schema, tags>>

(* Slip caught by KeepsTagEdits: the audit log is not asked. *)
EveryBare == {e \in Entries \ {1} : tags[e] = {}}

(* System reversals without tags, that nobody edited. *)
Bare == {e \in Entries \ {1} : tags[e] = {} /\ e \notin edited}

(* Slip caught by ReversalsAreTagged: one pass again. *)
OnePass(v) ==
  /\ tags' = [e \in Entries |-> IF e \in Bare THEN tags[e - 1] ELSE tags[e]]
  /\ UNCHANGED <<schema, value>>

(* repair_reversal_tags: one pass over what one SELECT found. *)
TagReversals(v) ==
  /\ tags' = [e \in Entries |-> IF e \in Bare THEN tags[e - 1] ELSE tags[e]]
  /\ UNCHANGED <<schema, value>>

(* repair_reversal_chains: from each tagged entry along its bare reversals. *)
Source(e) == CHOOSE s \in 1..e : s \notin Bare /\ s + 1..e \subseteq Bare
TagChains(v) ==
  /\ tags' = [e \in Entries |-> tags[Source(e)]]
  /\ UNCHANGED <<schema, value>>

(* A script fails when its tables are already there. *)
RunScript(v) ==
  /\ v \notin schema
  /\ schema' = schema \cup {v}
  /\ UNCHANGED <<value, tags>>

Migration(v) ==
  \/ v \in Script /\ RunScript(v)
  \/ v = Rescale /\ ToMinor(v)
  \/ v = RepairTags /\ TagReversals(v)
  \/ v = RepairChains /\ TagChains(v)

(***************************************************************************)
(* migrate_to                                                              *)
(***************************************************************************)

Idle(p)  == read[p] = Unknown
Ready(p) == read[p] # Unknown /\ done[p] = Last

ReadVersion(p) ==
  /\ Idle(p)
  /\ read' = [read EXCEPT ![p] = version]
  /\ done' = [done EXCEPT ![p] = version]
  /\ UNCHANGED <<version, schema, unit, value, first, tags, edited>>

(* Slip caught by ValuesKept: the version is set after the commit, and a process dies
   between the two. *)
ApplyThenStamp(p) ==
  LET v == done[p] + 1
  IN
  /\ ~Idle(p) /\ ~Ready(p)
  /\ Migration(v)
  /\ done' = [done EXCEPT ![p] = v]
  /\ version' \in {version, v}
  /\ UNCHANGED <<unit, first, edited, read>>

(* The next migration and the version, in one transaction. *)
Apply(p) ==
  LET v == done[p] + 1
  IN
  /\ ~Idle(p) /\ ~Ready(p)
  /\ Migration(v)
  /\ done' = [done EXCEPT ![p] = v]
  /\ version' = v
  /\ UNCHANGED <<unit, first, edited, read>>

(* A migration that fails, a busy file, the death of the process, or its end: what has
   been committed stays. *)
Close(p) ==
  /\ ~Idle(p)
  /\ read' = [read EXCEPT ![p] = Unknown]
  /\ done' = [done EXCEPT ![p] = Unknown]
  /\ UNCHANGED <<version, schema, unit, value, first, tags, edited>>

(* set_tags, in a process that has the ledger open. *)
SetTags(p, e, set) ==
  /\ Ready(p)
  /\ tags' = [tags EXCEPT ![e] = set]
  /\ edited' = IF set = tags[e] THEN edited ELSE edited \cup {e}
  /\ UNCHANGED <<version, schema, unit, value, first, read, done>>

Next ==
  \E p \in Processes :
    \/ ReadVersion(p)
    \/ Apply(p)
    \/ Close(p)
    \/ \E e \in Entries, set \in SUBSET Labels : SetTags(p, e, set)

Spec == Init /\ [][Next]_vars

(***************************************************************************)
(* Properties                                                              *)
(***************************************************************************)

TypeOK ==
  /\ version \in Versions /\ schema \subseteq Script
  /\ unit \in [Figures -> DOMAIN Precision \cup {NoUnit}]
  /\ value \in [Figures -> Int] /\ first \in [Figures -> OldValues]
  /\ tags \in [Entries -> SUBSET Labels] /\ edited \subseteq Entries
  /\ read \in [Processes -> Versions \cup {Unknown}]
  /\ done \in [Processes -> Versions \cup {Unknown}]

(* "The same books produce the same hashes before and after" (minor_units.rs:4-5):
   through deaths and new attempts, every value stays the decimal it was. *)
ValuesKept ==
  \A r \in Figures :
    IF version >= Rescale THEN value[r] * Divisor(r) = first[r] ELSE value[r] = first[r]

(* The version tells which tables there are, so the next start goes on where this one
   stopped: "a migration that fails is rolled back whole" (db.rs:116-117). *)
SchemaIsTheVersion == schema = {v \in Script : v <= version}

(* Once the repairs have run, no reversal that nobody edited lacks the tags of the entry
   it reverses, however long the chain; an edit of the original later is not followed. *)
ReversalsAreTagged ==
  version >= RepairChains =>
    \A e \in Entries \ {1} :
      tags[e] = {} => e \in edited \/ e - 1 \in edited \/ tags[e - 1] = {}

(* "Never overwrite a user's tag edit, including a deliberate removal that leaves the
   reversal untagged" (tags.rs:79-80): no migration changes the tags of an edited entry. *)
KeepsTagEdits == version' # version => \A e \in edited : tags'[e] = tags[e]

==============================================================================
