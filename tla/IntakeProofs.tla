---------------------------- MODULE IntakeProofs ----------------------------
(***************************************************************************)
(* What arrives is kept and taken once, for every number of records, pulls, *)
(* files and accounts, and whatever fails or dies where: a cursor passes    *)
(* only what a file holds, a file leaves the folder only when a row knows   *)
(* it, and it is imported again only by a person, into another account,     *)
(* after a completion that ended between its commit and its last step.      *)
(***************************************************************************)
EXTENDS Intake, FiniteSetTheorems, TLAPS

(* A name is not empty: the default of a source is no route by name. *)
Named == \A e \in Exports : Shape[e] # ""

(* What is so of every ledger: moments and days are counted, an export is no file that a
   pull wrote, and NULL is no account. *)
IntakeConstants ==
  /\ MaxClock \in Nat \ {0} /\ MaxPulls \in Nat
  /\ DayOf \in [Txs -> Nat] /\ Cutoffs \subseteq Nat /\ Sinces \subseteq Nat \ {0}
  /\ Exports \cap Pulled = {}
  /\ Named
  /\ NoAccount \notin Accounts

Kinds    == {Source[e] : e \in Exports} \X ({""} \cup {Shape[e] : e \in Exports})
Statuses == {"done", "pending", "failed"}

Clocks ==
  /\ clock \in Moments
  /\ recorded \in [Txs -> 0..clock]
  /\ conn \in [cursor : 0..clock, cutoff : Nat, account : Accounts \cup {NoAccount}]

Pulling ==
  [step : {"fetching", "published"}, started : 1..clock, cutoff : Nat, got : SUBSET Txs, from : Nat]

Pulls ==
  /\ pull \in {NoPull} \cup Pulling
  /\ wrote \in Seq(SUBSET Txs) /\ Len(wrote) \in 0..MaxPulls
  /\ pull.step = "fetching" => Len(wrote) < MaxPulls

Folder ==
  /\ inbox \subseteq dropped /\ dropped \subseteq Exports \cup 1..Len(wrote)
  /\ open \subseteq Accounts
  /\ profile \in [Kinds -> Accounts \cup {NoAccount}]
  /\ rows \subseteq [file : dropped, account : Accounts \cup {NoAccount}, status : Statuses]
  /\ \A r \in rows : (r.status = "done") = (r.account # NoAccount)

Importing == [step : {"commit", "learn", "stash", "forget"}, file : dropped, account : Accounts, by : {"scan", "human"}]

Working == work \in {NoWork} \cup [step : {"stash"}, file : dropped] \cup Importing

Types == Clocks /\ Pulls /\ Folder /\ Working

LEMMA WrittenIs ==
  ASSUME IntakeConstants, Pulls
  PROVE  Written = 1..Len(wrote) /\ Cardinality(DOMAIN wrote) = Len(wrote)
<1>1. PICK n \in Nat : n = Len(wrote) /\ DOMAIN wrote = 1..n /\ n <= MaxPulls
  BY DEF Pulls
<1>2. Cardinality(1..n) = n
  <2>1. n \in Int /\ 1 \in Int
    BY <1>1
  <2>2. Cardinality(1..n) = IF 1 > n THEN 0 ELSE n - 1 + 1
    BY <2>1, FS_Interval
  <2> QED BY <2>2, <1>1
<1>3. MaxPulls \in Nat
  BY DEF IntakeConstants
<1>4. Written = {i \in 1..MaxPulls : i <= n}
  BY <1>1, <1>2 DEF Written, Pulled
<1> QED BY <1>1, <1>2, <1>3, <1>4

LEMMA TypesInit == ASSUME IntakeConstants PROVE Init => Types
<1> SUFFICES ASSUME Init
             PROVE  Types
  OBVIOUS
<1>1. Clocks
  <2>1. MaxClock \in Nat \ {0}
    BY DEF IntakeConstants
  <2>0. clock = 1 /\ recorded = [t \in Txs |-> 0] /\ conn = [cursor |-> 0, cutoff |-> 0, account |-> NoAccount]
    BY Zenon DEF Init
  <2>2. clock \in Moments
    BY <2>0, <2>1 DEF Moments
  <2>3. recorded \in [Txs -> 0..clock] /\ 0 \in 0..clock /\ 0 \in Nat
    BY <2>0
  <2>4. conn \in [cursor : 0..clock, cutoff : Nat, account : Accounts \cup {NoAccount}]
    BY <2>0, <2>3
  <2> QED BY <2>2, <2>3, <2>4 DEF Clocks
<1>2. Pulls
  <2>1. wrote = <<>> /\ pull = NoPull /\ MaxPulls \in Nat
    BY DEF Init, IntakeConstants
  <2>2. wrote \in Seq(SUBSET Txs) /\ Len(wrote) = 0
    BY <2>1
  <2>3. pull.step # "fetching"
    BY <2>1 DEF NoPull
  <2> QED BY <2>1, <2>2, <2>3 DEF Pulls
<1>3. Folder
  BY DEF Init, Folder, Kinds
<1>4. Working
  BY DEF Init, Working
<1> QED BY <1>1, <1>2, <1>3, <1>4 DEF Types

(* A step that leaves the pull, the files and the ledger alone. *)
LEMMA TypesOutside ==
  ASSUME IntakeConstants, Types,
         Tick \/ (\E t \in Txs : Record(t)) \/ (\E a \in Accounts \cup {NoAccount}, c \in Cutoffs : Configure(a, c))
         \/ (\E a \in Accounts : OpenOrClose(a)) \/ (\E k \in DOMAIN profile : DeleteProfile(k))
  PROVE  Types'
<1>1. CASE Tick
  <2>0. MaxClock \in Nat /\ clock \in Moments
    BY DEF IntakeConstants, Types, Clocks
  <2>1. clock \in Nat /\ clock' = clock + 1 /\ clock' \in Moments
    BY <1>1, <2>0 DEF Tick, Moments
  <2>2. 0..clock \subseteq 0..clock' /\ 1..clock \subseteq 1..clock'
    BY <2>1
  <2>3. Clocks'
    BY <1>1, <2>1, <2>2 DEF Tick, Types, Clocks
  <2>4. Pulls'
    BY <1>1, <2>1, <2>2 DEF Tick, Types, Pulls, Pulling, pullVars
  <2>5. Folder' /\ Working'
    BY <1>1 DEF Tick, Types, Folder, Working, Importing, pullVars, ledgerVars
  <2> QED BY <2>3, <2>4, <2>5 DEF Types
<1>2. ASSUME NEW t \in Txs, Record(t)
      PROVE  Types'
  <2>1. Clocks'
    BY <1>2 DEF Record, Types, Clocks, Moments
  <2>2. Pulls'
    BY <1>2 DEF Record, Types, Pulls, Pulling, pullVars
  <2>3. Folder' /\ Working'
    BY <1>2 DEF Record, Types, Folder, Working, Importing, pullVars, ledgerVars
  <2> QED BY <2>1, <2>2, <2>3 DEF Types
<1>3. ASSUME NEW a \in Accounts \cup {NoAccount}, NEW c \in Cutoffs, Configure(a, c)
      PROVE  Types'
  <2>1. Clocks'
    BY <1>3 DEF Configure, Types, Clocks, bankVars, IntakeConstants
  <2>2. Pulls'
    BY <1>3 DEF Configure, Types, Pulls, Pulling, pullVars, bankVars
  <2>3. Folder' /\ Working'
    BY <1>3 DEF Configure, Types, Folder, Working, Importing, pullVars, ledgerVars
  <2> QED BY <2>1, <2>2, <2>3 DEF Types
<1>4. ASSUME NEW a \in Accounts, OpenOrClose(a)
      PROVE  Types'
  <2>1. Clocks' /\ Pulls'
    BY <1>4 DEF OpenOrClose, Types, Clocks, Pulls, Pulling, bankVars, pullVars
  <2>2. Folder' /\ Working'
    BY <1>4 DEF OpenOrClose, Types, Folder, Working, Importing, pullVars, ledgerVars
  <2> QED BY <2>1, <2>2 DEF Types
<1>5. ASSUME NEW k \in DOMAIN profile, DeleteProfile(k)
      PROVE  Types'
  <2>1. Clocks' /\ Pulls'
    BY <1>5 DEF DeleteProfile, Types, Clocks, Pulls, Pulling, bankVars, pullVars
  <2>2. Folder' /\ Working'
    BY <1>5 DEF DeleteProfile, Types, Folder, Working, Importing, pullVars
  <2> QED BY <2>1, <2>2 DEF Types
<1> QED BY <1>1, <1>2, <1>3, <1>4, <1>5

LEMMA TypesPull ==
  ASSUME IntakeConstants, Types,
         (\E s \in Sinces \cup {0} : StartPull(s)) \/ (\E txs \in SUBSET Txs : Page(txs)) \/ Publish \/ SaveCursor \/ PullFails
  PROVE  Types'
<1>1. ASSUME NEW s \in Sinces \cup {0}, StartPull(s)
      PROVE  Types'
  <2>1. Clocks' /\ Folder' /\ Working'
    BY <1>1 DEF StartPull, Types, Clocks, Folder, Working, Importing, bankVars, ledgerVars
  <2>2. Pulls'
    <3>1. pull' \in Pulling'
      <4>1. s \in Nat /\ MaxClock \in Nat
        BY DEF IntakeConstants
      <4>2. clock \in Moments /\ conn.cutoff \in Nat /\ conn.cursor \in 0..clock
        BY DEF Types, Clocks
      <4>3. clock \in 1..clock /\ conn.cursor \in Nat
        BY <4>1, <4>2 DEF Moments
      <4> QED BY <1>1, <4>1, <4>2, <4>3 DEF StartPull, Pulling, bankVars
    <3>2. Len(wrote') < MaxPulls
      BY <1>1, WrittenIs DEF StartPull, Types
    <3> QED BY <1>1, <3>1, <3>2 DEF StartPull, Types, Pulls
  <2> QED BY <2>1, <2>2 DEF Types
<1>2. ASSUME NEW txs \in SUBSET Txs, Page(txs)
      PROVE  Types'
  <2>1. Clocks' /\ Folder' /\ Working'
    BY <1>2 DEF Page, Types, Clocks, Folder, Working, Importing, bankVars, ledgerVars
  <2>2. pull \in Pulling
    BY <1>2 DEF Page, Types, Pulls, NoPull
  <2>3. Pulls'
    BY <1>2, <2>2 DEF Page, Types, Pulls, Pulling, bankVars
  <2> QED BY <2>1, <2>3 DEF Types
<1>3. CASE Publish
  <2>1. pull \in Pulling
    BY <1>3 DEF Publish, Types, Pulls, NoPull
  <2>2. Cardinality(DOMAIN wrote) = Len(wrote)
    BY WrittenIs DEF Types
  <2>3. Len(wrote') = Len(wrote) + 1 /\ wrote' \in Seq(SUBSET Txs)
    BY <1>3, <2>1 DEF Publish, Types, Pulls, Pulling
  <2>4. Pulls'
    <3>1. Len(wrote) \in 0..MaxPulls /\ Len(wrote) < MaxPulls /\ MaxPulls \in Nat
      BY <1>3 DEF Publish, Types, Pulls, IntakeConstants
    <3>2. Len(wrote') \in 0..MaxPulls
      BY <2>3, <3>1
    <3>3. pull' \in Pulling' /\ pull'.step = "published"
      BY <1>3, <2>1 DEF Publish, Pulling, bankVars
    <3> QED BY <2>3, <3>2, <3>3 DEF Pulls
  <2>5. 1..Len(wrote') = 1..Len(wrote) \cup {Len(wrote) + 1}
    BY <2>3 DEF Types, Pulls
  <2>6. Folder'
    BY <1>3, <2>2, <2>5 DEF Publish, Types, Folder, ledgerVars
  <2>7. Clocks' /\ Working'
    BY <1>3 DEF Publish, Types, Clocks, Working, Importing, bankVars, ledgerVars
  <2> QED BY <2>4, <2>6, <2>7 DEF Types
<1>4. CASE SaveCursor
  <2>1. pull \in Pulling
    BY <1>4 DEF SaveCursor, Types, Pulls, NoPull
  <2>2. NextCursor \in 0..clock
    BY <2>1 DEF NextCursor, Types, Clocks, Pulling
  <2>3. Clocks'
    BY <1>4, <2>2 DEF SaveCursor, Types, Clocks, bankVars
  <2>4. Pulls'
    BY <1>4 DEF SaveCursor, Types, Pulls, NoPull
  <2>5. Folder' /\ Working'
    BY <1>4 DEF SaveCursor, Types, Folder, Working, Importing, ledgerVars
  <2> QED BY <2>3, <2>4, <2>5 DEF Types
<1>5. CASE PullFails
  <2>1. Clocks' /\ Folder' /\ Working'
    BY <1>5 DEF PullFails, Types, Clocks, Folder, Working, Importing, bankVars, ledgerVars
  <2>2. Pulls'
    BY <1>5 DEF PullFails, Types, Pulls, NoPull
  <2> QED BY <2>1, <2>2 DEF Types
<1> QED BY <1>1, <1>2, <1>3, <1>4, <1>5

(* A step of the folder: a drop, and what scans and completions do. *)
Folding ==
  (\E e \in Exports : Drop(e)) \/ Scan \/ (\E f \in Files, a \in Accounts : Complete(f, a)) \/ ImportFails \/ Crash

LEMMA FilesAre == ASSUME IntakeConstants, Types PROVE dropped \subseteq Files
<1>1. 1..Len(wrote) \subseteq Pulled
  BY DEF Types, Pulls, Pulled, IntakeConstants
<1> QED BY <1>1 DEF Types, Folder, Files

LEMMA TypesFolding == ASSUME IntakeConstants, Types, Folding PROVE Types'
<1>1. ASSUME UNCHANGED <<clock, recorded, wrote, pull>>, conn' \in [cursor : 0..clock, cutoff : Nat, account : Accounts \cup {NoAccount}]
      PROVE  Clocks' /\ Pulls'
  BY <1>1 DEF Types, Clocks, Pulls, Pulling
<1>2. ASSUME NEW e \in Exports, Drop(e)
      PROVE  Types'
  <2>1. Clocks' /\ Pulls'
    BY <1>1, <1>2 DEF Drop, bankVars, pullVars, Types, Clocks
  <2>2. Folder' /\ Working'
    BY <1>2 DEF Drop, Types, Folder, Working, Importing, pullVars, ledgerVars
  <2> QED BY <2>1, <2>2 DEF Types
<1>3. ASSUME NEW f \in Files, Take(f)
      PROVE  Types'
  <2>1. Clocks' /\ Pulls'
    BY <1>1, <1>3 DEF Take, bankVars, pullVars, Types, Clocks
  <2>2. f \in dropped
    BY <1>3 DEF Take, Types, Folder
  <2>3. Route(f) \in Accounts \cup {NoAccount}
    BY DEF Route, Open, Types, Folder
  <2>4. Row(f, NoAccount, "pending") \in [file : dropped, account : Accounts \cup {NoAccount}, status : Statuses]
    BY <2>2 DEF Row, Statuses
  <2>5. Folder'
    BY <1>3, <2>4 DEF Take, Types, Folder, pullVars, Row
  <2>6. Working'
    BY <1>3, <2>2, <2>3 DEF Take, Working, Importing
  <2> QED BY <2>1, <2>5, <2>6 DEF Types
<1>4. CASE Commit
  <2>1. Clocks' /\ Pulls'
    BY <1>1, <1>4 DEF Commit, bankVars, pullVars, Types, Clocks
  <2>2. work \in Importing
    BY <1>4 DEF Commit, Types, Working, NoWork
  <2>3. work.account \in Accounts /\ work.account # NoAccount /\ work.file \in dropped
    BY <2>2 DEF Importing, IntakeConstants
  <2>4. Folder'
    BY <1>4, <2>3 DEF Commit, Types, Folder, pullVars, Row, Statuses
  <2>5. Working'
    BY <1>4, <2>2 DEF Commit, Working, Importing, Next1
  <2> QED BY <2>1, <2>4, <2>5 DEF Types
<1>5. CASE Learn
  <2>1. work \in Importing
    BY <1>5 DEF Learn, Types, Working, NoWork
  <2>2. work.account \in Accounts /\ work.file \in dropped
    BY <2>1 DEF Importing
  <2>3. Clocks' /\ Pulls'
    BY <1>1, <1>5, <2>2 DEF Learn, bankVars, pullVars, Types, Clocks
  <2>4. profile' \in [Kinds -> Accounts \cup {NoAccount}]
    BY <1>5, <2>2 DEF Learn, Learned, Types, Folder
  <2>5. Folder'
    BY <1>5, <2>4 DEF Learn, Types, Folder, pullVars
  <2>6. Working'
    BY <1>5, <2>1 DEF Learn, Working, Importing, Next1
  <2> QED BY <2>3, <2>5, <2>6 DEF Types
<1>6. CASE Stash
  <2>1. Clocks' /\ Pulls'
    BY <1>1, <1>6 DEF Stash, bankVars, pullVars, Types, Clocks
  <2>2. Folder' /\ Working'
    BY <1>6 DEF Stash, Types, Folder, Working, pullVars
  <2> QED BY <2>1, <2>2 DEF Types
<1>7. CASE Forget
  <2>1. Clocks' /\ Pulls'
    BY <1>1, <1>7 DEF Forget, bankVars, pullVars, Types, Clocks
  <2>2. Folder' /\ Working'
    BY <1>7 DEF Forget, Types, Folder, Working, pullVars
  <2> QED BY <2>1, <2>2 DEF Types
<1>8. ASSUME NEW f \in Files, NEW a \in Accounts, Complete(f, a)
      PROVE  Types'
  <2>1. Clocks' /\ Pulls'
    BY <1>1, <1>8 DEF Complete, bankVars, pullVars, Types, Clocks
  <2>2. f \in dropped
    BY <1>8 DEF Complete, Types, Folder, Row
  <2>3. Folder' /\ Working'
    BY <1>8, <2>2 DEF Complete, Types, Folder, Working, Importing, pullVars
  <2> QED BY <2>1, <2>3 DEF Types
<1>9. CASE ImportFails
  <2>1. Clocks' /\ Pulls'
    BY <1>1, <1>9 DEF ImportFails, bankVars, pullVars, Types, Clocks
  <2>2. work.file \in dropped
    BY <1>9 DEF ImportFails, Types, Working, Importing, NoWork
  <2>3. Row(work.file, NoAccount, "failed") \in [file : dropped, account : Accounts \cup {NoAccount}, status : Statuses]
    BY <2>2 DEF Row, Statuses
  <2>4. Folder'
    BY <1>9, <2>3 DEF ImportFails, Types, Folder, pullVars, Row
  <2>5. Working'
    BY <1>9, <2>2 DEF ImportFails, Working
  <2> QED BY <2>1, <2>4, <2>5 DEF Types
<1>10. CASE Crash
  <2>1. Clocks' /\ Pulls'
    BY <1>1, <1>10 DEF Crash, bankVars, pullVars, Types, Clocks
  <2>2. Folder' /\ Working'
    BY <1>10 DEF Crash, Types, Folder, Working, pullVars
  <2> QED BY <2>1, <2>2 DEF Types
<1> QED BY <1>2, <1>3, <1>4, <1>5, <1>6, <1>7, <1>8, <1>9, <1>10 DEF Folding, Scan

LEMMA TypesStep == ASSUME IntakeConstants, Types, [Next]_vars PROVE Types'
<1>1. CASE Folding
  BY <1>1, TypesFolding
<1>2. CASE UNCHANGED vars
  <2>1. Clocks' /\ Pulls'
    BY <1>2 DEF vars, Types, Clocks, Pulls, Pulling
  <2>2. Folder' /\ Working'
    BY <1>2 DEF vars, Types, Folder, Working, Importing
  <2> QED BY <2>1, <2>2 DEF Types
<1> QED BY <1>1, <1>2, TypesOutside, TypesPull DEF Next, Folding

(* What the variables hold at every moment implies the type invariant that TLC checks. *)
LEMMA TypeOKIs == ASSUME IntakeConstants, Types PROVE TypeOK
<1>1. conn.cursor \in {0} \cup Moments /\ conn.account \in Accounts \cup {NoAccount}
  <2>1. MaxClock \in Nat /\ clock \in 1..MaxClock
    BY DEF IntakeConstants, Types, Clocks, Moments
  <2>2. conn.cursor \in 0..clock /\ conn.account \in Accounts \cup {NoAccount}
    BY DEF Types, Clocks
  <2> QED BY <2>1, <2>2 DEF Moments
<1>2. inbox \subseteq dropped /\ dropped \subseteq Exports \cup Written
  BY WrittenIs DEF Types, Folder
<1>3. \A r \in rows : r.file \in dropped /\ (r.status = "done") = (r.account # NoAccount)
  BY DEF Types, Folder
<1>4. work.step \in {"idle", "commit", "learn", "stash", "forget"}
  BY DEF Types, Working, Importing, NoWork
<1> QED BY <1>1, <1>2, <1>3, <1>4 DEF TypeOK

THEOREM TypeCorrect == ASSUME IntakeConstants PROVE Spec => []TypeOK
<1>1. Init => Types
  BY TypesInit
<1>2. Types /\ [Next]_vars => Types'
  BY TypesStep
<1>3. Types => TypeOK
  BY TypeOKIs
<1> QED BY <1>1, <1>2, <1>3, PTL DEF Spec

(***************************************************************************)
(* No record is lost.  The cursor moves to the start of a pull, so what was *)
(* recorded before that start must be in a file by then: the pull's own, or *)
(* an earlier one for what is older than its cursor, because no other pull  *)
(* moves the cursor in between.                                            *)
(***************************************************************************)

Held(t) == \E n \in 1..Len(wrote) : t \in wrote[n]

(* What was recorded before moment m is in a file. *)
HeldBefore(m) == \A t \in Txs : recorded[t] # 0 /\ recorded[t] < m => Held(t)

(* A pull without a booking cutoff asks from the cursor, and once its file is there nothing
   older than its start is missing. *)
PullHolds ==
  pull # NoPull /\ pull.cutoff = 0 =>
    pull.from = conn.cursor /\ (pull.step = "published" => HeldBefore(pull.started))

NoneMissing == HeldBefore(conn.cursor) /\ PullHolds

LEMMA NothingLostIs == ASSUME IntakeConstants, Types PROVE NothingLost <=> HeldBefore(conn.cursor)
BY WrittenIs DEF Types, NothingLost, HeldBefore, Held

(* Records, files and moments that stay, or grow, keep what was held before a moment that
   has come. *)
LEMMA HeldStays ==
  ASSUME IntakeConstants, Types, NEW m \in 0..clock, HeldBefore(m),
         wrote' = wrote, recorded' = recorded \/ (\E u \in Txs : recorded' = [recorded EXCEPT ![u] = clock])
  PROVE  HeldBefore(m)'
<1> SUFFICES ASSUME NEW t \in Txs, recorded'[t] # 0, recorded'[t] < m
             PROVE  Held(t)'
  BY DEF HeldBefore
<1>1. recorded'[t] = recorded[t]
  BY DEF Types, Clocks, Moments, IntakeConstants
<1>2. Held(t)
  BY <1>1 DEF HeldBefore
<1> QED BY <1>2 DEF Held

LEMMA NoneMissingInit == Init => NoneMissing
<1>1. Init => recorded = [t \in Txs |-> 0] /\ pull = NoPull
  BY Zenon DEF Init
<1> QED BY <1>1 DEF NoneMissing, PullHolds, HeldBefore

LEMMA NoneMissingStep ==
  ASSUME IntakeConstants, Sinces = {}, Types, NoneMissing, [Next]_vars
  PROVE  NoneMissing'
<1> USE DEF NoneMissing
<1>1. ASSUME UNCHANGED <<wrote, pull>>, conn'.cursor = conn.cursor,
             recorded' = recorded \/ (\E u \in Txs : recorded' = [recorded EXCEPT ![u] = clock])
      PROVE  NoneMissing'
  <2>1. conn.cursor \in 0..clock
    BY DEF Types, Clocks
  <2>2. HeldBefore(conn.cursor)'
    <3>1. PICK m : m = conn.cursor
      OBVIOUS
    <3>2. HeldBefore(m)'
      BY <1>1, <2>1, <3>1, HeldStays
    <3> QED BY <1>1, <3>1, <3>2
  <2>3. ASSUME pull # NoPull, pull.cutoff = 0, pull.step = "published"
        PROVE  HeldBefore(pull.started)'
    <3>1. PICK m : m = pull.started
      OBVIOUS
    <3>2. m \in 0..clock
      BY <2>3, <3>1 DEF Types, Pulls, Pulling, Clocks, Moments
    <3>3. HeldBefore(m)'
      BY <1>1, <2>3, <3>1, <3>2, HeldStays DEF PullHolds
    <3> QED BY <1>1, <3>1, <3>3
  <2> QED BY <1>1, <2>2, <2>3 DEF PullHolds
<1>2. ASSUME NEW s \in Sinces \cup {0}, StartPull(s)
      PROVE  NoneMissing'
  <2>1. HeldBefore(conn.cursor)'
    BY <1>2 DEF StartPull, bankVars, HeldBefore, Held
  <2>2. s = 0 /\ pull'.step = "fetching" /\ (pull'.cutoff = 0 => pull'.from = conn'.cursor)
    BY <1>2 DEF StartPull
  <2> QED BY <2>1, <2>2 DEF PullHolds
<1>3. ASSUME NEW txs \in SUBSET Txs, Page(txs)
      PROVE  NoneMissing'
  <2>1. HeldBefore(conn.cursor)'
    BY <1>3 DEF Page, bankVars, HeldBefore, Held
  <2>2. pull \in Pulling /\ pull # NoPull
    BY <1>3 DEF Page, Types, Pulls, NoPull
  <2>3. pull'.step = "fetching" /\ pull'.cutoff = pull.cutoff /\ pull'.from = pull.from /\ conn' = conn
    BY <1>3, <2>2 DEF Page, Pulling
  <2> QED BY <2>1, <2>2, <2>3 DEF PullHolds
<1>4. CASE Publish
  <2>1. pull \in Pulling /\ pull # NoPull
    BY <1>4 DEF Publish, Types, Pulls, NoPull
  <2>2. Len(wrote') = Len(wrote) + 1 /\ Len(wrote) \in Nat
        /\ (\A n \in 1..Len(wrote) : wrote'[n] = wrote[n])
        /\ wrote'[Len(wrote) + 1] = {t \in pull.got : DayOf[t] >= pull.cutoff}
    BY <1>4, <2>1 DEF Publish, Types, Pulls, Pulling
  <2>3. \A t \in Txs : Held(t) => Held(t)'
    BY <2>2 DEF Held
  <2>4. HeldBefore(conn.cursor)'
    BY <1>4, <2>3 DEF Publish, bankVars, HeldBefore
  <2>5. ASSUME pull.cutoff = 0, NEW t \in Txs, recorded[t] # 0, recorded[t] < pull.started
        PROVE  Held(t)'
    <3>1. CASE recorded[t] < pull.from
      BY <2>1, <2>3, <2>5, <3>1 DEF PullHolds, HeldBefore
    <3>2. CASE ~(recorded[t] < pull.from)
      <4>1. recorded[t] >= pull.from
        BY <2>1, <3>2 DEF Types, Clocks, Pulling, Moments, IntakeConstants
      <4>2. t \in pull.got
        BY <1>4, <2>5, <4>1 DEF Publish
      <4>3. DayOf[t] >= pull.cutoff
        BY <2>5 DEF IntakeConstants
      <4> QED BY <2>2, <4>2, <4>3 DEF Held
    <3> QED BY <3>1, <3>2
  <2>6. pull'.cutoff = pull.cutoff /\ pull'.from = pull.from /\ pull'.started = pull.started
        /\ conn' = conn /\ recorded' = recorded
    BY <1>4, <2>1 DEF Publish, Pulling, bankVars
  <2>7. pull.cutoff = 0 => HeldBefore(pull.started)'
    BY <2>5, <2>6 DEF HeldBefore
  <2> QED BY <2>1, <2>4, <2>6, <2>7 DEF PullHolds
<1>5. CASE SaveCursor
  <2>1. pull \in Pulling /\ pull # NoPull /\ pull.step = "published"
    BY <1>5 DEF SaveCursor, Types, Pulls, NoPull
  <2>2. conn'.cursor = NextCursor /\ recorded' = recorded /\ wrote' = wrote /\ pull' = NoPull
    BY <1>5 DEF SaveCursor, bankVars, Types, Clocks
  <2>3. CASE pull.cutoff = 0
    BY <2>1, <2>2, <2>3 DEF PullHolds, NextCursor, HeldBefore, Held
  <2>4. CASE pull.cutoff # 0
    BY <2>2, <2>4 DEF PullHolds, NextCursor, HeldBefore, Held
  <2> QED BY <2>3, <2>4
<1>6. CASE PullFails
  BY <1>6 DEF PullFails, bankVars, PullHolds, HeldBefore, Held
<1>7. ASSUME NEW t \in Txs, Record(t)
      PROVE  NoneMissing'
  BY <1>1, <1>7 DEF Record, pullVars
<1>8. CASE Tick
  BY <1>1, <1>8 DEF Tick, pullVars
<1>9. ASSUME NEW a \in Accounts \cup {NoAccount}, NEW c \in Cutoffs, Configure(a, c)
      PROVE  NoneMissing'
  <2>1. conn'.cursor = conn.cursor
    BY <1>9 DEF Configure, Types, Clocks
  <2> QED BY <1>1, <1>9, <2>1 DEF Configure, bankVars, pullVars
<1>10. ASSUME NEW a \in Accounts, OpenOrClose(a)
       PROVE  NoneMissing'
  BY <1>1, <1>10 DEF OpenOrClose, bankVars, pullVars
<1>11. ASSUME NEW k \in DOMAIN profile, DeleteProfile(k)
       PROVE  NoneMissing'
  BY <1>1, <1>11 DEF DeleteProfile, bankVars, pullVars
<1>12. CASE Learn
  <2>1. conn'.cursor = conn.cursor
    BY <1>12 DEF Learn, Types, Clocks
  <2> QED BY <1>1, <1>12, <2>1 DEF Learn, bankVars, pullVars
<1>13. CASE Folding /\ ~Learn
  <2>1. UNCHANGED <<wrote, pull, conn, recorded>>
    BY <1>13 DEF Folding, Scan, Drop, Take, Commit, Stash, Forget, Complete, ImportFails, Crash, bankVars, pullVars
  <2> QED BY <1>1, <2>1
<1>14. CASE UNCHANGED vars
  BY <1>1, <1>14 DEF vars
<1> QED BY <1>2, <1>3, <1>4, <1>5, <1>6, <1>7, <1>8, <1>9, <1>10, <1>11, <1>12, <1>13, <1>14 DEF Next, Folding

(* Whatever the provider recorded before the cursor is in a file, for any number of records
   and of pulls that overlap new records, fail, or die between the file and the cursor, as
   long as nobody gives a pull a moment of his own. *)
THEOREM NoRecordIsLost == ASSUME IntakeConstants, Sinces = {} PROVE Spec => []NothingLost
<1>1. Init => Types /\ NoneMissing
  BY TypesInit, NoneMissingInit
<1>2. (Types /\ NoneMissing) /\ [Next]_vars => (Types /\ NoneMissing)'
  BY TypesStep, NoneMissingStep
<1>3. Types /\ NoneMissing => NothingLost
  BY NothingLostIs DEF NoneMissing
<1> QED BY <1>1, <1>2, <1>3, PTL DEF Spec

(***************************************************************************)
(* No file is lost.  A file leaves the folder at the end of a scan's work,  *)
(* which a row must know by then; and a completion takes away the pending   *)
(* row only after the finished one is there.                               *)
(***************************************************************************)

WorkRecorded ==
  /\ work.step = "stash" => Known(work.file)
  /\ work.step \in {"learn", "forget"} => Row(work.file, work.account, "done") \in rows

Kept == KeptUntilRecorded /\ WorkRecorded

LEMMA KeptInit == Init => Kept
<1>1. Init => dropped = {} /\ work = NoWork
  BY Zenon DEF Init
<1> QED BY <1>1 DEF Kept, KeptUntilRecorded, WorkRecorded, NoWork

LEMMA KeptStep == ASSUME IntakeConstants, Types, Kept, [Next]_vars PROVE Kept'
<1> USE DEF Kept
<1>1. ASSUME UNCHANGED <<rows, work>>, \A f \in dropped' : f \in inbox' \/ (f \in dropped /\ (f \in inbox => f \in inbox'))
      PROVE  Kept'
  BY <1>1 DEF KeptUntilRecorded, WorkRecorded, Known, Row
<1>2. ASSUME UNCHANGED <<inbox, dropped>>, rows \subseteq rows', WorkRecorded'
      PROVE  Kept'
  BY <1>2 DEF KeptUntilRecorded, Known
<1>3. ASSUME UNCHANGED <<rows, work, inbox, dropped>>
      PROVE  Kept'
  BY <1>1, <1>3
<1>4. ASSUME NEW e \in Exports, Drop(e)
      PROVE  Kept'
  BY <1>1, <1>4 DEF Drop, ledgerVars
<1>5. CASE Publish
  BY <1>1, <1>5 DEF Publish, ledgerVars
<1>6. ASSUME NEW f \in Files, Take(f)
      PROVE  Kept'
  <2>1. UNCHANGED <<inbox, dropped>> /\ rows \subseteq rows'
    BY <1>6 DEF Take
  <2>2. WorkRecorded'
    <3>1. CASE Known(f)
      BY <1>6, <3>1 DEF Take, WorkRecorded, Known
    <3>2. CASE ~Known(f) /\ Route(f) # NoAccount
      BY <1>6, <3>2 DEF Take, WorkRecorded
    <3>3. CASE ~Known(f) /\ Route(f) = NoAccount
      <4>1. work' = [step |-> "stash", file |-> f] /\ Row(f, NoAccount, "pending") \in rows'
        BY <1>6, <3>3 DEF Take
      <4>2. Row(f, NoAccount, "pending").file = f
        BY DEF Row
      <4> QED BY <4>1, <4>2 DEF WorkRecorded, Known
    <3> QED BY <3>1, <3>2, <3>3
  <2> QED BY <1>2, <2>1, <2>2
<1>7. CASE Commit
  <2>1. work \in Importing
    BY <1>7 DEF Commit, Types, Working, NoWork
  <2>2. work'.step = "learn" /\ work'.file = work.file /\ work'.account = work.account
    BY <1>7, <2>1 DEF Commit, Importing, Next1
  <2>3. rows' = rows \cup {Row(work.file, work.account, "done")}
    BY <1>7 DEF Commit
  <2>4. WorkRecorded'
    BY <2>2, <2>3 DEF WorkRecorded, Row
  <2> QED BY <1>2, <1>7, <2>3, <2>4 DEF Commit
<1>8. CASE Learn
  <2>1. work \in Importing
    BY <1>8 DEF Learn, Types, Working, NoWork
  <2>2. work'.step \in {"stash", "forget"} /\ work'.file = work.file /\ work'.account = work.account
    BY <1>8, <2>1 DEF Learn, Importing, Next1
  <2>3. Row(work.file, work.account, "done") \in rows /\ rows' = rows
    BY <1>8 DEF Learn, WorkRecorded
  <2>4. WorkRecorded'
    BY <2>2, <2>3 DEF WorkRecorded, Row, Known
  <2> QED BY <1>2, <1>8, <2>3, <2>4 DEF Learn
<1>9. CASE ImportFails
  <2>1. UNCHANGED <<inbox, dropped>> /\ rows \subseteq rows'
    BY <1>9 DEF ImportFails
  <2>2. WorkRecorded'
    <3>1. CASE work.by = "scan"
      <4>1. work' = [step |-> "stash", file |-> work.file] /\ Row(work.file, NoAccount, "failed") \in rows'
        BY <1>9, <3>1 DEF ImportFails
      <4>2. Row(work.file, NoAccount, "failed").file = work.file
        BY DEF Row
      <4> QED BY <4>1, <4>2 DEF WorkRecorded, Known
    <3>2. CASE work.by # "scan"
      BY <1>9, <3>2 DEF ImportFails, WorkRecorded, NoWork
    <3> QED BY <3>1, <3>2
  <2> QED BY <1>2, <2>1, <2>2
<1>10. ASSUME NEW f \in Files, NEW a \in Accounts, Complete(f, a)
       PROVE  Kept'
  <2>1. WorkRecorded'
    BY <1>10 DEF Complete, WorkRecorded
  <2> QED BY <1>2, <1>10, <2>1 DEF Complete
<1>11. CASE Crash
  <2>1. WorkRecorded'
    BY <1>11 DEF Crash, WorkRecorded, NoWork
  <2> QED BY <1>2, <1>11, <2>1 DEF Crash
<1>12. CASE Stash
  <2>1. KeptUntilRecorded'
    BY <1>12 DEF Stash, KeptUntilRecorded, WorkRecorded, Known
  <2>2. WorkRecorded'
    BY <1>12 DEF Stash, WorkRecorded, NoWork
  <2> QED BY <2>1, <2>2
<1>13. CASE Forget
  <2>1. work \in Importing
    BY <1>13 DEF Forget, Types, Working, NoWork
  <2>2. Row(work.file, work.account, "done") \in rows /\ "done" # "pending"
    BY <1>13 DEF Forget, WorkRecorded
  <2>3. Row(work.file, work.account, "done") # Row(work.file, NoAccount, "pending")
    BY DEF Row
  <2>4. Row(work.file, work.account, "done") \in rows'
    BY <1>13, <2>2, <2>3 DEF Forget
  <2>5. \A r \in rows : r \in rows' \/ r.file = work.file
    BY <1>13 DEF Forget, Row
  <2>6. Row(work.file, work.account, "done").file = work.file
    BY DEF Row
  <2>7. \A f : Known(f) => Known(f)'
    BY <2>4, <2>5, <2>6 DEF Known
  <2>8. KeptUntilRecorded'
    BY <1>13, <2>7 DEF Forget, KeptUntilRecorded
  <2>9. WorkRecorded'
    BY <1>13 DEF Forget, WorkRecorded, NoWork
  <2> QED BY <2>8, <2>9
<1>14. CASE UNCHANGED vars
  BY <1>3, <1>14 DEF vars
<1>15. CASE Tick \/ (\E t \in Txs : Record(t)) \/ (\E a \in Accounts \cup {NoAccount}, c \in Cutoffs : Configure(a, c))
         \/ (\E a \in Accounts : OpenOrClose(a)) \/ (\E k \in DOMAIN profile : DeleteProfile(k))
  BY <1>3, <1>15 DEF Tick, Record, Configure, OpenOrClose, DeleteProfile, ledgerVars
<1>16. CASE (\E s \in Sinces \cup {0} : StartPull(s)) \/ (\E txs \in SUBSET Txs : Page(txs)) \/ SaveCursor \/ PullFails
  BY <1>3, <1>16 DEF StartPull, Page, SaveCursor, PullFails, ledgerVars
<1> QED BY <1>4, <1>5, <1>6, <1>7, <1>8, <1>9, <1>10, <1>11, <1>12, <1>13, <1>14, <1>15, <1>16 DEF Next, Scan

(* A file is in the folder until a row of imports holds its content, whichever steps of pulls,
   scans and completions fail or are cut short. *)
THEOREM NoFileIsLost == ASSUME IntakeConstants PROVE Spec => []KeptUntilRecorded
<1>1. Init => Types /\ Kept
  BY TypesInit, KeptInit
<1>2. (Types /\ Kept) /\ [Next]_vars => (Types /\ Kept)'
  BY TypesStep, KeptStep
<1> QED BY <1>1, <1>2, PTL DEF Spec, Kept

(***************************************************************************)
(* One file, one import.  A scan imports what no row knows, so no import of *)
(* it can be there or come beside it: the program does one thing at a time. *)
(* A completion imports what a pending row keeps, and only one that ended   *)
(* between its commit and the end of that row leaves both; the next one     *)
(* finds such imports only, and is refused the accounts they went to.       *)
(***************************************************************************)

NoRow(f, status) == \A r \in rows : r.file = f => r.status # status

(* The import s of a completion that is past its commit. *)
Finishing(s) ==
  work.step \in {"learn", "forget"} /\ work.by = "human" /\ s = Row(work.file, work.account, "done")

Apart ==
  \A r, s \in rows : r.file = s.file /\ r.status = "pending" /\ s.status = "done" => s \in cut \/ Finishing(s)

WorkOnce ==
  /\ work.step = "commit" =>
       /\ Row(work.file, work.account, "done") \notin rows
       /\ \A r \in rows : r.file = work.file /\ r.status = "done" => r \in cut
  /\ work.step \in {"commit", "learn"} /\ work.by = "scan" => NoRow(work.file, "pending")
  /\ work.step = "forget" => work.by = "human"

Once == ProcessedOnce /\ Apart /\ WorkOnce

LEMMA OnceInit == Init => Once
<1>1. Init => rows = {} /\ work = NoWork
  BY Zenon DEF Init
<1> QED BY <1>1 DEF Once, ProcessedOnce, Apart, WorkOnce, NoWork

(* Whatever ends here, no pending row stands beside an import outside of cut. *)
LEMMA EndsApart ==
  ASSUME Apart, rows' = rows, work' = NoWork, CutShort
  PROVE  Apart'
<1> SUFFICES ASSUME NEW q \in rows, NEW s \in rows, q.file = s.file, q.status = "pending", s.status = "done"
             PROVE  s \in cut'
  BY DEF Apart
<1>1. cut \subseteq cut'
  BY DEF CutShort
<1>2. s \in cut \/ Finishing(s)
  BY DEF Apart
<1>3. Finishing(s) => s \in cut'
  BY DEF Finishing, CutShort
<1> QED BY <1>1, <1>2, <1>3

LEMMA OnceStep == ASSUME IntakeConstants, Types, Once, [Next]_vars PROVE Once'
<1> USE DEF Once
<1>1. ASSUME UNCHANGED <<rows, work, cut>>
      PROVE  Once'
  BY <1>1 DEF ProcessedOnce, Apart, WorkOnce, NoRow, Finishing, Row
<1>2. ASSUME NEW f \in Files, Take(f)
      PROVE  Once'
  <2>1. work = NoWork /\ cut' = cut
    BY <1>2 DEF Take
  <2>2. \A r, s \in rows : r.file = s.file /\ r.status = "pending" /\ s.status = "done" => s \in cut
    BY <2>1 DEF Apart, Finishing, NoWork
  <2>3. CASE Known(f)
    <3>1. rows' = rows /\ work' = [step |-> "stash", file |-> f]
      BY <1>2, <2>3 DEF Take
    <3> QED BY <2>1, <2>2, <3>1 DEF ProcessedOnce, Apart, WorkOnce
  <2>4. CASE ~Known(f) /\ Route(f) # NoAccount
    <3>1. rows' = rows /\ work' = [step |-> "commit", file |-> f, account |-> Route(f), by |-> "scan"]
      BY <1>2, <2>4 DEF Take
    <3>2. \A r \in rows : r.file # f
      BY <2>4 DEF Known
    <3>3. ProcessedOnce' /\ Apart'
      BY <2>1, <2>2, <3>1, <3>2 DEF ProcessedOnce, Apart, Row
    <3>4. WorkOnce'
      BY <2>1, <3>1, <3>2 DEF WorkOnce, NoRow, Row
    <3> QED BY <3>3, <3>4
  <2>5. CASE ~Known(f) /\ Route(f) = NoAccount
    <3>1. rows' = rows \cup {Row(f, NoAccount, "pending")} /\ work' = [step |-> "stash", file |-> f]
      BY <1>2, <2>5 DEF Take
    <3>2. \A r \in rows : r.file # f
      BY <2>5 DEF Known
    <3>3. ProcessedOnce'
      BY <2>1, <3>1 DEF ProcessedOnce, Row
    <3>4. Apart'
      BY <2>1, <2>2, <3>1, <3>2 DEF Apart, Row
    <3>5. WorkOnce'
      BY <3>1 DEF WorkOnce
    <3> QED BY <3>3, <3>4, <3>5
  <2> QED BY <2>3, <2>4, <2>5
<1>3. CASE Commit
  <2>1. work \in Importing /\ cut' = cut
    BY <1>3 DEF Commit, Types, Working, NoWork
  <2>2. work'.step = "learn" /\ work'.file = work.file /\ work'.by = work.by /\ work'.account = work.account
    BY <1>3, <2>1 DEF Commit, Importing, Next1
  <2>3. PICK row : row = Row(work.file, work.account, "done")
    OBVIOUS
  <2>4. rows' = rows \cup {row} /\ row.file = work.file /\ row.status = "done"
    BY <1>3, <2>3 DEF Commit, Row
  <2>5. (\A r \in rows : r.file = work.file /\ r.status = "done" => r \in cut)
        /\ (work.by = "scan" => NoRow(work.file, "pending"))
    BY <1>3 DEF Commit, WorkOnce
  <2>6. ProcessedOnce'
    BY <2>1, <2>2, <2>4, <2>5 DEF ProcessedOnce
  <2>7. Apart'
    <3>1. \A r, s \in rows : r.file = s.file /\ r.status = "pending" /\ s.status = "done" => s \in cut
      BY <1>3 DEF Commit, Apart, Finishing
    <3>2. work.by = "scan" \/ work.by = "human"
      BY <2>1 DEF Importing
    <3>3. CASE work.by = "scan"
      BY <2>1, <2>4, <2>5, <3>1, <3>3 DEF Apart, NoRow
    <3>4. CASE work.by = "human"
      <4>1. Finishing(row)'
        BY <2>2, <2>3, <3>4 DEF Finishing, Row
      <4> QED BY <2>1, <2>4, <3>1, <4>1 DEF Apart
    <3> QED BY <3>2, <3>3, <3>4
  <2>8. WorkOnce'
    BY <2>2, <2>4, <2>5 DEF WorkOnce, NoRow
  <2> QED BY <2>6, <2>7, <2>8
<1>4. CASE Learn
  <2>1. work \in Importing
    BY <1>4 DEF Learn, Types, Working, NoWork
  <2>2. work'.step = Next1.learn /\ work'.file = work.file /\ work'.by = work.by /\ work'.account = work.account
        /\ rows' = rows /\ cut' = cut
    BY <1>4, <2>1 DEF Learn, Importing
  <2>3. (work.by = "scan" /\ work'.step = "stash") \/ (work.by = "human" /\ work'.step = "forget")
    BY <2>1, <2>2 DEF Next1, Importing
  <2>4. work.step = "learn"
    BY <1>4 DEF Learn
  <2>5. Apart'
    BY <2>2, <2>3, <2>4 DEF Apart, Finishing, Row
  <2> QED BY <2>2, <2>3, <2>5 DEF ProcessedOnce, WorkOnce
<1>5. CASE Stash
  <2>1. rows' = rows /\ work' = NoWork /\ work.step = "stash" /\ cut' = cut
    BY <1>5 DEF Stash
  <2> QED BY <2>1 DEF ProcessedOnce, Apart, Finishing, WorkOnce, NoWork
<1>6. CASE Forget
  <2>1. rows' = rows \ {Row(work.file, NoAccount, "pending")} /\ work' = NoWork /\ cut' = cut
        /\ work.step = "forget" /\ work.by = "human"
    BY <1>6 DEF Forget, WorkOnce
  <2>2. \A r \in rows' : r \in rows /\ (r.file = work.file => r.status # "pending")
    <3>1. ASSUME NEW r \in rows, r.file = work.file, r.status = "pending"
          PROVE  r = Row(work.file, NoAccount, "pending")
      <4>1. r \in [file : dropped, account : Accounts \cup {NoAccount}, status : Statuses]
        BY DEF Types, Folder
      <4>2. r.account = NoAccount
        BY <3>1 DEF Types, Folder
      <4> QED BY <3>1, <4>1, <4>2 DEF Row
    <3> QED BY <2>1, <3>1
  <2>3. \A s : Finishing(s) => s.file = work.file
    BY DEF Finishing, Row
  <2>4. Apart'
    BY <2>1, <2>2, <2>3 DEF Apart
  <2> QED BY <2>1, <2>2, <2>4 DEF ProcessedOnce, WorkOnce, NoWork
<1>7. ASSUME NEW f \in Files, NEW a \in Accounts, Complete(f, a)
      PROVE  Once'
  <2>1. work = NoWork /\ Row(f, NoAccount, "pending") \in rows /\ Row(f, a, "done") \notin rows /\ rows' = rows
        /\ cut' = cut /\ work' = [step |-> "commit", file |-> f, account |-> a, by |-> "human"]
    BY <1>7 DEF Complete
  <2>2. \A r, s \in rows : r.file = s.file /\ r.status = "pending" /\ s.status = "done" => s \in cut
    BY <2>1 DEF Apart, Finishing, NoWork
  <2>3. \A r \in rows : r.file = f /\ r.status = "done" => r \in cut
    BY <2>1, <2>2 DEF Row
  <2>4. WorkOnce'
    BY <2>1, <2>3 DEF WorkOnce, Row
  <2>5. ProcessedOnce' /\ Apart'
    BY <2>1, <2>2 DEF ProcessedOnce, Apart, Row
  <2> QED BY <2>4, <2>5
<1>8. CASE ImportFails
  <2>1. work \in Importing /\ CutShort
    BY <1>8 DEF ImportFails, Types, Working, NoWork
  <2>2. CASE work.by = "scan"
    <3>1. PICK row : row = Row(work.file, NoAccount, "failed")
      OBVIOUS
    <3>2. rows' = rows \cup {row} /\ row.status = "failed" /\ work' = [step |-> "stash", file |-> work.file]
      BY <1>8, <2>2, <3>1 DEF ImportFails, Row
    <3>3. cut' = cut
      BY <2>1, <2>2 DEF CutShort
    <3>4. \A r, s \in rows : r.file = s.file /\ r.status = "pending" /\ s.status = "done" => s \in cut
      BY <2>2 DEF Apart, Finishing
    <3> QED BY <3>2, <3>3, <3>4 DEF ProcessedOnce, Apart, WorkOnce
  <2>3. CASE work.by # "scan"
    <3>1. rows' = rows /\ work' = NoWork
      BY <1>8, <2>3 DEF ImportFails
    <3>2. Apart'
      BY <2>1, <3>1, EndsApart
    <3>3. cut \subseteq cut'
      BY <2>1 DEF CutShort
    <3> QED BY <3>1, <3>2, <3>3 DEF ProcessedOnce, WorkOnce, NoWork
  <2> QED BY <2>2, <2>3
<1>9. CASE Crash
  <2>1. rows' = rows /\ work' = NoWork /\ CutShort
    BY <1>9 DEF Crash
  <2>2. Apart'
    BY <2>1, EndsApart
  <2>3. cut \subseteq cut'
    BY <2>1 DEF CutShort
  <2> QED BY <2>1, <2>2, <2>3 DEF ProcessedOnce, WorkOnce, NoWork
<1>10. CASE UNCHANGED vars
  BY <1>1, <1>10 DEF vars
<1>11. CASE Tick \/ (\E t \in Txs : Record(t)) \/ (\E a \in Accounts \cup {NoAccount}, c \in Cutoffs : Configure(a, c))
         \/ (\E a \in Accounts : OpenOrClose(a)) \/ (\E k \in DOMAIN profile : DeleteProfile(k)) \/ (\E e \in Exports : Drop(e))
  BY <1>1, <1>11 DEF Tick, Record, Configure, OpenOrClose, DeleteProfile, Drop, ledgerVars
<1>12. CASE (\E s \in Sinces \cup {0} : StartPull(s)) \/ (\E txs \in SUBSET Txs : Page(txs)) \/ Publish \/ SaveCursor \/ PullFails
  BY <1>1, <1>12 DEF StartPull, Page, Publish, SaveCursor, PullFails, ledgerVars
<1> QED BY <1>2, <1>3, <1>4, <1>5, <1>6, <1>7, <1>8, <1>9, <1>10, <1>11, <1>12 DEF Next, Scan

(* A file is imported once, dropped again, routed elsewhere in between or cut short at any
   step, apart from the imports whose completion ended between their commit and the end of
   the pending row; and never twice into one account: for any number of files and accounts,
   and without an assumption on what fails. *)
THEOREM OneImport == ASSUME IntakeConstants PROVE Spec => []ProcessedOnce
<1>1. Init => Types /\ Once
  BY TypesInit, OnceInit
<1>2. (Types /\ Once) /\ [Next]_vars => (Types /\ Once)'
  BY TypesStep, OnceStep
<1> QED BY <1>1, <1>2, PTL DEF Spec, Once

(***************************************************************************)
(* Learning keeps routes                                                   *)
(***************************************************************************)

LEMMA LearnKeeps == ASSUME IntakeConstants, Types PROVE KeepsRoutes
<1> SUFFICES ASSUME Learn, NEW e \in Exports, Route(e) # NoAccount,
                    work.file \in Pulled \/ Shape[e] # Shape[work.file]
             PROVE  Route(e)' = Route(e)
  BY DEF KeepsRoutes
<1>1. e \notin Pulled /\ open' = open
  BY DEF Learn, IntakeConstants
<1> DEFINE own == <<Source[e], Shape[e]>>
           default == <<Source[e], "">>
<1>2. Route(e) = (IF Open(profile[own]) # NoAccount THEN Open(profile[own]) ELSE Open(profile[default]))
      /\ Route(e)' = (IF Open(profile'[own]) # NoAccount THEN Open(profile'[own]) ELSE Open(profile'[default]))
  BY <1>1 DEF Route, Open
<1>3. CASE work.file \in Pulled
  <2>1. profile' = profile
    BY <1>3 DEF Learn
  <2> QED BY <1>2, <2>1
<1>4. CASE work.file \notin Pulled
  <2>1. PICK f, a : f = work.file /\ a = work.account
    OBVIOUS
  <2>2. profile' = Learned(f, a) /\ Shape[e] # Shape[f]
    BY <1>4, <2>1 DEF Learn
  <2>3. work \in Importing
    BY DEF Learn, Types, Working, NoWork
  <2>4. f \in Exports
    BY <1>4, <2>1, <2>3, FilesAre DEF Importing, Files
  <2>5. Shape[f] # "" /\ Shape[e] # ""
    BY <2>4, Zenon DEF IntakeConstants, Named
  <2>6. own \in DOMAIN profile /\ default \in DOMAIN profile
    BY Zenon DEF Types, Folder, Kinds
  <2>7. PICK k : (profile' = profile \/ profile' = [profile EXCEPT ![k] = a])
                /\ k # own /\ (k = default => profile[default] = NoAccount)
    <3>1. CASE profile[<<Source[f], "">>] = NoAccount /\ Source[f] \notin Generic
      <4>1. profile' = [profile EXCEPT ![<<Source[f], "">>] = a]
        BY <2>2, <3>1 DEF Learned
      <4>2. <<Source[f], "">> # own
        BY <2>5
      <4>3. <<Source[f], "">> = default => profile[default] = NoAccount
        BY <3>1
      <4> QED BY <4>1, <4>2, <4>3
    <3>2. CASE ~(profile[<<Source[f], "">>] = NoAccount /\ Source[f] \notin Generic)
      <4>1. profile' = profile \/ profile' = [profile EXCEPT ![<<Source[f], Shape[f]>>] = a]
        BY <2>2, <3>2 DEF Learned
      <4>2. <<Source[f], Shape[f]>> # own
        BY <2>2
      <4>3. <<Source[f], Shape[f]>> # default
        BY <2>5
      <4> QED BY <4>1, <4>2, <4>3
    <3> QED BY <3>1, <3>2
  <2>8. profile'[own] = profile[own] /\ (profile'[default] = profile[default] \/ profile[default] = NoAccount)
    BY <2>6, <2>7
  <2>9. Open(profile'[own]) = Open(profile[own])
    BY <2>8
  <2>10. CASE profile'[default] = profile[default]
    <3>1. Open(profile'[default]) = Open(profile[default])
      BY <2>10
    <3>2. CASE Open(profile[own]) # NoAccount
      <4>1. Route(e) = Open(profile[own]) /\ Route(e)' = Open(profile'[own])
        BY <1>2, <2>9, <3>2
      <4> QED BY <2>9, <4>1
    <3>3. CASE Open(profile[own]) = NoAccount
      <4>1. Route(e) = Open(profile[default]) /\ Route(e)' = Open(profile'[default])
        BY <1>2, <2>9, <3>3
      <4> QED BY <3>1, <4>1
    <3> QED BY <3>2, <3>3
  <2>11. CASE profile[default] = NoAccount
    <3>1. Open(profile[own]) # NoAccount
      BY <1>2, <2>11 DEF Open
    <3> QED BY <1>2, <2>9, <3>1
  <2> QED BY <2>8, <2>10, <2>11
<1> QED BY <1>3, <1>4

(* An import teaches where files like it go and changes no other route, for any number of
   sources, shapes of names and accounts. *)
THEOREM LearningKeepsRoutes == ASSUME IntakeConstants PROVE Spec => [][KeepsRoutes]_vars
<1>1. Init => Types
  BY TypesInit
<1>2. Types /\ [Next]_vars => Types'
  BY TypesStep
<1>3. Types => KeepsRoutes
  BY LearnKeeps
<1> QED BY <1>1, <1>2, <1>3, PTL DEF Spec
=============================================================================
