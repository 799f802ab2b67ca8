----------------------------- MODULE EdgeProofs -----------------------------
(***************************************************************************)
(* What crosses the edge of the ledger is not lost and is done once, and    *)
(* what people confirm is what they were shown: all six properties of       *)
(* MCEdge.                                                                 *)
(*                                                                         *)
(* A receipt, a cursor, a row or a stamp is only as good as what was        *)
(* written before it, and a confirmation as good as what its token is of;   *)
(* so each part says what is on disk, or on the screen, at each step of the *)
(* handler that will write or confirm.  In this order: the terminal, forms, *)
(* statements in pages, two sources, consents, payees and mail, for any     *)
(* sizes; pulls, the inbox and two processes at once, which are instances   *)
(* of IntakeProofs and ImportsProofs; and the properties of them all.       *)
(***************************************************************************)
EXTENDS MCEdge, WellFoundedInduction, FiniteSetTheorems, TLAPS

(***************************************************************************)
(* One component at a time: a step of the composition is a step of the one  *)
(* that the behaviour is about.                                            *)
(***************************************************************************)

LEMMA OneAtATime ==
  ASSUME [Work]_all
  PROVE  /\ focus' = focus
         /\ focus = "mail" => [Next]_vars
         /\ focus = "pulls" => [Pulls!Next]_(Pulls!vars)
         /\ focus = "drops" => [Drops!Next]_(Drops!vars)
         /\ focus = "consents" => [Banks!Next]_(Banks!vars)
         /\ focus = "sources" => [Sources!Next]_(Sources!vars)
         /\ focus = "beside" => [\E w \in {w1, w2} : Beside!Compete(w)]_beside
         /\ focus = "names" => [Names!Next]_(Names!vars)
         /\ focus = "groups" => [Groups!Next]_(Groups!vars)
         /\ focus = "screen" => [Screen!Next]_(Screen!vars)
         /\ focus = "form" => [Form!Next]_(Form!vars)
         /\ focus = "pages" => [Paged!Next]_(Paged!vars)
<1>1. CASE UNCHANGED all
  BY <1>1 DEF all, intake, consents, sources, names, Pulls!vars, Drops!vars, Banks!vars, Sources!vars, Names!vars, Groups!vars,
              screen, form, pages, Screen!vars, Screen!server, Screen!lists, Form!vars, Form!form, Form!editor, Paged!vars
<1>2. CASE Work
  BY <1>2 DEF Work, MailStep, PullStep, DropStep, PageStep, ConsentStep, BesideStep, SourceStep, NameStep,
              ScreenStep, FormStep
<1> QED BY <1>1, <1>2

LEMMA BeginsWith ==
  ASSUME Begins
  PROVE  /\ focus = "mail" => Init
         /\ focus = "pulls" => Pulls!Init
         /\ focus = "drops" => Drops!Init
         /\ focus = "consents" => Banks!Init
         /\ focus = "sources" => Sources!Init
         /\ focus = "beside" => Beside!Init
         /\ focus = "names" => Names!Init
         /\ focus = "groups" => Groups!Init
         /\ focus = "screen" => Screen!Init
         /\ focus = "form" => Form!Init
         /\ focus = "pages" => Paged!Init
BY DEF Begins

(* Of some numbers one is the least. *)
LEMMA LeastNumber ==
  ASSUME NEW S \in SUBSET Nat, S # {}
  PROVE  \E n \in S : \A m \in S : n <= m
<1> DEFINE R == OpToRel(<, Nat)
<1>1. R = {ss \in Nat \X Nat : ss[1] < ss[2]}
  BY DEF OpToRel
<1>2. IsWellFoundedOn(R, Nat)
  BY NatLessThanWellFounded
<1> HIDE DEF R
<1>3. PICK n \in S : \A m \in S : <<m, n>> \notin R
  BY <1>2, WFMin
<1>4. \A m \in S : ~(m < n)
  BY <1>1, <1>3
<1> QED BY <1>4

(***************************************************************************)
(* The terminal, for any vaults, categories and drafts.  The dialog on top  *)
(* says where it came from: a picker for one draft has the draft that is    *)
(* selected, and a preview the entry and the number that its token is of.   *)
(***************************************************************************)

(* Numbers of a finite set, in their order: every rank has one. *)
UpTo(S, n) == {m \in S : m <= n}

LEMMA RankGrows ==
  ASSUME NEW S \in SUBSET Int, IsFiniteSet(S)
  PROVE  \A n, m \in S : m < n => Cardinality(UpTo(S, m)) < Cardinality(UpTo(S, n))
<1>1. \A n : IsFiniteSet(UpTo(S, n)) /\ Cardinality(UpTo(S, n)) \in Nat
  BY FS_Subset, FS_CardinalityType DEF UpTo
<1>2. ASSUME NEW n \in S, NEW m \in S, m < n
      PROVE  Cardinality(UpTo(S, m)) < Cardinality(UpTo(S, n))
  <2>1. \A i \in S : i \in Int
    OBVIOUS
  <2>2. n \in Int /\ m \in Int /\ n <= n /\ ~(n <= m) /\ \A i \in S : i <= m => i <= n
    BY <1>2, <2>1
  <2>3. UpTo(S, m) \subseteq UpTo(S, n) /\ n \in UpTo(S, n) /\ n \notin UpTo(S, m)
    BY <2>2, Zenon DEF UpTo
  <2>4. /\ Cardinality(UpTo(S, m)) <= Cardinality(UpTo(S, n))
        /\ Cardinality(UpTo(S, m)) = Cardinality(UpTo(S, n)) => UpTo(S, m) = UpTo(S, n)
    BY <1>1, <2>3, FS_Subset
  <2> QED BY <1>1, <2>3, <2>4
<1> QED BY <1>2

LEMMA RankIs ==
  ASSUME NEW S \in SUBSET Int, IsFiniteSet(S), NEW k \in 1..Cardinality(S)
  PROVE  \E n \in S : Cardinality(UpTo(S, n)) = k
<1>0. /\ \A i, j \in S : i \in Int /\ (i < j \/ j <= i) /\ ~(i < i) /\ i <= i /\ (i < j => i <= j /\ ~(j <= i))
      /\ \A i, j, l \in S : i <= j /\ j <= l => i <= l
      /\ \A i, j \in S : i <= j /\ i # j => i < j
  <2>1. ASSUME NEW i \in S, NEW j \in S, NEW l \in S
        PROVE  /\ i \in Int /\ (i < j \/ j <= i) /\ ~(i < i) /\ i <= i /\ (i < j => i <= j /\ ~(j <= i))
               /\ i <= j /\ j <= l => i <= l
               /\ i <= j /\ i # j => i < j
    <3>1. i \in Int /\ j \in Int /\ l \in Int
      OBVIOUS
    <3> QED BY <3>1
  <2> QED BY <2>1
<1>1. Cardinality(S) \in Nat /\ k \in Nat /\ k <= Cardinality(S) /\ 1 <= k
  BY FS_CardinalityType
<1>2. \A n : IsFiniteSet(UpTo(S, n)) /\ Cardinality(UpTo(S, n)) \in Nat
  BY FS_Subset, FS_CardinalityType DEF UpTo
<1>3. \A n, m \in S : m < n => Cardinality(UpTo(S, m)) < Cardinality(UpTo(S, n))
  BY RankGrows
<1> DEFINE Ranks(T) == {Cardinality(UpTo(S, n)) : n \in T}
\* The last number has all of them below.
<1>4. PICK d \in S : TRUE
  <2>1. S = {} => Cardinality(S) = 0
    BY FS_EmptySet
  <2> QED BY <1>1, <2>1
<1>5. \E n \in S : UpTo(S, n) = S
  <2> DEFINE Left == {Cardinality(S) - Cardinality(UpTo(S, n)) : n \in S}
  <2>1. \A n \in S : Cardinality(UpTo(S, n)) <= Cardinality(S)
    BY FS_Subset DEF UpTo
  <2>2. Left \subseteq Nat /\ Left # {}
    BY <1>1, <1>2, <1>4, <2>1
  <2>3. PICK v \in Left : \A u \in Left : v <= u
    BY <2>2, LeastNumber
  <2>4. PICK n \in S : v = Cardinality(S) - Cardinality(UpTo(S, n))
    BY <2>3
  <2>5. ASSUME NEW m \in S PROVE m <= n
    <3>1. SUFFICES ASSUME n < m PROVE FALSE
      BY <2>5
    <3>2. Cardinality(UpTo(S, n)) < Cardinality(UpTo(S, m))
      BY <1>3, <3>1
    <3>3. v <= Cardinality(S) - Cardinality(UpTo(S, m))
      BY <2>3
    <3> QED BY <1>1, <1>2, <2>4, <3>2, <3>3
  <2> QED BY <2>5 DEF UpTo
\* The least number that has so many below has no more.
<1> DEFINE Big == {n \in S : k <= Cardinality(UpTo(S, n))}
<1>6. Ranks(Big) \subseteq Nat /\ Ranks(Big) # {}
  BY <1>1, <1>2, <1>5
<1>7. PICK v \in Ranks(Big) : \A u \in Ranks(Big) : v <= u
  BY <1>6, LeastNumber
<1>8. PICK n \in Big : v = Cardinality(UpTo(S, n))
  BY <1>7
<1>9. \A m \in Big : n <= m
  <2>1. ASSUME NEW m \in Big PROVE n <= m
    <3>1. SUFFICES ASSUME m < n PROVE FALSE
      BY <2>1
    <3>2. Cardinality(UpTo(S, m)) < Cardinality(UpTo(S, n))
      BY <1>3, <3>1
    <3>3. v <= Cardinality(UpTo(S, m))
      BY <1>7
    <3> QED BY <1>2, <1>8, <3>2, <3>3
  <2> QED BY <2>1
<1>10. PICK Below : Below = UpTo(S, n) \ {n}
  OBVIOUS
<1>11. IsFiniteSet(Below) /\ Cardinality(UpTo(S, n)) = Cardinality(Below) + 1 /\ Cardinality(Below) \in Nat
  <2>1. n \in UpTo(S, n) /\ IsFiniteSet(UpTo(S, n)) /\ Cardinality(UpTo(S, n)) \in Nat
    BY <1>0, <1>2, <1>8 DEF UpTo
  <2>2. IsFiniteSet(UpTo(S, n) \ {n}) /\ Cardinality(UpTo(S, n) \ {n}) = Cardinality(UpTo(S, n)) - 1
    BY <2>1, FS_RemoveElement
  <2>3. Cardinality(Below) \in Nat
    BY <1>10, <2>2, FS_CardinalityType
  <2> QED BY <1>10, <2>1, <2>2, <2>3
<1>12. Cardinality(Below) < k
  <2>1. CASE Below = {}
    BY <1>1, <2>1, FS_EmptySet
  <2>2. CASE Below # {}
    <3> DEFINE Left == {Cardinality(S) - Cardinality(UpTo(S, m)) : m \in Below}
    <3>1. \A m \in Below : m \in S /\ Cardinality(UpTo(S, m)) <= Cardinality(S)
      BY <1>10, FS_Subset DEF UpTo
    <3>2. Left \subseteq Nat /\ Left # {}
      BY <1>1, <1>2, <2>2, <3>1
    <3>3. PICK u \in Left : \A w \in Left : u <= w
      BY <3>2, LeastNumber
    <3>4. PICK m \in Below : u = Cardinality(S) - Cardinality(UpTo(S, m))
      BY <3>3
    <3>5. \A i \in Below : i <= m
      <4>1. ASSUME NEW i \in Below PROVE i <= m
        <5>1. SUFFICES ASSUME m < i PROVE FALSE
          BY <1>0, <3>1, <3>4, <4>1, Zenon
        <5>2. Cardinality(UpTo(S, m)) < Cardinality(UpTo(S, i))
          BY <1>3, <3>1, <5>1
        <5>3. u <= Cardinality(S) - Cardinality(UpTo(S, i))
          BY <3>3
        <5> QED BY <1>1, <1>2, <3>4, <5>2, <5>3
      <4> QED BY <4>1
    <3>6. UpTo(S, m) = Below /\ m < n
      <4>1. m \in S /\ m < n
        BY <1>0, <1>8, <1>10, <3>4 DEF UpTo
      <4>2. \A i \in S : i <= m => i \in Below
        BY <1>0, <1>8, <1>10, <4>1 DEF UpTo
      <4>3. \A i \in Below : i \in S /\ i <= m
        BY <3>1, <3>5
      <4> QED BY <4>1, <4>2, <4>3 DEF UpTo
    <3>7. m \notin Big
      BY <1>0, <1>8, <1>9, <3>1, <3>6
    <3> QED BY <1>1, <1>11, <3>1, <3>6, <3>7
  <2> QED BY <2>1, <2>2
<1> QED BY <1>1, <1>8, <1>11, <1>12

LEMMA SortedIs ==
  ASSUME NEW S \in SUBSET Int, IsFiniteSet(S)
  PROVE  /\ Screen!Sorted(S) \in Seq(S)
         /\ Len(Screen!Sorted(S)) = Cardinality(S) /\ Cardinality(S) \in Nat
<1>1. Cardinality(S) \in Nat
  BY FS_CardinalityType
<1>2. \A k \in 1..Cardinality(S) : (CHOOSE n \in S : Cardinality({m \in S : m <= n}) = k) \in S
  BY RankIs DEF UpTo
<1>3. Screen!Sorted(S) = [k \in 1..Cardinality(S) |-> CHOOSE n \in S : Cardinality({m \in S : m <= n}) = k]
  BY Zenon DEF Screen!Sorted, Screen!Cardinality, Cardinality
<1> DEFINE F(k) == CHOOSE n \in S : Cardinality({m \in S : m <= n}) = k
<1>4. \A k \in 1..Cardinality(S) : F(k) \in S
  BY <1>2
<1>5. Screen!Sorted(S) = [k \in 1..Cardinality(S) |-> F(k)]
  BY <1>3
<1> HIDE DEF F
<1> QED BY <1>1, <1>4, <1>5
Numbers  == 1..MaxListed
Pairs    == Vaults \X Cats
Drafted  == [status : {"none", "draft", "posted"}, vault : Vaults \cup {0}, text : SUBSET Wordings, amount : Amounts \cup {0},
             to : SUBSET (Cats \cup {Screen!Suspense}), worth : 0..2, reviewed : BOOLEAN]
Shots    == [id : Numbers, row : Drafted]
Postings == [op : {"categorize", "capture"}, id : 0..MaxListed, vault : Vaults \cup {0}, from : Vaults \cup {0},
             to : SUBSET Pairs, total : Amounts \cup {0}, existing : BOOLEAN]

ServerTypes ==
  /\ rows \in [Numbers -> Drafted] /\ chart \subseteq Pairs /\ open \subseteq Vaults
  /\ price \in {1, 2} /\ audit \in Nat

ListTypes ==
  /\ vaults \in Seq(Vaults) /\ at \in Nat /\ accounts \subseteq chart
  /\ drafts \in Seq(Shots) /\ fresh \in Seq(Shots) /\ sel \in Nat

Splitting(m) ==
  m.kind = "split" /\ m.named \in Seq(Shots) /\ Len(m.named) > 0 /\ m.total \in Amounts \cup {0}
    /\ m.existing \in BOOLEAN /\ m.offered \subseteq Pairs

(* What the picker says it is about. *)
Picking(m, list_, k) ==
  m.kind = "picker" =>
    /\ m.then \in {"post", "batch", "rule", "capture"} /\ m.named \in Seq(Shots)
    /\ m.then # "capture" => Len(m.named) > 0
    /\ m.then = "post" => k < Len(list_) /\ m.named = <<list_[k + 1]>>

(* A token names the entry that was shown, and the books that it was shown from: once it
   was used, they have moved on. *)
Previewing(m, log, n) ==
  m.kind = "preview" =>
    /\ m.request \in Postings /\ m.rest \in Seq(Postings)
    /\ m.back = Screen!NoModal \/ Splitting(m.back)
    /\ m.entry \in Drafted /\ m.entry.reviewed = TRUE
    /\ m.token[2] = <<m.id, [m.entry EXCEPT !.reviewed = FALSE]>>
    /\ m.token[1][1] \in Nat /\ (n > 0 => log > m.token[1][1])

Dialog(m, list_, k, log, n) ==
  /\ m.kind \in {"none", "picker", "delete", "split", "preview", "next"}
  /\ m.kind = "split" => Splitting(m)
  /\ Picking(m, list_, k) /\ Previewing(m, log, n)
  /\ m.kind = "next" => m.rest \in Seq(Postings) /\ Len(m.rest) > 0

Captured == [account : Vaults \cup {0}, to : SUBSET Pairs]

ScreenInv ==
  /\ ServerTypes /\ ListTypes /\ Dialog(modal, drafts, sel, audit, commits)
  /\ capture \in Captured /\ commits \in Nat

EntryTyped ==
  \A r \in Postings : Screen!Acceptable(r) => Screen!Entry(r) \in Drafted /\ Screen!Entry(r).reviewed = TRUE

LEMMA EntryIsTyped == ServerTypes => EntryTyped
<1> SUFFICES ASSUME ServerTypes, NEW r \in Postings, Screen!Acceptable(r)
             PROVE  Screen!Entry(r) \in Drafted /\ Screen!Entry(r).reviewed = TRUE
  BY DEF EntryTyped
<1>1. Screen!NoRow \in Drafted
  BY DEF Screen!NoRow, Drafted
<1>2. PICK old \in Drafted : old = Screen!Before(r)
  <2>1. CASE r.op = "capture"
    <3>1. r.vault \in Vaults \cup {0}
      BY DEF Postings
    <3>2. [Screen!NoRow EXCEPT !.vault = r.vault] \in Drafted
      BY <1>1, <3>1 DEF Drafted
    <3> QED BY <2>1, <3>2 DEF Screen!Before
  <2>2. CASE r.op # "capture"
    <3>1. r.id \in Numbers
      BY <2>2 DEF Screen!Acceptable, Screen!Live, Screen!Ids, Numbers
    <3> QED BY <2>2, <3>1 DEF Screen!Before, ServerTypes
  <2> QED BY <2>1, <2>2
<1>3. PICK to : to = {d[2] : d \in r.to}
  OBVIOUS
<1>3a. to \subseteq Cats
  <2>1. r.to \subseteq Pairs
    BY DEF Postings
  <2> QED BY <1>3, <2>1 DEF Pairs
<1>4. price \in 0..2
  BY DEF ServerTypes
<1>5. Screen!Entry(r) = [old EXCEPT !.status = "posted", !.to = to, !.worth = price, !.reviewed = TRUE]
  BY <1>2, <1>3 DEF Screen!Entry
<1>6. PICK new : new = [old EXCEPT !.status = "posted", !.to = to, !.worth = price, !.reviewed = TRUE]
  OBVIOUS
<1>7. new \in Drafted /\ new.reviewed = TRUE
  BY <1>3a, <1>4, <1>6 DEF Drafted
<1> QED BY <1>5, <1>6, <1>7

LEMMA EntryIsTypedNext == (ServerTypes => EntryTyped)'
BY EntryIsTyped, PTL

(* A preview of requests shows what the server would book, and how the books are. *)
LEMMA PreviewIs ==
  ASSUME ServerTypes', commits \in Nat, NEW asks \in Seq(Postings), Len(asks) > 0, NEW back,
         back = Screen!NoModal \/ Splitting(back), Screen!Preview(asks, back)
  PROVE  Dialog(modal, drafts, sel, audit, commits)' /\ commits' \in Nat
<1>1. asks[1] \in Postings /\ Tail(asks) \in Seq(Postings)
  OBVIOUS
<1>2. CASE Screen!Acceptable(asks[1])'
  <2>1. PICK r \in Postings : r = asks[1]
    BY <1>1
  <2>2. Screen!Acceptable(r)'
    BY <1>2, <2>1
  <2>3. /\ modal' = [kind |-> "preview", request |-> r, token |-> Screen!Token(r)', id |-> Screen!IdOf(r)',
                     entry |-> Screen!Entry(r)', back |-> back, rest |-> Tail(asks)]
        /\ commits' = 0
    BY <2>1, <2>2 DEF Screen!Preview
  <2>4. PICK shot \in Drafted : shot = Screen!Entry(r)' /\ shot.reviewed = TRUE
    BY <2>2, EntryIsTypedNext DEF EntryTyped
  <2>5. PICK number : number = Screen!IdOf(r)'
    OBVIOUS
  <2>6. PICK token : token = Screen!Token(r)'
    OBVIOUS
  <2>7. /\ modal'.kind = "preview" /\ modal'.request = r /\ modal'.rest = Tail(asks) /\ modal'.back = back
        /\ modal'.entry = shot /\ modal'.id = number /\ modal'.token = token
    BY <2>3, <2>4, <2>5, <2>6
  <2>8. token[2] = <<number, [shot EXCEPT !.reviewed = FALSE]>> /\ token[1][1] = audit'
    BY <2>4, <2>5, <2>6 DEF Screen!Token, Screen!Canonical, Screen!Stamp
  <2>9. audit' \in Nat
    BY DEF ServerTypes
  <2>10. Previewing(modal, audit, commits)'
    BY <1>1, <2>3, <2>4, <2>7, <2>8, <2>9 DEF Previewing, Splitting
  <2> QED BY <2>3, <2>7, <2>10 DEF Dialog, Picking
<1>3. CASE ~Screen!Acceptable(asks[1])'
  <2>1. PICK r \in Postings : r = asks[1]
    BY <1>1
  <2>2. ~Screen!Acceptable(r)'
    BY <1>3, <2>1
  <2>3. modal' = back /\ commits' = commits
    BY <2>1, <2>2 DEF Screen!Preview
  <2>4. modal'.kind \in {"none", "split"} /\ (modal'.kind = "split" => Splitting(modal'))
    BY <2>3 DEF Screen!NoModal, Splitting
  <2> QED BY <2>3, <2>4 DEF Dialog, Picking, Previewing, Splitting
<1> QED BY <1>2, <1>3

LEMMA SomeNumbers ==
  ASSUME NEW S \in SUBSET Numbers
  PROVE  Screen!Sorted(S) \in Seq(Numbers)
<1>1. IsFiniteSet(Numbers) /\ Numbers \subseteq Int
  BY ScreenConstants, FS_Interval DEF Numbers
<1>2. IsFiniteSet(S) /\ S \in SUBSET Int
  BY <1>1, FS_Subset
<1>3. Screen!Sorted(S) \in Seq(S)
  BY <1>2, SortedIs
<1> QED BY <1>3

LEMMA SomeVaults ==
  ASSUME NEW S \in SUBSET Vaults
  PROVE  Screen!Sorted(S) \in Seq(Vaults)
<1>1. IsFiniteSet(Vaults) /\ Vaults \subseteq Int
  BY ScreenConstants
<1>2. IsFiniteSet(S) /\ S \in SUBSET Int
  BY <1>1, FS_Subset
<1>3. Screen!Sorted(S) \in Seq(S)
  BY <1>2, SortedIs
<1> QED BY <1>3

LEMMA ListIs ==
  ASSUME NEW table \in [Numbers -> Drafted], NEW ids \in Seq(Numbers), NEW first
  PROVE  Screen!InOrder(Screen!Shots(table, ids), first) \in Seq(Shots)
<1>1. PICK s : s = Screen!Shots(table, ids)
  OBVIOUS
<1>2. s \in Seq(Shots)
  <2>1. s = [k \in 1..Len(ids) |-> [id |-> ids[k], row |-> table[ids[k]]]]
    BY <1>1 DEF Screen!Shots
  <2>2. \A k \in 1..Len(ids) : [id |-> ids[k], row |-> table[ids[k]]] \in Shots
    BY DEF Shots
  <2>3. Len(ids) \in Nat
    OBVIOUS
  <2> QED BY <2>1, <2>2, <2>3
<1>3. Screen!Reversed(s) \in Seq(Shots)
  <2>1. \A k \in 1..Len(s) : s[Len(s) + 1 - k] \in Shots
    BY <1>2
  <2> QED BY <1>2, <2>1 DEF Screen!Reversed
<1> QED BY <1>1, <1>2, <1>3 DEF Screen!InOrder

(* A vault on the screen is one that the server listed. *)
LEMMA VaultIs ==
  ASSUME NEW list_ \in Seq(Vaults), NEW k \in Nat
  PROVE  Screen!VaultOf(list_, k) \in Vaults \cup {0}
BY DEF Screen!VaultOf

LEMMA LoadAtIs ==
  ASSUME ListTypes, ServerTypes', chart \subseteq chart', NEW k \in Nat, NEW down, Screen!LoadAt(k, down)
  PROVE  ListTypes'
<1>1. vaults' \in Seq(Vaults)
  <2>1. Screen!Sorted(open') \in Seq(Vaults)
    BY SomeVaults DEF ServerTypes
  <2> QED BY <2>1 DEF Screen!LoadAt, ListTypes
<1>2. at' \in Nat
  BY DEF Screen!LoadAt, ListTypes
<1>3. accounts' \subseteq chart'
  BY DEF Screen!LoadAt, Screen!AccountsOf, ListTypes
<1>4. drafts' \in Seq(Shots)
  <2>1. PICK S \in SUBSET Numbers : S = {i \in Screen!Ids : rows'[i].status = "draft"}
    BY DEF Screen!Ids, Numbers
  <2>2. Screen!InOrder(Screen!Shots(rows', Screen!Sorted(S)), oldest) \in Seq(Shots)
    BY SomeNumbers, ListIs DEF ServerTypes
  <2> QED BY <2>1, <2>2 DEF Screen!LoadAt, ListTypes
<1>5. fresh' \in Seq(Shots)
  <2>1. PICK S \in SUBSET Numbers : S = {i \in Screen!Ids : rows'[i].status = "posted" /\ ~rows'[i].reviewed}
    BY DEF Screen!Ids, Numbers
  <2>2. Screen!InOrder(Screen!Shots(rows', Screen!Sorted(S)), oldest) \in Seq(Shots)
    BY SomeNumbers, ListIs DEF ServerTypes
  <2> QED BY <2>1, <2>2 DEF Screen!LoadAt, ListTypes
<1>6. sel' \in Nat
  <2>1. Len(drafts') \in Nat /\ Len(fresh') \in Nat /\ sel \in Nat
    BY <1>4, <1>5 DEF ListTypes
  <2>2. sel' = IF Len(drafts') + Len(fresh') = 0 THEN 0
               ELSE IF sel >= Len(drafts') + Len(fresh') THEN Len(drafts') + Len(fresh') - 1 ELSE sel
    BY DEF Screen!LoadAt
  <2> QED BY <2>1, <2>2
<1> QED BY <1>1, <1>2, <1>3, <1>4, <1>5, <1>6 DEF ListTypes

LEMMA LoadIs ==
  ASSUME ListTypes, ServerTypes', chart \subseteq chart', NEW down, Screen!Load(down)
  PROVE  ListTypes'
<1>1. at \in Nat
  BY DEF ListTypes
<1>2. Screen!LoadAt(at, down)
  BY DEF Screen!Load
<1> QED BY <1>1, <1>2, LoadAtIs

LEMMA AlignIs ==
  ASSUME ListTypes, chart' = chart, NEW v, NEW down, Screen!Align(v, down)
  PROVE  at' \in Nat /\ accounts' \subseteq chart'
<1>1. CASE UNCHANGED <<at, accounts>>
  BY <1>1 DEF ListTypes
<1>2. CASE ~UNCHANGED <<at, accounts>>
  <2>1. PICK where : where = {k \in 1..Len(vaults) : vaults[k] = v}
    OBVIOUS
  <2>2. /\ where # {} /\ at' = (CHOOSE k \in where : TRUE) - 1
        /\ accounts' = IF down THEN accounts ELSE Screen!AccountsOf(v)
    BY <1>2, <2>1 DEF Screen!Align
  <2>3. Len(vaults) \in Nat
    BY DEF ListTypes
  <2>4. (CHOOSE k \in where : TRUE) \in 1..Len(vaults)
    BY <2>1, <2>2
  <2> QED BY <2>2, <2>3, <2>4 DEF ListTypes, Screen!AccountsOf
<1> QED BY <1>1, <1>2

(* What others do to the books leaves them books. *)
LEMMA ImportIs ==
  ASSUME ServerTypes, NEW v \in Vaults, NEW text \in Wordings, NEW n \in Amounts, Screen!Import(v, text, n)
  PROVE  rows' \in [Numbers -> Drafted]
<1>1. Screen!NoRow \in Drafted
  BY DEF Screen!NoRow, Drafted
<1>2. PICK d : d = [Screen!NoRow EXCEPT !.status = "draft", !.vault = v, !.text = {text},
                                        !.amount = n, !.to = {Screen!Suspense}, !.worth = price]
  OBVIOUS
<1>3. price \in 0..2
  BY DEF ServerTypes
<1>4. d \in Drafted
  BY <1>1, <1>2, <1>3 DEF Drafted
<1>5. rows' = [rows EXCEPT ![Screen!NewId] = d]
  BY <1>2 DEF Screen!Import
<1> QED BY <1>4, <1>5 DEF ServerTypes

LEMMA RemoveIs ==
  ASSUME ServerTypes, NEW i, Screen!Remove(i)
  PROVE  rows' \in [Numbers -> Drafted]
<1>1. Screen!NoRow \in Drafted
  BY DEF Screen!NoRow, Drafted
<1> QED BY <1>1 DEF Screen!Remove, ServerTypes

LEMMA RetagIs ==
  ASSUME ServerTypes, NEW i, NEW text \in Wordings, Screen!Retag(i, text)
  PROVE  rows' \in [Numbers -> Drafted]
<1>1. i \in Numbers
  BY DEF Screen!Retag, Screen!Live, Screen!Ids, Numbers
<1>2. PICK d \in Drafted : d = rows[i]
  BY <1>1 DEF ServerTypes
<1>3. PICK e \in Drafted : e = [d EXCEPT !.text = {text}]
  BY DEF Drafted
<1>4. rows' = [rows EXCEPT ![i] = e]
  BY <1>2, <1>3 DEF Screen!Retag
<1> QED BY <1>4 DEF ServerTypes

LEMMA BookAlikeIs ==
  ASSUME ServerTypes, NEW v, NEW text, NEW to \in Cats, Screen!BookAlike(v, text, to)
  PROVE  rows' \in [Numbers -> Drafted]
<1>1. PICK who : who = {i \in Screen!Live : rows[i].status = "draft" /\ rows[i].vault = v /\ rows[i].text = {text}}
  OBVIOUS
<1>2. rows' = [i \in Numbers |-> IF i \in who THEN [rows[i] EXCEPT !.status = "posted", !.to = {to}, !.worth = price]
                                 ELSE rows[i]]
  BY <1>1 DEF Screen!BookAlike, Screen!Booked, Screen!Ids, Numbers
<1>3. ASSUME NEW i \in Numbers
      PROVE  [rows[i] EXCEPT !.status = "posted", !.to = {to}, !.worth = price] \in Drafted
  <2>1. PICK d \in Drafted : d = rows[i]
    BY DEF ServerTypes
  <2>2. price \in 0..2
    BY DEF ServerTypes
  <2>3. [d EXCEPT !.status = "posted", !.to = {to}, !.worth = price] \in Drafted
    BY <2>2 DEF Drafted
  <2> QED BY <2>1, <2>3
<1>4. \A i \in Numbers : rows[i] \in Drafted
  BY DEF ServerTypes
<1> DEFINE after(i) == IF i \in who THEN [rows[i] EXCEPT !.status = "posted", !.to = {to}, !.worth = price] ELSE rows[i]
<1>5. \A i \in Numbers : after(i) \in Drafted
  BY <1>3, <1>4
<1>6. rows' = [i \in Numbers |-> after(i)]
  BY <1>2
<1> HIDE DEF after
<1> QED BY <1>5, <1>6

(* A log that grows keeps a dialog true. *)
LEMMA DialogStays ==
  ASSUME ScreenInv, audit' \in Nat, audit' >= audit, UNCHANGED <<drafts, sel, modal, commits>>
  PROVE  Dialog(modal, drafts, sel, audit, commits)'
<1>1. Dialog(modal, drafts, sel, audit, commits) /\ audit \in Nat
  BY DEF ScreenInv, ServerTypes
<1>2. ASSUME modal.kind = "preview" PROVE commits > 0 => audit' > modal.token[1][1]
  <2>1. modal.token[1][1] \in Nat /\ (commits > 0 => audit > modal.token[1][1])
    BY <1>1, <1>2 DEF Dialog, Previewing
  <2> QED BY <1>1, <2>1
<1> QED BY <1>1, <1>2 DEF Dialog, Picking, Previewing, Splitting

LEMMA ElsewhereStep ==
  ASSUME ScreenInv, Screen!Elsewhere
  PROVE  ScreenInv'
<1>1. ServerTypes /\ audit \in Nat
  BY DEF ScreenInv, ServerTypes
<1>2. UNCHANGED <<vaults, at, accounts, drafts, fresh, sel, capture, modal, commits>>
  BY DEF Screen!Elsewhere, Screen!lists
<1>3. ServerTypes' /\ chart \subseteq chart' /\ audit' >= audit
  <2>1. CASE \E v \in Vaults, text \in Wordings, n \in Amounts : Screen!Logged(Screen!Import(v, text, n))
    <3>1. PICK v \in Vaults, text \in Wordings, n \in Amounts : Screen!Logged(Screen!Import(v, text, n))
      BY <2>1
    <3>2. audit' = audit + 1 /\ Screen!Import(v, text, n)
      BY <3>1 DEF Screen!Logged
    <3>3. rows' \in [Numbers -> Drafted] /\ UNCHANGED <<chart, open, price>>
      BY <1>1, <3>2, ImportIs DEF Screen!Import
    <3> QED BY <1>1, <3>2, <3>3 DEF ServerTypes
  <2>2. CASE \E i \in Screen!Ids : Screen!Logged(Screen!Remove(i))
    <3>1. PICK i \in Screen!Ids : Screen!Logged(Screen!Remove(i))
      BY <2>2
    <3>2. audit' = audit + 1 /\ Screen!Remove(i)
      BY <3>1 DEF Screen!Logged
    <3>3. rows' \in [Numbers -> Drafted] /\ UNCHANGED <<chart, open, price>>
      BY <1>1, <3>2, RemoveIs DEF Screen!Remove
    <3> QED BY <1>1, <3>2, <3>3 DEF ServerTypes
  <2>3. CASE \E i \in Screen!Ids, text \in Wordings : Screen!Logged(Screen!Retag(i, text))
    <3>1. PICK i \in Screen!Ids, text \in Wordings : Screen!Logged(Screen!Retag(i, text))
      BY <2>3
    <3>2. audit' = audit + 1 /\ Screen!Retag(i, text)
      BY <3>1 DEF Screen!Logged
    <3>3. rows' \in [Numbers -> Drafted] /\ UNCHANGED <<chart, open, price>>
      BY <1>1, <3>2, RetagIs DEF Screen!Retag
    <3> QED BY <1>1, <3>2, <3>3 DEF ServerTypes
  <2>4. CASE \E v \in Vaults, text \in Wordings, c \in Cats : Screen!Logged(Screen!BookAlike(v, text, c))
    <3>1. PICK v \in Vaults, text \in Wordings, c \in Cats : Screen!Logged(Screen!BookAlike(v, text, c))
      BY <2>4
    <3>2. audit' = audit + 1 /\ Screen!BookAlike(v, text, c)
      BY <3>1 DEF Screen!Logged
    <3>3. rows' \in [Numbers -> Drafted] /\ UNCHANGED <<chart, open, price>>
      BY <1>1, <3>2, BookAlikeIs DEF Screen!BookAlike
    <3> QED BY <1>1, <3>2, <3>3 DEF ServerTypes
  <2>5. CASE \E v \in open : Screen!Logged(Screen!Archive(v))
    BY <1>1, <2>5 DEF Screen!Logged, Screen!Archive, ServerTypes
  <2>6. CASE Screen!Reprice
    BY <1>1, <2>6 DEF Screen!Reprice, ServerTypes
  <2> QED BY <2>1, <2>2, <2>3, <2>4, <2>5, <2>6 DEF Screen!Elsewhere
<1>4. ListTypes'
  BY <1>2, <1>3 DEF ScreenInv, ListTypes
<1>5. Dialog(modal, drafts, sel, audit, commits)'
  BY <1>2, <1>3, DialogStays DEF ServerTypes
<1> QED BY <1>2, <1>3, <1>4, <1>5 DEF ScreenInv

(* Keys without a dialog. *)
LEMMA NoDialog ==
  ASSUME modal'.kind \in {"none", "delete"}
  PROVE  Dialog(modal, drafts, sel, audit, commits)'
BY DEF Dialog, Picking, Previewing

LEMMA ReversedIs ==
  ASSUME NEW s \in Seq(Shots)
  PROVE  Screen!Reversed(s) \in Seq(Shots)
<1>1. \A k \in 1..Len(s) : s[Len(s) + 1 - k] \in Shots
  OBVIOUS
<1> QED BY <1>1 DEF Screen!Reversed

LEMMA KeyStep ==
  ASSUME ScreenInv, Screen!Refresh \/ Screen!NextVault \/ Screen!Move \/ Screen!ChooseSort \/ Screen!ConfirmSelected
  PROVE  ScreenInv'
<1>1. ServerTypes /\ ListTypes /\ modal' = modal /\ modal.kind = "none" /\ UNCHANGED <<capture, commits>>
  BY DEF ScreenInv, Screen!Refresh, Screen!NextVault, Screen!Move, Screen!ChooseSort, Screen!ConfirmSelected, Screen!Idle
<1>2. Dialog(modal, drafts, sel, audit, commits)'
  BY <1>1, NoDialog
<1>3. CASE Screen!Refresh
  <2>1. ServerTypes' /\ chart' = chart
    BY <1>1, <1>3 DEF Screen!Refresh, Screen!server, ServerTypes
  <2>2. ListTypes'
    BY <1>1, <1>3, <2>1, LoadIs DEF Screen!Refresh
  <2> QED BY <1>1, <1>2, <2>1, <2>2 DEF ScreenInv
<1>4. CASE Screen!NextVault
  <2>1. ServerTypes' /\ chart' = chart
    BY <1>1, <1>4 DEF Screen!NextVault, Screen!server, ServerTypes
  <2>2. (at + 1) % Len(vaults) \in Nat
    <3>1. Len(vaults) \in Nat \ {0} /\ at \in Nat
      BY <1>1, <1>4 DEF ListTypes, Screen!NextVault
    <3> QED BY <3>1
  <2>3. PICK down : Screen!LoadAt((at + 1) % Len(vaults), down)
    BY <1>4 DEF Screen!NextVault
  <2>4. ListTypes'
    BY <1>1, <2>1, <2>2, <2>3, LoadAtIs
  <2> QED BY <1>1, <1>2, <2>1, <2>4 DEF ScreenInv
<1>5. CASE Screen!Move
  <2>1. ServerTypes' /\ UNCHANGED <<chart, vaults, at, accounts, drafts, fresh>>
    BY <1>1, <1>5 DEF Screen!Move, Screen!server, Screen!lists, ServerTypes
  <2>2. sel' \in Nat
    BY <1>1, <1>5 DEF Screen!Move, ListTypes
  <2> QED BY <1>1, <1>2, <2>1, <2>2 DEF ScreenInv, ListTypes
<1>6. CASE Screen!ChooseSort
  <2>1. ServerTypes' /\ UNCHANGED <<chart, vaults, at, accounts>>
    BY <1>1, <1>6 DEF Screen!ChooseSort, Screen!server, ServerTypes
  <2>2. drafts' \in Seq(Shots) /\ fresh' \in Seq(Shots) /\ sel' = 0
    BY <1>1, <1>6, ReversedIs DEF Screen!ChooseSort, ListTypes
  <2> QED BY <1>1, <1>2, <2>1, <2>2 DEF ScreenInv, ListTypes
<1>7. CASE Screen!ConfirmSelected
  <2>1. PICK e \in Screen!Unread, down \in SUBSET Screen!Reads :
          /\ rows' = [rows EXCEPT ![e.id].reviewed = @ \/ rows[e.id].status # "none"]
          /\ UNCHANGED <<chart, open, price, audit>> /\ Screen!Load(down)
    BY <1>7 DEF Screen!ConfirmSelected
  <2>2. rows' \in [Numbers -> Drafted]
    <3>1. CASE e.id \in Numbers
      <4>1. PICK d \in Drafted : d = rows[e.id]
        BY <1>1, <3>1 DEF ServerTypes
      <4>2. PICK r \in BOOLEAN : r = (d.reviewed \/ d.status # "none")
        OBVIOUS
      <4>3. PICK c \in Drafted : c = [d EXCEPT !.reviewed = r]
        BY DEF Drafted
      <4>4. rows' = [rows EXCEPT ![e.id] = c]
        BY <2>1, <4>1, <4>2, <4>3
      <4> QED BY <1>1, <4>4 DEF ServerTypes
    <3>2. CASE e.id \notin Numbers
      BY <1>1, <2>1, <3>2 DEF ServerTypes
    <3> QED BY <3>1, <3>2
  <2>3. ServerTypes'
    BY <1>1, <2>1, <2>2 DEF ServerTypes
  <2>4. ListTypes'
    BY <1>1, <2>1, <2>3, LoadIs
  <2> QED BY <1>1, <1>2, <2>3, <2>4 DEF ScreenInv
<1> QED BY <1>3, <1>4, <1>5, <1>6, <1>7

LEMMA SelectedIs ==
  ASSUME ListTypes
  PROVE  /\ \A d \in Screen!Draft : sel < Len(drafts) /\ d = drafts[sel + 1] /\ d \in Shots
         /\ Screen!Selected \subseteq Shots
<1>1. /\ drafts \in Seq(Shots) /\ Len(drafts) \in Nat
      /\ fresh \in Seq(Shots) /\ Len(fresh) \in Nat /\ sel \in Nat
  BY DEF ListTypes
<1>2. sel < Len(drafts) => drafts[sel + 1] \in Shots
  BY <1>1
<1>3. sel >= Len(drafts) /\ sel - Len(drafts) < Len(fresh) => fresh[sel - Len(drafts) + 1] \in Shots
  BY <1>1
<1> QED BY <1>2, <1>3 DEF Screen!Draft, Screen!Unread, Screen!Selected

LEMMA OpenStep ==
  ASSUME ScreenInv, Screen!OpenPicker \/ Screen!OpenDelete \/ Screen!OpenSplit \/ Screen!PickCaptureAccount
  PROVE  ScreenInv'
<1>1. ServerTypes /\ ListTypes /\ Screen!Idle /\ capture \in Captured /\ commits \in Nat
  BY DEF ScreenInv, Screen!OpenPicker, Screen!OpenDelete, Screen!OpenSplit, Screen!PickCaptureAccount
<1>2. UNCHANGED <<Screen!server, vaults, drafts, fresh, sel, commits>>
  BY DEF Screen!OpenPicker, Screen!OpenDelete, Screen!OpenSplit, Screen!PickCaptureAccount, Screen!lists
<1>3. ServerTypes' /\ chart' = chart
  BY <1>1, <1>2 DEF Screen!server, ServerTypes
<1>4. CASE Screen!OpenPicker
  <2>1. PICK d \in Screen!Draft, down \in BOOLEAN :
          /\ Screen!Align(d.row.vault, down)
          /\ LET alike == Screen!Sorted({k \in 1..Len(drafts) : drafts[k].row.vault = d.row.vault /\ drafts[k].row.text = d.row.text})
             IN  modal' \in {Screen!Picker(<<d>>, "post"), Screen!Picker(<<d>>, "rule")}
                           \cup (IF Len(alike) < 2 THEN {}
                                 ELSE {Screen!Picker([k \in 1..Len(alike) |-> drafts[alike[k]]], "batch")})
    BY <1>4 DEF Screen!OpenPicker
  <2>2. sel < Len(drafts) /\ d = drafts[sel + 1] /\ d \in Shots
    BY <1>1, SelectedIs
  <2>3. ListTypes' /\ capture' = capture
    BY <1>1, <1>2, <1>3, <1>4, <2>1, AlignIs DEF ListTypes, Screen!OpenPicker
  <2> DEFINE Alike_ == {k \in 1..Len(drafts) : drafts[k].row.vault = d.row.vault /\ drafts[k].row.text = d.row.text}
             Batch(s) == [k \in 1..Len(s) |-> drafts[s[k]]]
  <2>1a. modal' \in {Screen!Picker(<<d>>, "post"), Screen!Picker(<<d>>, "rule")}
                    \cup (IF Len(Screen!Sorted(Alike_)) < 2 THEN {} ELSE {Screen!Picker(Batch(Screen!Sorted(Alike_)), "batch")})
    BY <2>1
  <2>4. PICK S : S = Alike_
    OBVIOUS
  <2>5. drafts \in Seq(Shots) /\ Len(drafts) \in Nat
    BY <1>1 DEF ListTypes
  <2>6. S \in SUBSET Int /\ IsFiniteSet(S) /\ S \subseteq 1..Len(drafts)
    <3>1. IsFiniteSet(1..Len(drafts))
      BY <2>5, FS_Interval
    <3>2. S \subseteq 1..Len(drafts)
      BY <2>4
    <3>3. IsFiniteSet(S)
      BY <3>1, <3>2, FS_Subset
    <3>4. \A i \in 1..Len(drafts) : i \in Int
      OBVIOUS
    <3> QED BY <3>2, <3>3, <3>4, Zenon
  <2>7. PICK alike : alike = Screen!Sorted(S)
    OBVIOUS
  <2>8. alike \in Seq(S) /\ Len(alike) \in Nat
    BY <2>6, <2>7, SortedIs
  <2>9. PICK all_ : all_ = Batch(alike)
    OBVIOUS
  <2>10. all_ \in Seq(Shots) /\ Len(all_) = Len(alike)
    <3>1. ASSUME NEW k \in 1..Len(alike) PROVE drafts[alike[k]] \in Shots
      <4>1. alike[k] \in 1..Len(drafts)
        <5>1. alike[k] \in S
          BY <2>8
        <5> QED BY <2>6, <5>1, Zenon
      <4> QED BY <2>5, <4>1
    <3> QED BY <2>8, <2>9, <3>1
  <2>11. \/ modal' = Screen!Picker(<<d>>, "post")
         \/ modal' = Screen!Picker(<<d>>, "rule")
         \/ Len(alike) >= 2 /\ modal' = Screen!Picker(all_, "batch")
    <3> HIDE DEF Alike_, Batch
    <3>1. modal' \in {Screen!Picker(<<d>>, "post"), Screen!Picker(<<d>>, "rule")}
                    \cup (IF Len(alike) < 2 THEN {} ELSE {Screen!Picker(all_, "batch")})
      BY <2>1a, <2>4, <2>7, <2>9
    <3> QED BY <2>8, <3>1
  <2>12. Picking(modal, drafts, sel)' /\ modal'.kind = "picker"
    <3>1. <<d>> \in Seq(Shots) /\ Len(<<d>>) = 1
      BY <2>2
    <3>2. CASE modal' = Screen!Picker(<<d>>, "post")
      BY <1>2, <2>2, <3>1, <3>2 DEF Picking, Screen!Picker
    <3>3. CASE modal' = Screen!Picker(<<d>>, "rule")
      BY <3>1, <3>3 DEF Picking, Screen!Picker
    <3>4. CASE Len(alike) >= 2 /\ modal' = Screen!Picker(all_, "batch")
      <4>1. Len(all_) > 0
        BY <2>8, <2>10, <3>4
      <4> QED BY <2>10, <3>4, <4>1 DEF Picking, Screen!Picker
    <3> QED BY <2>11, <3>2, <3>3, <3>4
  <2>13. Dialog(modal, drafts, sel, audit, commits)'
    BY <2>12 DEF Dialog, Previewing
  <2> QED BY <1>1, <1>2, <1>3, <2>3, <2>13 DEF ScreenInv
<1>5. CASE Screen!OpenDelete
  <2>1. UNCHANGED <<at, accounts, capture>> /\ modal'.kind = "delete"
    BY <1>5 DEF Screen!OpenDelete, Screen!lists
  <2> QED BY <1>1, <1>2, <1>3, <2>1, NoDialog DEF ScreenInv, ListTypes
<1>6. CASE Screen!OpenSplit
  <2>1. PICK e \in Screen!Selected, down \in BOOLEAN :
          /\ Screen!Align(e.row.vault, down) /\ capture' = capture
          /\ modal' = [kind |-> "split", named |-> <<e>>, total |-> e.row.amount, existing |-> e \in Screen!Unread,
                       offered |-> {f \in accounts' : f[1] = e.row.vault}]
    BY <1>6 DEF Screen!OpenSplit
  <2>2. e \in Shots
    BY <1>1, SelectedIs
  <2>3. ListTypes'
    BY <1>1, <1>2, <1>3, <2>1, AlignIs DEF ListTypes
  <2>4. <<e>> \in Seq(Shots) /\ Len(<<e>>) = 1 /\ e.row.amount \in Amounts \cup {0}
    BY <2>2 DEF Shots, Drafted
  <2>5. {f \in accounts' : f[1] = e.row.vault} \subseteq Pairs
    BY <1>3, <2>3 DEF ListTypes, ServerTypes
  <2>6. Splitting(modal') /\ modal'.kind = "split"
    BY <2>1, <2>4, <2>5 DEF Splitting
  <2>7. Dialog(modal, drafts, sel, audit, commits)'
    BY <2>6 DEF Dialog, Picking, Previewing
  <2> QED BY <1>1, <1>2, <1>3, <2>1, <2>3, <2>7 DEF ScreenInv
<1>7. CASE Screen!PickCaptureAccount
  <2>1. UNCHANGED <<at, accounts>> /\ modal' = Screen!Picker(<<>>, "capture")
        /\ capture' = [capture EXCEPT !.account = Screen!Vault]
    BY <1>7 DEF Screen!PickCaptureAccount, Screen!lists
  <2>2. Screen!Vault \in Vaults \cup {0}
    BY <1>1, VaultIs DEF Screen!Vault, ListTypes
  <2>3. capture' \in Captured
    BY <1>1, <2>1, <2>2 DEF Captured
  <2>4. Dialog(modal, drafts, sel, audit, commits)'
    BY <2>1 DEF Dialog, Picking, Previewing, Screen!Picker
  <2> QED BY <1>1, <1>2, <1>3, <2>1, <2>3, <2>4 DEF ScreenInv, ListTypes
<1> QED BY <1>4, <1>5, <1>6, <1>7

LEMMA CategorizeIs ==
  ASSUME NEW i \in Numbers, NEW to \in SUBSET Pairs, NEW n \in Amounts \cup {0}, NEW posted \in BOOLEAN
  PROVE  Screen!Categorize(i, to, n, posted) \in Postings
<1>1. i \in 0..MaxListed
  BY ScreenConstants DEF Numbers
<1> QED BY <1>1 DEF Screen!Categorize, Postings

LEMMA OneRequest ==
  ASSUME NEW r \in Postings
  PROVE  <<r>> \in Seq(Postings) /\ Len(<<r>>) > 0
OBVIOUS

(* The requests of a batch. *)
Batched(named, to) == [k \in 1..Len(named) |-> Screen!Categorize(named[k].id, to, 0, FALSE)]

LEMMA BatchIs ==
  ASSUME NEW named \in Seq(Shots), Len(named) > 0, NEW to \in SUBSET Pairs
  PROVE  Batched(named, to) \in Seq(Postings) /\ Len(Batched(named, to)) = Len(named)
<1> DEFINE r(k) == Screen!Categorize(named[k].id, to, 0, FALSE)
<1>1. \A k \in 1..Len(named) : r(k) \in Postings
  <2>1. ASSUME NEW k \in 1..Len(named) PROVE r(k) \in Postings
    <3>1. named[k] \in Shots
      OBVIOUS
    <3>2. named[k].id \in Numbers
      BY <3>1 DEF Shots
    <3> QED BY <3>2, CategorizeIs
  <2> QED BY <2>1
<1>2. Batched(named, to) = [k \in 1..Len(named) |-> r(k)] /\ Len(named) \in Nat
  BY DEF Batched
<1> HIDE DEF r
<1> QED BY <1>1, <1>2

(* What is picked is a category of the books. *)
LEMMA AccountIs ==
  ASSUME ScreenInv, NEW c \in accounts
  PROVE  c \in Pairs /\ {c} \in SUBSET Pairs /\ c[2] \in Cats
BY DEF ScreenInv, ListTypes, ServerTypes, Pairs

(* Enter in a picker. *)
LEMMA PickStep ==
  ASSUME ScreenInv, Screen!Pick
  PROVE  ScreenInv'
<1>1. ServerTypes /\ ListTypes /\ capture \in Captured /\ commits \in Nat
  BY DEF ScreenInv
<1>2. /\ modal.kind = "picker" /\ modal.then \in {"post", "batch", "rule", "capture"} /\ modal.named \in Seq(Shots)
      /\ modal.then # "capture" => Len(modal.named) > 0
  BY DEF ScreenInv, Dialog, Picking, Screen!Pick
<1>3. PICK c \in accounts :
       CASE modal.then = "post"  ->
              /\ UNCHANGED <<Screen!server, Screen!lists, sel, capture>>
              /\ \E d \in Screen!Draft : Screen!Preview(<<Screen!Categorize(d.id, {c}, 0, FALSE)>>, Screen!NoModal)
         [] modal.then = "batch" ->
              /\ UNCHANGED <<Screen!server, Screen!lists, sel, capture>>
              /\ Screen!Preview(Batched(modal.named, {c}), Screen!NoModal)
         [] modal.then = "rule"  ->
              /\ \E d \in {modal.named[1]}, word_ \in modal.named[1].row.text, down \in SUBSET Screen!Reads :
                   Screen!Logged(Screen!BookAlike(d.row.vault, word_, c[2])) /\ Screen!Load(down)
              /\ modal' = Screen!NoModal /\ UNCHANGED <<capture, commits>>
         [] modal.then = "capture" ->
              /\ capture' = [capture EXCEPT !.to = {c}] /\ modal' = Screen!NoModal
              /\ UNCHANGED <<Screen!server, Screen!lists, sel, commits>>
  BY Zenon DEF Screen!Pick, Batched
<1>4. {c} \in SUBSET Pairs /\ c[2] \in Cats
  BY AccountIs
<1>5. CASE modal.then = "post"
  <2>1. PICK d \in Screen!Draft : Screen!Preview(<<Screen!Categorize(d.id, {c}, 0, FALSE)>>, Screen!NoModal)
    BY <1>3, <1>5
  <2>2. UNCHANGED <<Screen!server, Screen!lists, sel, capture>>
    BY <1>3, <1>5
  <2>3. ServerTypes' /\ ListTypes' /\ capture' \in Captured
    BY <1>1, <2>2 DEF Screen!server, Screen!lists, ServerTypes, ListTypes
  <2>4. d.id \in Numbers
    BY <1>1, SelectedIs DEF Shots
  <2>5. PICK r \in Postings : r = Screen!Categorize(d.id, {c}, 0, FALSE)
    BY <1>4, <2>4, CategorizeIs
  <2>6. Dialog(modal, drafts, sel, audit, commits)' /\ commits' \in Nat
    BY <1>1, <2>1, <2>3, <2>5, OneRequest, PreviewIs
  <2> QED BY <2>3, <2>6 DEF ScreenInv
<1>6. CASE modal.then = "batch"
  <2>1. UNCHANGED <<Screen!server, Screen!lists, sel, capture>> /\ Screen!Preview(Batched(modal.named, {c}), Screen!NoModal)
    BY <1>3, <1>6
  <2>2. ServerTypes' /\ ListTypes' /\ capture' \in Captured
    BY <1>1, <2>1 DEF Screen!server, Screen!lists, ServerTypes, ListTypes
  <2>3. PICK asks \in Seq(Postings) : asks = Batched(modal.named, {c}) /\ Len(asks) > 0
    BY <1>2, <1>4, <1>6, BatchIs
  <2>4. Dialog(modal, drafts, sel, audit, commits)' /\ commits' \in Nat
    BY <1>1, <2>1, <2>2, <2>3, PreviewIs
  <2> QED BY <2>2, <2>4 DEF ScreenInv
<1>7. CASE modal.then = "rule"
  <2>1. PICK d, word_, down :
          Screen!Logged(Screen!BookAlike(d.row.vault, word_, c[2])) /\ Screen!Load(down)
    BY <1>3, <1>7
  <2>2. modal' = Screen!NoModal /\ UNCHANGED <<capture, commits>>
    BY <1>3, <1>7
  <2>3. Screen!BookAlike(d.row.vault, word_, c[2]) /\ audit' = audit + 1
    BY <2>1 DEF Screen!Logged
  <2>4. rows' \in [Numbers -> Drafted] /\ UNCHANGED <<chart, open, price>>
    BY <1>1, <1>4, <2>3, BookAlikeIs DEF Screen!BookAlike
  <2>5. ServerTypes' /\ chart' = chart
    BY <1>1, <2>3, <2>4 DEF ServerTypes
  <2>6. ListTypes'
    BY <1>1, <2>1, <2>5, LoadIs
  <2>7. Dialog(modal, drafts, sel, audit, commits)'
    BY <2>2, NoDialog DEF Screen!NoModal
  <2> QED BY <1>1, <2>2, <2>5, <2>6, <2>7 DEF ScreenInv
<1>8. CASE modal.then = "capture"
  <2>1. /\ capture' = [capture EXCEPT !.to = {c}] /\ modal' = Screen!NoModal
        /\ UNCHANGED <<Screen!server, Screen!lists, sel, commits>>
    BY <1>3, <1>8
  <2>2. ServerTypes' /\ ListTypes'
    BY <1>1, <2>1 DEF Screen!server, Screen!lists, ServerTypes, ListTypes
  <2>3. capture' \in Captured
    BY <1>1, <1>4, <2>1 DEF Captured
  <2>4. Dialog(modal, drafts, sel, audit, commits)'
    BY <2>1, NoDialog DEF Screen!NoModal
  <2> QED BY <1>1, <2>1, <2>2, <2>3, <2>4 DEF ScreenInv
<1> QED BY <1>2, <1>5, <1>6, <1>7, <1>8

(* A new category, and the draft that was selected goes to it. *)
LEMMA CreateStep ==
  ASSUME ScreenInv, Screen!CreateAndPost
  PROVE  ScreenInv'
<1>1. ServerTypes /\ ListTypes /\ capture \in Captured /\ commits \in Nat /\ modal.kind = "picker" /\ modal.then = "post"
  BY DEF ScreenInv, Screen!CreateAndPost
<1>2. sel < Len(drafts) /\ drafts[sel + 1].id \in Numbers
  <2>1. sel < Len(drafts) /\ sel \in Nat /\ drafts \in Seq(Shots)
    BY <1>1 DEF ScreenInv, Dialog, Picking, ListTypes
  <2>2. drafts[sel + 1] \in Shots
    BY <2>1
  <2> QED BY <2>1, <2>2 DEF Shots
<1>3. PICK c \in Cats :
        /\ Screen!Vault # 0 /\ audit' = audit + 1 /\ chart' = chart \cup {<<Screen!Vault, c>>} /\ UNCHANGED <<rows, open, price>>
        /\ Screen!ReloadAccounts
        /\ IF sel' < Len(drafts')
           THEN Screen!Preview(<<Screen!Categorize(drafts'[sel' + 1].id, {<<Screen!Vault, c>>}, 0, FALSE)>>, Screen!NoModal)
           ELSE modal' = Screen!NoModal /\ UNCHANGED commits
  BY Zenon DEF Screen!CreateAndPost, Screen!Logged, Screen!ApplyChart
<1>4. capture' = capture
  BY DEF Screen!CreateAndPost
<1>5. Screen!Vault \in Vaults /\ <<Screen!Vault, c>> \in Pairs
  <2>1. Screen!Vault \in Vaults \cup {0}
    BY <1>1, VaultIs DEF Screen!Vault, ListTypes
  <2> QED BY <1>3, <2>1 DEF Pairs
<1>6. ServerTypes'
  BY <1>1, <1>3, <1>5 DEF ServerTypes
<1>7. UNCHANGED <<vaults, at, drafts, fresh, sel>> /\ accounts' \subseteq chart'
  BY <1>3 DEF Screen!ReloadAccounts, Screen!AccountsOf
<1>8. ListTypes'
  BY <1>1, <1>7 DEF ListTypes
<1>9. PICK v : v = Screen!Vault
  OBVIOUS
<1>10. PICK r \in Postings : r = Screen!Categorize(drafts[sel + 1].id, {<<v, c>>}, 0, FALSE)
  <2>1. {<<v, c>>} \in SUBSET Pairs
    BY <1>5, <1>9
  <2> QED BY <1>2, <2>1, CategorizeIs
<1>11. Screen!Preview(<<r>>, Screen!NoModal)
  BY <1>2, <1>3, <1>7, <1>9, <1>10, Zenon
<1>12. Dialog(modal, drafts, sel, audit, commits)' /\ commits' \in Nat
  BY <1>1, <1>6, <1>11, OneRequest, PreviewIs
<1> QED BY <1>1, <1>4, <1>6, <1>8, <1>12 DEF ScreenInv

(* What leads to a preview from elsewhere than a picker. *)
LEMMA AskStep ==
  ASSUME ScreenInv, Screen!ApplySplit \/ Screen!SubmitCapture \/ Screen!Continue
  PROVE  ScreenInv'
<1>1. ServerTypes /\ ListTypes /\ capture \in Captured /\ commits \in Nat
  BY DEF ScreenInv
<1>2. UNCHANGED <<Screen!server, Screen!lists, sel, capture>>
  BY DEF Screen!ApplySplit, Screen!SubmitCapture, Screen!Continue
<1>3. ServerTypes' /\ ListTypes' /\ capture' \in Captured
  BY <1>1, <1>2 DEF Screen!server, Screen!lists, ServerTypes, ListTypes
<1>4. Dialog(modal, drafts, sel, audit, commits)' /\ commits' \in Nat
  <2>1. CASE Screen!ApplySplit
    <3>1. PICK to \in SUBSET modal.offered, n \in {0, modal.total} :
            Screen!Preview(<<Screen!Categorize(modal.named[1].id, to, n, modal.existing)>>, modal)
      BY <2>1 DEF Screen!ApplySplit
    <3>2. Splitting(modal)
      BY <2>1 DEF Screen!ApplySplit, ScreenInv, Dialog
    <3>3. modal.named[1].id \in Numbers
      <4>1. modal.named[1] \in Shots
        BY <3>2 DEF Splitting
      <4> QED BY <4>1 DEF Shots
    <3>4. to \in SUBSET Pairs /\ n \in Amounts \cup {0} /\ modal.existing \in BOOLEAN
      BY <3>1, <3>2 DEF Splitting
    <3>5. PICK r \in Postings : r = Screen!Categorize(modal.named[1].id, to, n, modal.existing)
      BY <3>3, <3>4, CategorizeIs
    <3> QED BY <1>1, <1>3, <3>1, <3>2, <3>5, OneRequest, PreviewIs
  <2>2. CASE Screen!SubmitCapture
    <3>1. PICK r : r = Screen!Capture(Screen!Vault, capture.account, capture.to)
      OBVIOUS
    <3>2. Screen!Vault \in Vaults \cup {0}
      BY <1>1, VaultIs DEF Screen!Vault, ListTypes
    <3>3. r \in Postings
      BY <1>1, <3>1, <3>2, ScreenConstants DEF Screen!Capture, Postings, Captured
    <3>4. Screen!Preview(<<r>>, Screen!NoModal)
      BY <2>2, <3>1 DEF Screen!SubmitCapture
    <3> QED BY <1>1, <1>3, <3>3, <3>4, OneRequest, PreviewIs
  <2>3. CASE Screen!Continue
    <3>1. modal.rest \in Seq(Postings) /\ Len(modal.rest) > 0
      BY <2>3 DEF Screen!Continue, ScreenInv, Dialog
    <3>2. Screen!Preview(modal.rest, Screen!NoModal)
      BY <2>3 DEF Screen!Continue
    <3> QED BY <1>1, <1>3, <3>1, <3>2, PreviewIs
  <2> QED BY <2>1, <2>2, <2>3
<1> QED BY <1>3, <1>4 DEF ScreenInv

(* y books the entry on the screen, once. *)
LEMMA CommitIs ==
  ASSUME ScreenInv, modal.kind = "preview", Screen!Commit(modal.request)
  PROVE  /\ commits = 0 /\ rows' = [rows EXCEPT ![modal.id] = modal.entry]
         /\ UNCHANGED <<chart, open, price>> /\ audit' = audit + 1
         /\ modal.token[1][1] = audit
<1>1. Previewing(modal, audit, commits) /\ audit \in Nat /\ commits \in Nat /\ ServerTypes
  BY DEF ScreenInv, Dialog, ServerTypes
<1>2. PICK r \in Postings : r = modal.request
  BY <1>1 DEF Previewing
<1>3. /\ Screen!Acceptable(r) /\ Screen!Token(r) = modal.token /\ audit' = audit + 1
      /\ rows' = [rows EXCEPT ![Screen!IdOf(r)] = Screen!Entry(r)] /\ UNCHANGED <<chart, open, price>>
  BY <1>2 DEF Screen!Commit, Screen!Logged
<1>4. PICK booked \in Drafted : booked = Screen!Entry(r) /\ booked.reviewed = TRUE
  BY <1>1, <1>2, <1>3, EntryIsTyped DEF EntryTyped
<1>5. PICK seen \in Drafted : seen = modal.entry /\ seen.reviewed = TRUE
  BY <1>1 DEF Previewing
<1>6. PICK token : token = Screen!Token(r)
  OBVIOUS
<1>7. token[2] = <<Screen!IdOf(r), [booked EXCEPT !.reviewed = FALSE]>> /\ token[1][1] = audit
  BY <1>4, <1>6 DEF Screen!Token, Screen!Canonical, Screen!Stamp
<1>8. token[2] = <<modal.id, [seen EXCEPT !.reviewed = FALSE]>> /\ (commits > 0 => audit > token[1][1])
  BY <1>1, <1>3, <1>5, <1>6 DEF Previewing
<1>9. Screen!IdOf(r) = modal.id /\ [booked EXCEPT !.reviewed = FALSE] = [seen EXCEPT !.reviewed = FALSE]
  BY <1>7, <1>8
<1>10. booked = seen
  BY <1>4, <1>5, <1>9 DEF Drafted
<1>11. commits = 0
  BY <1>1, <1>7, <1>8
<1> QED BY <1>3, <1>4, <1>5, <1>6, <1>7, <1>9, <1>10, <1>11

LEMMA AcceptStep ==
  ASSUME ScreenInv, Screen!Accept
  PROVE  ScreenInv'
<1>1. ServerTypes /\ ListTypes /\ capture \in Captured /\ commits \in Nat /\ audit \in Nat
      /\ Previewing(modal, audit, commits) /\ modal.kind = "preview"
  BY DEF ScreenInv, Dialog, ServerTypes, Screen!Accept
<1>2. /\ rows' = [rows EXCEPT ![modal.id] = modal.entry] /\ UNCHANGED <<chart, open, price>>
      /\ audit' = audit + 1 /\ modal.token[1][1] = audit /\ commits' = commits + 1
  BY CommitIs DEF Screen!Accept
<1>3. ServerTypes'
  <2>1. PICK d \in Drafted : d = modal.entry
    BY <1>1 DEF Previewing
  <2>2. rows' \in [Numbers -> Drafted]
    BY <1>1, <1>2, <2>1 DEF ServerTypes
  <2> QED BY <1>1, <1>2, <2>2 DEF ServerTypes
<1>4. CASE UNCHANGED <<Screen!lists, sel, capture, modal>>
  <2>1. ListTypes' /\ capture' \in Captured
    BY <1>1, <1>2, <1>4 DEF ListTypes, Screen!lists
  <2>2. Previewing(modal, audit, commits)'
    BY <1>1, <1>2, <1>4 DEF Previewing, Splitting
  <2>3. Dialog(modal, drafts, sel, audit, commits)'
    BY <1>1, <1>4, <2>2 DEF Dialog, Picking
  <2> QED BY <1>1, <1>2, <1>3, <2>1, <2>3 DEF ScreenInv
<1>5. CASE /\ \E down \in SUBSET Screen!Reads : Screen!Load(down)
           /\ capture' = IF modal.request.op = "capture" THEN [capture EXCEPT !.to = {}] ELSE capture
           /\ modal' = IF modal.rest = <<>> THEN Screen!NoModal ELSE [kind |-> "next", rest |-> modal.rest]
  <2>1. ListTypes'
    BY <1>1, <1>2, <1>3, <1>5, LoadIs
  <2>2. capture' \in Captured
    BY <1>1, <1>5 DEF Captured
  <2>3. Dialog(modal, drafts, sel, audit, commits)'
    <3>1. CASE modal.rest = <<>>
      BY <1>5, <3>1, NoDialog DEF Screen!NoModal
    <3>2. CASE modal.rest # <<>>
      <4>1. modal.rest \in Seq(Postings) /\ Len(modal.rest) > 0
        BY <1>1, <3>2 DEF Previewing
      <4>2. modal'.kind = "next" /\ modal'.rest = modal.rest
        BY <1>5, <3>2
      <4> QED BY <4>1, <4>2 DEF Dialog, Picking, Previewing
    <3> QED BY <3>1, <3>2
  <2> QED BY <1>1, <1>2, <1>3, <2>1, <2>2, <2>3 DEF ScreenInv
<1> QED BY <1>4, <1>5 DEF Screen!Accept

LEMMA RemoveStep ==
  ASSUME ScreenInv, Screen!Delete
  PROVE  ScreenInv'
<1>1. ServerTypes /\ ListTypes /\ capture' = capture /\ commits' = commits /\ capture \in Captured /\ commits \in Nat
  BY DEF ScreenInv, Screen!Delete
<1>2. Dialog(modal, drafts, sel, audit, commits)'
  BY NoDialog DEF Screen!Delete, Screen!NoModal
<1>3. PICK down : \/ Screen!Logged(Screen!Remove(modal.named[1].id)) /\ Screen!Load(down)
                  \/ UNCHANGED <<Screen!server, Screen!lists, sel>>
  BY DEF Screen!Delete
<1>4. CASE Screen!Logged(Screen!Remove(modal.named[1].id)) /\ Screen!Load(down)
  <2>1. PICK i : i = modal.named[1].id
    OBVIOUS
  <2>2. Screen!Remove(i) /\ audit' = audit + 1
    BY <1>4, <2>1 DEF Screen!Logged
  <2>3. rows' \in [Numbers -> Drafted] /\ UNCHANGED <<chart, open, price>>
    BY <1>1, <2>2, RemoveIs DEF Screen!Remove
  <2>4. ServerTypes' /\ chart' = chart
    BY <1>1, <2>2, <2>3 DEF ServerTypes
  <2>5. ListTypes'
    BY <1>1, <1>4, <2>4, LoadIs
  <2> QED BY <1>1, <1>2, <2>4, <2>5 DEF ScreenInv
<1>5. CASE UNCHANGED <<Screen!server, Screen!lists, sel>>
  <2>1. ServerTypes' /\ ListTypes'
    BY <1>1, <1>5 DEF Screen!server, Screen!lists, ServerTypes, ListTypes
  <2> QED BY <1>1, <1>2, <2>1 DEF ScreenInv
<1> QED BY <1>3, <1>4, <1>5

LEMMA LeaveStep ==
  ASSUME ScreenInv, Screen!Leave
  PROVE  ScreenInv'
<1>1. UNCHANGED <<Screen!server, Screen!lists, sel, capture, commits>>
      /\ modal' = IF modal.kind = "preview" THEN modal.back ELSE Screen!NoModal
  BY DEF Screen!Leave
<1>2. ServerTypes' /\ ListTypes' /\ capture' \in Captured /\ commits' \in Nat
  BY <1>1 DEF ScreenInv, Screen!server, Screen!lists, ServerTypes, ListTypes
<1>3. modal' = Screen!NoModal \/ Splitting(modal')
  BY <1>1 DEF ScreenInv, Dialog, Previewing
<1>4. Dialog(modal, drafts, sel, audit, commits)'
  <2>1. CASE modal' = Screen!NoModal
    BY <2>1, NoDialog DEF Screen!NoModal
  <2>2. CASE Splitting(modal')
    BY <2>2 DEF Splitting, Dialog, Picking, Previewing
  <2> QED BY <1>3, <2>1, <2>2
<1> QED BY <1>2, <1>4 DEF ScreenInv

LEMMA ScreenBegins == Screen!Init => ScreenInv
<1> SUFFICES ASSUME Screen!Init
             PROVE  ScreenInv
  OBVIOUS
<1>1. Screen!NoRow \in Drafted
  BY DEF Screen!NoRow, Drafted
<1>2. ServerTypes
  BY <1>1, ScreenConstants DEF Screen!Init, ServerTypes, Screen!Ids, Numbers, Pairs
<1>3. ListTypes /\ capture \in Captured /\ commits \in Nat
  BY DEF Screen!Init, ListTypes, Screen!Blank, Captured
<1>4. Dialog(modal, drafts, sel, audit, commits)
  BY DEF Screen!Init, Screen!NoModal, Dialog, Picking, Previewing
<1> QED BY <1>2, <1>3, <1>4 DEF ScreenInv

LEMMA ScreenGoesOn == ScreenInv /\ [Screen!Next]_(Screen!vars) => ScreenInv'
<1> SUFFICES ASSUME ScreenInv, [Screen!Next]_(Screen!vars)
             PROVE  ScreenInv'
  OBVIOUS
<1>1. CASE UNCHANGED Screen!vars
  <2>1. ServerTypes' /\ ListTypes' /\ capture' \in Captured /\ commits' \in Nat /\ audit' = audit /\ audit \in Nat
    BY <1>1 DEF ScreenInv, Screen!vars, Screen!server, Screen!lists, ServerTypes, ListTypes
  <2>2. Dialog(modal, drafts, sel, audit, commits)'
    BY <1>1, <2>1, DialogStays DEF Screen!vars, Screen!lists
  <2> QED BY <2>1, <2>2 DEF ScreenInv
<1>2. CASE Screen!Next
  BY <1>2, ElsewhereStep, KeyStep, OpenStep, PickStep, CreateStep, AskStep, AcceptStep, RemoveStep, LeaveStep
     DEF Screen!Next
<1> QED BY <1>1, <1>2

(* What the properties of the screen say, of one step. *)
LEMMA ScreenAsShown ==
  ScreenInv /\ [Screen!Next]_(Screen!vars) => Screen!AppliesWhatWasShown
<1> SUFFICES ASSUME ScreenInv, [Screen!Next]_(Screen!vars), modal.kind = "preview", commits' > commits
             PROVE  commits = 0 /\ rows' = [rows EXCEPT ![modal.id] = modal.entry]
  BY DEF Screen!AppliesWhatWasShown
<1>1. commits \in Nat /\ commits' # commits
  BY DEF ScreenInv
<1>2. Screen!Accept
  BY <1>1 DEF Screen!Next, Screen!vars, Screen!Elsewhere, Screen!Refresh, Screen!NextVault, Screen!Move, Screen!ChooseSort,
              Screen!ConfirmSelected, Screen!OpenPicker, Screen!OpenDelete, Screen!OpenSplit, Screen!Pick,
              Screen!CreateAndPost, Screen!ApplySplit, Screen!PickCaptureAccount, Screen!SubmitCapture,
              Screen!Continue, Screen!Delete, Screen!Leave, Screen!Idle
<1> QED BY <1>2, CommitIs DEF Screen!Accept

LEMMA OneTitle ==
  ASSUME NEW d, NEW r \in Postings, r.id = d.id, modal.named = <<d>>,
         Screen!Preview(<<r>>, Screen!NoModal), modal'.kind = "preview"
  PROVE  <<modal'.request.id>> \o [k \in 1..Len(modal'.rest) |-> modal'.rest[k].id]
           = [k \in 1..Len(modal.named) |-> modal.named[k].id]
<1>1. modal'.request = r /\ modal'.rest = <<>>
  BY DEF Screen!Preview, Screen!NoModal
<1>2. [k \in 1..Len(modal.named) |-> modal.named[k].id] = <<d.id>>
  OBVIOUS
<1> QED BY <1>1, <1>2

LEMMA BatchTitle ==
  ASSUME NEW to \in SUBSET Pairs, modal.named \in Seq(Shots), Len(modal.named) > 0,
         Screen!Preview(Batched(modal.named, to), Screen!NoModal), modal'.kind = "preview"
  PROVE  <<modal'.request.id>> \o [k \in 1..Len(modal'.rest) |-> modal'.rest[k].id]
           = [k \in 1..Len(modal.named) |-> modal.named[k].id]
<1>1. PICK asks \in Seq(Postings) : asks = Batched(modal.named, to) /\ Len(asks) = Len(modal.named)
  BY BatchIs
<1>2. modal'.request = asks[1] /\ modal'.rest = Tail(asks)
  BY <1>1 DEF Screen!Preview, Screen!NoModal
<1>3. PICK n \in Nat \ {0} : n = Len(modal.named)
  OBVIOUS
<1>4. PICK ids : ids = [k \in 1..n |-> modal.named[k].id]
  OBVIOUS
<1>5. \A k \in 1..n : asks[k].id = ids[k]
  BY <1>1, <1>3, <1>4 DEF Batched, Screen!Categorize
<1>6. Tail(asks) \in Seq(Postings) /\ Len(Tail(asks)) = n - 1 /\ \A k \in 1..(n - 1) : Tail(asks)[k] = asks[k + 1]
  BY <1>1, <1>3
<1>7. PICK rest : rest = [k \in 1..Len(modal'.rest) |-> modal'.rest[k].id]
  OBVIOUS
<1>8. rest = [k \in 1..(n - 1) |-> ids[k + 1]]
  BY <1>2, <1>5, <1>6, <1>7
<1>9. modal'.request.id = ids[1]
  BY <1>2, <1>5
<1>10. <<ids[1]>> \o [k \in 1..(n - 1) |-> ids[k + 1]] = ids
  BY <1>4
<1> QED BY <1>3, <1>4, <1>7, <1>8, <1>9, <1>10

LEMMA TitleKept ==
  ScreenInv /\ [Screen!Next]_(Screen!vars) => Screen!KeepsTitle
<1> SUFFICES ASSUME ScreenInv, [Screen!Next]_(Screen!vars), modal.kind = "picker", modal'.kind = "preview"
             PROVE  <<modal'.request.id>> \o [k \in 1..Len(modal'.rest) |-> modal'.rest[k].id]
                      = [k \in 1..Len(modal.named) |-> modal.named[k].id]
  BY DEF Screen!KeepsTitle
<1>1. Screen!Pick \/ Screen!CreateAndPost
  BY DEF Screen!Next, Screen!vars, Screen!Elsewhere, Screen!Refresh, Screen!NextVault, Screen!Move, Screen!ChooseSort,
         Screen!ConfirmSelected, Screen!OpenPicker, Screen!OpenDelete, Screen!OpenSplit, Screen!Accept,
         Screen!ApplySplit, Screen!PickCaptureAccount, Screen!SubmitCapture,
         Screen!Continue, Screen!Delete, Screen!Leave, Screen!Idle, Screen!NoModal
<1>2. Picking(modal, drafts, sel) /\ ListTypes
  BY DEF ScreenInv, Dialog
<1>3. CASE Screen!Pick /\ modal.then = "post"
  <2>1. PICK c \in accounts, d \in Screen!Draft : Screen!Preview(<<Screen!Categorize(d.id, {c}, 0, FALSE)>>, Screen!NoModal)
    BY <1>3 DEF Screen!Pick
  <2>2. d \in Shots /\ modal.named = <<d>>
    BY <1>2, <1>3, SelectedIs DEF Picking
  <2>3. PICK r \in Postings : r = Screen!Categorize(d.id, {c}, 0, FALSE) /\ r.id = d.id
    <3>1. d.id \in Numbers
      BY <2>2 DEF Shots
    <3>2. Screen!Categorize(d.id, {c}, 0, FALSE).id = d.id
      BY DEF Screen!Categorize
    <3> QED BY <3>1, <3>2, AccountIs, CategorizeIs
  <2> QED BY <2>1, <2>2, <2>3, OneTitle
<1>4. CASE Screen!Pick /\ modal.then = "batch"
  <2>1. PICK c \in accounts : Screen!Preview(Batched(modal.named, {c}), Screen!NoModal)
    BY <1>4 DEF Screen!Pick, Batched
  <2> QED BY <1>2, <1>4, <2>1, AccountIs, BatchTitle DEF Picking
<1>5. CASE Screen!Pick /\ modal.then \notin {"post", "batch"}
  <2>1. modal' = Screen!NoModal
    BY <1>2, <1>5 DEF Screen!Pick, Picking
  <2> QED BY <2>1 DEF Screen!NoModal
<1>6. CASE Screen!CreateAndPost
  <2>1. sel < Len(drafts) /\ modal.named = <<drafts[sel + 1]>> /\ UNCHANGED <<drafts, sel>>
    BY <1>2, <1>6 DEF Picking, Screen!CreateAndPost, Screen!ReloadAccounts
  <2>2. PICK c \in Cats :
          /\ Screen!Vault # 0
          /\ IF sel' < Len(drafts')
             THEN Screen!Preview(<<Screen!Categorize(drafts'[sel' + 1].id, {<<Screen!Vault, c>>}, 0, FALSE)>>, Screen!NoModal)
             ELSE modal' = Screen!NoModal
    BY <1>6, Zenon DEF Screen!CreateAndPost
  <2>3. PICK d : d = drafts[sel + 1]
    OBVIOUS
  <2>4. d \in Shots /\ d.id \in Numbers
    <3>1. drafts \in Seq(Shots) /\ sel \in Nat
      BY <1>2 DEF ListTypes
    <3>2. d \in Shots
      BY <2>1, <2>3, <3>1
    <3> QED BY <3>2 DEF Shots
  <2>5. {<<Screen!Vault, c>>} \in SUBSET Pairs
    <3>1. Screen!Vault \in Vaults \cup {0}
      BY <1>2, VaultIs DEF Screen!Vault, ListTypes
    <3> QED BY <2>2, <3>1 DEF Pairs
  <2>6. PICK r \in Postings : r = Screen!Categorize(d.id, {<<Screen!Vault, c>>}, 0, FALSE) /\ r.id = d.id
    <3>1. Screen!Categorize(d.id, {<<Screen!Vault, c>>}, 0, FALSE).id = d.id
      BY DEF Screen!Categorize
    <3> QED BY <2>4, <2>5, <3>1, CategorizeIs
  <2>7. Screen!Preview(<<r>>, Screen!NoModal)
    BY <2>1, <2>2, <2>3, <2>6, Zenon
  <2> QED BY <2>1, <2>3, <2>6, <2>7, OneTitle
<1> QED BY <1>1, <1>3, <1>4, <1>5, <1>6

LEMMA ScreenMeans == ScreenInv => Screen!TypeOK
<1> SUFFICES ASSUME ScreenInv
             PROVE  Screen!TypeOK
  OBVIOUS
<1>1. \A i \in Screen!Ids : rows[i].status \in {"none", "draft", "posted"} /\ rows[i].vault \in Vaults \cup {0}
  <2>1. ASSUME NEW i \in Numbers PROVE rows[i].status \in {"none", "draft", "posted"} /\ rows[i].vault \in Vaults \cup {0}
    <3>1. rows[i] \in Drafted
      BY DEF ScreenInv, ServerTypes
    <3> QED BY <3>1 DEF Drafted
  <2> QED BY <2>1 DEF Screen!Ids, Numbers
<1>2. chart \subseteq Screen!Listable /\ accounts \subseteq chart /\ open \subseteq Vaults
  BY DEF ScreenInv, ServerTypes, ListTypes, Screen!Listable, Pairs
<1>3. modal.kind \in {"none", "picker", "delete", "split", "preview", "next"}
  BY DEF ScreenInv, Dialog
<1>4. sel \in Nat /\ at \in Nat /\ commits \in Nat
  BY DEF ScreenInv, ListTypes
<1> QED BY <1>1, <1>2, <1>3, <1>4 DEF Screen!TypeOK

ScreenHere == focus = "screen" => ScreenInv

LEMMA ScreenHolds == Edge => []ScreenHere
<1>1. Begins => ScreenHere
  BY BeginsWith, ScreenBegins DEF ScreenHere
<1>2. ScreenHere /\ [Work]_all => ScreenHere'
  <2> SUFFICES ASSUME ScreenHere, [Work]_all, focus' = "screen"
               PROVE  ScreenInv'
    BY DEF ScreenHere
  <2> QED BY OneAtATime, ScreenGoesOn DEF ScreenHere
<1> QED BY <1>1, <1>2, PTL DEF Edge

(***************************************************************************)
(* Sums, of the values that a function has on a finite set: they do not     *)
(* depend on the order in which the values are added.                      *)
(***************************************************************************)

One(S)     == CHOOSE i \in S : TRUE
Sums(f, D) == CHOOSE it : it = [S \in SUBSET D |-> IF S = {} THEN 0 ELSE f[One(S)] + it[S \ {One(S)}]]
Adds(g, f, D) ==
  /\ g \in [SUBSET D -> Int] /\ g[{}] = 0
  /\ \A S \in SUBSET D : S # {} => g[S] = f[One(S)] + g[S \ {One(S)}]

LEMMA Smaller1 ==
  ASSUME NEW D, IsFiniteSet(D), NEW S \in SUBSET D, NEW i \in S
  PROVE  /\ IsFiniteSet(S) /\ Cardinality(S) \in Nat /\ S \ {i} \in SUBSET D
         /\ Cardinality(S \ {i}) = Cardinality(S) - 1 /\ Cardinality(S \ {i}) \in Nat
<1>1. IsFiniteSet(S)
  BY FS_Subset
<1>2. IsFiniteSet(S \ {i}) /\ Cardinality(S \ {i}) = Cardinality(S) - 1
  BY <1>1, FS_RemoveElement
<1> QED BY <1>1, <1>2, FS_CardinalityType

LEMMA OneIs == ASSUME NEW S, S # {} PROVE One(S) \in S
BY DEF One

(* A sum of so many values, for every number of them. *)
LEMMA SumsExist ==
  ASSUME NEW D, IsFiniteSet(D), NEW f \in [D -> Int]
  PROVE  \E g : Adds(g, f, D)
<1> DEFINE Few(n) == {S \in SUBSET D : Cardinality(S) <= n}
           Goes(n) == \E g \in [Few(n) -> Int] :
                        /\ {} \in Few(n) => g[{}] = 0
                        /\ \A S \in Few(n) : S # {} => g[S] = f[One(S)] + g[S \ {One(S)}]
           Fails == {n \in Nat : ~Goes(n)}
<1>0. \A S \in SUBSET D : Cardinality(S) \in Nat /\ (Cardinality(S) = 0 <=> S = {})
  BY FS_Subset, FS_CardinalityType, FS_EmptySet
<1>1. Goes(0)
  <2> DEFINE g0 == [S \in Few(0) |-> 0]
  <2>1. \A S \in Few(0) : S = {}
    BY <1>0
  <2>2. g0 \in [Few(0) -> Int] /\ ({} \in Few(0) => g0[{}] = 0)
    OBVIOUS
  <2> QED BY <2>1, <2>2
<1>2. ASSUME NEW n \in Nat, Goes(n) PROVE Goes(n + 1)
  <2>1. PICK g \in [Few(n) -> Int] :
                        /\ {} \in Few(n) => g[{}] = 0
                        /\ \A S \in Few(n) : S # {} => g[S] = f[One(S)] + g[S \ {One(S)}]
    BY <1>2
  <2>2. \A S \in Few(n + 1) : S # {} => S \ {One(S)} \in Few(n) /\ One(S) \in D
    <3>1. ASSUME NEW S \in Few(n + 1), S # {} PROVE S \ {One(S)} \in Few(n) /\ One(S) \in D
      <4>1. One(S) \in S
        BY <3>1, OneIs
      <4>2. S \in SUBSET D /\ Cardinality(S) \in Nat /\ Cardinality(S) <= n + 1
        BY <1>0
      <4>3. S \ {One(S)} \in SUBSET D /\ Cardinality(S \ {One(S)}) = Cardinality(S) - 1
        BY <4>1, <4>2, Smaller1
      <4> QED BY <4>1, <4>2, <4>3
    <3> QED BY <3>1
  <2>3. Few(n) \subseteq Few(n + 1) /\ {} \in Few(n)
    <3>1. \A S \in SUBSET D : Cardinality(S) <= n => Cardinality(S) <= n + 1
      BY <1>0
    <3> QED BY <3>1, <1>0
  <2> DEFINE h == [S \in Few(n + 1) |-> IF S = {} THEN 0 ELSE f[One(S)] + g[S \ {One(S)}]]
  <2>4. h \in [Few(n + 1) -> Int] /\ h[{}] = 0
    BY <2>1, <2>2, <2>3
  <2>5. \A S \in Few(n) : h[S] = g[S]
    BY <2>1, <2>3
  <2>6. \A S \in Few(n + 1) : S # {} => h[S] = f[One(S)] + h[S \ {One(S)}]
    <3> HIDE DEF Few
    <3> QED BY <2>2, <2>5
  <2> HIDE DEF h, Few
  <2> QED BY <2>4, <2>6
<1>3. Fails = {}
  <2> SUFFICES ASSUME Fails # {} PROVE FALSE
    OBVIOUS
  <2>1. PICK n \in Fails : \A m \in Fails : n <= m
    BY LeastNumber
  <2>2. n \in Nat /\ ~Goes(n)
    BY <2>1
  <2>5. n # 0
    <3> HIDE DEF Goes
    <3> QED BY <2>2, <1>1
  <2>3. n - 1 \in Nat /\ ~(n <= n - 1) /\ (n - 1) + 1 = n
    BY <2>2, <2>5
  <2>4. Goes(n - 1)
    BY <2>1, <2>3
  <2> HIDE DEF Goes
  <2> QED BY <2>2, <2>3, <2>4, <1>2
<1>4. Cardinality(D) \in Nat /\ Few(Cardinality(D)) = SUBSET D
  BY FS_CardinalityType, FS_Subset
<1>5. Goes(Cardinality(D))
  BY <1>3, <1>4
<1> HIDE DEF Few
<1> QED BY <1>4, <1>5 DEF Adds

LEMMA SumsAre ==
  ASSUME NEW D, IsFiniteSet(D), NEW f \in [D -> Int]
  PROVE  Adds(Sums(f, D), f, D)
<1>1. PICK g : Adds(g, f, D)
  BY SumsExist
<1>2. g = [S \in SUBSET D |-> IF S = {} THEN 0 ELSE f[One(S)] + g[S \ {One(S)}]]
  <2>1. \A S \in SUBSET D : g[S] = IF S = {} THEN 0 ELSE f[One(S)] + g[S \ {One(S)}]
    BY <1>1 DEF Adds
  <2> QED BY <1>1, <2>1 DEF Adds
<1>3. PICK k : k = Sums(f, D)
  OBVIOUS
<1>4. k = [S \in SUBSET D |-> IF S = {} THEN 0 ELSE f[One(S)] + k[S \ {One(S)}]]
  BY <1>2, <1>3 DEF Sums
<1>5. /\ DOMAIN k = SUBSET D /\ k[{}] = 0
      /\ \A S \in SUBSET D : S # {} => k[S] = f[One(S)] + k[S \ {One(S)}]
  <2>1. DOMAIN k = SUBSET D /\ \A S \in SUBSET D : k[S] = IF S = {} THEN 0 ELSE f[One(S)] + k[S \ {One(S)}]
    BY <1>4
  <2> QED BY <2>1
<1>6. \A S \in SUBSET D : k[S] \in Int
  <2> DEFINE Odd == {n \in Nat : \E S \in SUBSET D : Cardinality(S) = n /\ k[S] \notin Int}
  <2>1. Odd = {}
    <3> SUFFICES ASSUME Odd # {} PROVE FALSE
      OBVIOUS
    <3>1. PICK n \in Odd : \A m \in Odd : n <= m
      BY LeastNumber
    <3>2. PICK S \in SUBSET D : Cardinality(S) = n /\ k[S] \notin Int
      BY <3>1
    <3>3. S # {} /\ n \in Nat
      <4>1. k[{}] \in Int
        BY <1>5
      <4> QED BY <3>1, <3>2, <4>1
    <3>4. PICK i : i = One(S)
      OBVIOUS
    <3>5. i \in S /\ i \in D
      BY <3>3, <3>4, OneIs
    <3>6. Cardinality(S \ {i}) = n - 1 /\ n - 1 \in Nat /\ S \ {i} \in SUBSET D
      <4>1. Cardinality(S \ {i}) = Cardinality(S) - 1 /\ Cardinality(S \ {i}) \in Nat /\ S \ {i} \in SUBSET D
        BY <3>5, Smaller1
      <4> QED BY <3>2, <4>1
    <3>7. k[S \ {i}] \in Int
      <4>1. ~(n <= n - 1)
        BY <3>3
      <4> QED BY <4>1, <3>1, <3>6
    <3>8. k[S] = f[i] + k[S \ {i}] /\ f[i] \in Int
      BY <1>5, <3>3, <3>4, <3>5
    <3> QED BY <3>2, <3>7, <3>8
  <2>2. \A S \in SUBSET D : Cardinality(S) \in Nat
    BY FS_Subset, FS_CardinalityType
  <2> QED BY <2>1, <2>2
<1>7. k \in [SUBSET D -> Int]
  BY <1>4, <1>6
<1> QED BY <1>3, <1>5, <1>7 DEF Adds

(* Any value may be added last. *)
LEMMA AddLast ==
  ASSUME NEW D, IsFiniteSet(D), NEW f \in [D -> Int], NEW g, Adds(g, f, D), NEW T \in SUBSET D, NEW j \in T
  PROVE  g[T] = f[j] + g[T \ {j}]
<1> DEFINE Odd == {n \in Nat : \E S \in SUBSET D : Cardinality(S) = n /\ \E i \in S : g[S] # f[i] + g[S \ {i}]}
<1>1. Odd = {}
  <2> SUFFICES ASSUME Odd # {} PROVE FALSE
    OBVIOUS
  <2>1. PICK n \in Odd : \A m \in Odd : n <= m
    BY LeastNumber
  <2>2. PICK S \in SUBSET D : Cardinality(S) = n /\ \E i \in S : g[S] # f[i] + g[S \ {i}]
    BY <2>1
  <2>0. PICK i \in S : g[S] # f[i] + g[S \ {i}]
    BY <2>2
  <2>3. PICK o : o = One(S)
    OBVIOUS
  <2>4. n \in Nat /\ o \in S /\ g[S] = f[o] + g[S \ {o}] /\ i # o
    BY <2>0, <2>1, <2>2, <2>3, OneIs DEF Adds
  <2>5. /\ Cardinality(S \ {i}) = n - 1 /\ n - 1 \in Nat /\ S \ {i} \in SUBSET D
        /\ Cardinality(S \ {o}) = n - 1 /\ S \ {o} \in SUBSET D /\ ~(n <= n - 1)
    <3>1. Cardinality(S \ {i}) = Cardinality(S) - 1 /\ Cardinality(S \ {i}) \in Nat /\ S \ {i} \in SUBSET D
      BY Smaller1
    <3>2. Cardinality(S \ {o}) = Cardinality(S) - 1 /\ S \ {o} \in SUBSET D
      BY <2>4, Smaller1
    <3> QED BY <2>2, <2>4, <3>1, <3>2
  <2>6. n - 1 \notin Odd
    BY <2>1, <2>5
  <2>7. \A Q \in SUBSET D : \A u_ \in Q : Cardinality(Q) = n - 1 => g[Q] = f[u_] + g[Q \ {u_}]
    BY <2>5, <2>6
  <2> HIDE DEF Odd
  <2>8. g[S \ {i}] = f[o] + g[(S \ {i}) \ {o}] /\ g[S \ {o}] = f[i] + g[(S \ {o}) \ {i}]
    BY <2>0, <2>2, <2>4, <2>5, <2>7
  <2>9. PICK rest : rest = g[(S \ {i}) \ {o}]
    OBVIOUS
  <2>10. (S \ {o}) \ {i} = (S \ {i}) \ {o} /\ (S \ {i}) \ {o} \in SUBSET D
    BY <2>2
  <2>11. rest \in Int /\ f[i] \in Int /\ f[o] \in Int
    BY <2>2, <2>4, <2>9, <2>10 DEF Adds
  <2>12. g[S \ {i}] = f[o] + rest /\ g[S \ {o}] = f[i] + rest
    BY <2>8, <2>9, <2>10
  <2> QED BY <2>0, <2>4, <2>11, <2>12
<1>2. Cardinality(T) \in Nat
  BY FS_Subset, FS_CardinalityType
<1> QED BY <1>1, <1>2

(* Functions that agree have equal sums. *)
LEMMA SameSums ==
  ASSUME NEW D, IsFiniteSet(D), NEW f \in [D -> Int], NEW g, Adds(g, f, D),
         NEW E \in SUBSET D, NEW h \in [E -> Int], NEW k, Adds(k, h, E), \A i \in E : f[i] = h[i]
  PROVE  k[E] = g[E]
<1> DEFINE Odd == {n \in Nat : \E S \in SUBSET E : Cardinality(S) = n /\ g[S] # k[S]}
<1>1. Odd = {}
  <2> SUFFICES ASSUME Odd # {} PROVE FALSE
    OBVIOUS
  <2>1. PICK n \in Odd : \A m \in Odd : n <= m
    BY LeastNumber
  <2>2. PICK S \in SUBSET E : Cardinality(S) = n /\ g[S] # k[S]
    BY <2>1
  <2>3. PICK o : o = One(S)
    OBVIOUS
  <2>4. n \in Nat /\ S # {} /\ o \in S /\ S \in SUBSET D
    BY <2>1, <2>2, <2>3, OneIs DEF Adds
  <2>5. g[S] = f[o] + g[S \ {o}] /\ k[S] = h[o] + k[S \ {o}] /\ f[o] = h[o]
    BY <2>2, <2>3, <2>4 DEF Adds
  <2>6. Cardinality(S \ {o}) = n - 1 /\ n - 1 \in Nat /\ S \ {o} \in SUBSET E /\ ~(n <= n - 1)
    <3>1. IsFiniteSet(E)
      BY FS_Subset
    <3>2. Cardinality(S \ {o}) = Cardinality(S) - 1 /\ Cardinality(S \ {o}) \in Nat /\ S \ {o} \in SUBSET E
      BY <2>4, <3>1, Smaller1
    <3> QED BY <2>2, <2>4, <3>2
  <2>7. g[S \ {o}] = k[S \ {o}]
    BY <2>1, <2>6
  <2> QED BY <2>2, <2>5, <2>7
<1>2. Cardinality(E) \in Nat
  BY FS_Subset, FS_CardinalityType
<1> QED BY <1>1, <1>2

LEMMA SumFunctionIs == ASSUME NEW f PROVE Form!SumFunction(f) = Sums(f, DOMAIN f)[DOMAIN f]
BY DEF Form!SumFunction, Form!SumFunctionOnSet, Form!FoldFunctionOnSet, Form!MapThenFoldSet, Sums, One

(* The sum of all values is one of them and the sum of the others. *)
LEMMA SumSplits ==
  ASSUME NEW D, IsFiniteSet(D), NEW f \in [D -> Int], NEW j \in D, NEW h \in [D \ {j} -> Int],
         \A i \in D \ {j} : h[i] = f[i]
  PROVE  Form!SumFunction(h) \in Int /\ Form!SumFunction(f) = f[j] + Form!SumFunction(h)
<1>1. IsFiniteSet(D \ {j}) /\ D \ {j} \in SUBSET D /\ D \in SUBSET D
  BY FS_Subset
<1>2. PICK g : g = Sums(f, D) /\ Adds(g, f, D)
  BY SumsAre
<1>3. PICK k : k = Sums(h, D \ {j}) /\ Adds(k, h, D \ {j})
  BY <1>1, SumsAre
<1>4. g[D] = f[j] + g[D \ {j}]
  BY <1>1, <1>2, AddLast
<1>5. k[D \ {j}] = g[D \ {j}]
  BY <1>1, <1>2, <1>3, SameSums
<1>6. Form!SumFunction(f) = g[D] /\ Form!SumFunction(h) = k[D \ {j}]
  BY <1>2, <1>3, SumFunctionIs
<1>7. k[D \ {j}] \in Int
  BY <1>3 DEF Adds
<1> QED BY <1>4, <1>5, <1>6, <1>7

(***************************************************************************)
(* Forms, of any kinds and with any amounts.  A preview says what its token *)
(* is of, or a form under review takes no text; and the split editor edits  *)
(* the row that was asked for, or adds one at the end.                     *)
(***************************************************************************)

Asked == [kind : Kinds, fields : 0..MaxFields, mapped : BOOLEAN]

Reviewed ==
  /\ previewed = {} \/ \E s \in previewed : previewed = {s}
  /\ kind \in {"csv", "tracker"} =>
       /\ \A s \in previewed : s.effect = Form!Effect
       /\ ~reviewing => previewed = {}
  /\ kind \in Form!Tokened =>
       \A s \in previewed : \E r \in Asked, n \in 0..MaxBooks :
            s = [effect |-> [request |-> r, books |-> n], token |-> <<r, n>>]
  /\ kind = "split" => previewed = {}

Edited ==
  /\ splits \in Seq(Typed \ {0}) /\ Len(splits) <= MaxSplits /\ total \in {1, 2}
  /\ step \in {"list", "category", "amount"} /\ editing \in 0..MaxSplits
  /\ step = "category" => editing = 0 /\ asked = Len(splits) + 1 /\ Len(splits) < MaxSplits
  /\ step = "amount" =>
       \/ editing = 0 /\ asked = Len(splits) + 1 /\ Len(splits) < MaxSplits
       \/ editing \in DOMAIN splits /\ asked = editing

FormInv ==
  /\ books \in 0..MaxBooks /\ kind \in Kinds /\ fields \in 0..MaxFields /\ mapped \in BOOLEAN
  /\ applied = {} \/ \E e \in applied : applied = {e}
  /\ Reviewed /\ Edited

LEMMA FormBegins == Form!Init => FormInv
<1> SUFFICES ASSUME Form!Init
             PROVE  FormInv
  OBVIOUS
<1>1. splits = <<>> /\ <<>> \in Seq(Typed \ {0}) /\ Len(<<>>) = 0 /\ 0 \in 0..MaxSplits /\ 0 \in 0..MaxBooks /\ 0 \in 0..MaxFields
  BY FormConstants DEF Form!Init
<1>2. Edited
  BY <1>1, FormConstants DEF Form!Init, Edited
<1>3. Reviewed
  BY DEF Form!Init, Reviewed
<1> QED BY <1>1, <1>2, <1>3 DEF Form!Init, FormInv

Pressed == FormInv /\ UNCHANGED <<splits, total, step, editing, asked, inputs>>

LEMMA EditorStays == Pressed => Edited'
BY DEF Pressed, FormInv, Edited

LEMMA FormTypes ==
  ASSUME FormInv
  PROVE  Form!Request \in Asked /\ Form!Effect = [request |-> Form!Request, books |-> IF kind \in Form!Tokened THEN books ELSE 0]
BY DEF FormInv, Form!Request, Form!Effect, Asked

LEMMA PreviewsStep ==
  ASSUME FormInv, \/ Form!BooksChange \/ Form!Type \/ Form!PreviewFile \/ Form!ReviewTracker \/ Form!PreviewChange
                  \/ Form!ConfirmImport \/ Form!ConfirmChange \/ Form!Back
  PROVE  FormInv' /\ (applied' # {} => \E s \in previewed : applied' = {s.effect})
<1>1. Pressed
  BY DEF Pressed, Form!BooksChange, Form!Type, Form!PreviewFile, Form!ReviewTracker, Form!PreviewChange,
         Form!ConfirmImport, Form!ConfirmChange, Form!Back, Form!editor
<1>2. Edited'
  BY <1>1, EditorStays
<1>3. Form!Request \in Asked /\ Form!Effect = [request |-> Form!Request, books |-> IF kind \in Form!Tokened THEN books ELSE 0]
  BY FormTypes
<1>4. Reviewed /\ kind \in Kinds /\ books \in 0..MaxBooks /\ fields \in 0..MaxFields /\ mapped \in BOOLEAN
  BY DEF FormInv
<1>5. CASE Form!BooksChange
  <2>1. books' \in 0..MaxBooks /\ applied' = {} /\ UNCHANGED Form!form
    BY <1>4, <1>5, FormConstants DEF Form!BooksChange
  <2>2. kind \notin Form!Tokened => Form!Effect' = Form!Effect
    BY <2>1 DEF Form!Effect, Form!Request, Form!form
  <2>3. Reviewed'
    <3>1. kind \in {"csv", "tracker"} => kind \notin Form!Tokened
      BY DEF Form!Tokened
    <3> QED BY <1>4, <2>1, <2>2, <3>1 DEF Reviewed, Form!form
  <2> QED BY <1>2, <1>4, <2>1, <2>3 DEF FormInv, Form!form
<1>6. CASE Form!Type
  <2>1. previewed = {} /\ previewed' = {} /\ applied' = {} /\ kind' = kind /\ books' = books
    BY <1>4, <1>6, FormConstants DEF Form!Type, Form!MayEdit, Reviewed, Form!Tokened
  <2>2. fields' \in 0..MaxFields /\ mapped' \in BOOLEAN
    BY <1>4, <1>6 DEF Form!Type, Form!Fields
  <2> QED BY <1>2, <1>4, <2>1, <2>2 DEF FormInv, Reviewed
<1>7. CASE Form!PreviewFile
  <2>1. kind = "csv" /\ kind' = kind /\ books' = books /\ fields' = fields /\ applied' = {} /\ mapped' \in BOOLEAN
    BY <1>4, <1>7 DEF Form!PreviewFile
  <2>2. \/ previewed' = {[effect |-> Form!Effect, token |-> <<>>]} /\ reviewing' = TRUE /\ mapped' = mapped
        \/ previewed' = {}
    BY <1>7 DEF Form!PreviewFile
  <2>3. Reviewed'
    <3>1. CASE previewed' = {}
      BY <2>1, <3>1 DEF Reviewed, Form!Tokened
    <3>2. CASE previewed' = {[effect |-> Form!Effect, token |-> <<>>]} /\ reviewing' = TRUE /\ mapped' = mapped
      <4>1. Form!Effect' = Form!Effect
        BY <2>1, <3>2 DEF Form!Effect, Form!Request
      <4> QED BY <2>1, <3>2, <4>1 DEF Reviewed, Form!Tokened
    <3> QED BY <2>2, <3>1, <3>2
  <2> QED BY <1>2, <1>4, <2>1, <2>3 DEF FormInv
<1>8. CASE Form!ReviewTracker
  <2>1. /\ kind = "tracker" /\ kind' = kind /\ books' = books /\ fields' = fields /\ applied' = {} /\ mapped' = mapped
        /\ previewed' = {[effect |-> Form!Effect, token |-> <<>>]} /\ reviewing' = TRUE
    BY <1>8 DEF Form!ReviewTracker
  <2>2. Form!Effect' = Form!Effect
    BY <2>1 DEF Form!Effect, Form!Request
  <2>3. Reviewed'
    BY <2>1, <2>2 DEF Reviewed, Form!Tokened
  <2> QED BY <1>2, <1>4, <2>1, <2>3 DEF FormInv
<1>9. CASE Form!PreviewChange
  <2>1. /\ kind \in Form!Tokened /\ kind' = kind /\ books' = books /\ fields' = fields /\ mapped' = mapped /\ applied' = {}
        /\ previewed' = {} \/ previewed' = {[effect |-> Form!Effect, token |-> Form!Token]}
    BY <1>9 DEF Form!PreviewChange
  <2>2. Form!Effect = [request |-> Form!Request, books |-> books] /\ Form!Token = <<Form!Request, books>>
    BY <1>3, <2>1 DEF Form!Token
  <2>3. Reviewed'
    BY <1>3, <1>4, <2>1, <2>2 DEF Reviewed, Form!Tokened
  <2> QED BY <1>2, <1>4, <2>1, <2>3 DEF FormInv
<1>10. CASE Form!ConfirmImport
  <2>1. /\ kind \in {"csv", "tracker"} /\ reviewing /\ previewed # {}
        /\ kind' = kind /\ books' = books /\ fields' = fields /\ mapped' = mapped
        /\ \/ applied' = {Form!Effect} /\ previewed' = previewed /\ reviewing' = reviewing
           \/ applied' = {} /\ previewed' = {}
    BY <1>10 DEF Form!ConfirmImport
  <2>2. PICK s \in previewed : s.effect = Form!Effect
    BY <1>4, <2>1 DEF Reviewed
  <2>3. Form!Effect' = Form!Effect
    BY <2>1 DEF Form!Effect, Form!Request
  <2>4. Reviewed'
    BY <1>4, <2>1, <2>3 DEF Reviewed, Form!Tokened
  <2>5. applied' # {} => applied' = {s.effect}
    BY <2>1, <2>2
  <2> QED BY <1>2, <1>4, <2>1, <2>2, <2>4, <2>5 DEF FormInv
<1>11. CASE Form!ConfirmChange
  <2>1. /\ kind \in Form!Tokened /\ previewed # {} /\ previewed' = {}
        /\ kind' = kind /\ books' = books /\ fields' = fields /\ mapped' = mapped
        /\ \/ applied' = {Form!Effect} /\ \A s \in previewed : s.token = Form!Token
           \/ applied' = {}
    BY <1>11 DEF Form!ConfirmChange
  <2>2. PICK s \in previewed : TRUE
    BY <2>1
  <2>3. PICK r \in Asked, n \in 0..MaxBooks : s = [effect |-> [request |-> r, books |-> n], token |-> <<r, n>>]
    BY <1>4, <2>1, <2>2 DEF Reviewed
  <2>4. s.effect = [request |-> r, books |-> n] /\ s.token = <<r, n>>
    BY <2>3
  <2>5. Form!Effect = [request |-> Form!Request, books |-> books] /\ Form!Token = <<Form!Request, books>>
    BY <1>3, <2>1 DEF Form!Token
  <2>6. applied' # {} => applied' = {s.effect}
    <3> SUFFICES ASSUME applied' # {} PROVE s.effect = Form!Effect /\ applied' = {Form!Effect}
      OBVIOUS
    <3>1. s.token = Form!Token /\ applied' = {Form!Effect}
      BY <2>1, <2>2
    <3>2. r = Form!Request /\ n = books
      BY <2>4, <2>5, <3>1
    <3> QED BY <2>4, <2>5, <3>1, <3>2
  <2>7. Reviewed'
    BY <2>1 DEF Reviewed, Form!Tokened
  <2> QED BY <1>2, <1>4, <2>1, <2>2, <2>6, <2>7 DEF FormInv
<1>12. CASE Form!Back
  <2>1. previewed' = {} /\ applied' = {} /\ kind' = kind /\ books' = books /\ fields' = fields /\ mapped' = mapped
    BY <1>12 DEF Form!Back
  <2>2. Reviewed'
    BY <2>1 DEF Reviewed
  <2> QED BY <1>2, <1>4, <2>1, <2>2 DEF FormInv
<1> QED BY <1>5, <1>6, <1>7, <1>8, <1>9, <1>10, <1>11, <1>12

LEMMA FormStays ==
  ASSUME FormInv, UNCHANGED <<books, kind, fields, mapped, previewed, reviewing, done, applied>>
  PROVE  Reviewed' /\ (Edited' => FormInv')
<1>1. Form!Effect' = Form!Effect
  BY DEF Form!Effect, Form!Request
<1> QED BY <1>1, Zenon DEF FormInv, Reviewed

(* A row changes only where the human means it; what is sent adds up. *)
LEMMA EditorStep ==
  ASSUME FormInv, \/ Form!AddRow \/ Form!ChooseCategory \/ Form!EditRow \/ Form!RemoveRow
                  \/ Form!EnterAmount \/ Form!LeaveStep
  PROVE  /\ FormInv' /\ inputs' = inputs /\ applied' = applied
         /\ step = "amount" /\ splits' # splits => \A k \in DOMAIN splits : k # asked => splits'[k] = splits[k]
<1>1. /\ UNCHANGED <<books, kind, fields, mapped, previewed, reviewing, done, applied>>
      /\ total' = total /\ inputs' = inputs
  BY DEF Form!AddRow, Form!ChooseCategory, Form!EditRow, Form!RemoveRow, Form!EnterAmount, Form!LeaveStep,
         Form!Still, Form!form
<1>2. Edited /\ Len(splits) \in Nat /\ MaxSplits \in Nat /\ DOMAIN splits = 1..Len(splits)
  BY FormConstants DEF FormInv, Edited
<1> DEFINE Kept == step = "amount" /\ splits' # splits => \A k \in DOMAIN splits : k # asked => splits'[k] = splits[k]
<1> SUFFICES Edited' /\ Kept
  BY <1>1, FormStays
<1>3. CASE Form!AddRow
  BY <1>1, <1>2, <1>3 DEF Form!AddRow, Edited
<1>4. CASE Form!ChooseCategory
  BY <1>1, <1>2, <1>4 DEF Form!ChooseCategory, Edited
<1>5. CASE Form!EditRow
  BY <1>1, <1>2, <1>5 DEF Form!EditRow, Edited
<1>6. CASE Form!RemoveRow
  <2>1. PICK k \in 1..Len(splits) :
          splits' = [i \in 1..Len(splits) - 1 |-> IF i < k THEN splits[i] ELSE splits[i + 1]]
    BY <1>2, <1>6 DEF Form!RemoveRow
  <2>2. \A i \in 1..Len(splits) - 1 : splits'[i] \in Typed \ {0}
    <3>1. ASSUME NEW i \in 1..Len(splits) - 1 PROVE splits'[i] \in Typed \ {0}
      <4>1. i \in 1..Len(splits) /\ i + 1 \in 1..Len(splits)
        BY <1>2
      <4>2. splits[i] \in Typed \ {0} /\ splits[i + 1] \in Typed \ {0}
        BY <1>2, <4>1 DEF Edited
      <4> QED BY <2>1, <4>2
    <3> QED BY <3>1
  <2>3. Len(splits) - 1 \in Nat
    BY <1>2, <2>1
  <2>4. splits' \in Seq(Typed \ {0}) /\ Len(splits') = Len(splits) - 1
    BY <2>1, <2>2, <2>3
  <2>5. step = "list" /\ step' = step /\ editing' = editing
    BY <1>6 DEF Form!RemoveRow
  <2> QED BY <1>1, <1>2, <2>3, <2>4, <2>5 DEF Edited
<1>7. CASE Form!EnterAmount
  <2>1. PICK n \in Typed \ {0} : splits' = IF editing # 0 THEN [splits EXCEPT ![editing] = n] ELSE Append(splits, n)
    BY <1>7 DEF Form!EnterAmount
  <2>2. step = "amount" /\ step' = "list" /\ editing' = 0 /\ asked' = asked
    BY <1>7 DEF Form!EnterAmount
  <2>3. CASE editing = 0
    <3>1. splits' = Append(splits, n) /\ Len(splits) < MaxSplits
      BY <1>2, <2>1, <2>2, <2>3 DEF Edited
    <3>2. splits' \in Seq(Typed \ {0}) /\ Len(splits') = Len(splits) + 1
      BY <1>2, <3>1 DEF Edited
    <3>3. \A k \in DOMAIN splits : splits'[k] = splits[k]
      BY <1>2, <3>1 DEF Edited
    <3> QED BY <1>1, <1>2, <2>2, <3>1, <3>2, <3>3 DEF Edited
  <2>4. CASE editing # 0
    <3>1. splits' = [splits EXCEPT ![editing] = n] /\ editing \in DOMAIN splits /\ asked = editing
      BY <1>2, <2>1, <2>2, <2>4 DEF Edited
    <3>2. splits' \in Seq(Typed \ {0}) /\ Len(splits') = Len(splits)
      BY <1>2, <3>1 DEF Edited
    <3>3. \A k \in DOMAIN splits : k # asked => splits'[k] = splits[k]
      BY <3>1
    <3> QED BY <1>1, <1>2, <2>2, <3>2, <3>3 DEF Edited
  <2> QED BY <2>3, <2>4
<1>8. CASE Form!LeaveStep
  BY <1>1, <1>2, <1>8 DEF Form!LeaveStep, Edited
<1> QED BY <1>3, <1>4, <1>5, <1>6, <1>7, <1>8

LEMMA SplitsAddUp ==
  ASSUME Edited, Form!Acceptable
  PROVE  Form!ResolveSplits(total, splits) # Refused
<1>1. PICK n : n = Len(splits)
  OBVIOUS
<1>2. /\ n \in Nat \ {0} /\ DOMAIN splits = 1..n /\ n \in 1..n /\ total \in {1, 2} /\ splits # <<>>
      /\ \A i \in 1..n : splits[i] \in Typed \ {0}
      /\ \A i \in 1..n - 1 : splits[i] # Unstated
  BY <1>1 DEF Edited, Form!Acceptable
<1>3. PICK stated : stated = [i \in {k \in DOMAIN splits : splits[k] # Unstated} |-> splits[i]]
  OBVIOUS
<1>4. PICK sum_ : sum_ = Form!SumFunction(stated)
  OBVIOUS
<1>5. IF splits[n] = Unstated THEN sum_ < total ELSE sum_ = total
  BY <1>1, <1>3, <1>4 DEF Form!Acceptable
<1>6. PICK every : every = [i \in DOMAIN splits |-> IF splits[i] = Unstated THEN total - sum_ ELSE splits[i]]
  OBVIOUS
<1>7. IsFiniteSet(1..n)
  BY <1>2, FS_Interval
<1>8. \A i \in 1..n : splits[i] # Unstated => splits[i] \in Int /\ splits[i] # 0 /\ every[i] = splits[i]
  BY <1>2, <1>6, FormConstants
<1>9. /\ every \in [1..n -> Int] /\ (\A i \in 1..n : every[i] # 0) /\ Form!SumFunction(every) = total
      /\ ~(splits[n] = Unstated /\ total - sum_ < 0)
  <2>1. CASE splits[n] = Unstated
    <3>1. {k \in DOMAIN splits : splits[k] # Unstated} = (1..n) \ {n}
      BY <1>2, <2>1
    <3>2. stated \in [(1..n) \ {n} -> Int] /\ \A i \in (1..n) \ {n} : stated[i] = every[i]
      BY <1>3, <1>8, <3>1
    <3> DEFINE other == [i \in 1..n |-> IF i = n THEN 0 ELSE stated[i]]
    <3>3. other \in [1..n -> Int] /\ \A i \in (1..n) \ {n} : stated[i] = other[i]
      BY <3>2
    <3>4. sum_ \in Int
      <4> HIDE DEF other
      <4>1. PICK D : D = 1..n
        OBVIOUS
      <4>2. IsFiniteSet(D) /\ other \in [D -> Int] /\ n \in D /\ stated \in [D \ {n} -> Int] /\ \A i \in D \ {n} : stated[i] = other[i]
        BY <1>2, <1>7, <3>2, <3>3, <4>1
      <4>3. Form!SumFunction(stated) \in Int
        BY <4>2, SumSplits
      <4> QED BY <1>4, <4>3
    <3>5. every[n] = total - sum_ /\ every \in [1..n -> Int]
      <4>1. \A i \in 1..n : every[i] \in Int
        BY <1>2, <1>6, <1>8, <3>4
      <4>2. DOMAIN every = 1..n
        BY <1>2, <1>6
      <4>3. every = [i \in 1..n |-> every[i]]
        BY <1>6, <4>2
      <4>4. every \in [1..n -> Int]
        BY <4>1, <4>3
      <4>5. every[n] = total - sum_
        BY <1>2, <1>6, <2>1
      <4> QED BY <4>4, <4>5
    <3>6. Form!SumFunction(every) = every[n] + sum_
      <4>1. PICK D : D = 1..n
        OBVIOUS
      <4>2. IsFiniteSet(D) /\ every \in [D -> Int] /\ n \in D /\ stated \in [D \ {n} -> Int] /\ \A i \in D \ {n} : stated[i] = every[i]
        BY <1>2, <1>7, <3>2, <3>5, <4>1
      <4>3. Form!SumFunction(every) = every[n] + Form!SumFunction(stated)
        BY <4>2, SumSplits
      <4> QED BY <1>4, <4>3
    <3>7. sum_ < total /\ total \in Int
      BY <1>2, <1>5, <2>1
    <3>8. ASSUME NEW i \in 1..n PROVE every[i] # 0
      <4>1. CASE i = n
        BY <3>4, <3>5, <3>7, <4>1
      <4>2. CASE i # n
        BY <1>8, <3>1, <4>2, <1>2
      <4> QED BY <4>1, <4>2
    <3> QED BY <3>4, <3>5, <3>6, <3>7, <3>8
  <2>2. CASE splits[n] # Unstated
    <3>1. \A i \in 1..n : splits[i] # Unstated
      BY <1>2, <2>2
    <3>2. every = stated
      <4>1. {k \in DOMAIN splits : splits[k] # Unstated} = DOMAIN splits
        BY <1>2, <3>1
      <4> QED BY <1>2, <1>3, <1>6, <3>1, <4>1
    <3>3. every \in [1..n -> Int]
      BY <1>2, <1>6, <1>8, <3>1
    <3> QED BY <1>4, <1>5, <1>8, <2>2, <3>1, <3>2, <3>3
  <2> QED BY <2>1, <2>2
<1>10. every \in Seq(Int) /\ every # Refused
  BY <1>2, <1>9, FormConstants
<1>11. Form!ResolveSplits(total, splits) = every
  <2>1. ~(total <= 0) /\ splits # <<>>
    BY <1>2
  <2>2. DOMAIN every = DOMAIN splits
    BY <1>6
  <2> QED BY <1>1, <1>2, <1>3, <1>4, <1>6, <1>9, <2>1, <2>2 DEF Form!ResolveSplits
<1> QED BY <1>10, <1>11

LEMMA FormGoesOn ==
  FormInv /\ [Form!Next]_(Form!vars) => FormInv' /\ Form!AppliesWhatWasShown
<1> SUFFICES ASSUME FormInv, [Form!Next]_(Form!vars)
             PROVE  FormInv' /\ Form!AppliesWhatWasShown
  OBVIOUS
<1>1. CASE UNCHANGED Form!vars
  <2>1. UNCHANGED <<books, kind, fields, mapped, previewed, reviewing, done, applied>> /\ Pressed /\ splits' = splits /\ inputs' = inputs
    BY <1>1 DEF Form!vars, Form!form, Form!editor, Pressed
  <2> QED BY <2>1, FormStays, EditorStays DEF Form!AppliesWhatWasShown
<1>2. ASSUME \/ Form!BooksChange \/ Form!Type \/ Form!PreviewFile \/ Form!ReviewTracker \/ Form!PreviewChange
             \/ Form!ConfirmImport \/ Form!ConfirmChange \/ Form!Back
      PROVE  FormInv' /\ Form!AppliesWhatWasShown
  <2>1. splits' = splits /\ inputs' = inputs
    BY <1>2 DEF Form!BooksChange, Form!Type, Form!PreviewFile, Form!ReviewTracker, Form!PreviewChange,
           Form!ConfirmImport, Form!ConfirmChange, Form!Back, Form!editor
  <2> QED BY <1>2, <2>1, PreviewsStep DEF Form!AppliesWhatWasShown
<1>3. CASE Form!Open
  <2>1. /\ kind' \in Kinds /\ fields' = 0 /\ mapped' = FALSE /\ previewed' = {} /\ applied' = {} /\ books' = books
        /\ splits' = <<>> /\ total' \in {1, 2} /\ step' = "list" /\ editing' = 0 /\ inputs' = <<>> /\ step = "list"
    BY <1>3 DEF Form!Open
  <2>2. <<>> \in Seq(Typed \ {0}) /\ Len(<<>>) = 0 /\ 0 \in 0..MaxSplits /\ 0 \in 0..MaxFields /\ 0 <= MaxSplits
    BY FormConstants
  <2>3. Edited'
    BY <2>1, <2>2 DEF Edited
  <2>4. Reviewed'
    BY <2>1 DEF Reviewed
  <2>5. FormInv'
    BY <2>1, <2>2, <2>3, <2>4 DEF FormInv
  <2> QED BY <2>1, <2>5 DEF Form!AppliesWhatWasShown
<1>4. ASSUME \/ Form!AddRow \/ Form!ChooseCategory \/ Form!EditRow \/ Form!RemoveRow
             \/ Form!EnterAmount \/ Form!LeaveStep
      PROVE  FormInv' /\ Form!AppliesWhatWasShown
  BY <1>4, EditorStep DEF Form!AppliesWhatWasShown
<1>5. CASE Form!ApplySplits
  <2>1. /\ step = "list" /\ Form!Acceptable /\ inputs' = splits /\ splits' = <<>> /\ step' = step /\ editing' = editing
        /\ total' = total /\ UNCHANGED <<books, kind, fields, mapped, previewed, reviewing, done, applied>>
    BY <1>5 DEF Form!ApplySplits, Form!Still, Form!form
  <2>2. <<>> \in Seq(Typed \ {0}) /\ Len(<<>>) = 0 /\ 0 <= MaxSplits
    BY FormConstants
  <2>3. Edited
    BY DEF FormInv
  <2>4. Edited'
    BY <2>1, <2>2, <2>3 DEF Edited
  <2>5. Form!ResolveSplits(total, splits) # Refused
    BY <2>1, <2>3, SplitsAddUp
  <2>6. FormInv'
    BY <2>1, <2>4, FormStays
  <2> QED BY <2>1, <2>5, <2>6 DEF Form!AppliesWhatWasShown
<1> QED BY <1>1, <1>2, <1>3, <1>4, <1>5 DEF Form!Next

LEMMA FormMeans == FormInv => Form!TypeOK
<1> SUFFICES ASSUME FormInv
             PROVE  Form!TypeOK
  OBVIOUS
<1>1. \A S : S = {} \/ (\E e \in S : S = {e}) => Form!Cardinality(S) <= 1
  <2>1. \A S : S = {} \/ (\E e \in S : S = {e}) => Cardinality(S) <= 1
    <3>1. Cardinality({}) = 0 /\ \A e : Cardinality({e}) = 1
      BY FS_EmptySet, FS_Singleton
    <3>2. ASSUME NEW S, S = {} \/ (\E e \in S : S = {e}) PROVE Cardinality(S) <= 1
      <4>1. CASE S = {}
        BY <3>1, <4>1
      <4>2. CASE \E e \in S : S = {e}
        <5>1. PICK e : S = {e}
          BY <4>2
        <5> QED BY <3>1, <5>1
      <4> QED BY <3>2, <4>1, <4>2
    <3> QED BY <3>2
  <2>2. \A S : Form!Cardinality(S) = Cardinality(S)
    BY DEF Form!Cardinality, Cardinality
  <2> QED BY <2>1, <2>2
<1> QED BY <1>1 DEF FormInv, Reviewed, Edited, Form!TypeOK, Form!Fields

FormHere == focus = "form" => FormInv

LEMMA FormHolds == Edge => []FormHere
<1>1. Begins => FormHere
  BY BeginsWith, FormBegins DEF FormHere
<1>2. FormHere /\ [Work]_all => FormHere'
  <2> SUFFICES ASSUME FormHere, [Work]_all, focus' = "form"
               PROVE  FormInv'
    BY DEF FormHere
  <2> QED BY OneAtATime, FormGoesOn DEF FormHere
<1> QED BY <1>1, <1>2, PTL DEF Edge

(***************************************************************************)
(* Statements of several pages, of any bookings on any days.  What was      *)
(* announced with the first page of a window says that the window is as it  *)
(* was, or that the one change was in it; and pages are taken in order, so  *)
(* the last one has the rest.                                              *)
(***************************************************************************)

LEMMA SortedPages ==
  ASSUME NEW S \in SUBSET BankRecords
  PROVE  /\ Paged!Sorted(S) \in Seq(S) /\ Len(Paged!Sorted(S)) = Cardinality(S) /\ Cardinality(S) \in Nat
         /\ \A n \in S : \E k \in 1..Cardinality(S) : Paged!Sorted(S)[k] = n
         /\ \A i, j \in 1..Cardinality(S) : Paged!Sorted(S)[i] = Paged!Sorted(S)[j] => i = j
<1>1. S \in SUBSET Int /\ IsFiniteSet(S) /\ Cardinality(S) \in Nat
  <2>1. S \in SUBSET Int
    BY PageConstants
  <2>2. IsFiniteSet(S)
    BY PageConstants, FS_Subset
  <2> QED BY <2>1, <2>2, FS_CardinalityType
<1> DEFINE F(k) == CHOOSE n \in S : Cardinality({m \in S : m <= n}) = k
<1>2. \A k \in 1..Cardinality(S) : F(k) \in S /\ Cardinality(UpTo(S, F(k))) = k
  BY <1>1, RankIs DEF UpTo
<1>3. Paged!Sorted(S) = [k \in 1..Cardinality(S) |-> F(k)]
  BY Zenon DEF Paged!Sorted, Paged!Cardinality, Cardinality
<1> HIDE DEF F
<1>4. Paged!Sorted(S) \in Seq(S) /\ Len(Paged!Sorted(S)) = Cardinality(S)
  BY <1>1, <1>2, <1>3
<1>5. \A i, j \in 1..Cardinality(S) : F(i) = F(j) => i = j
  BY <1>2
<1>6. ASSUME NEW n \in S
      PROVE  \E k \in 1..Cardinality(S) : F(k) = n
  <2>1. PICK k : k = Cardinality(UpTo(S, n))
    OBVIOUS
  <2>2. n \in UpTo(S, n) /\ IsFiniteSet(UpTo(S, n)) /\ k \in Nat /\ k <= Cardinality(S)
    BY <1>1, <2>1, FS_Subset, FS_CardinalityType DEF UpTo
  <2>3. k # 0
    BY <2>1, <2>2, FS_EmptySet
  <2>4. k \in 1..Cardinality(S)
    BY <1>1, <2>2, <2>3
  <2>5. PICK m : m = F(k) /\ m \in S /\ Cardinality(UpTo(S, m)) = k
    BY <1>2, <2>4
  <2>6. ~(m < n) /\ ~(n < m)
    <3>1. m < n => Cardinality(UpTo(S, m)) < Cardinality(UpTo(S, n))
      BY <1>1, <2>5, RankGrows
    <3>2. n < m => Cardinality(UpTo(S, n)) < Cardinality(UpTo(S, m))
      BY <1>1, <2>5, RankGrows
    <3> QED BY <2>1, <2>2, <2>5, <3>1, <3>2
  <2>7. m = n
    BY <1>1, <2>5, <2>6
  <2> QED BY <2>4, <2>5, <2>7
<1> QED BY <1>1, <1>3, <1>4, <1>5, <1>6

(* Days, in intervals of so many. *)
LEMMA Division ==
  ASSUME NEW n \in Nat, NEW d \in Nat \ {0}
  PROVE  /\ n \div d \in Nat /\ d * (n \div d) <= n /\ n < d * (n \div d) + d
OBVIOUS

LEMMA Grows ==
  ASSUME NEW i \in Nat, NEW j \in Nat, NEW d \in Nat
  PROVE  /\ i <= j => d * i <= d * j
         /\ d * (i + 1) = d * i + d /\ d * i \in Nat
OBVIOUS

Intervals(f)   == (LastListed - f) \div WindowDays + 1
Opening(f, n)  == f + WindowDays * (n - 1)
Closing(f, n)  == IF Opening(f, n) + WindowDays - 1 < LastListed THEN Opening(f, n) + WindowDays - 1 ELSE LastListed

LEMMA IntervalsAre ==
  ASSUME NEW f \in 1..LastListed, NEW n \in 1..Intervals(f)
  PROVE  /\ Intervals(f) \in Nat \ {0}
         /\ Opening(f, n) \in Nat /\ f <= Opening(f, n) /\ Opening(f, n) <= Closing(f, n) /\ Closing(f, n) <= LastListed
         /\ Opening(f, 1) = f
         /\ Closing(f, n) # LastListed => n + 1 \in 1..Intervals(f) /\ Opening(f, n + 1) = Closing(f, n) + 1
         /\ Paged!Ranges(f, LastListed, WindowDays)[n] = <<Opening(f, n), Closing(f, n)>>
         /\ DOMAIN Paged!Ranges(f, LastListed, WindowDays) = 1..Intervals(f)
         /\ Len(Paged!Ranges(f, LastListed, WindowDays)) = Intervals(f)
<1>1. LastListed - f \in Nat /\ WindowDays \in Nat \ {0} /\ f \in Nat /\ LastListed \in Nat
  BY PageConstants
<1>2. PICK v : v = (LastListed - f) \div WindowDays
  OBVIOUS
<1>3. v \in Nat /\ WindowDays * v <= LastListed - f /\ LastListed - f < WindowDays * v + WindowDays /\ Intervals(f) = v + 1
  BY <1>1, <1>2, Division DEF Intervals
<1>4. n - 1 \in Nat /\ n \in Nat /\ n - 1 <= v /\ v + 1 \in Nat \ {0}
  BY <1>3
<1>5. /\ WindowDays * (n - 1) \in Nat /\ WindowDays * (n - 1) <= WindowDays * v
      /\ WindowDays * n = WindowDays * (n - 1) + WindowDays /\ WindowDays * v \in Nat /\ WindowDays * n \in Nat
  <2>1. WindowDays * ((n - 1) + 1) = WindowDays * (n - 1) + WindowDays /\ WindowDays * (n - 1) \in Nat
    BY <1>1, <1>4, Grows
  <2>2. (n - 1) + 1 = n
    BY <1>4
  <2> QED BY <1>1, <1>3, <1>4, <2>1, <2>2, Grows
<1>6. PICK before : before = WindowDays * (n - 1)
  OBVIOUS
<1>7. Opening(f, n) = f + before /\ Opening(f, n + 1) = f + before + WindowDays
  <2>1. (n + 1) - 1 = n
    BY <1>4
  <2> QED BY <1>1, <1>5, <1>6, <2>1 DEF Opening
<1>8. before \in Nat /\ before <= LastListed - f
  BY <1>1, <1>3, <1>5, <1>6
<1>9. Closing(f, n) = IF f + before + WindowDays - 1 < LastListed THEN f + before + WindowDays - 1 ELSE LastListed
  BY <1>7 DEF Closing
<1>10. Closing(f, n) # LastListed => n + 1 \in 1..Intervals(f)
  <2> SUFFICES ASSUME Closing(f, n) # LastListed PROVE n <= v
    BY <1>3, <1>4
  <2>1. WindowDays * n <= LastListed - f
    BY <1>1, <1>5, <1>6, <1>8, <1>9
  <2>2. v + 1 <= n => WindowDays * (v + 1) <= WindowDays * n
    BY <1>1, <1>4, Grows
  <2>3. WindowDays * (v + 1) = WindowDays * v + WindowDays
    BY <1>1, <1>3, Grows
  <2> QED BY <1>1, <1>3, <1>4, <1>5, <2>1, <2>2, <2>3
<1>11. Opening(f, 1) = f
  <2>1. 1 - 1 = 0 /\ WindowDays * 0 = 0
    BY <1>1
  <2> QED BY <1>1, <2>1 DEF Opening
<1>12. /\ DOMAIN Paged!Ranges(f, LastListed, WindowDays) = 1..Intervals(f)
       /\ Paged!Ranges(f, LastListed, WindowDays) = [i \in 1..Intervals(f) |->
             <<f + (i - 1) * WindowDays, IF f + i * WindowDays - 1 < LastListed THEN f + i * WindowDays - 1 ELSE LastListed>>]
  BY Zenon DEF Paged!Ranges, Paged!Smaller, Intervals
<1>13. Len(Paged!Ranges(f, LastListed, WindowDays)) = Intervals(f)
  BY <1>3, <1>4, <1>12
<1>14. (n - 1) * WindowDays = before /\ n * WindowDays = before + WindowDays
  BY <1>1, <1>4, <1>5, <1>6
<1>15. f + n * WindowDays - 1 = f + before + WindowDays - 1
  BY <1>1, <1>8, <1>14
<1>16. Paged!Ranges(f, LastListed, WindowDays)[n] = <<Opening(f, n), Closing(f, n)>>
  BY <1>7, <1>9, <1>12, <1>14, <1>15
<1> QED BY <1>1, <1>3, <1>4, <1>7, <1>8, <1>9, <1>10, <1>11, <1>12, <1>13, <1>16

(* The bookings of an interval, and the pages that have been read of it. *)
Kept(ls, f, n) == {r \in ls : ListedOn[r] >= Opening(f, n) /\ ListedOn[r] <= Closing(f, n)}
Has(s, r)      == \E i \in 1..Len(s) : s[i] = r

PageTypes ==
  /\ list \subseteq BankRecords /\ always \subseteq list /\ from \in 1..LastListed /\ win \in 1..Intervals(from)
  /\ page \in Nat /\ changes \in {0, 1} /\ outcome \in {"reading", "whole", "failed"} /\ statement \in Seq(BankRecords)

Once1 ==
  /\ \A i, j \in 1..Len(statement) : statement[i] = statement[j] => i = j
  /\ \A i \in 1..Len(statement) : ListedOn[statement[i]] >= from

Covered ==
  /\ outcome = "reading" => \A r \in always : ListedOn[r] >= from /\ ListedOn[r] < Opening(from, win) => Has(statement, r)
  /\ outcome = "whole" => \A r \in always : ListedOn[r] >= from => Has(statement, r)

Announced ==
  page # 0 =>
    /\ expected # Paged!Nothing
    /\ expected # Paged!Totals => changes = 1
    /\ expected = Paged!Totals =>
         \A k \in 1..Len(Paged!Listed) : k <= page * PageSize => Has(statement, Paged!Listed[k])

PageInv == PageTypes /\ Once1 /\ Covered /\ Announced

LEMMA ListedIs ==
  ASSUME PageTypes
  PROVE  LET S == Kept(list, from, win)
         IN  /\ S \in SUBSET BankRecords /\ Paged!Listed = Paged!Sorted(S)
             /\ Paged!Listed \in Seq(S) /\ Len(Paged!Listed) = Cardinality(S) /\ Cardinality(S) \in Nat
             /\ \A r \in S : \E k \in 1..Len(Paged!Listed) : Paged!Listed[k] = r
             /\ \A i, j \in 1..Len(Paged!Listed) : Paged!Listed[i] = Paged!Listed[j] => i = j
             /\ Paged!Window = <<Opening(from, win), Closing(from, win)>>
<1>1. Paged!Window = <<Opening(from, win), Closing(from, win)>>
  BY IntervalsAre DEF PageTypes, Paged!Window
<1>2. {r \in list : Paged!Within(r)} = Kept(list, from, win)
  BY <1>1 DEF Paged!Within, Kept
<1>3. Paged!Listed = Paged!Sorted(Kept(list, from, win)) /\ Kept(list, from, win) \in SUBSET BankRecords
  BY <1>2 DEF Paged!Listed, PageTypes, Kept
<1> HIDE DEF Kept
<1> QED BY <1>1, <1>3, SortedPages

LEMMA ListedNext ==
  (PageTypes =>
     LET S == Kept(list, from, win)
     IN  /\ S \in SUBSET BankRecords /\ Paged!Listed = Paged!Sorted(S)
         /\ Len(Paged!Listed) = Cardinality(S) /\ Cardinality(S) \in Nat)'
<1>1. PageTypes =>
     LET S == Kept(list, from, win)
     IN  /\ S \in SUBSET BankRecords /\ Paged!Listed = Paged!Sorted(S)
         /\ Len(Paged!Listed) = Cardinality(S) /\ Cardinality(S) \in Nat
  BY ListedIs
<1> QED BY <1>1, PTL

LEMMA PageBegins == Paged!Init => PageInv
<1> SUFFICES ASSUME Paged!Init
             PROVE  PageInv
  OBVIOUS
<1>1. /\ list \subseteq BankRecords /\ always = list /\ from \in 1..LastListed /\ win = 1 /\ page = 0 /\ changes = 0
      /\ outcome = "reading" /\ statement = <<>> /\ Len(<<>>) = 0 /\ <<>> \in Seq(BankRecords)
  BY DEF Paged!Init, Paged!Days
<1>2. Intervals(from) \in Nat \ {0} /\ Opening(from, 1) = from
  <2>1. LastListed - from \in Nat /\ WindowDays \in Nat \ {0}
    BY <1>1, PageConstants
  <2>2. (LastListed - from) \div WindowDays \in Nat
    BY <2>1, Division
  <2>3. Intervals(from) \in Nat \ {0} /\ 1 \in 1..Intervals(from)
    BY <2>2 DEF Intervals
  <2> QED BY <1>1, <2>3, IntervalsAre
<1>3. PageTypes
  BY <1>1, <1>2 DEF PageTypes
<1>4. Covered
  <2>1. \A r \in always : ListedOn[r] \in Int
    BY <1>1, PageConstants
  <2>2. from \in Int
    BY <1>1
  <2>3. \A r \in always : ~(ListedOn[r] >= from /\ ListedOn[r] < from)
    BY <2>1, <2>2
  <2> QED BY <1>1, <1>2, <2>3 DEF Covered
<1> QED BY <1>1, <1>3, <1>4 DEF PageInv, Once1, Announced

(* The bank changes its list: announced totals stay those of the list they were of. *)
LEMMA ChangeStep ==
  ASSUME PageInv, NEW r \in BankRecords, Paged!Appear(r) \/ Paged!Disappear(r)
  PROVE  PageInv'
<1>1. /\ UNCHANGED <<from, win, page, expected, fetched, statement, outcome>> /\ changes < 1 /\ changes' = changes + 1
      /\ \/ r \notin list /\ list' = list \cup {r} /\ always' = always
         \/ r \in list /\ list' = list \ {r} /\ always' = always \ {r}
  BY DEF Paged!Appear, Paged!Disappear
<1>2. PageTypes /\ changes = 0 /\ changes' = 1
  BY <1>1 DEF PageInv, PageTypes
<1>3. PageTypes'
  BY <1>1, <1>2 DEF PageTypes
<1>4. Once1'
  BY <1>1 DEF PageInv, Once1
<1>5. Covered'
  <2>1. always' \subseteq always
    BY <1>1
  <2> QED BY <1>1, <2>1 DEF PageInv, Covered
<1> DEFINE Old == Kept(list, from, win)
           New == Kept(list', from, win)
<1>6. /\ Old \in SUBSET BankRecords /\ Paged!Listed = Paged!Sorted(Old) /\ Len(Paged!Listed) = Cardinality(Old) /\ Cardinality(Old) \in Nat
  BY <1>2, ListedIs
<1>7. /\ New \in SUBSET BankRecords /\ Paged!Listed' = Paged!Sorted(New) /\ Len(Paged!Listed') = Cardinality(New) /\ Cardinality(New) \in Nat
  <2>1. LET S == Kept(list', from', win')
        IN  S \in SUBSET BankRecords /\ Paged!Listed' = Paged!Sorted(S) /\ Len(Paged!Listed') = Cardinality(S) /\ Cardinality(S) \in Nat
    BY <1>3, ListedNext
  <2> QED BY <1>1, <2>1
<1>8. New = Old \/ Cardinality(New) # Cardinality(Old)
  <2>1. IsFiniteSet(Old) /\ IsFiniteSet(New)
    BY <1>6, <1>7, PageConstants, FS_Subset
  <2>2. \/ New = Old
        \/ r \notin Old /\ New = Old \cup {r}
        \/ r \in Old /\ New = Old \ {r}
    BY <1>1 DEF Kept
  <2> HIDE DEF Old, New
  <2>3. r \notin Old /\ New = Old \cup {r} => Cardinality(New) = Cardinality(Old) + 1
    BY <2>1, FS_AddElement
  <2>4. r \in Old /\ New = Old \ {r} => Cardinality(New) = Cardinality(Old) - 1
    BY <2>1, FS_RemoveElement
  <2> QED BY <1>6, <1>7, <2>2, <2>3, <2>4
<1> HIDE DEF Old, New
<1>9. Announced'
  <2> SUFFICES ASSUME page' # 0
               PROVE  /\ expected' # Paged!Nothing
                      /\ expected' = Paged!Totals' =>
                           \A k \in 1..Len(Paged!Listed') : k <= page' * PageSize => Has(statement', Paged!Listed'[k])
    BY <1>2 DEF Announced
  <2>1. expected # Paged!Nothing /\ expected = Paged!Totals /\ page # 0
    BY <1>1, <1>2 DEF PageInv, Announced
  <2>2. expected' # Paged!Nothing
    BY <1>1, <2>1 DEF Paged!Nothing
  <2>3. expected' = Paged!Totals' => Len(Paged!Listed') = Len(Paged!Listed)
    BY <1>1, <2>1 DEF Paged!Totals
  <2>4. expected' = Paged!Totals' => Paged!Listed' = Paged!Listed
    BY <1>6, <1>7, <1>8, <2>3
  <2>5. \A k \in 1..Len(Paged!Listed) : k <= page * PageSize => Has(statement, Paged!Listed[k])
    BY <2>1 DEF PageInv, Announced
  <2> QED BY <1>1, <2>2, <2>4, <2>5
<1> QED BY <1>3, <1>4, <1>5, <1>9 DEF PageInv

(* What a page has, and that it is not in the statement yet. *)
LEMMA PageIs ==
  ASSUME PageInv, Paged!SameTotals, Paged!NoRepeats, statement' = statement \o Paged!PageRows
  PROVE  /\ statement' \in Seq(BankRecords) /\ (\A i, j \in 1..Len(statement') : statement'[i] = statement'[j] => i = j)
         /\ (from' = from => \A i \in 1..Len(statement') : ListedOn[statement'[i]] >= from)
         /\ \A r_ : Has(statement, r_) => Has(statement', r_)
         /\ \A k \in 1..Len(Paged!Listed) : k <= (page + 1) * PageSize => Has(statement', Paged!Listed[k])
<1>1. PageTypes /\ Once1 /\ Announced
  BY DEF PageInv
<1>2. PICK S : S = Kept(list, from, win)
  OBVIOUS
<1>3. /\ S \in SUBSET BankRecords /\ Paged!Listed \in Seq(S)
      /\ \A i, j \in 1..Len(Paged!Listed) : Paged!Listed[i] = Paged!Listed[j] => i = j
  BY <1>1, <1>2, ListedIs
<1>4. \A r \in S : ListedOn[r] \in Int /\ ListedOn[r] >= from
  <2>1. from \in Int /\ Opening(from, win) \in Int /\ from <= Opening(from, win)
    BY <1>1, IntervalsAre DEF PageTypes
  <2>2. \A r \in S : ListedOn[r] \in Int /\ ListedOn[r] >= Opening(from, win)
    BY <1>2, <1>3, PageConstants DEF Kept
  <2> QED BY <2>1, <2>2
<1>5. PICK L : L = Paged!Listed
  OBVIOUS
<1>6. PICK done_ : done_ = page * PageSize
  OBVIOUS
<1>7. PICK next_ : next_ = (page + 1) * PageSize
  OBVIOUS
<1>8. PICK upto_ : upto_ = IF next_ < Len(L) THEN next_ ELSE Len(L)
  OBVIOUS
<1>9. /\ L \in Seq(S) /\ Len(L) \in Nat /\ done_ \in Nat /\ next_ = done_ + PageSize /\ PageSize \in Nat \ {0} /\ upto_ \in Nat
      /\ upto_ <= Len(L) /\ \A i, j \in 1..Len(L) : L[i] = L[j] => i = j
  <2>1. page \in Nat /\ PageSize \in Nat \ {0}
    BY <1>1, PageConstants DEF PageTypes
  <2>2. page * PageSize \in Nat /\ (page + 1) * PageSize = page * PageSize + PageSize
    BY <2>1
  <2>3. L \in Seq(S) /\ Len(L) \in Nat
    BY <1>3, <1>5
  <2> QED BY <1>3, <1>5, <1>6, <1>7, <1>8, <2>1, <2>2, <2>3
<1>10. Paged!PageRows = SubSeq(L, done_ + 1, upto_)
  BY <1>5, <1>6, <1>7, <1>8 DEF Paged!PageRows, Paged!Smaller
<1>11. PICK P : P = Paged!PageRows
  OBVIOUS
<1>12. /\ P \in Seq(S) /\ Len(P) = IF done_ < upto_ THEN upto_ - done_ ELSE 0
       /\ \A i \in 1..Len(P) : done_ + i \in 1..Len(L) /\ P[i] = L[done_ + i]
  <2>1. \A i \in (done_ + 1)..upto_ : L[i] \in S
    BY <1>9
  <2>2. P = SubSeq(L, done_ + 1, upto_)
    BY <1>10, <1>11
  <2>3. /\ P \in Seq(S) /\ Len(P) = IF done_ < upto_ THEN upto_ - done_ ELSE 0
        /\ \A i \in 1..Len(P) : P[i] = L[done_ + i]
    BY <1>9, <2>1, <2>2
  <2> QED BY <1>9, <2>3
<1>13. /\ statement \in Seq(BankRecords) /\ Len(statement) \in Nat /\ P \in Seq(BankRecords) /\ Len(P) \in Nat
       /\ statement' = statement \o P
  <2>1. statement \in Seq(BankRecords)
    BY <1>1 DEF PageTypes
  <2>2. P \in Seq(BankRecords)
    BY <1>3, <1>12
  <2> QED BY <1>11, <2>1, <2>2
<1>14. /\ statement' \in Seq(BankRecords) /\ Len(statement') = Len(statement) + Len(P)
       /\ \A i \in 1..Len(statement) : statement'[i] = statement[i]
       /\ \A i \in 1..Len(P) : statement'[Len(statement) + i] = P[i]
  BY <1>13
<1>15. \A i \in 1..Len(statement') :
         i \in 1..Len(statement) \/ (i - Len(statement) \in 1..Len(P) /\ statement'[i] = P[i - Len(statement)])
  <2>1. ASSUME NEW i \in 1..Len(statement'), i \notin 1..Len(statement)
        PROVE  i - Len(statement) \in 1..Len(P) /\ statement'[i] = P[i - Len(statement)]
    <3>1. i - Len(statement) \in 1..Len(P) /\ Len(statement) + (i - Len(statement)) = i
      BY <1>13, <1>14, <2>1
    <3> QED BY <1>14, <3>1
  <2> QED BY <2>1
<1>16. \A i \in 1..Len(statement), j \in 1..Len(P) : statement[i] # P[j]
  <2>1. Paged!Range(statement) \cap Paged!Range(P) = {}
    BY <1>11 DEF Paged!NoRepeats
  <2>2. DOMAIN statement = 1..Len(statement) /\ DOMAIN P = 1..Len(P)
    BY <1>13
  <2>3. ASSUME NEW i \in 1..Len(statement), NEW j \in 1..Len(P) PROVE statement[i] # P[j]
    <3>1. statement[i] \in Paged!Range(statement) /\ P[j] \in Paged!Range(P)
      BY <2>2, Zenon DEF Paged!Range
    <3> QED BY <2>1, <3>1
  <2> QED BY <2>3
<1>17. ASSUME NEW i \in 1..Len(statement'), NEW j \in 1..Len(statement'), statement'[i] = statement'[j]
       PROVE  i = j
  <2>1. CASE i \in 1..Len(statement) /\ j \in 1..Len(statement)
    BY <1>1, <1>14, <1>17, <2>1 DEF Once1
  <2>2. CASE i \in 1..Len(statement) /\ j \notin 1..Len(statement)
    BY <1>14, <1>15, <1>16, <1>17, <2>2
  <2>3. CASE i \notin 1..Len(statement) /\ j \in 1..Len(statement)
    BY <1>14, <1>15, <1>16, <1>17, <2>3
  <2>4. CASE i \notin 1..Len(statement) /\ j \notin 1..Len(statement)
    <3>1. PICK i1 \in 1..Len(P), j1 \in 1..Len(P) :
            i1 = i - Len(statement) /\ j1 = j - Len(statement) /\ P[i1] = P[j1]
      BY <1>15, <1>17, <2>4
    <3>2. L[done_ + i1] = L[done_ + j1] /\ done_ + i1 \in 1..Len(L) /\ done_ + j1 \in 1..Len(L)
      BY <1>12, <3>1
    <3>3. done_ + i1 = done_ + j1
      BY <1>9, <3>2
    <3> QED BY <1>9, <1>13, <3>1, <3>3
  <2> QED BY <2>1, <2>2, <2>3, <2>4
<1>18. ASSUME NEW i \in 1..Len(statement')
       PROVE  ListedOn[statement'[i]] >= from
  <2>1. CASE i \in 1..Len(statement)
    BY <1>1, <1>14, <2>1 DEF Once1
  <2>2. CASE i \notin 1..Len(statement)
    <3>1. PICK j \in 1..Len(P) : statement'[i] = P[j]
      BY <1>15, <2>2
    <3>2. P[j] \in S
      BY <1>12
    <3> QED BY <1>4, <3>1, <3>2
  <2> QED BY <2>1, <2>2
<1>19. \A r_ : Has(statement, r_) => Has(statement', r_)
  <2>1. \A i \in 1..Len(statement) : i \in 1..Len(statement')
    BY <1>13, <1>14
  <2> QED BY <1>14, <2>1 DEF Has
<1>20. ASSUME NEW k \in 1..Len(L), k <= next_
       PROVE  Has(statement', L[k])
  <2>1. CASE k <= done_
    <3>1. page # 0
      <4>1. page = 0 => done_ = 0
        BY <1>6, PageConstants
      <4> QED BY <1>9, <2>1, <4>1
    <3>2. expected = Paged!Totals
      BY <1>1, <3>1 DEF Announced, Paged!SameTotals
    <3>3. Has(statement, L[k])
      BY <1>1, <1>5, <1>6, <2>1, <3>1, <3>2 DEF Announced
    <3> QED BY <1>19, <3>3
  <2>2. CASE done_ < k
    <3>1. k <= upto_
      BY <1>8, <1>9, <1>20
    <3>2. k - done_ \in 1..Len(P) /\ done_ + (k - done_) = k
      BY <1>9, <1>12, <2>2, <3>1
    <3>3. P[k - done_] = L[k]
      BY <1>12, <3>2
    <3>4. Len(statement) + (k - done_) \in 1..Len(statement')
      BY <1>13, <1>14, <3>2
    <3>5. statement'[Len(statement) + (k - done_)] = L[k]
      BY <1>14, <3>2, <3>3
    <3> QED BY <3>4, <3>5 DEF Has
  <2> QED BY <1>9, <2>1, <2>2
<1> QED BY <1>5, <1>7, <1>14, <1>17, <1>18, <1>19, <1>20

LEMMA NextPageStep ==
  ASSUME PageInv, Paged!NextPage
  PROVE  PageInv'
<1>1. /\ outcome = "reading" /\ outcome' = outcome /\ page' = page + 1 /\ expected' = Paged!Totals
      /\ UNCHANGED <<list, always, changes, from, win>> /\ statement' = statement \o Paged!PageRows
      /\ Paged!SameTotals /\ Paged!NoRepeats
  BY DEF Paged!NextPage, Paged!bankVars
<1>2. PageTypes /\ page \in Nat
  BY DEF PageInv, PageTypes
<1>3. /\ statement' \in Seq(BankRecords)
      /\ \A i, j \in 1..Len(statement') : statement'[i] = statement'[j] => i = j
      /\ \A i \in 1..Len(statement') : ListedOn[statement'[i]] >= from
      /\ \A r_ : Has(statement, r_) => Has(statement', r_)
      /\ \A k \in 1..Len(Paged!Listed) : k <= (page + 1) * PageSize => Has(statement', Paged!Listed[k])
  BY <1>1, PageIs
<1>4. Paged!Window' = Paged!Window /\ Paged!Listed' = Paged!Listed
  BY <1>1 DEF Paged!Window, Paged!Listed, Paged!Within
<1>5. Paged!Totals' = Paged!Totals
  BY <1>4 DEF Paged!Totals
<1>6. PageTypes'
  BY <1>1, <1>2, <1>3 DEF PageTypes
<1>7. Once1'
  BY <1>1, <1>3 DEF Once1
<1>8. Covered'
  BY <1>1, <1>3 DEF PageInv, Covered
<1>9. Announced'
  <2>1. Paged!Totals # Paged!Nothing
    BY DEF Paged!Totals, Paged!Nothing
  <2>2. Paged!Nothing' = Paged!Nothing
    BY DEF Paged!Nothing
  <2> QED BY <1>1, <1>3, <1>4, <1>5, <2>1, <2>2 DEF Announced
<1> QED BY <1>6, <1>7, <1>8, <1>9 DEF PageInv

LEMMA EndOfWindowStep ==
  ASSUME PageInv, Paged!EndOfWindow
  PROVE  PageInv'
<1>1. /\ outcome = "reading" /\ page' = 0 /\ UNCHANGED <<list, always, changes, from>>
      /\ statement' = statement \o Paged!PageRows /\ Paged!SameTotals /\ Paged!NoRepeats /\ page + 1 >= Paged!Totals[1]
      /\ IF Paged!Window[2] = LastListed THEN outcome' = "whole" /\ win' = win ELSE win' = win + 1 /\ outcome' = outcome
  BY DEF Paged!EndOfWindow, Paged!bankVars, Paged!LastPage
<1>2. /\ PageTypes /\ page \in Nat /\ always \subseteq list /\ list \subseteq BankRecords /\ from \in 1..LastListed
      /\ win \in 1..Intervals(from)
  BY DEF PageInv, PageTypes
<1>3. /\ statement' \in Seq(BankRecords)
      /\ \A i, j \in 1..Len(statement') : statement'[i] = statement'[j] => i = j
      /\ \A i \in 1..Len(statement') : ListedOn[statement'[i]] >= from
      /\ \A r_ : Has(statement, r_) => Has(statement', r_)
      /\ \A k \in 1..Len(Paged!Listed) : k <= (page + 1) * PageSize => Has(statement', Paged!Listed[k])
  BY <1>1, PageIs
<1>4. PICK n : n = Len(Paged!Listed)
  OBVIOUS
<1>5. /\ n \in Nat /\ Paged!Window = <<Opening(from, win), Closing(from, win)>>
      /\ \A r \in Kept(list, from, win) : \E k \in 1..n : Paged!Listed[k] = r
  BY <1>2, <1>4, ListedIs
<1>6. n <= (page + 1) * PageSize
  <2>1. PageSize \in Nat \ {0} /\ n + PageSize - 1 \in Nat
    BY <1>5, PageConstants
  <2>2. PICK v : v = (n + PageSize - 1) \div PageSize
    OBVIOUS
  <2>3. v \in Nat /\ n + PageSize - 1 < PageSize * v + PageSize
    BY <2>1, <2>2, Division
  <2>4. v <= page + 1
    <3>1. Paged!Totals[1] = v
      BY <1>4, <2>2 DEF Paged!Totals
    <3> QED BY <1>1, <1>2, <2>3, <3>1
  <2>5. PageSize * v <= PageSize * (page + 1) /\ PageSize * v \in Nat /\ PageSize * (page + 1) \in Nat
    BY <1>2, <2>1, <2>3, <2>4, Grows
  <2>6. (page + 1) * PageSize = PageSize * (page + 1)
    BY <1>2, <2>1
  <2> QED BY <1>5, <2>1, <2>3, <2>5, <2>6
<1>7. \A r \in Kept(list, from, win) : Has(statement', r)
  <2>1. ASSUME NEW r \in Kept(list, from, win) PROVE Has(statement', r)
    <3>1. PICK k \in 1..n : Paged!Listed[k] = r
      BY <1>5
    <3>2. k <= (page + 1) * PageSize
      <4>1. (page + 1) * PageSize \in Int
        BY <1>2, PageConstants
      <4> QED BY <1>5, <1>6, <4>1
    <3> QED BY <1>3, <1>4, <3>1, <3>2
  <2> QED BY <2>1
<1>8. \A r \in always : ListedOn[r] \in 1..LastListed
  BY <1>2, PageConstants
<1>9. /\ Opening(from, win) \in Int /\ Closing(from, win) \in Int /\ LastListed \in Int /\ from \in Int
      /\ Closing(from, win) # LastListed => win + 1 \in 1..Intervals(from) /\ Opening(from, win + 1) = Closing(from, win) + 1
  BY <1>2, IntervalsAre, PageConstants DEF Closing
<1>10. \A r \in always : ListedOn[r] >= from /\ ListedOn[r] <= Closing(from, win) => Has(statement', r)
  <2>1. ASSUME NEW r \in always, ListedOn[r] >= from, ListedOn[r] <= Closing(from, win) PROVE Has(statement', r)
    <3>1. CASE ListedOn[r] < Opening(from, win)
      <4>1. Has(statement, r)
        BY <1>1, <2>1, <3>1 DEF PageInv, Covered
      <4> QED BY <1>3, <4>1
    <3>2. CASE ListedOn[r] >= Opening(from, win)
      <4>1. r \in Kept(list, from, win)
        BY <1>2, <2>1, <3>2 DEF Kept
      <4> QED BY <1>7, <4>1
    <3> QED BY <1>8, <1>9, <3>1, <3>2
  <2> QED BY <2>1
<1>11. CASE Paged!Window[2] = LastListed
  <2>1. Closing(from, win) = LastListed /\ outcome' = "whole" /\ win' = win
    BY <1>1, <1>5, <1>11
  <2>2. PageTypes'
    BY <1>1, <1>2, <1>3, <2>1 DEF PageTypes
  <2>3. Covered'
    BY <1>1, <1>8, <1>10, <2>1 DEF Covered
  <2> QED BY <1>1, <1>3, <2>2, <2>3 DEF PageInv, Once1, Announced
<1>12. CASE Paged!Window[2] # LastListed
  <2>1. Closing(from, win) # LastListed /\ outcome' = "reading" /\ win' = win + 1
    BY <1>1, <1>5, <1>12
  <2>2. PageTypes'
    BY <1>1, <1>2, <1>3, <1>9, <2>1 DEF PageTypes
  <2>3. Opening(from', win') = Closing(from, win) + 1
    BY <1>1, <1>9, <2>1
  <2>4. Covered'
    <3>1. \A r \in always : ListedOn[r] < Closing(from, win) + 1 => ListedOn[r] <= Closing(from, win)
      BY <1>8, <1>9
    <3> QED BY <1>1, <1>10, <2>1, <2>3, <3>1 DEF Covered
  <2> QED BY <1>1, <1>3, <2>2, <2>4 DEF PageInv, Once1, Announced
<1> QED BY <1>11, <1>12

LEMMA PageGoesOn == PageInv /\ [Paged!Next]_(Paged!vars) => PageInv'
<1> SUFFICES ASSUME PageInv, [Paged!Next]_(Paged!vars)
             PROVE  PageInv'
  OBVIOUS
<1>1. ASSUME UNCHANGED <<list, always, from, win, page, expected, statement, changes>>,
             outcome' = outcome \/ (outcome = "reading" /\ outcome' = "failed")
      PROVE  PageInv'
  <2>1. Paged!Window' = Paged!Window /\ Paged!Listed' = Paged!Listed
    BY <1>1 DEF Paged!Window, Paged!Listed, Paged!Within
  <2>2. Paged!Totals' = Paged!Totals /\ Paged!Nothing' = Paged!Nothing
    BY <2>1 DEF Paged!Totals, Paged!Nothing
  <2>3. PageTypes' /\ Once1' /\ Covered'
    BY <1>1 DEF PageInv, PageTypes, Once1, Covered
  <2>4. Announced'
    BY <1>1, <2>1, <2>2 DEF PageInv, Announced
  <2> QED BY <2>3, <2>4 DEF PageInv
<1>2. CASE UNCHANGED Paged!vars
  BY <1>1, <1>2 DEF Paged!vars
<1>3. CASE Paged!Fail
  BY <1>1, <1>3 DEF Paged!Fail, Paged!bankVars
<1>4. CASE Paged!Next
  BY <1>3, <1>4, ChangeStep, NextPageStep, EndOfWindowStep DEF Paged!Next, Paged!Read, Paged!Refuse, Paged!NoAnswer
<1> QED BY <1>2, <1>4

(* Every day of a period is in one interval. *)
LEMMA DayOnce ==
  ASSUME NEW f \in 1..LastListed, NEW d \in f..LastListed
  PROVE  \E n \in 1..Intervals(f) : \A i \in 1..Intervals(f) :
           (d >= Opening(f, i) /\ d <= Closing(f, i)) <=> i = n
<1>1. d - f \in Nat /\ LastListed - f \in Nat /\ WindowDays \in Nat \ {0} /\ f \in Nat /\ LastListed \in Nat
  BY PageConstants
<1>2. PICK v, w : v = (LastListed - f) \div WindowDays /\ w = (d - f) \div WindowDays
  OBVIOUS
<1>3. /\ v \in Nat /\ w \in Nat /\ WindowDays * w <= d - f /\ d - f < WindowDays * w + WindowDays
      /\ LastListed - f < WindowDays * v + WindowDays /\ Intervals(f) = v + 1
  BY <1>1, <1>2, Division DEF Intervals
<1>4. w <= v
  <2>1. v + 1 <= w => WindowDays * (v + 1) <= WindowDays * w
    BY <1>1, <1>3, Grows
  <2>2. WindowDays * (v + 1) = WindowDays * v + WindowDays /\ WindowDays * v \in Nat /\ WindowDays * w \in Nat
    BY <1>1, <1>3, Grows
  <2> QED BY <1>1, <1>3, <2>1, <2>2
<1>5. ASSUME NEW i \in 1..Intervals(f)
      PROVE  (d >= Opening(f, i) /\ d <= Closing(f, i)) <=> i = w + 1
  <2>1. i - 1 \in Nat /\ i \in Nat
    BY <1>3
  <2>2. PICK z : z = WindowDays * (i - 1)
    OBVIOUS
  <2>3. z \in Nat /\ Opening(f, i) = f + z /\ WindowDays * w \in Nat
    BY <1>1, <1>3, <2>1, <2>2, Grows DEF Opening
  <2>4. Closing(f, i) = IF f + z + WindowDays - 1 < LastListed THEN f + z + WindowDays - 1 ELSE LastListed
    BY <2>3 DEF Closing
  <2>5. (d >= Opening(f, i) /\ d <= Closing(f, i)) <=> (d - f >= z /\ d - f < z + WindowDays)
    BY <1>1, <2>3, <2>4
  <2>6. CASE i = w + 1
    <3>1. i - 1 = w
      BY <1>3, <2>6
    <3> QED BY <1>1, <1>3, <2>2, <2>3, <2>5, <2>6, <3>1
  <2>7. CASE i <= w
    <3>1. WindowDays * ((i - 1) + 1) <= WindowDays * w /\ WindowDays * ((i - 1) + 1) = z + WindowDays
      <4>1. (i - 1) + 1 <= w /\ (i - 1) + 1 \in Nat
        BY <1>3, <2>1, <2>7
      <4> QED BY <1>1, <1>3, <2>1, <2>2, <4>1, Grows
    <3>2. z + WindowDays <= WindowDays * w
      BY <3>1
    <3> QED BY <1>1, <1>3, <2>1, <2>3, <2>5, <2>7, <3>2
  <2>8. CASE w + 1 <= i - 1
    <3>1. WindowDays * (w + 1) <= z /\ WindowDays * (w + 1) = WindowDays * w + WindowDays
      BY <1>1, <1>3, <2>1, <2>2, <2>8, Grows
    <3>2. WindowDays * w + WindowDays <= z
      BY <3>1
    <3> QED BY <1>1, <1>3, <2>1, <2>3, <2>5, <2>8, <3>2
  <2> QED BY <1>3, <2>1, <2>6, <2>7, <2>8
<1>6. w + 1 \in 1..Intervals(f)
  BY <1>3, <1>4
<1> QED BY <1>5, <1>6

LEMMA PagesAre == PageInv => Paged!StatementWhole /\ Paged!TypeOK
<1> SUFFICES ASSUME PageInv
             PROVE  Paged!StatementWhole /\ Paged!TypeOK
  OBVIOUS
<1>1. /\ from \in 1..LastListed /\ statement \in Seq(BankRecords) /\ DOMAIN statement = 1..Len(statement) /\ always \subseteq BankRecords
      /\ win \in 1..Intervals(from) /\ outcome \in {"reading", "whole", "failed"} /\ list \subseteq BankRecords /\ always \subseteq list
  BY DEF PageInv, PageTypes
<1>2. Paged!NothingSkipped
  BY <1>1 DEF PageInv, Covered, Has, Paged!NothingSkipped, Paged!Range
<1>3. Paged!NothingTwice
  <2>1. Paged!IsInjective(statement)
    BY <1>1 DEF PageInv, Once1, Paged!IsInjective
  <2>2. \A r \in Paged!Range(statement) : ListedOn[r] >= from
    BY <1>1 DEF PageInv, Once1, Paged!Range
  <2> QED BY <2>1, <2>2 DEF Paged!NothingTwice
<1>4. Paged!EveryDayOnce
  <2> DEFINE R == Paged!Ranges(from, LastListed, WindowDays)
  <2>1. ASSUME NEW d \in from..LastListed
        PROVE  Paged!Cardinality({i \in DOMAIN R : d >= R[i][1] /\ d <= R[i][2]}) = 1
    <3>1. PICK n \in 1..Intervals(from) : \A i \in 1..Intervals(from) :
            (d >= Opening(from, i) /\ d <= Closing(from, i)) <=> i = n
      BY <1>1, DayOnce
    <3>2. DOMAIN R = 1..Intervals(from) /\ \A i \in 1..Intervals(from) : R[i] = <<Opening(from, i), Closing(from, i)>>
      BY <1>1, IntervalsAre
    <3> HIDE DEF R
    <3>3. {i \in DOMAIN R : d >= R[i][1] /\ d <= R[i][2]} = {n}
      BY <3>1, <3>2
    <3>4. Paged!Cardinality({n}) = Cardinality({n})
      BY DEF Paged!Cardinality, Cardinality
    <3> QED BY <3>3, <3>4, FS_Singleton
  <2> QED BY <2>1 DEF Paged!EveryDayOnce
<1>5. Paged!TypeOK
  BY <1>1, IntervalsAre DEF Paged!TypeOK
<1> QED BY <1>2, <1>3, <1>4, <1>5 DEF Paged!StatementWhole

PagesHere == focus = "pages" => PageInv

LEMMA PagesHold == Edge => []PagesHere
<1>1. Begins => PagesHere
  BY BeginsWith, PageBegins DEF PagesHere
<1>2. PagesHere /\ [Work]_all => PagesHere'
  <2> SUFFICES ASSUME PagesHere, [Work]_all, focus' = "pages"
               PROVE  PageInv'
    BY DEF PagesHere
  <2> QED BY OneAtATime, PageGoesOn DEF PagesHere
<1> QED BY <1>1, <1>2, PTL DEF Edge

(***************************************************************************)
(* Reconciliation and refunds, for any lines of any sources.  The books     *)
(* are sound when a line that is used is evidence of a live entry with its  *)
(* amount, no entry has two lines of one source, and no purchase has two    *)
(* live refunds.                                                           *)
(***************************************************************************)

Booked == 1..MaxBooked

BookRow ==
  [status : {"draft", "posted", "void"}, origin : {"capture", "import", "rule", "refund", "system"},
   amount : Int, cat : Purposes \cup {suspense}, date : 1..LastBooked, touched : BOOLEAN,
   refundOf : 0..MaxBooked, reverses : 0..MaxBooked]

Reading ==
  [amount : Int, date : 1..LastBooked, status : {"matched", "created", "unmatched"}, entry : 0..MaxBooked]

TypedBooks(ent)  == ent \in [Booked -> {Sources!NoRow} \cup BookRow]
TypedReads(read) == read \in [Reported -> {Sources!NoRow} \cup Reading]

Alive(ent, e) == ent[e].status \in {"draft", "posted"}
Used(read, l) == read[l].status \in {"matched", "created"}

Agrees(ent, read) ==
  \A l \in Reported :
    /\ read[l].status = "unmatched" => read[l].entry = 0
    /\ Used(read, l) => read[l].entry \in Booked /\ Alive(ent, read[l].entry) /\ ent[read[l].entry].amount = read[l].amount

OneOfASource(read) ==
  \A l, k \in Reported :
    Used(read, l) /\ Used(read, k) /\ read[l].entry = read[k].entry /\ Reporter[l] = Reporter[k] => l = k

OneRefundEach(ent) ==
  \A e, f \in Booked :
    Alive(ent, e) /\ Alive(ent, f) /\ ent[e].refundOf # 0 /\ ent[e].refundOf = ent[f].refundOf => e = f

Sound(ent, read) ==
  TypedBooks(ent) /\ TypedReads(read) /\ Agrees(ent, read) /\ OneOfASource(read) /\ OneRefundEach(ent)

LEMMA BookKinds ==
  ASSUME NEW ent, TypedBooks(ent), NEW e \in Booked
  PROVE  /\ ent[e] = Sources!NoRow \/ ent[e] \in BookRow
         /\ ent[e] = Sources!NoRow <=> ent[e].status = "none"
         /\ ent[e] # Sources!NoRow <=> ent[e].status \in {"draft", "posted", "void"}
         /\ Alive(ent, e) => ent[e] \in BookRow
<1>1. ent[e] = Sources!NoRow \/ ent[e] \in BookRow
  BY DEF TypedBooks
<1>2. ent[e] = Sources!NoRow => ent[e].status = "none"
  BY DEF Sources!NoRow
<1>3. ent[e] \in BookRow => ent[e].status \in {"draft", "posted", "void"}
  BY DEF BookRow
<1> QED BY <1>1, <1>2, <1>3 DEF Alive

LEMMA ReadKinds ==
  ASSUME NEW read, TypedReads(read), NEW l \in Reported
  PROVE  /\ read[l] = Sources!NoRow \/ read[l] \in Reading
         /\ read[l] = Sources!NoRow <=> read[l].status = "none"
         /\ read[l] # Sources!NoRow <=> read[l].status \in {"matched", "created", "unmatched"}
<1>1. read[l] = Sources!NoRow \/ read[l] \in Reading
  BY DEF TypedReads
<1>2. read[l] = Sources!NoRow => read[l].status = "none"
  BY DEF Sources!NoRow
<1>3. read[l] \in Reading => read[l].status \in {"matched", "created", "unmatched"}
  BY DEF Reading
<1> QED BY <1>1, <1>2, <1>3

(* What a step may do to sound books: an entry comes alive with no refund or the only one;
   a line is set free, keeps its live entry, or is the only one of its source at its new one. *)
LEMMA SoundStep ==
  ASSUME NEW ent, NEW read, NEW ent2, NEW read2, Sound(ent, read), TypedBooks(ent2), TypedReads(read2),
         \A e \in Booked : Alive(ent2, e) /\ ent2[e].refundOf # 0 =>
           \/ Alive(ent, e) /\ ent[e].refundOf = ent2[e].refundOf
           \/ \A f \in Booked : Alive(ent2, f) /\ ent2[f].refundOf = ent2[e].refundOf => f = e,
         \A l \in Reported : read2[l].status = "unmatched" => read2[l].entry = 0,
         \A l \in Reported : Used(read2, l) =>
           /\ read2[l].entry \in Booked /\ Alive(ent2, read2[l].entry) /\ ent2[read2[l].entry].amount = read2[l].amount
           /\ \/ Used(read, l) /\ read[l].entry = read2[l].entry
              \/ \A k \in Reported : Used(read2, k) /\ Reporter[k] = Reporter[l] /\ read2[k].entry = read2[l].entry => k = l
  PROVE  Sound(ent2, read2)
<1>1. Agrees(ent2, read2)
  BY DEF Agrees
<1>2. OneOfASource(read2)
  BY DEF Sound, OneOfASource
<1>3. OneRefundEach(ent2)
  BY DEF Sound, OneRefundEach
<1> QED BY <1>1, <1>2, <1>3 DEF Sound

(* A number under a bound that is in a set: the set has a greatest one. *)
LEMMA MaxIs ==
  ASSUME NEW S \in SUBSET Booked, S # {}
  PROVE  Sources!Max(S) \in S /\ \A n \in S : Sources!Max(S) >= n
<1> DEFINE Back == {k \in Nat : MaxBooked - k \in S}
<1>1. PICK d \in S : TRUE
  OBVIOUS
<1>2. MaxBooked \in Nat /\ d \in 1..MaxBooked /\ MaxBooked - d \in Nat /\ MaxBooked - (MaxBooked - d) = d
  BY <1>1, SourceConstants DEF Booked
<1>3. MaxBooked - d \in Back
  BY <1>2, <1>1
<1>4. PICK k \in Back : \A i \in Back : k <= i
  BY <1>3, LeastNumber
<1>5. MaxBooked - k \in S /\ \A n \in S : MaxBooked - k >= n
  <2>1. ASSUME NEW n \in S PROVE MaxBooked - k >= n
    <3>1. n \in 1..MaxBooked /\ MaxBooked - n \in Nat /\ MaxBooked - (MaxBooked - n) = n
      BY <1>2 DEF Booked
    <3>2. k <= MaxBooked - n
      BY <1>4, <3>1
    <3>3. k \in Nat /\ n \in Int
      BY <1>4, <3>1
    <3>4. MaxBooked \in Nat
      BY <1>2
    <3> HIDE DEF Back
    <3> QED BY <3>2, <3>3, <3>4
  <2> QED BY <1>4, <2>1
<1> QED BY <1>5 DEF Sources!Max

LEMMA NewIdIsFree ==
  ASSUME TypedBooks(entry), Sources!NewId \in Sources!Entries
  PROVE  Sources!NewId \in Booked /\ entry[Sources!NewId] = Sources!NoRow /\ Sources!NewId # 0
<1>1. Sources!Rows \subseteq Booked
  BY DEF Sources!Rows, Sources!Entries, Booked
<1>2. Sources!NewId \notin Sources!Rows
  <2>1. CASE Sources!Rows = {}
    BY <2>1
  <2>2. CASE Sources!Rows # {}
    <3>1. PICK top : top = Sources!Max(Sources!Rows)
      OBVIOUS
    <3>2. top \in Sources!Rows /\ \A n \in Sources!Rows : top >= n
      BY <1>1, <2>2, <3>1, MaxIs
    <3>3. top \in Int /\ Sources!NewId = top + 1
      BY <1>1, <2>2, <3>1, <3>2, SourceConstants DEF Booked, Sources!NewId
    <3> QED BY <3>2, <3>3
  <2> QED BY <2>1, <2>2
<1>3. Sources!NewId \in Booked
  BY DEF Sources!Entries, Booked
<1> QED BY <1>2, <1>3 DEF Sources!Rows, Sources!Entries, Booked

SourceInv == Sound(entry, row) /\ lock \in 0..LastBooked

(* Lines and entries as Sound has them. *)
LEMMA LinesAre ==
  ASSUME SourceInv
  PROVE  /\ Sources!Entries = Booked /\ 0 \notin Booked
         /\ \A e \in Booked : e \in Sources!Rows <=> entry[e].status \in {"draft", "posted", "void"}
         /\ \A e \in Booked : e \in Sources!Live <=> Alive(entry, e)
         /\ \A l \in Reported : l \in Sources!Arrived <=> row[l].status \in {"matched", "created", "unmatched"}
         /\ \A l \in Reported, e \in Booked : l \in Sources!EvidenceOf(e) <=> Used(row, l) /\ row[l].entry = e
         /\ \A e : Sources!EvidenceOf(e) \subseteq Reported
         /\ Sources!Rows \subseteq Booked /\ Sources!Live \subseteq Booked /\ Sources!Arrived \subseteq Reported
<1>1. Sources!Entries = Booked /\ 0 \notin Booked
  BY DEF Sources!Entries, Booked
<1>2. \A e \in Booked : e \in Sources!Rows <=> entry[e].status \in {"draft", "posted", "void"}
  BY <1>1, BookKinds DEF Sources!Rows, SourceInv, Sound
<1>3. \A e \in Booked : e \in Sources!Live <=> Alive(entry, e)
  BY <1>1, <1>2 DEF Sources!Live, Sources!Rows, Alive
<1>4. \A l \in Reported : l \in Sources!Arrived <=> row[l].status \in {"matched", "created", "unmatched"}
  BY ReadKinds DEF Sources!Arrived, SourceInv, Sound
<1>5. \A l \in Reported, e \in Booked : l \in Sources!EvidenceOf(e) <=> Used(row, l) /\ row[l].entry = e
  <2>1. \A l \in Reported : row[l].status = "unmatched" => row[l].entry = 0
    BY DEF SourceInv, Sound, Agrees
  <2> QED BY <1>1, <1>4, <2>1 DEF Sources!EvidenceOf, Used, Sources!Arrived
<1>6. /\ \A e : Sources!EvidenceOf(e) \subseteq Reported
      /\ Sources!Rows \subseteq Booked /\ Sources!Live \subseteq Booked /\ Sources!Arrived \subseteq Reported
  BY <1>1 DEF Sources!EvidenceOf, Sources!Rows, Sources!Live, Sources!Arrived
<1> QED BY <1>1, <1>2, <1>3, <1>4, <1>5, <1>6

(* Steps that change no line and book a new entry that is no refund. *)
LEMMA NewBook ==
  ASSUME SourceInv, NEW new \in BookRow, new.refundOf = 0, Sources!NewId \in Sources!Entries,
         entry' = [entry EXCEPT ![Sources!NewId] = new], row' = row, lock' = lock
  PROVE  SourceInv'
<1>1. Sources!NewId \in Booked /\ entry[Sources!NewId] = Sources!NoRow
  BY NewIdIsFree DEF SourceInv, Sound
<1> DEFINE n == Sources!NewId
<1>2. n \in Booked /\ entry[n].status = "none"
  BY <1>1, BookKinds DEF SourceInv, Sound
<1>3. TypedBooks(entry') /\ entry'[n] = new /\ \A e \in Booked \ {n} : entry'[e] = entry[e]
  <2> HIDE DEF n
  <2>1. entry' = [entry EXCEPT ![n] = new]
    BY DEF n
  <2> QED BY <1>2, <2>1 DEF SourceInv, Sound, TypedBooks
<1> HIDE DEF n
<1>4. \A e \in Booked : Alive(entry, e) => e # n
  BY <1>2 DEF Alive
<1>5. Sound(entry', row)
  <2>1. \A l \in Reported : Used(row, l) => row[l].entry \in Booked /\ Alive(entry, row[l].entry)
                                     /\ entry[row[l].entry].amount = row[l].amount
    BY DEF SourceInv, Sound, Agrees
  <2>2. \A l \in Reported : Used(row, l) => row[l].entry \in Booked /\ Alive(entry', row[l].entry)
                                     /\ entry'[row[l].entry].amount = row[l].amount
    BY <1>3, <1>4, <2>1 DEF Alive
  <2>3. \A e \in Booked : Alive(entry', e) /\ entry'[e].refundOf # 0 =>
                             Alive(entry, e) /\ entry[e].refundOf = entry'[e].refundOf
    BY <1>3 DEF Alive
  <2>4. \A l \in Reported : row[l].status = "unmatched" => row[l].entry = 0
    BY DEF SourceInv, Sound, Agrees
  <2> QED BY <1>3, <2>2, <2>3, <2>4, SoundStep DEF SourceInv, Sound
<1> QED BY <1>5 DEF SourceInv

(* Steps that change no line, and of an entry no more than its status, to a living one, its
   category and its marks. *)
LEMMA ReviewedBook ==
  ASSUME SourceInv, NEW e \in Booked, NEW new \in BookRow, Alive(entry, e), new.status \in {"draft", "posted"},
         new.amount = entry[e].amount, new.refundOf = entry[e].refundOf,
         entry' = [entry EXCEPT ![e] = new], row' = row, lock' = lock
  PROVE  SourceInv'
<1>1. TypedBooks(entry') /\ entry'[e] = new /\ \A f \in Booked \ {e} : entry'[f] = entry[f]
  BY DEF SourceInv, Sound, TypedBooks
<1>2. \A f \in Booked : /\ Alive(entry', f) <=> Alive(entry, f)
                        /\ Alive(entry, f) => entry'[f].amount = entry[f].amount /\ entry'[f].refundOf = entry[f].refundOf
  BY <1>1 DEF Alive
<1>3. \A l \in Reported : Used(row, l) => row[l].entry \in Booked /\ Alive(entry', row[l].entry)
                                     /\ entry'[row[l].entry].amount = row[l].amount
  <2>1. \A l \in Reported : Used(row, l) => row[l].entry \in Booked /\ Alive(entry, row[l].entry)
                                     /\ entry[row[l].entry].amount = row[l].amount
    BY DEF SourceInv, Sound, Agrees
  <2> QED BY <1>2, <2>1 DEF Alive
<1>4. \A l \in Reported : row[l].status = "unmatched" => row[l].entry = 0
  BY DEF SourceInv, Sound, Agrees
<1>5. \A f \in Booked : Alive(entry', f) /\ entry'[f].refundOf # 0 =>
                           Alive(entry, f) /\ entry[f].refundOf = entry'[f].refundOf
  BY <1>2 DEF Alive
<1>6. Sound(entry', row)
  BY <1>1, <1>3, <1>4, <1>5, SoundStep DEF SourceInv, Sound
<1> QED BY <1>6 DEF SourceInv

LEMMA CaptureStep ==
  ASSUME SourceInv, NEW n \in Spent, NEW d \in 1..LastBooked, NEW c \in Purposes, Sources!Capture(n, c, d)
  PROVE  SourceInv'
<1> DEFINE new == Sources!Row("posted", "capture", n, c, d)
<1>1. new \in BookRow /\ new.refundOf = 0
  BY SourceConstants DEF Sources!Row, BookRow
<1>2. Sources!NewId \in Sources!Entries /\ row' = row /\ lock' = lock
      /\ entry' = [entry EXCEPT ![Sources!NewId] = new]
  BY DEF Sources!Capture
<1> HIDE DEF new
<1> QED BY <1>1, <1>2, NewBook

LEMMA JudgeStep ==
  ASSUME SourceInv, NEW e \in Booked, NEW c,
         (c \in Purposes /\ (Sources!Categorize(e, c) \/ Sources!Redraft(e, c))) \/ Sources!Review(e)
  PROVE  SourceInv'
<1>1. Alive(entry, e) /\ entry[e] \in BookRow
  <2>1. e \in Sources!Live \/ (e \in Sources!Rows /\ entry[e].status = "draft")
    BY DEF Sources!Categorize, Sources!Redraft, Sources!Review
  <2>2. Alive(entry, e)
    BY <2>1, LinesAre DEF Alive
  <2> QED BY <2>2, BookKinds DEF SourceInv, Sound
<1>2. PICK old \in BookRow : old = entry[e]
  BY <1>1
<1>3. CASE c \in Purposes /\ (Sources!Categorize(e, c) \/ Sources!Redraft(e, c))
  <2> DEFINE new == [old EXCEPT !.status = "posted", !.cat = c, !.touched = TRUE]
  <2>1. new \in BookRow /\ new.status = "posted" /\ new.amount = old.amount /\ new.refundOf = old.refundOf
    BY <1>3 DEF BookRow
  <2>2. row' = row /\ lock' = lock
    BY <1>3 DEF Sources!Categorize, Sources!Redraft
  <2>3. entry' = [entry EXCEPT ![e] = new]
    BY <1>2, <1>3 DEF Sources!Categorize, Sources!Redraft, SourceInv, Sound, TypedBooks
  <2> HIDE DEF new
  <2> QED BY <1>1, <1>2, <2>1, <2>2, <2>3, ReviewedBook
<1>4. CASE Sources!Review(e)
  <2> DEFINE new == [old EXCEPT !.touched = TRUE]
  <2>1. new \in BookRow /\ new.status = old.status /\ new.amount = old.amount /\ new.refundOf = old.refundOf
    BY DEF BookRow
  <2>2. row' = row /\ lock' = lock
    BY <1>4 DEF Sources!Review
  <2>3. entry' = [entry EXCEPT ![e] = new]
    BY <1>2, <1>4 DEF Sources!Review, SourceInv, Sound, TypedBooks
  <2>4. new.status \in {"draft", "posted"}
    BY <1>1, <1>2, <2>1 DEF Alive
  <2> HIDE DEF new
  <2> QED BY <1>1, <1>2, <2>1, <2>2, <2>3, <2>4, ReviewedBook
<1> QED BY <1>3, <1>4

(* What is said of the lines that are used, for citing. *)
LEMMA UsedLines ==
  ASSUME SourceInv
  PROVE  /\ \A l \in Reported : Used(row, l) => row[l].entry \in Booked /\ Alive(entry, row[l].entry)
                                                  /\ entry[row[l].entry].amount = row[l].amount
         /\ \A l \in Reported : row[l].status = "unmatched" => row[l].entry = 0
         /\ \A l, k \in Reported : Used(row, l) /\ Used(row, k) /\ row[l].entry = row[k].entry
                                      /\ Reporter[l] = Reporter[k] => l = k
         /\ Sound(entry, row) /\ TypedBooks(entry) /\ TypedReads(row)
BY DEF SourceInv, Sound, Agrees, OneOfASource

LEMMA ArriveStep ==
  ASSUME SourceInv, NEW l \in Reported, NEW n \in Received, NEW d \in 1..LastBooked, Sources!Arrive(l, n, d)
  PROVE  SourceInv'
<1>1. row[l] = Sources!NoRow /\ row[l].status = "none" /\ lock' = lock /\ n \in Int
  BY UsedLines, ReadKinds, SourceConstants DEF Sources!Arrive
<1> DEFINE free == {e \in Sources!Live : /\ entry[e].amount = n /\ Sources!Near(entry[e].date, d)
                                         /\ entry[e].reverses = 0 /\ Sources!EvidenceOf(e) = {}}
<1>2. CASE \E e \in free : /\ row' = [row EXCEPT ![l] = Sources!LineRow(n, d, "matched", e)]
                           /\ entry' = [entry EXCEPT ![e].status = "posted", ![e].touched = @ \/ entry[e].status = "draft"]
  <2>1. PICK e \in free : /\ row' = [row EXCEPT ![l] = Sources!LineRow(n, d, "matched", e)]
                          /\ entry' = [entry EXCEPT ![e].status = "posted", ![e].touched = @ \/ entry[e].status = "draft"]
    BY <1>2
  <2>2. e \in Booked /\ Alive(entry, e) /\ entry[e].amount = n /\ entry[e] \in BookRow
        /\ \A k \in Reported : Used(row, k) => row[k].entry # e
    BY LinesAre, UsedLines, BookKinds
  <2>3. PICK old \in BookRow : old = entry[e]
    BY <2>2
  <2>4. PICK mark \in BOOLEAN : mark = (old.touched \/ old.status = "draft")
    BY <2>3 DEF BookRow
  <2> DEFINE new == [old EXCEPT !.status = "posted", !.touched = mark]
             read == Sources!LineRow(n, d, "matched", e)
  <2>5. new \in BookRow /\ new.status = "posted" /\ new.amount = old.amount /\ new.refundOf = old.refundOf
    BY DEF BookRow
  <2>6. entry' = [entry EXCEPT ![e] = new]
    BY <2>1, <2>2, <2>3, <2>4, UsedLines DEF TypedBooks
  <2>7. read \in Reading /\ read.status = "matched" /\ read.entry = e /\ read.amount = n /\ row' = [row EXCEPT ![l] = read]
    BY <1>1, <2>1, <2>2 DEF Sources!LineRow, Reading, Booked
  <2> HIDE DEF new, read, free
  <2>8. TypedBooks(entry') /\ entry'[e] = new /\ \A f \in Booked \ {e} : entry'[f] = entry[f]
    BY <2>2, <2>5, <2>6, UsedLines DEF TypedBooks
  <2>9. TypedReads(row') /\ row'[l] = read /\ \A k \in Reported \ {l} : row'[k] = row[k]
    BY <2>7, UsedLines DEF TypedReads
  <2>10. Alive(entry', e) /\ entry'[e].amount = n /\ entry'[e].refundOf = entry[e].refundOf
    BY <2>3, <2>5, <2>8, <2>2 DEF Alive
  <2>11. \A f \in Booked : /\ Alive(entry', f) <=> Alive(entry, f)
                           /\ entry'[f].amount = entry[f].amount /\ entry'[f].refundOf = entry[f].refundOf
    BY <2>2, <2>8, <2>10 DEF Alive
  <2>12. \A k \in Reported : k # l => (Used(row', k) <=> Used(row, k))
    BY <2>9 DEF Used
  <2>13. \A k \in Reported : row'[k].status = "unmatched" => row'[k].entry = 0
    BY <2>7, <2>9, UsedLines
  <2>14. ASSUME NEW k \in Reported, Used(row', k)
         PROVE  /\ row'[k].entry \in Booked /\ Alive(entry', row'[k].entry) /\ entry'[row'[k].entry].amount = row'[k].amount
                /\ \/ Used(row, k) /\ row[k].entry = row'[k].entry
                   \/ \A i \in Reported : Used(row', i) /\ Reporter[i] = Reporter[k] /\ row'[i].entry = row'[k].entry => i = k
    <3>1. CASE k = l
      <4>1. row'[k].entry = e /\ row'[k].amount = n
        BY <2>7, <2>9, <3>1
      <4>2. \A i \in Reported : i # k /\ Used(row', i) => row'[i].entry # e
        BY <2>2, <2>9, <2>12, <3>1
      <4> QED BY <2>2, <2>10, <4>1, <4>2
    <3>2. CASE k # l
      <4>1. row'[k] = row[k] /\ Used(row, k)
        BY <2>9, <2>12, <2>14, <3>2
      <4>2. row[k].entry \in Booked /\ Alive(entry, row[k].entry) /\ entry[row[k].entry].amount = row[k].amount
        BY <4>1, UsedLines
      <4>3. Alive(entry', row[k].entry) /\ entry'[row[k].entry].amount = row[k].amount
        BY <2>11, <4>1, <4>2 DEF Alive
      <4> QED BY <4>1, <4>2, <4>3
    <3> QED BY <3>1, <3>2
  <2>15. \A f \in Booked : Alive(entry', f) /\ entry'[f].refundOf # 0 =>
                             Alive(entry, f) /\ entry[f].refundOf = entry'[f].refundOf
    BY <2>11
  <2>16. Sound(entry', row')
    BY <2>8, <2>9, <2>13, <2>14, <2>15, UsedLines, SoundStep
  <2> QED BY <1>1, <2>16 DEF SourceInv
<1>3. ASSUME Sources!NewId \in Sources!Entries, NEW new \in BookRow, new.amount = n, new.refundOf = 0,
             new.status \in {"draft", "posted"}, entry' = [entry EXCEPT ![Sources!NewId] = new],
             row' = [row EXCEPT ![l] = Sources!LineRow(n, d, "created", Sources!NewId)]
      PROVE  SourceInv'
  <2> DEFINE e == Sources!NewId
             read == Sources!LineRow(n, d, "created", e)
  <2>1. e \in Booked /\ entry[e].status = "none"
    BY <1>3, NewIdIsFree, UsedLines, BookKinds
  <2>2. \A k \in Reported : Used(row, k) => row[k].entry # e
    BY <2>1, UsedLines DEF Alive
  <2>3. read \in Reading /\ read.status = "created" /\ read.entry = e /\ read.amount = n /\ row' = [row EXCEPT ![l] = read]
    BY <1>1, <1>3, <2>1 DEF Sources!LineRow, Reading, Booked
  <2>4. entry' = [entry EXCEPT ![e] = new]
    BY <1>3
  <2> HIDE DEF e, read
  <2>5. TypedBooks(entry') /\ entry'[e] = new /\ \A f \in Booked \ {e} : entry'[f] = entry[f]
    BY <1>3, <2>1, <2>4, UsedLines DEF TypedBooks
  <2>6. TypedReads(row') /\ row'[l] = read /\ \A k \in Reported \ {l} : row'[k] = row[k]
    BY <2>3, UsedLines DEF TypedReads
  <2>7. Alive(entry', e) /\ entry'[e].amount = n /\ entry'[e].refundOf = 0
    BY <1>3, <2>5 DEF Alive
  <2>8. \A f \in Booked : f # e => /\ Alive(entry', f) <=> Alive(entry, f)
                                   /\ entry'[f].amount = entry[f].amount /\ entry'[f].refundOf = entry[f].refundOf
    BY <2>5 DEF Alive
  <2>9. \A k \in Reported : k # l => (Used(row', k) <=> Used(row, k))
    BY <2>6 DEF Used
  <2>10. \A k \in Reported : row'[k].status = "unmatched" => row'[k].entry = 0
    BY <2>3, <2>6, UsedLines
  <2>11. ASSUME NEW k \in Reported, Used(row', k)
         PROVE  /\ row'[k].entry \in Booked /\ Alive(entry', row'[k].entry) /\ entry'[row'[k].entry].amount = row'[k].amount
                /\ \/ Used(row, k) /\ row[k].entry = row'[k].entry
                   \/ \A i \in Reported : Used(row', i) /\ Reporter[i] = Reporter[k] /\ row'[i].entry = row'[k].entry => i = k
    <3>1. CASE k = l
      <4>1. row'[k].entry = e /\ row'[k].amount = n
        BY <2>3, <2>6, <3>1
      <4>2. \A i \in Reported : i # k /\ Used(row', i) => row'[i].entry # e
        BY <2>2, <2>6, <2>9, <3>1
      <4> QED BY <2>1, <2>7, <4>1, <4>2
    <3>2. CASE k # l
      <4>1. row'[k] = row[k] /\ Used(row, k) /\ row[k].entry # e
        BY <2>2, <2>6, <2>9, <2>11, <3>2
      <4>2. row[k].entry \in Booked /\ Alive(entry, row[k].entry) /\ entry[row[k].entry].amount = row[k].amount
        BY <4>1, UsedLines
      <4>3. Alive(entry', row[k].entry) /\ entry'[row[k].entry].amount = row[k].amount
        BY <2>8, <4>1, <4>2 DEF Alive
      <4> QED BY <4>1, <4>2, <4>3
    <3> QED BY <3>1, <3>2
  <2>12. \A f \in Booked : Alive(entry', f) /\ entry'[f].refundOf # 0 =>
                             Alive(entry, f) /\ entry[f].refundOf = entry'[f].refundOf
    BY <2>7, <2>8
  <2>13. Sound(entry', row')
    BY <2>5, <2>6, <2>10, <2>11, <2>12, UsedLines, SoundStep
  <2> QED BY <1>1, <2>13 DEF SourceInv
<1>4. CASE row' = [row EXCEPT ![l] = Sources!LineRow(n, d, "unmatched", 0)] /\ entry' = entry
  <2> DEFINE read == Sources!LineRow(n, d, "unmatched", 0)
  <2>1. read \in Reading /\ read.status = "unmatched" /\ read.entry = 0 /\ row' = [row EXCEPT ![l] = read]
    BY <1>1, <1>4, SourceConstants DEF Sources!LineRow, Reading
  <2> HIDE DEF read
  <2>2. TypedReads(row') /\ row'[l] = read /\ \A k \in Reported \ {l} : row'[k] = row[k]
    BY <2>1, UsedLines DEF TypedReads
  <2>3. \A k \in Reported : Used(row', k) => k # l /\ Used(row, k) /\ row'[k] = row[k]
    BY <2>1, <2>2 DEF Used
  <2>4. \A k \in Reported : row'[k].status = "unmatched" => row'[k].entry = 0
    BY <2>1, <2>2, UsedLines
  <2>5. Sound(entry, row')
    BY <2>2, <2>3, <2>4, UsedLines, SoundStep
  <2> QED BY <1>1, <1>4, <2>5 DEF SourceInv
<1>5. CASE /\ free = {} /\ Sources!NewId \in Sources!Entries
           /\ row' = [row EXCEPT ![l] = Sources!LineRow(n, d, "created", Sources!NewId)]
           /\ \/ entry' = [entry EXCEPT ![Sources!NewId] = Sources!Row("draft", "import", n, suspense, d)]
              \/ \E c \in Purposes :
                   d > lock /\ entry' = [entry EXCEPT ![Sources!NewId] = Sources!Row("posted", "rule", n, c, d)]
  <2>1. CASE entry' = [entry EXCEPT ![Sources!NewId] = Sources!Row("draft", "import", n, suspense, d)]
    <3> DEFINE new == Sources!Row("draft", "import", n, suspense, d)
    <3>1. new \in BookRow /\ new.amount = n /\ new.refundOf = 0 /\ new.status = "draft"
      BY <1>1, SourceConstants DEF Sources!Row, BookRow
    <3> HIDE DEF new
    <3>2. entry' = [entry EXCEPT ![Sources!NewId] = new]
      BY <2>1 DEF new
    <3> QED BY <1>3, <1>5, <3>1, <3>2
  <2>2. ASSUME NEW c \in Purposes, entry' = [entry EXCEPT ![Sources!NewId] = Sources!Row("posted", "rule", n, c, d)]
        PROVE  SourceInv'
    <3> DEFINE new == Sources!Row("posted", "rule", n, c, d)
    <3>1. new \in BookRow /\ new.amount = n /\ new.refundOf = 0 /\ new.status = "posted"
      BY <1>1, SourceConstants DEF Sources!Row, BookRow
    <3> HIDE DEF new
    <3>2. entry' = [entry EXCEPT ![Sources!NewId] = new]
      BY <2>2 DEF new
    <3> QED BY <1>3, <1>5, <3>1, <3>2
  <2> QED BY <1>5, <2>1, <2>2
<1> QED BY <1>2, <1>4, <1>5 DEF Sources!Arrive

(* Lines that were evidence of an entry are free. *)
LEMMA FreedLines ==
  ASSUME SourceInv, NEW e \in Booked, row' = Sources!Freed(e)
  PROVE  /\ TypedReads(row')
         /\ \A k \in Reported : row'[k].status = "unmatched" => row'[k].entry = 0
         /\ \A k \in Reported : Used(row', k) => row'[k] = row[k] /\ Used(row, k) /\ row[k].entry # e
<1>1. ASSUME NEW k \in Reported
      PROVE  row'[k] = IF k \in Sources!EvidenceOf(e) THEN [row[k] EXCEPT !.status = "unmatched", !.entry = 0] ELSE row[k]
  BY DEF Sources!Freed
<1>2. ASSUME NEW k \in Reported, k \in Sources!EvidenceOf(e)
      PROVE  row'[k] \in Reading /\ row'[k].status = "unmatched" /\ row'[k].entry = 0
  <2>1. row[k] \in Reading
    BY <1>2, LinesAre, UsedLines, ReadKinds DEF Used
  <2>2. PICK old \in Reading : old = row[k]
    BY <2>1
  <2>3. row'[k] = [old EXCEPT !.status = "unmatched", !.entry = 0]
    BY <1>1, <1>2, <2>2
  <2>4. 0 \in 0..MaxBooked
    BY SourceConstants
  <2> QED BY <2>3, <2>4 DEF Reading
<1>3. ASSUME NEW k \in Reported, k \notin Sources!EvidenceOf(e)
      PROVE  row'[k] = row[k] /\ (Used(row, k) => row[k].entry # e)
  BY <1>1, <1>3, LinesAre
<1>4. TypedReads(row')
  <2>1. \A k \in Reported : row'[k] \in {Sources!NoRow} \cup Reading
    BY <1>2, <1>3, UsedLines DEF TypedReads
  <2>2. DOMAIN row' = Reported /\ row' = [k \in Reported |-> row'[k]]
    BY DEF Sources!Freed
  <2> QED BY <2>1, <2>2 DEF TypedReads
<1>5. \A k \in Reported : row'[k].status = "unmatched" => row'[k].entry = 0
  BY <1>2, <1>3, UsedLines
<1>6. ASSUME NEW k \in Reported, Used(row', k)
      PROVE  row'[k] = row[k] /\ Used(row, k) /\ row[k].entry # e
  <2>1. k \notin Sources!EvidenceOf(e)
    BY <1>2, <1>6 DEF Used
  <2> QED BY <1>3, <1>6, <2>1 DEF Used
<1> QED BY <1>4, <1>5, <1>6

LEMMA ReversalIs ==
  ASSUME SourceInv, NEW e \in Booked, entry[e] # Sources!NoRow
  PROVE  Sources!Reversal(e) \in BookRow /\ Sources!Reversal(e).refundOf = 0 /\ Sources!Reversal(e).status = "posted"
<1>1. entry[e] \in BookRow
  BY UsedLines, BookKinds
<1>2. entry[e].amount \in Int /\ entry[e].cat \in Purposes \cup {suspense} /\ entry[e].date \in 1..LastBooked
  BY <1>1 DEF BookRow
<1> DEFINE plain == Sources!Row("posted", "system", -entry[e].amount, entry[e].cat, entry[e].date)
<1>3. plain \in BookRow /\ plain.refundOf = 0 /\ plain.status = "posted"
  BY <1>2, SourceConstants DEF Sources!Row, BookRow
<1>4. Sources!Reversal(e) = [plain EXCEPT !.reverses = e]
  BY DEF Sources!Reversal
<1> HIDE DEF plain
<1>5. PICK old \in BookRow : old = plain
  BY <1>3
<1> QED BY <1>3, <1>4, <1>5, SourceConstants DEF BookRow, Booked

LEMMA VoidStep ==
  ASSUME SourceInv, NEW e \in Booked, Sources!Void(e)
  PROVE  SourceInv'
<1> DEFINE n == Sources!NewId
           back == Sources!Reversal(e)
<1>1. n \in Booked /\ entry[n].status = "none" /\ entry[e].status = "posted" /\ lock' = lock /\ row' = Sources!Freed(e)
  BY NewIdIsFree, UsedLines, BookKinds DEF Sources!Void
<1>2. PICK old \in BookRow : old = entry[e]
  BY <1>1, UsedLines, BookKinds
<1> DEFINE gone == [old EXCEPT !.status = "void"]
<1>3. gone \in BookRow /\ gone.status = "void"
  BY DEF BookRow
<1>4. back \in BookRow /\ back.refundOf = 0 /\ back.status = "posted"
  BY <1>1, ReversalIs DEF Sources!NoRow
<1>5. entry' = [entry EXCEPT ![e] = gone, ![n] = back]
  BY <1>2, UsedLines DEF Sources!Void, TypedBooks
<1> HIDE DEF n, back, gone
<1>6. TypedBooks(entry') /\ entry'[e] = gone /\ entry'[n] = back /\ \A f \in Booked \ {e, n} : entry'[f] = entry[f]
  BY <1>1, <1>3, <1>4, <1>5, UsedLines DEF TypedBooks
<1>7. \A f \in Booked : Alive(entry', f) /\ entry'[f].refundOf # 0 =>
                         Alive(entry, f) /\ entry[f].refundOf = entry'[f].refundOf
  BY <1>3, <1>4, <1>6 DEF Alive
<1>8. ASSUME NEW k \in Reported, Used(row', k)
      PROVE  /\ row'[k].entry \in Booked /\ Alive(entry', row'[k].entry) /\ entry'[row'[k].entry].amount = row'[k].amount
             /\ Used(row, k) /\ row[k].entry = row'[k].entry
  <2>1. row'[k] = row[k] /\ Used(row, k) /\ row[k].entry # e
    BY <1>1, <1>8, FreedLines
  <2>2. row[k].entry \in Booked /\ Alive(entry, row[k].entry) /\ entry[row[k].entry].amount = row[k].amount
    BY <2>1, UsedLines
  <2>3. row[k].entry # n
    BY <1>1, <2>2 DEF Alive
  <2> QED BY <1>6, <2>1, <2>2, <2>3 DEF Alive
<1>9. \A k \in Reported : row'[k].status = "unmatched" => row'[k].entry = 0
  BY <1>1, FreedLines
<1>10. TypedReads(row')
  BY <1>1, FreedLines
<1>11. Sound(entry', row')
  BY <1>6, <1>7, <1>8, <1>9, <1>10, UsedLines, SoundStep
<1> QED BY <1>1, <1>11 DEF SourceInv

LEMMA DeleteStep ==
  ASSUME SourceInv, NEW e \in Booked, Sources!DeleteDraft(e)
  PROVE  SourceInv'
<1>1. lock' = lock /\ row' = Sources!Freed(e) /\ entry' = [entry EXCEPT ![e] = Sources!NoRow]
  BY DEF Sources!DeleteDraft
<1>2. TypedBooks(entry') /\ entry'[e] = Sources!NoRow /\ \A f \in Booked \ {e} : entry'[f] = entry[f]
  BY <1>1, UsedLines DEF TypedBooks
<1>3. ~Alive(entry', e)
  BY <1>2 DEF Alive, Sources!NoRow
<1>4. \A f \in Booked : Alive(entry', f) /\ entry'[f].refundOf # 0 =>
                         Alive(entry, f) /\ entry[f].refundOf = entry'[f].refundOf
  BY <1>2, <1>3 DEF Alive
<1>5. ASSUME NEW k \in Reported, Used(row', k)
      PROVE  /\ row'[k].entry \in Booked /\ Alive(entry', row'[k].entry) /\ entry'[row'[k].entry].amount = row'[k].amount
             /\ Used(row, k) /\ row[k].entry = row'[k].entry
  <2>1. row'[k] = row[k] /\ Used(row, k) /\ row[k].entry # e
    BY <1>1, <1>5, FreedLines
  <2>2. row[k].entry \in Booked /\ Alive(entry, row[k].entry) /\ entry[row[k].entry].amount = row[k].amount
    BY <2>1, UsedLines
  <2> QED BY <1>2, <2>1, <2>2 DEF Alive
<1>6. TypedReads(row') /\ \A k \in Reported : row'[k].status = "unmatched" => row'[k].entry = 0
  BY <1>1, FreedLines
<1>7. Sound(entry', row')
  BY <1>2, <1>4, <1>5, <1>6, UsedLines, SoundStep
<1> QED BY <1>1, <1>7 DEF SourceInv

LEMMA RefundStep ==
  ASSUME SourceInv, NEW l \in Reported, NEW o \in Booked, Sources!LinkRefund(l, o)
  PROVE  SourceInv'
<1> DEFINE n == Sources!NewId
           own == row[l].entry
           new == [Sources!Row("posted", "refund", row[l].amount, entry[o].cat, row[l].date) EXCEPT !.refundOf = o]
           read == [row[l] EXCEPT !.status = "created", !.entry = n]
<1>1. /\ l \in Sources!Arrived /\ row[l].status \in {"unmatched", "created"} /\ Sources!Refundable(o, row[l].amount, row[l].date)
      /\ own # 0 => Sources!Replaceable(l)
      /\ n \in Sources!Entries /\ lock' = lock
      /\ entry' = [e \in Booked |-> IF e = n THEN new ELSE IF e = own THEN Sources!NoRow ELSE entry[e]]
      /\ row' = [row EXCEPT ![l].status = "created", ![l].entry = n]
  BY LinesAre DEF Sources!LinkRefund
<1>2. n \in Booked /\ entry[n].status = "none"
  BY <1>1, NewIdIsFree, UsedLines, BookKinds
<1>3. PICK said \in Reading : said = row[l]
  BY <1>1, UsedLines, ReadKinds
<1>4. read \in Reading /\ read.status = "created" /\ read.entry = n /\ read.amount = row[l].amount
  <2>1. n \in 0..MaxBooked
    BY <1>2, SourceConstants DEF Booked
  <2>2. read = [said EXCEPT !.status = "created", !.entry = n]
    BY <1>3
  <2> HIDE DEF n
  <2> QED BY <1>3, <2>1, <2>2 DEF Reading
<1>5. new \in BookRow /\ new.status = "posted" /\ new.amount = row[l].amount /\ new.refundOf = o
  <2>1. entry[o].cat \in Purposes \cup {suspense}
    BY <1>1, UsedLines, BookKinds DEF Sources!Refundable, BookRow
  <2> DEFINE plain == Sources!Row("posted", "refund", row[l].amount, entry[o].cat, row[l].date)
  <2>2. plain \in BookRow /\ plain.status = "posted" /\ plain.amount = row[l].amount
    BY <1>3, <2>1, SourceConstants DEF Sources!Row, BookRow, Reading
  <2>3. new = [plain EXCEPT !.refundOf = o]
    OBVIOUS
  <2> HIDE DEF plain, new
  <2>4. PICK old2 \in BookRow : old2 = plain
    BY <2>2
  <2> QED BY <2>2, <2>3, <2>4, SourceConstants DEF BookRow, Booked
<1>6. row' = [row EXCEPT ![l] = read]
  BY <1>1, UsedLines DEF TypedReads
<1>7. \A k \in Reported : k # l /\ Used(row, k) => row[k].entry # own
  <2>1. CASE own = 0
    BY <2>1, UsedLines, LinesAre
  <2>2. CASE own # 0
    <3>1. Sources!EvidenceOf(own) = {l}
      BY <1>1, <2>2 DEF Sources!Replaceable
    <3> QED BY <3>1, UsedLines, LinesAre
  <2> QED BY <2>1, <2>2
<1>8. \A f \in Booked : Alive(entry, f) => entry[f].refundOf # o
  BY <1>1, LinesAre DEF Sources!Refundable
<1> HIDE DEF new, read, n
<1>9. /\ TypedBooks(entry') /\ entry'[n] = new
      /\ \A f \in Booked \ {n} : entry'[f] = IF f = own THEN Sources!NoRow ELSE entry[f]
  <2>1. \A f \in Booked : entry'[f] = IF f = n THEN new ELSE IF f = own THEN Sources!NoRow ELSE entry[f]
    BY <1>1
  <2>2. \A f \in Booked : entry'[f] \in {Sources!NoRow} \cup BookRow
    BY <1>5, <2>1, UsedLines DEF TypedBooks
  <2>3. entry' = [f \in Booked |-> entry'[f]]
    BY <1>1
  <2> QED BY <1>2, <2>1, <2>2, <2>3 DEF TypedBooks
<1>10. TypedReads(row') /\ row'[l] = read /\ \A k \in Reported \ {l} : row'[k] = row[k]
  BY <1>4, <1>6, UsedLines DEF TypedReads
<1>11. Sources!NoRow.status = "none"
  BY DEF Sources!NoRow
<1>12. ASSUME NEW f \in Booked, Alive(entry', f), entry'[f].refundOf # 0
       PROVE  \/ Alive(entry, f) /\ entry[f].refundOf = entry'[f].refundOf
              \/ \A i \in Booked : Alive(entry', i) /\ entry'[i].refundOf = entry'[f].refundOf => i = f
  <2>1. CASE f = n
    <3>1. entry'[f].refundOf = o
      BY <1>5, <1>9, <2>1
    <3>2. ASSUME NEW i \in Booked, i # n, Alive(entry', i) PROVE entry'[i].refundOf # o
      <4>1. entry'[i] = entry[i] /\ Alive(entry, i)
        BY <1>9, <1>11, <3>2 DEF Alive
      <4> QED BY <1>8, <4>1
    <3> QED BY <2>1, <3>1, <3>2
  <2>2. CASE f # n
    BY <1>9, <1>11, <1>12, <2>2 DEF Alive
  <2> QED BY <2>1, <2>2
<1>13. ASSUME NEW k \in Reported, Used(row', k)
       PROVE  /\ row'[k].entry \in Booked /\ Alive(entry', row'[k].entry) /\ entry'[row'[k].entry].amount = row'[k].amount
              /\ \/ Used(row, k) /\ row[k].entry = row'[k].entry
                 \/ \A i \in Reported : Used(row', i) /\ Reporter[i] = Reporter[k] /\ row'[i].entry = row'[k].entry => i = k
  <2>1. ASSUME NEW i \in Reported, i # l, Used(row', i)
        PROVE  /\ row'[i] = row[i] /\ Used(row, i) /\ row[i].entry # n /\ row[i].entry # own
               /\ row[i].entry \in Booked /\ Alive(entry, row[i].entry) /\ entry[row[i].entry].amount = row[i].amount
    <3>1. row'[i] = row[i] /\ Used(row, i)
      BY <1>10, <2>1 DEF Used
    <3>2. row[i].entry \in Booked /\ Alive(entry, row[i].entry) /\ entry[row[i].entry].amount = row[i].amount
      BY <3>1, UsedLines
    <3> QED BY <1>2, <1>7, <2>1, <3>1, <3>2 DEF Alive
  <2>2. CASE k = l
    <3>1. row'[k].entry = n /\ row'[k].amount = row[l].amount
      BY <1>4, <1>10, <2>2
    <3>2. Alive(entry', n) /\ entry'[n].amount = row[l].amount
      BY <1>5, <1>9 DEF Alive
    <3>3. \A i \in Reported : i # k /\ Used(row', i) => row'[i].entry # n
      BY <2>1, <2>2
    <3> QED BY <1>2, <3>1, <3>2, <3>3
  <2>3. CASE k # l
    <3>1. entry'[row[k].entry] = entry[row[k].entry]
      BY <1>9, <1>13, <2>1, <2>3
    <3> QED BY <1>13, <2>1, <2>3, <3>1 DEF Alive
  <2> QED BY <2>2, <2>3
<1>14. \A k \in Reported : row'[k].status = "unmatched" => row'[k].entry = 0
  BY <1>4, <1>10, UsedLines
<1>15. Sound(entry', row')
  BY <1>9, <1>10, <1>12, <1>13, <1>14, UsedLines, SoundStep
<1> QED BY <1>1, <1>15 DEF SourceInv

(***************************************************************************)
(* A confirmed reconciliation                                              *)
(***************************************************************************)

(* What is planned: the line is the only evidence of the entry that goes, if it has one, and
   the entry that stays has evidence of other sources, and none of this one. *)
LEMMA PlanIs ==
  ASSUME SourceInv, NEW s, NEW c \in Sources!Plan(s)
  PROVE  /\ c[1] \in Reported /\ c[1] \in Sources!Arrived /\ Reporter[c[1]] = s
         /\ c[2] \in Booked /\ entry[c[2]].status = "posted" /\ entry[c[2]].amount = row[c[1]].amount
         /\ \E k \in Sources!EvidenceOf(c[2]) : Reporter[k] # s
         /\ \A k \in Sources!EvidenceOf(c[2]) : Reporter[k] # s
         /\ row[c[1]].entry # 0 => /\ row[c[1]].entry \in Booked
                                   /\ Sources!EvidenceOf(row[c[1]].entry) = {c[1]}
                                   /\ ~entry[row[c[1]].entry].touched /\ ~Sources!Referred(row[c[1]].entry)
         /\ \A d \in Sources!Plan(s) : d[2] = c[2] => d = c
<1>1. /\ c[1] \in Sources!Arrived /\ c[2] \in Sources!Rows /\ Reporter[c[1]] = s /\ c[2] \in Sources!Keeps(c[1])
      /\ \A d \in Sources!Plan(s) : d[2] = c[2] => d = c
  BY DEF Sources!Plan
<1>2. c[1] \in Reported /\ c[2] \in Booked
  BY <1>1, LinesAre
<1>3. c[2] \in Sources!Targets(c[1])
  BY <1>1 DEF Sources!Keeps
<1>4. /\ entry[c[2]].status = "posted" /\ entry[c[2]].amount = row[c[1]].amount
      /\ \E k \in Sources!EvidenceOf(c[2]) : Reporter[k] # s
      /\ \A k \in Sources!EvidenceOf(c[2]) : Reporter[k] # s
  BY <1>1, <1>3 DEF Sources!Targets
<1>5. row[c[1]].entry # 0 => Sources!Disposable(c[1], row[c[1]].entry)
  BY <1>1 DEF Sources!Keeps
<1>6. row[c[1]].entry # 0 => row[c[1]].entry \in Booked
  <2>1. row[c[1]] \in Reading
    BY <1>1, <1>2, UsedLines, ReadKinds DEF Sources!Arrived
  <2> QED BY <2>1, SourceConstants DEF Reading, Booked
<1> QED BY <1>1, <1>2, <1>4, <1>5, <1>6 DEF Sources!Disposable

(* The entries that a reconciliation retires. *)
Retired(s) == {e \in Booked : \E c \in Sources!Plan(s) : row[c[1]].entry = e}

LEMMA RetiredAre ==
  ASSUME SourceInv, NEW s
  PROVE  /\ Sources!Voided(s) \subseteq Retired(s) /\ Sources!Dropped(s) \subseteq Retired(s)
         /\ \A e \in Retired(s) : ~entry[e].touched /\ ~Sources!Referred(e) /\ \E c \in Sources!Plan(s) : Sources!EvidenceOf(e) = {c[1]}
         /\ \A c \in Sources!Plan(s) : c[2] \notin Retired(s)
<1>1. \A e : e \in Sources!Voided(s) \/ e \in Sources!Dropped(s) => e \in Retired(s)
  <2> SUFFICES ASSUME NEW e, e \in Sources!Voided(s) \/ e \in Sources!Dropped(s)
               PROVE  e \in Retired(s)
    OBVIOUS
  <2>1. PICK c \in Sources!Plan(s) : row[c[1]].entry = e /\ row[c[1]].entry # 0
    BY DEF Sources!Voided, Sources!Dropped
  <2> QED BY <2>1, PlanIs DEF Retired
<1>2. \A e \in Retired(s) : ~entry[e].touched /\ ~Sources!Referred(e) /\ \E c \in Sources!Plan(s) : Sources!EvidenceOf(e) = {c[1]}
  <2> SUFFICES ASSUME NEW e \in Retired(s)
               PROVE  ~entry[e].touched /\ ~Sources!Referred(e) /\ \E c \in Sources!Plan(s) : Sources!EvidenceOf(e) = {c[1]}
    OBVIOUS
  <2>1. PICK c \in Sources!Plan(s) : row[c[1]].entry = e
    BY DEF Retired
  <2>2. row[c[1]].entry # 0
    BY <2>1, LinesAre DEF Retired
  <2> QED BY <2>1, <2>2, PlanIs
<1>3. ASSUME NEW c \in Sources!Plan(s), c[2] \in Retired(s)
      PROVE  FALSE
  <2>1. PICK d \in Sources!Plan(s) : Sources!EvidenceOf(c[2]) = {d[1]}
    BY <1>2, <1>3
  <2> QED BY <2>1, PlanIs
<1> QED BY <1>1, <1>2, <1>3

LEMMA ConfirmStep ==
  ASSUME SourceInv, NEW s, Sources!Confirm(s)
  PROVE  SourceInv' /\ \A e \in Booked \ Retired(s) : entry[e] # Sources!NoRow => entry'[e] = entry[e]
<1> DEFINE kept == Sources!Rows \ Sources!Dropped(s)
           voided == Sources!Voided(s)
           Id(e) == Sources!Max(kept) + 1 + Sources!Cardinality({f \in voided : f < e})
<1>1. /\ lock' = lock /\ row' = Sources!Moved(s)
      /\ entry' = [e \in Booked |->
           IF e \in voided THEN [entry[e] EXCEPT !.status = "void"]
           ELSE IF e \in kept THEN entry[e]
           ELSE IF \E v \in voided : Id(v) = e THEN Sources!Reversal(CHOOSE v \in voided : Id(v) = e)
           ELSE Sources!NoRow]
  <2>1. Sources!Entries = Booked
    BY LinesAre
  <2> QED BY <2>1, Zenon DEF Sources!Confirm
<1>2. \A e \in voided : e \in Booked /\ entry[e] # Sources!NoRow /\ entry[e] \in BookRow /\ e \in Retired(s)
  <2>1. \A e \in voided : e \in Sources!Rows
    BY DEF Sources!Voided
  <2> QED BY <2>1, LinesAre, RetiredAre, UsedLines, BookKinds DEF Sources!Rows
<1> HIDE DEF Id
<1>3. ASSUME NEW e \in Booked
      PROVE  /\ entry'[e] \in {Sources!NoRow} \cup BookRow
             /\ Alive(entry', e) /\ entry'[e].refundOf # 0 => Alive(entry, e) /\ entry'[e] = entry[e]
             /\ e \notin Retired(s) /\ entry[e] # Sources!NoRow => entry'[e] = entry[e]
  <2>1. CASE e \in voided
    <3>1. PICK old \in BookRow : old = entry[e]
      BY <1>2, <2>1
    <3>2. entry'[e] = [old EXCEPT !.status = "void"]
      BY <1>1, <2>1, <3>1
    <3>3. entry'[e] \in BookRow /\ entry'[e].status = "void"
      BY <3>2 DEF BookRow
    <3> QED BY <1>2, <2>1, <3>3 DEF Alive
  <2>2. CASE e \notin voided /\ e \in kept
    <3>1. entry'[e] = entry[e]
      BY <1>1, <2>2
    <3> QED BY <3>1, UsedLines DEF TypedBooks, Alive
  <2>3. CASE e \notin voided /\ e \notin kept
    <3>1. e \in Sources!Rows => e \in Retired(s)
      BY <2>3, RetiredAre
    <3>2. entry[e] # Sources!NoRow => e \in Sources!Rows
      BY LinesAre DEF Sources!Rows
    <3>3. CASE \E v \in voided : Id(v) = e
      <4>1. PICK v \in voided : v = (CHOOSE u \in voided : Id(u) = e)
        BY <3>3
      <4>2. entry'[e] = Sources!Reversal(v)
        BY <1>1, <2>3, <3>3, <4>1
      <4>3. entry'[e] \in BookRow /\ entry'[e].refundOf = 0
        BY <1>2, <4>2, ReversalIs
      <4> QED BY <3>1, <3>2, <4>3
    <3>4. CASE ~\E v \in voided : Id(v) = e
      <4>1. entry'[e] = Sources!NoRow
        BY <1>1, <2>3, <3>4
      <4> QED BY <3>1, <3>2, <4>1 DEF Alive, Sources!NoRow
    <3> QED BY <3>3, <3>4
  <2> QED BY <2>1, <2>2, <2>3
<1>4. TypedBooks(entry')
  <2>1. entry' = [e \in Booked |-> entry'[e]]
    BY <1>1
  <2> QED BY <1>3, <2>1 DEF TypedBooks
<1> DEFINE To(l) == (CHOOSE c \in Sources!Plan(s) : c[1] = l)[2]
<1>5. ASSUME NEW l \in Reported
      PROVE  row'[l] = IF \E c \in Sources!Plan(s) : c[1] = l
                       THEN [row[l] EXCEPT !.status = "matched", !.entry = To(l)] ELSE row[l]
  BY <1>1 DEF Sources!Moved
<1>6. ASSUME NEW l \in Reported, \E c \in Sources!Plan(s) : c[1] = l
      PROVE  /\ <<l, To(l)>> \in Sources!Plan(s)
             /\ row'[l] \in Reading /\ row'[l].status = "matched" /\ row'[l].entry = To(l) /\ row'[l].amount = row[l].amount
  <2>1. PICK c \in Sources!Plan(s) : c[1] = l /\ c = (CHOOSE d \in Sources!Plan(s) : d[1] = l)
    BY <1>6
  <2>2. To(l) = c[2] /\ c \in Reported \X Booked
    <3>1. c \in Sources!Arrived \X Sources!Rows
      BY DEF Sources!Plan
    <3> QED BY <2>1, <3>1, LinesAre
  <2>3. c = <<l, To(l)>> /\ To(l) \in Booked
    BY <2>1, <2>2
  <2>4. row[l] \in Reading
    BY <2>1, PlanIs, UsedLines, ReadKinds DEF Sources!Arrived
  <2>5. PICK old \in Reading : old = row[l]
    BY <2>4
  <2> HIDE DEF To
  <2>6. row'[l] = [old EXCEPT !.status = "matched", !.entry = To(l)]
    BY <1>5, <1>6, <2>5
  <2>7. To(l) \in 0..MaxBooked
    BY <2>3, SourceConstants DEF Booked
  <2> QED BY <2>1, <2>3, <2>5, <2>6, <2>7 DEF Reading
<1> HIDE DEF To
<1>7. ASSUME NEW l \in Reported, ~\E c \in Sources!Plan(s) : c[1] = l
      PROVE  row'[l] = row[l]
  BY <1>5, <1>7
<1>8. TypedReads(row') /\ \A l \in Reported : row'[l].status = "unmatched" => row'[l].entry = 0
  <2>1. row' = [l \in Reported |-> row'[l]]
    BY <1>1 DEF Sources!Moved
  <2>2. \A l \in Reported : row'[l] \in {Sources!NoRow} \cup Reading
    BY <1>6, <1>7, UsedLines DEF TypedReads
  <2> QED BY <1>6, <1>7, <2>1, <2>2, UsedLines DEF TypedReads
<1>9. ASSUME NEW l \in Reported, Used(row', l)
      PROVE  /\ row'[l].entry \in Booked /\ Alive(entry', row'[l].entry) /\ entry'[row'[l].entry].amount = row'[l].amount
             /\ \/ Used(row, l) /\ row[l].entry = row'[l].entry
                \/ \A k \in Reported : Used(row', k) /\ Reporter[k] = Reporter[l] /\ row'[k].entry = row'[l].entry => k = l
  <2>1. CASE \E c \in Sources!Plan(s) : c[1] = l
    <3>1. PICK e : e = To(l)
      OBVIOUS
    <3>2. PICK c \in Sources!Plan(s) : c = <<l, e>> /\ c[1] = l /\ c[2] = e
      BY <1>6, <2>1, <3>1
    <3>3. e \in Booked /\ entry[e].status = "posted" /\ entry[e].amount = row[l].amount /\ e \notin Retired(s) /\ Reporter[l] = s
          /\ \A k \in Sources!EvidenceOf(e) : Reporter[k] # s
      BY <3>2, PlanIs, RetiredAre
    <3>4. entry'[e] = entry[e] /\ Alive(entry', e)
      BY <1>3, <3>3 DEF Alive, Sources!NoRow
    <3>5. ASSUME NEW k \in Reported, Used(row', k), Reporter[k] = s, row'[k].entry = e
          PROVE  k = l
      <4>1. CASE \E d \in Sources!Plan(s) : d[1] = k
        <5>1. <<k, e>> \in Sources!Plan(s)
          BY <1>6, <3>5, <4>1
        <5>2. <<k, e>>[1] = k /\ <<k, e>>[2] = e
          OBVIOUS
        <5>3. <<k, e>> = c
          BY <3>2, <5>1, <5>2, PlanIs
        <5> QED BY <3>2, <5>2, <5>3
      <4>2. CASE ~\E d \in Sources!Plan(s) : d[1] = k
        <5>1. row'[k] = row[k] /\ Used(row, k) /\ row[k].entry = e
          BY <1>7, <3>5, <4>2 DEF Used
        <5>2. k \in Sources!EvidenceOf(e)
          BY <3>3, <5>1, LinesAre
        <5> QED BY <3>3, <3>5, <5>2
      <4> QED BY <4>1, <4>2
    <3>6. row'[l].entry = e /\ row'[l].amount = row[l].amount
      BY <1>6, <2>1, <3>1
    <3> QED BY <3>3, <3>4, <3>5, <3>6
  <2>2. CASE ~\E c \in Sources!Plan(s) : c[1] = l
    <3>1. row'[l] = row[l] /\ Used(row, l)
      BY <1>7, <1>9, <2>2 DEF Used
    <3>2. PICK e : e = row[l].entry
      OBVIOUS
    <3>3. e \in Booked /\ Alive(entry, e) /\ entry[e].amount = row[l].amount
      BY <3>1, <3>2, UsedLines
    <3>4. l \in Sources!EvidenceOf(e)
      BY <3>1, <3>2, <3>3, LinesAre
    <3>5. e \notin Retired(s)
      BY <2>2, <3>4, RetiredAre
    <3>6. entry'[e] = entry[e] /\ Alive(entry', e)
      BY <1>3, <3>3, <3>5 DEF Alive, Sources!NoRow
    <3> QED BY <3>1, <3>2, <3>3, <3>6
  <2> QED BY <2>1, <2>2
<1>10. \A e \in Booked : Alive(entry', e) /\ entry'[e].refundOf # 0 =>
                           Alive(entry, e) /\ entry[e].refundOf = entry'[e].refundOf
  BY <1>3
<1>11. Sound(entry', row')
  BY <1>4, <1>8, <1>9, <1>10, UsedLines, SoundStep
<1> QED BY <1>1, <1>3, <1>11 DEF SourceInv

(***************************************************************************)
(* An import matched once more, line by line                               *)
(***************************************************************************)

(* As far as a run of it has come: sound books of the same lines. *)
SameLines(read) ==
  \A k \in Reported : (read[k].status = "none" <=> row[k].status = "none") /\ (Used(read, k) <=> Used(row, k))

Stages ==
  {st \in [entry : [Booked -> {Sources!NoRow} \cup BookRow], line : [Reported -> {Sources!NoRow} \cup Reading]] :
     Sound(st.entry, st.line) /\ SameLines(st.line)}

LEMMA OneRematched ==
  ASSUME SourceInv, NEW st \in Stages, NEW l \in Reported, Used(row, l), NEW st2 \in Sources!Rematched(st, l)
  PROVE  st2 \in Stages
<1> DEFINE own == st.line[l].entry
           EvidenceThen(e) == {k \in Sources!Arrived : st.line[k].entry = e}
           Category(e) == IF st.entry[own].cat = suspense THEN st.entry[e].cat ELSE st.entry[own].cat
           Next2(e) == [entry |-> [st.entry EXCEPT ![own] = Sources!NoRow, ![e].status = "posted", ![e].touched = TRUE,
                                     ![e].cat = IF st.entry[own].cat = suspense THEN @ ELSE st.entry[own].cat],
                        line |-> [st.line EXCEPT ![l].status = "matched", ![l].entry = e]]
<1>1. CASE st2 = st
  BY <1>1
<1>2. ASSUME NEW e \in Booked \ {own}, st.entry[e] # Sources!NoRow, st.entry[e].status # "void",
             st.entry[e].amount = st.line[l].amount, EvidenceThen(e) = {}, EvidenceThen(own) = {l}, st2 = Next2(e)
      PROVE  st2 \in Stages
  <2>1. /\ Sound(st.entry, st.line) /\ TypedBooks(st.entry) /\ TypedReads(st.line)
        /\ st.entry \in [Booked -> {Sources!NoRow} \cup BookRow] /\ st.line \in [Reported -> {Sources!NoRow} \cup Reading]
        /\ \A k \in Reported : (st.line[k].status = "none" <=> row[k].status = "none") /\ (Used(st.line, k) <=> Used(row, k))
    BY DEF Stages, Sound, SameLines
  <2>2. /\ \A k \in Reported : Used(st.line, k) => (st.line[k].entry \in Booked /\ Alive(st.entry, st.line[k].entry)
                                                    /\ st.entry[st.line[k].entry].amount = st.line[k].amount)
        /\ \A k \in Reported : st.line[k].status = "unmatched" => st.line[k].entry = 0
    BY <2>1 DEF Sound, Agrees
  <2>3. Used(st.line, l) /\ own \in Booked /\ Alive(st.entry, own)
    BY <2>1, <2>2
  <2>4. \A k \in Reported : k \in Sources!Arrived <=> Used(st.line, k) \/ st.line[k].status = "unmatched"
    <3>1. \A k \in Reported : k \in Sources!Arrived <=> row[k].status # "none"
      BY LinesAre, UsedLines, ReadKinds
    <3>2. \A k \in Reported : st.line[k].status # "none" <=> Used(st.line, k) \/ st.line[k].status = "unmatched"
      BY <2>1, ReadKinds DEF Used
    <3> QED BY <2>1, <3>1, <3>2
  <2>5. \A k \in Reported, f \in Booked : Used(st.line, k) /\ st.line[k].entry = f => k \in EvidenceThen(f)
    BY <2>4
  <2>6. \A k \in Reported : Used(st.line, k) => st.line[k].entry # e /\ (k # l => st.line[k].entry # own)
    BY <1>2, <2>3, <2>5
  <2>7. Alive(st.entry, e) /\ st.entry[e] \in BookRow /\ st.entry[own] \in BookRow /\ st.line[l] \in Reading
    BY <1>2, <2>1, <2>3, BookKinds, ReadKinds DEF Alive, Used
  <2>8. PICK old \in BookRow, was \in BookRow, said \in Reading : old = st.entry[e] /\ was = st.entry[own] /\ said = st.line[l]
    BY <2>7
  <2>9. PICK category \in Purposes \cup {suspense} : category = Category(e)
    BY <2>8 DEF BookRow
  <2> DEFINE new == [old EXCEPT !.status = "posted", !.touched = TRUE, !.cat = category]
             read == [said EXCEPT !.status = "matched", !.entry = e]
  <2>10. /\ new \in BookRow /\ new.status = "posted" /\ new.amount = old.amount /\ new.refundOf = old.refundOf
    BY DEF BookRow
  <2>11. read \in Reading /\ read.status = "matched" /\ read.entry = e /\ read.amount = said.amount
    <3>1. e \in 0..MaxBooked
      BY SourceConstants DEF Booked
    <3> QED BY <3>1 DEF Reading
  <2> DEFINE books2 == [st.entry EXCEPT ![own] = Sources!NoRow, ![e] = new]
             reads2 == [st.line EXCEPT ![l] = read]
  <2>12. st2 = [entry |-> books2, line |-> reads2]
    <3>1. books2 = [st.entry EXCEPT ![own] = Sources!NoRow, ![e].status = "posted", ![e].touched = TRUE,
                                    ![e].cat = IF st.entry[own].cat = suspense THEN @ ELSE st.entry[own].cat]
      BY <1>2, <2>1, <2>3, <2>8, <2>9
    <3>2. reads2 = [st.line EXCEPT ![l].status = "matched", ![l].entry = e]
      BY <2>1, <2>8
    <3> QED BY <1>2, <3>1, <3>2
  <2> HIDE DEF new, read, own, EvidenceThen, Category
  <2>13. /\ books2 \in [Booked -> {Sources!NoRow} \cup BookRow] /\ books2[e] = new /\ books2[own] = Sources!NoRow
         /\ \A f \in Booked \ {e, own} : books2[f] = st.entry[f]
    BY <1>2, <2>1, <2>3, <2>10
  <2>14. /\ reads2 \in [Reported -> {Sources!NoRow} \cup Reading] /\ reads2[l] = read
         /\ \A k \in Reported \ {l} : reads2[k] = st.line[k]
    BY <2>1, <2>11
  <2> HIDE DEF books2, reads2
  <2>15. Sources!NoRow.status = "none"
    BY DEF Sources!NoRow
  <2>16. \A f \in Booked : Alive(books2, f) /\ books2[f].refundOf # 0 =>
                             Alive(st.entry, f) /\ st.entry[f].refundOf = books2[f].refundOf
    BY <2>7, <2>8, <2>10, <2>13, <2>15 DEF Alive
  <2>17. ASSUME NEW k \in Reported, Used(reads2, k)
         PROVE  /\ reads2[k].entry \in Booked /\ Alive(books2, reads2[k].entry) /\ books2[reads2[k].entry].amount = reads2[k].amount
                /\ \/ Used(st.line, k) /\ st.line[k].entry = reads2[k].entry
                   \/ \A i \in Reported : Used(reads2, i) /\ Reporter[i] = Reporter[k] /\ reads2[i].entry = reads2[k].entry => i = k
    <3>1. CASE k = l
      <4>1. reads2[k].entry = e /\ reads2[k].amount = said.amount
        BY <2>11, <2>14, <3>1
      <4>2. Alive(books2, e) /\ books2[e].amount = said.amount
        BY <1>2, <2>8, <2>10, <2>13 DEF Alive
      <4>3. \A i \in Reported : i # k /\ Used(reads2, i) => reads2[i].entry # e
        BY <2>6, <2>14, <3>1 DEF Used
      <4> QED BY <4>1, <4>2, <4>3
    <3>2. CASE k # l
      <4>1. reads2[k] = st.line[k] /\ Used(st.line, k)
        BY <2>14, <2>17, <3>2 DEF Used
      <4>2. PICK f : f = st.line[k].entry
        OBVIOUS
      <4>3. f \in Booked /\ Alive(st.entry, f) /\ st.entry[f].amount = st.line[k].amount /\ f # e /\ f # own
        BY <2>2, <2>6, <3>2, <4>1, <4>2
      <4>4. books2[f] = st.entry[f] /\ Alive(books2, f)
        BY <2>13, <4>3 DEF Alive
      <4> QED BY <4>1, <4>2, <4>3, <4>4
    <3> QED BY <3>1, <3>2
  <2>18. \A k \in Reported : reads2[k].status = "unmatched" => reads2[k].entry = 0
    BY <2>2, <2>11, <2>14
  <2>19. Sound(books2, reads2)
    BY <2>1, <2>13, <2>14, <2>16, <2>17, <2>18, SoundStep DEF TypedBooks, TypedReads
  <2>20. SameLines(reads2)
    <3>1. \A k \in Reported : (reads2[k].status = "none" <=> st.line[k].status = "none") /\ (Used(reads2, k) <=> Used(st.line, k))
      BY <2>3, <2>11, <2>14 DEF Used
    <3> QED BY <2>1, <3>1 DEF SameLines
  <2>21. st2.entry = books2 /\ st2.line = reads2
         /\ st2 \in [entry : [Booked -> {Sources!NoRow} \cup BookRow], line : [Reported -> {Sources!NoRow} \cup Reading]]
    BY <2>12, <2>13, <2>14
  <2> QED BY <2>19, <2>20, <2>21 DEF Stages
<1>3. st2 = st \/ \E e \in Booked \ {own} :
        /\ st.entry[e] # Sources!NoRow /\ st.entry[e].status # "void" /\ st.entry[e].amount = st.line[l].amount
        /\ EvidenceThen(e) = {} /\ EvidenceThen(own) = {l} /\ st2 = Next2(e)
  <2>1. Sources!Entries = Booked
    BY LinesAre
  <2> QED BY <2>1 DEF Sources!Rematched
<1> QED BY <1>1, <1>2, <1>3

Chain(N, X, start, Step, g) ==
  g \in [0..N -> X] /\ g[0] = start /\ \A n \in 1..N : g[n] = Step[n][g[n - 1]]

(* A chain of steps, each a function of the one before, exists. *)
LEMMA ChainIs ==
  ASSUME NEW N \in Nat, NEW X, NEW start \in X, NEW Step \in [1..N -> [X -> X]]
  PROVE  \E g : Chain(N, X, start, Step, g)
<1> DEFINE Goes(n) == \E g \in [0..n -> X] : g[0] = start /\ \A k \in 1..n : g[k] = Step[k][g[k - 1]]
           Fails == {n \in 0..N : ~Goes(n)}
<1>1. SUFFICES ASSUME ~Goes(N) PROVE FALSE
  BY DEF Chain
<1>2. N \in Fails /\ Fails \subseteq Nat
  BY <1>1
<1>3. PICK m \in Fails : \A k \in Fails : m <= k
  BY <1>2, LeastNumber
<1>4. CASE m = 0
  <2>1. [k \in 0..0 |-> start] \in [0..0 -> X] /\ [k \in 0..0 |-> start][0] = start
    OBVIOUS
  <2>2. \A k \in 1..0 : [i \in 0..0 |-> start][k] = Step[k][[i \in 0..0 |-> start][k - 1]]
    OBVIOUS
  <2>3. Goes(0)
    BY <2>1, <2>2
  <2> QED BY <1>3, <1>4, <2>3
<1>5. CASE m # 0
  <2>1. m \in 1..N /\ m - 1 \in 0..N /\ ~(m <= m - 1)
    BY <1>3, <1>5
  <2>2. Goes(m - 1)
    BY <1>3, <2>1
  <2>3. PICK g \in [0..(m - 1) -> X] : g[0] = start /\ \A k \in 1..(m - 1) : g[k] = Step[k][g[k - 1]]
    BY <2>2
  <2>4. g[m - 1] \in X /\ Step[m] \in [X -> X] /\ Step[m][g[m - 1]] \in X
    BY <2>1, <2>3
  <2>5. PICK last \in X : last = Step[m][g[m - 1]]
    BY <2>4
  <2> DEFINE h == [k \in 0..m |-> IF k = m THEN last ELSE g[k]]
  <2>6. h \in [0..m -> X] /\ h[m] = last /\ h[0] = start /\ \A k \in 0..(m - 1) : h[k] = g[k]
    BY <2>1, <2>3
  <2> HIDE DEF h
  <2>7. \A k \in 1..m : h[k] = Step[k][h[k - 1]]
    <3>1. ASSUME NEW k \in 1..m PROVE h[k] = Step[k][h[k - 1]]
      <4>1. k - 1 \in 0..(m - 1) /\ h[k - 1] = g[k - 1]
        BY <2>1, <2>6
      <4>2. CASE k = m
        BY <2>5, <2>6, <4>1, <4>2
      <4>3. CASE k # m
        <5>1. k \in 1..(m - 1) /\ k \in 0..(m - 1)
          BY <2>1, <4>3
        <5> QED BY <2>3, <2>6, <4>1, <5>1
      <4> QED BY <4>2, <4>3
    <3> QED BY <3>1
  <2>8. Goes(m)
    BY <2>6, <2>7
  <2> QED BY <1>3, <2>8
<1> QED BY <1>4, <1>5

LEMMA RematchStep ==
  ASSUME SourceInv, NEW s, Sources!Rematch(s)
  PROVE  SourceInv'
<1> DEFINE made == {l \in Sources!Arrived : Reporter[l] = s /\ row[l].status = "created"}
           now == [entry |-> entry, line |-> row]
<1>1. made \subseteq Reported /\ (\A l \in made : Used(row, l)) /\ IsFiniteSet(made) /\ Cardinality(made) \in Nat
  <2>1. made \subseteq Reported /\ \A l \in made : Used(row, l)
    BY LinesAre DEF Used
  <2>2. IsFiniteSet(made)
    BY <2>1, SourceConstants, FS_Subset
  <2> QED BY <2>1, <2>2, FS_CardinalityType
<1> DEFINE After(order) == CHOOSE after : after = [n \in 0..Len(order) |->
             IF n = 0 THEN {now} ELSE UNION {Sources!Rematched(st, order[n]) : st \in after[n - 1]}]
<1>2. PICK order \in Sources!Orders(made) : \E st \in After(order)[Len(order)] :
        row' = st.line /\ entry' = st.entry /\ lock' = lock
  BY DEF Sources!Rematch
<1> HIDE DEF made
<1>3. order \in [1..Cardinality(made) -> made]
  BY DEF Sources!Orders, Sources!Injection, Sources!Cardinality, Cardinality
<1>4. Len(order) \in Nat /\ \A n \in 1..Len(order) : order[n] \in Reported /\ Used(row, order[n])
  <2>1. order \in Seq(made)
    BY <1>1, <1>3
  <2> QED BY <1>1, <2>1
<1>5. now \in Stages
  <2>1. SameLines(row) /\ Sound(entry, row) /\ TypedBooks(entry) /\ TypedReads(row)
    BY UsedLines DEF SameLines
  <2> QED BY <2>1 DEF Stages, TypedBooks, TypedReads
<1> HIDE DEF now
<1> DEFINE Step == [n \in 1..Len(order) |-> [S \in SUBSET Stages |-> UNION {Sources!Rematched(st, order[n]) : st \in S}]]
<1>6. Step \in [1..Len(order) -> [SUBSET Stages -> SUBSET Stages]]
  <2>1. ASSUME NEW n \in 1..Len(order), NEW S \in SUBSET Stages
        PROVE  UNION {Sources!Rematched(st, order[n]) : st \in S} \in SUBSET Stages
    <3>1. \A st \in S : Sources!Rematched(st, order[n]) \subseteq Stages
      BY <1>4, OneRematched
    <3> QED BY <3>1
  <2> QED BY <2>1
<1>7. PICK g \in [0..Len(order) -> SUBSET Stages] :
        g[0] = {now} /\ \A n \in 1..Len(order) : g[n] = Step[n][g[n - 1]]
  <2>1. {now} \in SUBSET Stages
    BY <1>5
  <2> HIDE DEF Step, now
  <2>2. PICK N \in Nat : N = Len(order)
    BY <1>4
  <2>3. PICK X : X = SUBSET Stages
    OBVIOUS
  <2>4. PICK start \in X : start = {now}
    BY <2>1, <2>3
  <2>5. PICK steps \in [1..N -> [X -> X]] : steps = Step
    BY <1>6, <2>2, <2>3
  <2>6. \E g : Chain(N, X, start, steps, g)
    BY ChainIs
  <2> QED BY <2>2, <2>3, <2>4, <2>5, <2>6 DEF Chain
<1>8. g = [n \in 0..Len(order) |-> IF n = 0 THEN {now} ELSE UNION {Sources!Rematched(st, order[n]) : st \in g[n - 1]}]
  <2>1. ASSUME NEW n \in 0..Len(order), n # 0
        PROVE  g[n] = UNION {Sources!Rematched(st, order[n]) : st \in g[n - 1]}
    <3>1. n \in 1..Len(order) /\ n - 1 \in 0..Len(order)
      BY <1>4, <2>1
    <3>2. g[n] = Step[n][g[n - 1]] /\ g[n - 1] \in SUBSET Stages
      BY <1>7, <3>1
    <3>3. Step[n][g[n - 1]] = UNION {Sources!Rematched(st, order[n]) : st \in g[n - 1]}
      BY <3>1, <3>2
    <3> QED BY <3>2, <3>3
  <2> HIDE DEF Step
  <2> QED BY <1>7, <2>1
<1> HIDE DEF Step
<1>9. After(order) = [n \in 0..Len(order) |->
          IF n = 0 THEN {now} ELSE UNION {Sources!Rematched(st, order[n]) : st \in After(order)[n - 1]}]
  BY <1>8
<1> HIDE DEF After
<1>10. \A n \in 0..Len(order) : After(order)[n] = g[n]
  <2> DEFINE Differs == {n \in 0..Len(order) : After(order)[n] # g[n]}
  <2>1. SUFFICES ASSUME Differs # {} PROVE FALSE
    OBVIOUS
  <2>2. Differs \subseteq Nat
    OBVIOUS
  <2>3. PICK n \in Differs : \A k \in Differs : n <= k
    BY <2>1, <2>2, LeastNumber
  <2>4. After(order)[0] = {now} /\ g[0] = {now}
    BY <1>4, <1>7, <1>9
  <2>5. n # 0 /\ n \in 0..Len(order) /\ n - 1 \in 0..Len(order) /\ ~(n <= n - 1) /\ After(order)[n] # g[n]
    <3>1. n \in 0..Len(order) /\ After(order)[n] # g[n]
      BY <2>3
    <3>2. n # 0
      BY <2>4, <3>1
    <3> HIDE DEF Differs
    <3> QED BY <1>4, <3>1, <3>2
  <2>6. After(order)[n - 1] = g[n - 1]
    BY <2>3, <2>5
  <2>7. After(order)[n] = UNION {Sources!Rematched(st, order[n]) : st \in After(order)[n - 1]}
    BY <1>9, <2>5
  <2>8. g[n] = UNION {Sources!Rematched(st, order[n]) : st \in g[n - 1]}
    BY <1>8, <2>5
  <2> QED BY <2>5, <2>6, <2>7, <2>8
<1>11. PICK st \in Stages : row' = st.line /\ entry' = st.entry /\ lock' = lock
  <2>1. Len(order) \in 0..Len(order) /\ g[Len(order)] \in SUBSET Stages
    BY <1>4, <1>7
  <2> QED BY <1>2, <1>10, <2>1
<1> QED BY <1>11 DEF Stages, SourceInv

LEMMA SourceBegins == Sources!Init => SourceInv
<1> SUFFICES ASSUME Sources!Init PROVE SourceInv
  OBVIOUS
<1>1. entry = [e \in Booked |-> Sources!NoRow] /\ row = [l \in Reported |-> Sources!NoRow] /\ lock = 0
  BY DEF Sources!Init, Sources!Entries, Booked
<1>2. Sources!NoRow.status = "none"
  BY DEF Sources!NoRow
<1>3. TypedBooks(entry) /\ TypedReads(row) /\ lock \in 0..LastBooked
  BY <1>1, SourceConstants DEF TypedBooks, TypedReads
<1>4. \A e \in Booked : ~Alive(entry, e)
  BY <1>1, <1>2 DEF Alive
<1>5. \A l \in Reported : ~Used(row, l) /\ row[l].status # "unmatched"
  BY <1>1, <1>2 DEF Used
<1> QED BY <1>3, <1>4, <1>5 DEF SourceInv, Sound, Agrees, OneOfASource, OneRefundEach

LEMMA SourceGoesOn == SourceInv /\ [Sources!Next]_(Sources!vars) => SourceInv'
<1> SUFFICES ASSUME SourceInv, [Sources!Next]_(Sources!vars)
             PROVE  SourceInv'
  OBVIOUS
<1>1. CASE UNCHANGED <<entry, row, lock>>
  BY <1>1 DEF SourceInv
<1>2. CASE UNCHANGED Sources!vars
  BY <1>1, <1>2 DEF Sources!vars
<1>3. ASSUME NEW n \in Spent, NEW d \in 1..LastBooked, NEW c \in Purposes, Sources!Capture(n, c, d)
      PROVE  SourceInv'
  BY <1>3, CaptureStep
<1>4. ASSUME NEW l \in Reported, NEW n \in Received, NEW d \in 1..LastBooked, Sources!Arrive(l, n, d)
      PROVE  SourceInv'
  BY <1>4, ArriveStep
<1>5. ASSUME NEW e \in Booked, NEW c \in Purposes, Sources!Categorize(e, c) \/ Sources!Redraft(e, c)
      PROVE  SourceInv'
  BY <1>5, JudgeStep
<1>6. ASSUME NEW e \in Booked, Sources!Review(e) \/ Sources!Void(e) \/ Sources!DeleteDraft(e)
      PROVE  SourceInv'
  BY <1>6, JudgeStep, VoidStep, DeleteStep
<1>7. ASSUME NEW l \in Reported, NEW o \in Booked, Sources!LinkRefund(l, o)
      PROVE  SourceInv'
  BY <1>7, RefundStep
<1>8. ASSUME NEW s, Sources!Preview(s) \/ Sources!Confirm(s) \/ Sources!Rematch(s)
      PROVE  SourceInv'
  BY <1>1, <1>8, ConfirmStep, RematchStep DEF Sources!Preview
<1>9. ASSUME NEW d \in 1..LastBooked, Sources!SetLock(d)
      PROVE  SourceInv'
  BY <1>9, SourceConstants DEF Sources!SetLock, SourceInv
<1>10. CASE Sources!Next
  <2>1. CASE Sources!Dismiss
    BY <1>1, <2>1 DEF Sources!Dismiss
  <2> QED BY <1>3, <1>4, <1>5, <1>6, <1>7, <1>8, <1>9, <1>10, <2>1 DEF Sources!Next, Sources!Dates, Sources!Entries, Booked
<1> QED BY <1>2, <1>10

(***************************************************************************)
(* What is confirmed is what was shown: the token has the lines that are    *)
(* moved, what they leave and what they go to.                             *)
(***************************************************************************)

Shows(seen) ==
  /\ \A l \in DOMAIN seen.token.lines : seen.token.lines[l] = seen.line[l]
  /\ \A c \in seen.token.plan :
       /\ c[1] \in DOMAIN seen.token.lines
       /\ seen.line[c[1]].entry # 0 => seen.token.own[c] = seen.entry[seen.line[c[1]].entry]
       /\ seen.token.kept[c].row = seen.entry[c[2]]

ShownInv == preview = Sources!NoRow \/ Shows(preview)

LEMMA TokenIs ==
  ASSUME SourceInv, NEW s, NEW token, token = Sources!Token(s)
  PROVE  /\ token.plan = Sources!Plan(s)
         /\ \A l \in DOMAIN token.lines : token.lines[l] = row[l]
         /\ \A c \in Sources!Plan(s) :
              /\ c[1] \in DOMAIN token.lines
              /\ row[c[1]].entry # 0 => token.own[c] = entry[row[c[1]].entry]
              /\ token.kept[c].row = entry[c[2]]
<1>1. /\ token.plan = Sources!Plan(s)
      /\ token.lines = [l \in {m \in Sources!Arrived : Reporter[m] = s} |-> row[l]]
      /\ token.own = [c \in Sources!Plan(s) |-> IF row[c[1]].entry = 0 THEN Sources!NoRow ELSE entry[row[c[1]].entry]]
      /\ token.kept = [c \in Sources!Plan(s) |-> [row |-> entry[c[2]], evidence |-> [m \in Sources!EvidenceOf(c[2]) |-> row[m]]]]
  BY DEF Sources!Token
<1>2. \A c \in Sources!Plan(s) : c[1] \in Sources!Arrived /\ Reporter[c[1]] = s
  BY PlanIs
<1> QED BY <1>1, <1>2

LEMMA ShownGoesOn == SourceInv /\ ShownInv /\ [Sources!Next]_(Sources!vars) => ShownInv'
<1> SUFFICES ASSUME SourceInv, ShownInv, [Sources!Next]_(Sources!vars)
             PROVE  ShownInv'
  OBVIOUS
<1>1. CASE preview' = preview
  BY <1>1 DEF ShownInv
<1>2. CASE preview' = Sources!NoRow
  BY <1>2 DEF ShownInv, Sources!NoRow
<1>3. ASSUME NEW s, Sources!Preview(s)
      PROVE  ShownInv'
  <2>1. PICK token : token = Sources!Token(s)
    OBVIOUS
  <2>2. preview' = [token |-> token, entry |-> entry, line |-> row]
    BY <1>3, <2>1 DEF Sources!Preview
  <2>3. preview'.token = token /\ preview'.entry = entry /\ preview'.line = row
    BY <2>2
  <2>4. Shows(preview')
    BY <2>1, <2>3, TokenIs DEF Shows
  <2> QED BY <2>4 DEF ShownInv
<1>4. preview' = preview \/ preview' = Sources!NoRow \/ \E s : Sources!Preview(s)
  <2>1. CASE Sources!Next
    BY <2>1 DEF Sources!Next, Sources!Capture, Sources!Arrive, Sources!Categorize, Sources!Redraft, Sources!Review,
                Sources!Void, Sources!DeleteDraft, Sources!LinkRefund, Sources!Confirm, Sources!Rematch,
                Sources!Dismiss, Sources!SetLock
  <2> QED BY <2>1 DEF Sources!vars
<1> QED BY <1>1, <1>2, <1>3, <1>4

LEMMA SettledBy ==
  ASSUME [Sources!Next]_(Sources!vars), preview # Sources!NoRow, preview' = Sources!NoRow
  PROVE  UNCHANGED <<entry, row>> \/ \E s : Sources!Confirm(s)
<1>1. CASE Sources!Next
  BY <1>1 DEF Sources!Next, Sources!Capture, Sources!Arrive, Sources!Categorize, Sources!Redraft, Sources!Review,
              Sources!Void, Sources!DeleteDraft, Sources!LinkRefund, Sources!Preview, Sources!Rematch,
              Sources!Dismiss, Sources!SetLock
<1> QED BY <1>1 DEF Sources!vars

LEMMA WorkIsKept == SourceInv /\ [Sources!Next]_(Sources!vars) => Sources!KeepsHumanWork
<1> SUFFICES ASSUME SourceInv, [Sources!Next]_(Sources!vars), preview # Sources!NoRow, preview' = Sources!NoRow,
                    NEW e \in Sources!Rows,
                    entry[e].touched \/ Sources!Referred(e) \/ Cardinality(Sources!EvidenceOf(e)) > 1
             PROVE  entry'[e] = entry[e]
  BY DEF Sources!KeepsHumanWork, Sources!Cardinality, Cardinality
<1>1. ASSUME NEW s, Sources!Confirm(s)
      PROVE  entry'[e] = entry[e]
  <2>1. e \in Booked /\ entry[e] # Sources!NoRow
    BY LinesAre DEF Sources!Rows
  <2>2. e \notin Retired(s)
    <3>1. SUFFICES ASSUME e \in Retired(s) PROVE FALSE
      OBVIOUS
    <3>2. PICK c : ~entry[e].touched /\ ~Sources!Referred(e) /\ Sources!EvidenceOf(e) = {c}
      BY <3>1, RetiredAre
    <3>3. Cardinality({c}) = 1
      BY FS_Singleton
    <3> QED BY <3>2, <3>3
  <2> QED BY <1>1, <2>1, <2>2, ConfirmStep
<1> QED BY <1>1, SettledBy

LEMMA ShownIsApplied == SourceInv /\ ShownInv /\ [Sources!Next]_(Sources!vars) => Sources!AppliesWhatWasShown
<1> SUFFICES ASSUME SourceInv, ShownInv, [Sources!Next]_(Sources!vars), preview # Sources!NoRow, preview' = Sources!NoRow,
                    NEW l \in Sources!Arrived, row'[l] # row[l]
             PROVE  /\ row[l] = preview.line[l]
                    /\ row[l].entry # 0 => entry[row[l].entry] = preview.entry[row[l].entry]
                    /\ entry[row'[l].entry] = preview.entry[row'[l].entry]
  BY DEF Sources!AppliesWhatWasShown
<1>1. PICK s : Sources!Confirm(s)
  BY SettledBy
<1>2. PICK token : token = Sources!Token(s) /\ preview.token = token
  BY <1>1 DEF Sources!Confirm
<1>3. l \in Reported /\ row' = Sources!Moved(s)
  BY <1>1, LinesAre DEF Sources!Confirm
<1>4. \E c \in Sources!Plan(s) : c[1] = l
  BY <1>3 DEF Sources!Moved
<1>5. PICK c \in Sources!Plan(s) : c[1] = l /\ c = (CHOOSE d \in Sources!Plan(s) : d[1] = l)
  BY <1>4
<1>6. row'[l] = [row[l] EXCEPT !.status = "matched", !.entry = c[2]]
  BY <1>3, <1>4, <1>5 DEF Sources!Moved
<1>7. row[l] \in Reading
  BY <1>3, UsedLines, ReadKinds DEF Sources!Arrived
<1>8. row'[l].entry = c[2]
  BY <1>6, <1>7 DEF Reading
<1>9. Shows(preview)
  BY DEF ShownInv
<1>10. row[l] = preview.line[l]
  BY <1>2, <1>5, <1>9, TokenIs DEF Shows
<1>11. row[l].entry # 0 => entry[row[l].entry] = preview.entry[row[l].entry]
  BY <1>2, <1>5, <1>9, <1>10, TokenIs DEF Shows
<1>12. entry[c[2]] = preview.entry[c[2]]
  BY <1>2, <1>5, <1>9, TokenIs DEF Shows
<1> QED BY <1>8, <1>10, <1>11, <1>12

LEMMA SourceInvMeans ==
  ASSUME SourceInv
  PROVE  Sources!EvidenceAgrees /\ Sources!OneLinePerSource /\ Sources!OneRefund /\ Sources!TypeOK
<1>1. Sources!EvidenceAgrees
  <2>1. ASSUME NEW l \in Sources!Arrived
        PROVE  IF row[l].status = "unmatched" THEN row[l].entry = 0
               ELSE row[l].entry \in Sources!Live /\ entry[row[l].entry].amount = row[l].amount
    <3>1. l \in Reported /\ (row[l].status # "unmatched" => Used(row, l))
      BY <2>1, LinesAre DEF Used
    <3>2. PICK e : e = row[l].entry
      OBVIOUS
    <3>3. Used(row, l) => e \in Sources!Live /\ entry[e].amount = row[l].amount
      BY <3>1, <3>2, UsedLines, LinesAre
    <3> QED BY <3>1, <3>2, <3>3, UsedLines
  <2> QED BY <2>1 DEF Sources!EvidenceAgrees
<1>2. Sources!OneLinePerSource
  BY LinesAre, UsedLines DEF Sources!OneLinePerSource
<1>3. Sources!OneRefund
  BY LinesAre DEF SourceInv, Sound, OneRefundEach, Sources!OneRefund
<1>4. Sources!TypeOK
  <2>1. ASSUME NEW e \in Sources!Rows
        PROVE  /\ entry[e].status \in {"draft", "posted", "void"}
               /\ entry[e].cat \in Purposes \cup {suspense} /\ entry[e].date \in 1..LastBooked
               /\ entry[e].refundOf \in 0..MaxBooked /\ entry[e].reverses \in 0..MaxBooked
    <3>1. e \in Booked /\ entry[e] # Sources!NoRow
      BY LinesAre DEF Sources!Rows
    <3>2. entry[e] \in BookRow
      BY <3>1, UsedLines, BookKinds
    <3> QED BY <3>2 DEF BookRow
  <2>2. ASSUME NEW l \in Sources!Arrived
        PROVE  row[l].status \in {"matched", "created", "unmatched"} /\ row[l].entry \in Sources!Rows \cup {0}
    <3>1. l \in Reported /\ row[l].status \in {"matched", "created", "unmatched"}
      BY LinesAre
    <3>2. PICK e : e = row[l].entry
      OBVIOUS
    <3>3. Used(row, l) => e \in Sources!Rows
      BY <3>1, <3>2, UsedLines, LinesAre DEF Alive
    <3> QED BY <3>1, <3>2, <3>3, UsedLines DEF Used
  <2>3. \A n \in 0..MaxBooked : n \in (1..MaxBooked) \cup {0}
    BY SourceConstants
  <2> QED BY <2>1, <2>2, <2>3 DEF Sources!TypeOK, Sources!Dates, Sources!Entries, SourceInv
<1> QED BY <1>1, <1>2, <1>3, <1>4

SourcesHere == focus = "sources" => SourceInv /\ ShownInv

LEMMA SourcesHold == Edge => []SourcesHere
<1>1. Begins => SourcesHere
  <2>1. Sources!Init => ShownInv
    BY DEF Sources!Init, ShownInv
  <2> QED BY <2>1, BeginsWith, SourceBegins DEF SourcesHere
<1>2. SourcesHere /\ [Work]_all => SourcesHere'
  <2> SUFFICES ASSUME SourcesHere, [Work]_all, focus' = "sources"
               PROVE  SourceInv' /\ ShownInv'
    BY DEF SourcesHere
  <2>1. focus = "sources"
    BY OneAtATime
  <2> QED BY <2>1, OneAtATime, SourceGoesOn, ShownGoesOn DEF SourcesHere
<1> QED BY <1>1, <1>2, PTL DEF Edge

(***************************************************************************)
(* Consents, for any bank.  A pull is known by the number of files that     *)
(* were there when it began, which is larger than the number of any pull    *)
(* that wrote one of them; it serves an account once, currency by currency, *)
(* and stamps the rows of an account after its files.                      *)
(***************************************************************************)

Limits == Withheld \cup {0}

Asking ==
  [step : {"asking", "publishing"}, number : Nat, left : SUBSET saved, one : BOOLEAN,
   cutoff : [Banks!Refs -> Limits], seen : SUBSET Served, active : BOOLEAN, group : SUBSET Units,
   new : Seq(Banks!Refs), account : SUBSET Served, held : SUBSET Movements]

Flows ==
  [step : {"waiting", "stopping"}, consent : Granted, sender : BOOLEAN,
   code : {"none", "granted", "declined"}, state : Nat]

FileSet == [ref : Banks!Refs, pull : Nat, holds : SUBSET Movements]

BankTypes ==
  /\ saved \subseteq Granted /\ valid \subseteq saved
  /\ DOMAIN routes \subseteq Banks!Refs
  /\ \A r \in DOMAIN routes : routes[r] \in [consent : saved, cutoff : Limits, stamped : BOOLEAN]
  /\ files \in Seq(FileSet)
  /\ asking \in {Banks!NoPull} \cup Asking
  /\ asking.step = "publishing" => asking.left # {} /\ \E acct \in Served : asking.account = {acct}
  /\ flow \in {Banks!NoFlow} \cup Flows
  /\ flows \in Nat

(* A file tells the pull that wrote it, which began before. *)
Numbered == \A i \in DOMAIN files : files[i].pull < i

(* What the pull that runs has written: the accounts it has served, and of the one that it
   publishes the currencies that are no longer to do. *)
Written1 ==
  asking.step # "idle" =>
    /\ asking.number <= Len(files)
    /\ \A i \in DOMAIN files : files[i].pull = asking.number =>
         \/ files[i].ref[1] \in asking.seen
         \/ /\ asking.step = "publishing" /\ files[i].ref[1] \in asking.account
            /\ files[i].ref[2] \notin asking.group
    /\ asking.step = "publishing" =>
         /\ asking.account \cap asking.seen = {}
         /\ \A k \in DOMAIN asking.new : \E i \in DOMAIN files : files[i].ref = asking.new[k]

(* A callback that was received was for an authorization that began, and took its sender. *)
Answered ==
  /\ \A h \in heard : h[1] \in Nat /\ h[1] < flows
  /\ flow.step # "idle" => flow.state < flows
  /\ flow.step # "idle" /\ flow.sender = TRUE =>
       \A h \in heard : h[1] = flow.state => h[3] # "received"

BankInv ==
  BankTypes /\ Numbered /\ Written1 /\ Answered
  /\ Banks!StampsHaveFiles /\ Banks!EachAccountOnce /\ Banks!CodeOnce

LEMMA BankBegins == Banks!Init => BankInv
<1> SUFFICES ASSUME Banks!Init
             PROVE  BankInv
  OBVIOUS
<1>1. saved \subseteq Granted /\ valid \subseteq saved /\ routes = <<>> /\ files = <<>>
      /\ asking = Banks!NoPull /\ flow = Banks!NoFlow /\ heard = {} /\ flows = 0
  BY DEF Banks!Init
<1>2. DOMAIN routes = {} /\ DOMAIN files = {} /\ files \in Seq(FileSet)
  BY <1>1
<1>3. BankTypes
  BY <1>1, <1>2 DEF BankTypes, Banks!NoPull
<1> QED BY <1>1, <1>2, <1>3 DEF BankInv, Numbered, Written1, Answered, Banks!NoPull, Banks!NoFlow,
          Banks!StampsHaveFiles, Banks!EachAccountOnce, Banks!CodeOnce

(* The newest of some consents is one of them. *)
LEMMA NewestIs ==
  ASSUME NEW S \in SUBSET Granted, S # {}
  PROVE  Banks!Newest(S) \in S
<1>1. PICK n \in Nat : Granted \subseteq 1..n
  BY BankConstants DEF Granted
<1> DEFINE Back == {k \in Nat : n - k \in S}
<1>2. PICK d \in S : TRUE
  OBVIOUS
<1>3. d \in 1..n /\ n - d \in Back
  BY <1>1, <1>2
<1>4. PICK k \in Back : \A i \in Back : k <= i
  BY <1>3, LeastNumber
<1>5. n - k \in S /\ \A c \in S : c <= n - k
  <2>1. ASSUME NEW c \in S PROVE c <= n - k
    <3>1. c \in 1..n /\ n - c \in Nat /\ n - (n - c) = c
      BY <1>1
    <3>2. k <= n - c
      BY <1>4, <3>1
    <3> QED BY <1>4, <3>1, <3>2
  <2> QED BY <1>4, <2>1
<1> QED BY <1>5 DEF Banks!Newest

(* The steps of an authorization. *)
LEMMA FlowStep ==
  ASSUME BankInv,
         \/ \E c \in Granted : Banks!Authorize(c) \/ Banks!Expire(c)
         \/ \E s \in 0..MaxFlows, code \in {"granted", "declined"} : Banks!Callback(s, code)
         \/ Banks!StopListening \/ Banks!Redeem \/ Banks!GiveUp
  PROVE  BankInv'
<1>1. UNCHANGED <<routes, files, asking>> /\ saved \subseteq saved' /\ saved' \subseteq Granted /\ valid' \subseteq saved'
  <2>1. flow \in {Banks!NoFlow} \cup Flows /\ saved \subseteq Granted /\ valid \subseteq saved
    BY DEF BankInv, BankTypes
  <2>2. CASE Banks!Redeem
    <3>1. flow.consent \in Granted
      BY <2>1, <2>2 DEF Banks!Redeem, Banks!NoFlow, Flows
    <3> QED BY <2>1, <2>2, <3>1 DEF Banks!Redeem
  <2>3. CASE ~Banks!Redeem
    BY <2>1, <2>3 DEF Banks!Authorize, Banks!Expire, Banks!Callback, Banks!StopListening, Banks!GiveUp, Banks!flowVars
  <2> QED BY <2>2, <2>3
<1>2. flow' \in {Banks!NoFlow} \cup Flows /\ flows' \in Nat /\ Answered' /\ Banks!CodeOnce'
  <2>1. flow \in {Banks!NoFlow} \cup Flows /\ flows \in Nat /\ Answered /\ Banks!CodeOnce
    BY DEF BankInv, BankTypes
  <2>2. ASSUME NEW c \in Granted, Banks!Authorize(c)
        PROVE  flow' \in {Banks!NoFlow} \cup Flows /\ flows' \in Nat /\ Answered' /\ Banks!CodeOnce'
    <3>1. flow' \in Flows /\ flows' = flows + 1 /\ heard' = heard /\ flow'.state = flows
      BY <2>1, <2>2 DEF Banks!Authorize, Flows
    <3> QED BY <2>1, <3>1 DEF Answered, Banks!CodeOnce
  <2>3. ASSUME NEW s \in 0..MaxFlows, NEW code \in {"granted", "declined"}, Banks!Callback(s, code)
        PROVE  flow' \in {Banks!NoFlow} \cup Flows /\ flows' \in Nat /\ Answered' /\ Banks!CodeOnce'
    <3>1. flow \in Flows /\ s = flow.state /\ flows' = flows
      BY <2>1, <2>3 DEF Banks!Callback, Banks!NoFlow
    <3>2. CASE flow.sender = TRUE
      <4>1. /\ flow' = [flow EXCEPT !.sender = FALSE, !.code = IF flow.step = "waiting" THEN code ELSE flow.code]
            /\ heard' = heard \cup {<<s, code, "received">>}
        BY <2>3, <3>2 DEF Banks!Callback
      <4>2. flow' \in Flows /\ flow'.sender = FALSE /\ flow'.state = flow.state
        BY <3>1, <4>1 DEF Flows
      <4>3. flow.step # "idle"
        BY <3>1 DEF Flows
      <4>4. Answered'
        BY <2>1, <3>1, <4>1, <4>2, <4>3 DEF Answered, Flows
      <4>5. \A h \in heard : h[1] = s => h[3] # "received"
        BY <2>1, <3>1, <3>2, <4>3 DEF Answered
      <4>6. Banks!CodeOnce'
        BY <2>1, <4>1, <4>5 DEF Banks!CodeOnce
      <4> QED BY <2>1, <3>1, <4>2, <4>4, <4>6
    <3>3. CASE flow.sender # TRUE
      <4>1. flow' = flow /\ heard' = heard \cup {<<s, code, "used">>}
        BY <2>3, <3>1, <3>3 DEF Banks!Callback, Flows
      <4>2. flow.step # "idle"
        BY <3>1 DEF Flows
      <4>3. Answered'
        BY <2>1, <3>1, <3>3, <4>1, <4>2 DEF Answered, Flows
      <4>4. Banks!CodeOnce'
        BY <2>1, <4>1 DEF Banks!CodeOnce
      <4> QED BY <2>1, <3>1, <4>1, <4>3, <4>4
    <3> QED BY <3>2, <3>3
  <2>4. CASE Banks!StopListening
    <3>1. flow \in Flows /\ flow.step # "idle"
      BY <2>1, <2>4 DEF Banks!StopListening, Banks!NoFlow
    <3>2. flow' \in Flows /\ flow'.sender = flow.sender /\ flow'.state = flow.state /\ flows' = flows /\ heard' = heard
      BY <2>4, <3>1 DEF Banks!StopListening, Flows
    <3> QED BY <2>1, <3>1, <3>2 DEF Answered, Banks!CodeOnce
  <2>5. CASE Banks!Redeem \/ Banks!GiveUp
    <3>1. flow' = Banks!NoFlow /\ flows' = flows /\ heard' = heard
      BY <2>5 DEF Banks!Redeem, Banks!GiveUp
    <3> QED BY <2>1, <3>1 DEF Answered, Banks!CodeOnce, Banks!NoFlow
  <2>6. ASSUME NEW c \in Granted, Banks!Expire(c)
        PROVE  flow' \in {Banks!NoFlow} \cup Flows /\ flows' \in Nat /\ Answered' /\ Banks!CodeOnce'
    <3>1. UNCHANGED <<flow, flows, heard>>
      BY <2>6 DEF Banks!Expire, Banks!flowVars
    <3> QED BY <2>1, <3>1 DEF Answered, Banks!CodeOnce
  <2> QED BY <2>2, <2>3, <2>4, <2>5, <2>6
<1>3. BankTypes'
  <2>1. asking' \in ({Banks!NoPull} \cup Asking)'
    BY <1>1 DEF BankInv, BankTypes, Asking
  <2> QED BY <1>1, <1>2, <2>1 DEF BankInv, BankTypes
<1> QED BY <1>1, <1>2, <1>3 DEF BankInv, Numbered, Written1, Banks!StampsHaveFiles, Banks!EachAccountOnce

(* Discovery and preferences: no row is stamped. *)
LEMMA RouteStep ==
  ASSUME BankInv, NEW r \in Banks!Refs,
         (\E c \in Granted : Banks!Discover(c, r)) \/ (\E d \in Withheld : Banks!SetCutoff(r, d))
  PROVE  BankInv'
<1>1. UNCHANGED <<saved, valid, files, asking, flow, heard, flows>>
  BY DEF Banks!Discover, Banks!SetCutoff, Banks!flowVars
<1>2. \A u \in DOMAIN routes : routes[u] \in [consent : saved, cutoff : Limits, stamped : BOOLEAN]
  BY DEF BankInv, BankTypes
<1>3. /\ DOMAIN routes' \subseteq DOMAIN routes \cup {r}
      /\ \A u \in DOMAIN routes' : /\ routes'[u] \in [consent : saved, cutoff : Limits, stamped : BOOLEAN]
                                   /\ routes'[u].stamped = TRUE => u \in DOMAIN routes /\ routes[u].stamped = TRUE
  <2>1. ASSUME NEW c \in Granted, Banks!Discover(c, r)
        PROVE  <1>3
    <3>1. routes' = [u \in DOMAIN routes \cup {r} |-> IF u = r THEN [Banks!Route(r) EXCEPT !.consent = c] ELSE routes[u]]
      BY <2>1 DEF Banks!Discover, Banks!WithRoute
    <3>2. CASE r \in DOMAIN routes
      <4>1. Banks!Route(r) = routes[r] /\ c \in saved
        BY <2>1, <3>2 DEF Banks!Route, Banks!Discover
      <4> QED BY <1>2, <3>1, <3>2, <4>1
    <3>3. CASE r \notin DOMAIN routes
      <4>1. Banks!Route(r) = [consent |-> 0, cutoff |-> 0, stamped |-> FALSE] /\ c \in saved
        BY <2>1, <3>3 DEF Banks!Route, Banks!Discover, Banks!NoRoute
      <4>2. PICK row1 : row1 = [consent |-> 0, cutoff |-> 0, stamped |-> FALSE]
        OBVIOUS
      <4>3. [row1 EXCEPT !.consent = c] \in [consent : saved, cutoff : Limits, stamped : BOOLEAN]
            /\ [row1 EXCEPT !.consent = c].stamped = FALSE
        BY <4>1, <4>2 DEF Limits
      <4> QED BY <1>2, <3>1, <4>1, <4>2, <4>3
    <3> QED BY <3>2, <3>3
  <2>2. ASSUME NEW d \in Withheld, Banks!SetCutoff(r, d)
        PROVE  <1>3
    <3>1. r \in DOMAIN routes /\ routes' = [routes EXCEPT ![r] = [routes[r] EXCEPT !.cutoff = d]]
      BY <2>2 DEF Banks!SetCutoff
    <3> QED BY <1>2, <3>1 DEF Limits
  <2> QED BY <2>1, <2>2
<1>4. BankTypes'
  <2>1. asking' \in ({Banks!NoPull} \cup Asking)'
    BY <1>1 DEF BankInv, BankTypes, Asking
  <2> QED BY <1>1, <1>3, <2>1 DEF BankInv, BankTypes, Flows
<1>5. Banks!StampsHaveFiles'
  BY <1>1, <1>3 DEF BankInv, Banks!StampsHaveFiles
<1> QED BY <1>1, <1>4, <1>5 DEF BankInv, Numbered, Written1, Answered, Banks!EachAccountOnce, Banks!CodeOnce

(* What a step of a pull leaves alone. *)
LEMMA PullFrame ==
  ASSUME BankInv, UNCHANGED <<saved, valid, routes, files, flow, heard, flows>>,
         asking' \in {Banks!NoPull} \cup Asking,
         asking'.step = "publishing" => asking'.left # {} /\ \E acct \in Served : asking'.account = {acct},
         Written1'
  PROVE  BankInv'
<1>1. BankTypes'
  <2>1. asking' \in ({Banks!NoPull} \cup Asking)'
    BY DEF Asking
  <2> QED BY <2>1 DEF BankInv, BankTypes, Flows
<1> QED BY <1>1 DEF BankInv, Numbered, Answered, Banks!StampsHaveFiles, Banks!EachAccountOnce, Banks!CodeOnce

LEMMA StartStep ==
  ASSUME BankInv, NEW only \in {{}} \cup {{c} : c \in saved}, Banks!StartPull(only)
  PROVE  BankInv'
<1>1. files \in Seq(FileSet) /\ Len(files) \in Nat
  BY DEF BankInv, BankTypes
<1>2. [u \in Banks!Refs |-> Banks!Route(u).cutoff] \in [Banks!Refs -> Limits]
  <2>1. ASSUME NEW u \in Banks!Refs PROVE Banks!Route(u).cutoff \in Limits
    <3>1. CASE u \in DOMAIN routes
      BY <3>1 DEF BankInv, BankTypes, Banks!Route
    <3>2. CASE u \notin DOMAIN routes
      BY <3>2 DEF Banks!Route, Banks!NoRoute, Limits
    <3> QED BY <3>1, <3>2
  <2> QED BY <2>1
<1>3. only \subseteq saved
  BY DEF Banks!StartPull
<1>4. PICK one \in BOOLEAN : one = (only # {})
  OBVIOUS
<1>5. asking' = [step |-> "asking", number |-> Len(files), left |-> IF only = {} THEN saved ELSE only,
              one |-> one, cutoff |-> [u \in Banks!Refs |-> Banks!Route(u).cutoff],
              seen |-> {}, active |-> FALSE, group |-> {}, new |-> <<>>, account |-> {}, held |-> {}]
  BY <1>4 DEF Banks!StartPull
<1>6. asking' \in Asking /\ asking'.step = "asking" /\ asking'.number = Len(files)
  BY <1>1, <1>2, <1>3, <1>5 DEF Asking
<1>7. UNCHANGED <<saved, valid, routes, files, flow, heard, flows>>
  BY DEF Banks!StartPull, Banks!flowVars
<1>8. Written1'
  <2>1. ASSUME NEW i \in DOMAIN files
        PROVE  i \in 1..Len(files) /\ files[i].pull < i /\ files[i].pull \in Nat
    <3>1. files[i] \in FileSet
      BY <1>1
    <3> QED BY <1>1, <3>1 DEF FileSet, BankInv, Numbered
  <2>2. \A i \in DOMAIN files : files[i].pull # Len(files)
    BY <1>1, <2>1
  <2> QED BY <1>1, <1>6, <1>7, <2>2 DEF Written1
<1> QED BY <1>6, <1>7, <1>8, PullFrame

LEMMA AskingStep ==
  ASSUME BankInv, Banks!PassOver \/ Banks!NextConsent \/ Banks!FinishPull \/ Banks!PullFails
  PROVE  BankInv'
<1>1. UNCHANGED <<saved, valid, routes, files, flow, heard, flows>>
  BY DEF Banks!PassOver, Banks!NextConsent, Banks!FinishPull, Banks!PullFails, Banks!flowVars
<1>2. CASE asking' = Banks!NoPull
  <2>1. asking'.step = "idle"
    BY <1>2 DEF Banks!NoPull
  <2>2. Written1'
    BY <2>1 DEF Written1
  <2> QED BY <1>1, <1>2, <2>1, <2>2, PullFrame
<1>3. CASE asking' # Banks!NoPull
  <2>1. asking \in Asking /\ asking.step = "asking"
    BY <1>3 DEF Banks!PassOver, Banks!NextConsent, Banks!FinishPull, Banks!PullFails, BankInv, BankTypes, Banks!NoPull
  <2>2. PICK rest \in SUBSET saved, any \in BOOLEAN :
          asking' = [asking EXCEPT !.left = rest, !.active = any]
    <3>1. asking.left \ {Banks!Newest(asking.left)} \in SUBSET saved /\ asking.active \in BOOLEAN
      BY <2>1 DEF Asking
    <3>2. CASE Banks!PassOver
      <4>1. asking' = [asking EXCEPT !.left = asking.left \ {Banks!Newest(asking.left)}]
        BY <1>3, <3>2 DEF Banks!PassOver
      <4>2. asking' = [asking EXCEPT !.left = asking.left \ {Banks!Newest(asking.left)}, !.active = asking.active]
        BY <2>1, <4>1 DEF Asking
      <4> QED BY <3>1, <4>2
    <3>3. CASE Banks!NextConsent
      <4>1. asking' = [asking EXCEPT !.left = asking.left \ {Banks!Newest(asking.left)}, !.active = TRUE]
        BY <3>3 DEF Banks!NextConsent
      <4> QED BY <3>1, <4>1
    <3> QED BY <1>3, <3>2, <3>3 DEF Banks!FinishPull, Banks!PullFails
  <2>3. asking' \in Asking /\ asking'.step = "asking" /\ asking'.number = asking.number /\ asking'.seen = asking.seen
    BY <2>1, <2>2 DEF Asking
  <2>4. Written1'
    BY <1>1, <2>1, <2>3 DEF Written1, BankInv
  <2> QED BY <1>1, <2>3, <2>4, PullFrame
<1> QED BY <1>2, <1>3

LEMMA FetchStep ==
  ASSUME BankInv, NEW acct \in Served, Banks!Fetch(acct)
  PROVE  BankInv'
<1>1. UNCHANGED <<saved, valid, routes, files, flow, heard, flows>>
  BY DEF Banks!Fetch, Banks!flowVars
<1>2. asking \in Asking /\ asking.step = "asking" /\ asking.left # {} /\ acct \notin asking.seen
  BY DEF Banks!Fetch, BankInv, BankTypes, Banks!NoPull, Banks!Unserved
<1>3. PICK group \in SUBSET Units, held \in SUBSET Movements :
        asking' = [asking EXCEPT !.step = "publishing", !.account = {acct}, !.held = held, !.active = TRUE,
                                 !.group = group, !.new = <<>>]
  <2>1. Banks!Kept(acct) \in SUBSET Movements
    BY DEF Banks!Kept
  <2>2. Home[acct] \in SUBSET Units /\ {UnitOf[m] : m \in Banks!Kept(acct)} \in SUBSET Units
    BY <2>1, BankConstants
  <2> QED BY <2>1, <2>2 DEF Banks!Fetch
<1>4. asking' \in Asking /\ asking'.step = "publishing" /\ asking'.number = asking.number /\ asking'.seen = asking.seen
      /\ asking'.left = asking.left /\ asking'.account = {acct} /\ asking'.new = <<>>
  <2>1. <<>> \in Seq(Banks!Refs) /\ {acct} \in SUBSET Served
    OBVIOUS
  <2> QED BY <1>2, <1>3, <2>1 DEF Asking
<1>5. Written1'
  BY <1>1, <1>2, <1>4 DEF Written1, BankInv
<1> QED BY <1>1, <1>2, <1>4, <1>5, PullFrame

(* A file is written: no file of this pull is about that account and currency yet. *)
LEMMA WriteStep ==
  ASSUME BankInv, NEW u \in Units, Banks!WriteFile(u)
  PROVE  BankInv'
<1>1. UNCHANGED <<saved, valid, routes, flow, heard, flows>> /\ asking.step = "publishing" /\ u \in asking.group
  BY DEF Banks!WriteFile, Banks!flowVars
<1>2. asking \in Asking
  BY <1>1 DEF BankInv, BankTypes, Banks!NoPull
<1>3. PICK acct \in Served : asking.account = {acct}
  BY <1>1 DEF BankInv, BankTypes
<1>4. Banks!Serving = acct
  BY <1>3 DEF Banks!Serving
<1>5. PICK file \in FileSet :
        files' = Append(files, file) /\ file.ref = <<acct, u>> /\ file.pull = asking.number
  <2>1. {m \in asking.held : UnitOf[m] = u} \in SUBSET Movements /\ asking.number \in Nat
    BY <1>2 DEF Asking
  <2>2. <<acct, u>> \in Banks!Refs
    BY DEF Banks!Refs
  <2> QED BY <1>4, <2>1, <2>2 DEF Banks!WriteFile, FileSet
<1>6. asking' = [asking EXCEPT !.group = asking.group \ {u}, !.new = Append(asking.new, <<acct, u>>)]
  BY <1>4 DEF Banks!WriteFile
<1>7. asking' \in Asking /\ asking'.step = "publishing" /\ asking'.number = asking.number /\ asking'.seen = asking.seen
      /\ asking'.left = asking.left /\ asking'.account = {acct} /\ asking'.group = asking.group \ {u}
      /\ asking'.new = Append(asking.new, <<acct, u>>)
  <2>1. <<acct, u>> \in Banks!Refs /\ asking.new \in Seq(Banks!Refs)
    BY <1>2 DEF Asking, Banks!Refs
  <2>2. Append(asking.new, <<acct, u>>) \in Seq(Banks!Refs)
    BY <2>1
  <2> QED BY <1>1, <1>2, <1>3, <1>6, <2>2 DEF Asking
<1>8. files \in Seq(FileSet) /\ Len(files) \in Nat
  BY DEF BankInv, BankTypes
<1>9. /\ files' \in Seq(FileSet)
      /\ DOMAIN files' = DOMAIN files \cup {Len(files) + 1} /\ Len(files') = Len(files) + 1
      /\ \A i \in DOMAIN files : files'[i] = files[i]
      /\ files'[Len(files) + 1] = file
  BY <1>5, <1>8
<1>10. BankTypes'
  <2>1. asking' \in Asking'
    BY <1>1, <1>7 DEF Asking
  <2>2. asking.left # {}
    BY <1>1 DEF BankInv, BankTypes
  <2> QED BY <1>1, <1>7, <1>9, <2>1, <2>2 DEF BankInv, BankTypes, Flows
<1>11. Numbered'
  BY <1>1, <1>2, <1>5, <1>8, <1>9 DEF BankInv, Numbered, Written1, Asking
<1>12. \A i \in DOMAIN files : files[i].pull = asking.number => files[i].ref # <<acct, u>>
  BY <1>1, <1>3 DEF BankInv, Written1
<1>13. Banks!EachAccountOnce'
  <2>1. \A i \in DOMAIN files : ~(files'[i].pull = file.pull /\ files'[i].ref = file.ref)
    BY <1>5, <1>9, <1>12
  <2> QED BY <1>9, <2>1 DEF BankInv, Banks!EachAccountOnce
<1>14. Written1'
  <2>1. asking'.number <= Len(files')
    BY <1>1, <1>2, <1>7, <1>8, <1>9 DEF BankInv, Written1, Asking
  <2>2. ASSUME NEW i \in DOMAIN files', files'[i].pull = asking'.number
        PROVE  files'[i].ref[1] \in asking'.seen \/ (files'[i].ref[1] \in asking'.account /\ files'[i].ref[2] \notin asking'.group)
    <3>1. CASE i \in DOMAIN files
      BY <1>1, <1>3, <1>7, <1>9, <2>2, <3>1 DEF BankInv, Written1
    <3>2. CASE i = Len(files) + 1
      BY <1>5, <1>7, <1>9, <3>2
    <3> QED BY <1>9, <3>1, <3>2
  <2>3. asking.account \cap asking.seen = {} /\ \A k \in DOMAIN asking.new : \E i \in DOMAIN files : files[i].ref = asking.new[k]
    BY <1>1 DEF BankInv, Written1
  <2>4. asking.new \in Seq(Banks!Refs)
    BY <1>2 DEF Asking
  <2>5. ASSUME NEW k \in DOMAIN asking'.new
        PROVE  \E i \in DOMAIN files' : files'[i].ref = asking'.new[k]
    <3>1. CASE k \in DOMAIN asking.new
      <4>1. asking'.new[k] = asking.new[k]
        BY <1>7, <2>4, <3>1
      <4>2. PICK i \in DOMAIN files : files[i].ref = asking.new[k]
        BY <2>3, <3>1
      <4> QED BY <1>9, <4>1, <4>2
    <3>2. CASE k = Len(asking.new) + 1
      <4>1. asking'.new[k] = <<acct, u>>
        BY <1>7, <2>4, <3>2
      <4> QED BY <1>5, <1>9, <4>1
    <3> QED BY <1>7, <2>4, <2>5, <3>1, <3>2
  <2> QED BY <1>3, <1>7, <2>1, <2>2, <2>3, <2>5 DEF Written1
<1>15. Banks!StampsHaveFiles'
  BY <1>1, <1>9 DEF BankInv, Banks!StampsHaveFiles
<1> QED BY <1>1, <1>10, <1>11, <1>13, <1>14, <1>15 DEF BankInv, Answered, Banks!CodeOnce

(* The rows of an account are stamped: its files are there. *)
LEMMA CommitStep ==
  ASSUME BankInv, Banks!CommitRows
  PROVE  BankInv'
<1>1. UNCHANGED <<saved, valid, files, flow, heard, flows>> /\ asking.step = "publishing"
  BY DEF Banks!CommitRows, Banks!flowVars
<1>2. asking \in Asking /\ asking.left # {}
  BY <1>1 DEF BankInv, BankTypes, Banks!NoPull
<1>3. Banks!Newest(asking.left) \in saved
  <2>1. asking.left \subseteq saved /\ asking.left \subseteq Granted
    BY <1>2 DEF Asking, BankInv, BankTypes
  <2> QED BY <1>2, <2>1, NewestIs
<1>4. asking' = [asking EXCEPT !.step = "asking", !.seen = asking.seen \cup asking.account]
  BY DEF Banks!CommitRows
<1>5. asking' \in Asking /\ asking'.step = "asking" /\ asking'.number = asking.number
      /\ asking'.seen = asking.seen \cup asking.account
  BY <1>2, <1>4 DEF Asking
<1>6. PICK new : new = {asking.new[i] : i \in DOMAIN asking.new}
  OBVIOUS
<1>7. new \subseteq Banks!Refs
  BY <1>2, <1>6 DEF Asking
<1>8. /\ DOMAIN routes' = DOMAIN routes \cup new
      /\ \A r \in DOMAIN routes' :
           routes'[r] = IF r \in new THEN [Banks!Route(r) EXCEPT !.consent = Banks!Newest(asking.left), !.stamped = TRUE]
                        ELSE routes[r]
  BY <1>6 DEF Banks!CommitRows
<1>9. \A r \in DOMAIN routes' : routes'[r] \in [consent : saved, cutoff : Limits, stamped : BOOLEAN]
  <2>1. ASSUME NEW r \in new
        PROVE  Banks!Route(r) \in [consent : saved \cup {0}, cutoff : Limits, stamped : BOOLEAN]
    BY DEF BankInv, BankTypes, Banks!Route, Banks!NoRoute, Limits
  <2> QED BY <1>3, <1>8, <2>1 DEF BankInv, BankTypes
<1>10. BankTypes'
  <2>1. asking' \in Asking'
    BY <1>1, <1>5 DEF Asking
  <2> QED BY <1>1, <1>5, <1>7, <1>8, <1>9, <2>1 DEF BankInv, BankTypes, Flows
<1>11. Banks!StampsHaveFiles'
  <2>1. \A r \in new : \E i \in DOMAIN files : files[i].ref = r
    BY <1>1, <1>6 DEF BankInv, Written1
  <2> QED BY <1>1, <1>8, <2>1 DEF BankInv, Banks!StampsHaveFiles
<1>12. Written1'
  BY <1>1, <1>2, <1>5 DEF BankInv, Written1, Asking
<1> QED BY <1>1, <1>10, <1>11, <1>12 DEF BankInv, Numbered, Answered, Banks!EachAccountOnce, Banks!CodeOnce

LEMMA BankGoesOn == BankInv /\ [Banks!Next]_(Banks!vars) => BankInv'
<1> SUFFICES ASSUME BankInv, [Banks!Next]_(Banks!vars)
             PROVE  BankInv'
  OBVIOUS
<1>1. CASE UNCHANGED Banks!vars
  <2>1. BankTypes'
    BY <1>1 DEF Banks!vars, BankInv, BankTypes, Asking, Flows
  <2> QED BY <1>1, <2>1 DEF Banks!vars, BankInv, Numbered, Written1, Answered,
              Banks!StampsHaveFiles, Banks!EachAccountOnce, Banks!CodeOnce
<1>2. CASE Banks!Next
  BY <1>2, FlowStep, RouteStep, StartStep, AskingStep, FetchStep, WriteStep, CommitStep DEF Banks!Next
<1> QED BY <1>1, <1>2

BankInvHere == focus = "consents" => BankInv

LEMMA BankHolds == Edge => []BankInvHere
<1>1. Begins => BankInvHere
  BY BeginsWith, BankBegins DEF BankInvHere
<1>2. BankInvHere /\ [Work]_all => BankInvHere'
  <2> SUFFICES ASSUME BankInvHere, [Work]_all, focus' = "consents"
               PROVE  BankInv'
    BY DEF BankInvHere
  <2> QED BY OneAtATime, BankGoesOn DEF BankInvHere
<1> QED BY <1>1, <1>2, PTL DEF Edge

(***************************************************************************)
(* Payees, for any number of them, any aliases and any payments.  Payments  *)
(* are numbered without gaps, and a reversal or a refund comes after what   *)
(* it is of, so every chain of them ends at its original.                  *)
(***************************************************************************)

Payments(Ps, Ws, M) == INSTANCE Payees WITH
  Payees <- Ps, Words <- Ws, MaxEntry <- M, NoEntry <- 0, entry <- payment

Cards(Ws)       == [active : BOOLEAN, aliases : SUBSET Ws]
Paying(Ws, M, S) == [payee : S \cup {NoPayee}, of : 0..M, text : SUBSET Ws, status : {"none", "posted", "void"}]

(* A row is there, and comes after what it is of. *)
Booking(e) == payment[e].status # "none"

Paid(Ps, Ws, M) ==
  /\ M \in Nat /\ NoPayee \notin Ps
  /\ known \subseteq Ps /\ merged \subseteq known
  /\ payee \in [Ps -> Cards(Ws)] /\ \A u \in Ps : payee[u].active => u \in known
  /\ payment \in [1..M -> Paying(Ws, M, known)]
  /\ \E last \in 0..M : \A e \in 1..M : (Booking(e) <=> e <= last)
  /\ \A e \in 1..M : payment[e].of < e

(* Who was merged away is archived, and has no payments. *)
Gone(M) == (\A u \in merged : ~payee[u].active) /\ \A e \in 1..M : Booking(e) => payment[e].payee \notin merged

NameInv(Ps, Ws, M) == Paid(Ps, Ws, M) /\ Gone(M)

LEMMA PaidRows ==
  ASSUME NEW Ps, NEW Ws, NEW M, Paid(Ps, Ws, M)
  PROVE  /\ Payments(Ps, Ws, M)!Entries = 1..M
         /\ \A e \in 1..M : e \in Payments(Ps, Ws, M)!Rows <=> Booking(e)
         /\ Payments(Ps, Ws, M)!Rows \subseteq 1..M
         /\ \E last \in 0..M : /\ \A e \in 1..M : (Booking(e) <=> e <= last)
                               /\ Payments(Ps, Ws, M)!Rows = 1..last /\ Payments(Ps, Ws, M)!NewId = last + 1
<1>1. Payments(Ps, Ws, M)!Entries = 1..M /\ Payments(Ps, Ws, M)!Rows = {e \in 1..M : Booking(e)}
  BY DEF Payments!Entries, Payments!Rows, Booking
<1>2. PICK last \in 0..M : \A e \in 1..M : (Booking(e) <=> e <= last)
  BY DEF Paid
<1>3. M \in Nat
  BY DEF Paid
<1>4. {e \in 1..M : Booking(e)} = 1..last
  BY <1>2, <1>3
<1>5. Cardinality(1..last) = last
  BY <1>2, <1>3, FS_Interval
<1>6. Payments(Ps, Ws, M)!NewId = last + 1
  BY <1>1, <1>4, <1>5 DEF Payments!NewId, Payments!Cardinality, Cardinality
<1> QED BY <1>1, <1>2, <1>4, <1>6

(* Steps that book nothing new. *)
LEMMA SamePayments ==
  ASSUME NEW Ps, NEW Ws, NEW M, Paid(Ps, Ws, M), known' \subseteq Ps, merged' \subseteq known', known \subseteq known',
         payee' \in [Ps -> Cards(Ws)], \A u \in Ps : payee'[u].active => u \in known',
         payment' \in [1..M -> Paying(Ws, M, known')],
         \A e \in 1..M : (payment'[e].status = "none" <=> payment[e].status = "none") /\ payment'[e].of = payment[e].of
  PROVE  Paid(Ps, Ws, M)'
<1>1. \A e \in 1..M : (Booking(e)' <=> Booking(e))
  BY DEF Booking
<1>2. \E last \in 0..M : \A e \in 1..M : (Booking(e)' <=> e <= last)
  BY <1>1 DEF Paid
<1> QED BY <1>2 DEF Paid

(* Steps that book one more. *)
LEMMA OneMore ==
  ASSUME NEW Ps, NEW Ws, NEW M, Paid(Ps, Ws, M), UNCHANGED <<known, payee, merged>>,
         NEW n, n = Payments(Ps, Ws, M)!NewId, n \in 1..M,
         payment' \in [1..M -> Paying(Ws, M, known)], payment'[n].status # "none", payment'[n].of < n,
         \A e \in (1..M) \ {n} : (payment'[e].status = "none" <=> payment[e].status = "none")
                                 /\ payment'[e].of = payment[e].of
  PROVE  Paid(Ps, Ws, M)'
<1>1. PICK last \in 0..M : (\A e \in 1..M : (Booking(e) <=> e <= last)) /\ n = last + 1
  BY PaidRows
<1>2. M \in Nat /\ n \in 0..M
  BY DEF Paid
<1>3. \A e \in 1..M : (Booking(e)' <=> e <= n)
  BY <1>1, <1>2 DEF Booking
<1> QED BY <1>2, <1>3 DEF Paid

(* Several candidates are as good as none. *)
LEMMA OnlyOne ==
  ASSUME NEW Ps, NEW Ws, NEW M, NEW S
  PROVE  /\ Payments(Ps, Ws, M)!Only(S) \in S \cup {NoPayee}
         /\ \A u : S = {u} => Payments(Ps, Ws, M)!Only(S) = u
<1>1. Cardinality({}) = 0 /\ \A u : Cardinality({u}) = 1
  BY FS_EmptySet, FS_Singleton
<1>2. Payments(Ps, Ws, M)!Only(S) = IF Cardinality(S) = 1 THEN CHOOSE u \in S : TRUE ELSE NoPayee
  BY DEF Payments!Only, Payments!Cardinality, Cardinality
<1>3. CASE Cardinality(S) = 1
  <2>1. S # {}
    BY <1>1, <1>3
  <2>2. PICK u \in S : u = (CHOOSE v \in S : TRUE)
    BY <2>1
  <2> QED BY <1>2, <1>3, <2>2
<1>4. CASE Cardinality(S) # 1
  <2>1. \A u : S # {u}
    BY <1>1, <1>4
  <2> QED BY <1>2, <1>4, <2>1
<1> QED BY <1>3, <1>4

(* A payee that is chosen is active, and so is not gone. *)
LEMMA ChosenIs ==
  ASSUME NEW Ps, NEW Ws, NEW M, NameInv(Ps, Ws, M)
  PROVE  /\ \A u : Payments(Ps, Ws, M)!Explicit(u) \in (known \ merged) \cup {NoPayee}
         /\ \A text : Payments(Ps, Ws, M)!Resolve(text) \in (known \ merged) \cup {NoPayee}
         /\ \A text : Payments(Ps, Ws, M)!Candidates(payee, text) \subseteq known \ merged
<1>1. \A u : Payments(Ps, Ws, M)!Explicit(u) \in (known \ merged) \cup {NoPayee}
  BY DEF Payments!Explicit, NameInv, Gone
<1>2. \A text : Payments(Ps, Ws, M)!Candidates(payee, text) \subseteq known \ merged
  BY DEF Payments!Candidates, NameInv, Paid, Gone
<1>3. \A S : Payments(Ps, Ws, M)!Only(S) \in S \cup {NoPayee}
  BY OnlyOne
<1> QED BY <1>1, <1>2, <1>3 DEF Payments!Resolve

LEMMA AddStep ==
  ASSUME NEW Ps, NEW Ws, NEW M, NameInv(Ps, Ws, M), NEW u \in (known \ merged) \cup {NoPayee},
         NEW of \in 0..M, of < Payments(Ps, Ws, M)!NewId, NEW text \in SUBSET Ws,
         Payments(Ps, Ws, M)!Add(u, of, text), UNCHANGED <<known, payee, merged>>
  PROVE  NameInv(Ps, Ws, M)'
<1>1. PICK n : n = Payments(Ps, Ws, M)!NewId
  OBVIOUS
<1>2. n \in 1..M
  BY <1>1 DEF Payments!Add, Payments!Entries
<1> DEFINE new == [payee |-> u, of |-> of, text |-> text, status |-> "posted"]
<1>3. payment' = [payment EXCEPT ![n] = new]
  BY <1>1 DEF Payments!Add
<1>4. new \in Paying(Ws, M, known) /\ new.status # "none" /\ new.of = of /\ new.payee = u
  BY DEF Paying
<1> HIDE DEF new
<1>5. payment \in [1..M -> Paying(Ws, M, known)]
  BY DEF NameInv, Paid
<1>6. /\ payment' \in [1..M -> Paying(Ws, M, known)] /\ payment'[n] = new
      /\ \A e \in (1..M) \ {n} : payment'[e] = payment[e]
  BY <1>2, <1>3, <1>4, <1>5
<1>7. Paid(Ps, Ws, M)'
  BY <1>1, <1>2, <1>4, <1>6, OneMore DEF NameInv
<1>8. Gone(M)'
  <2>1. NoPayee \notin merged
    BY DEF NameInv, Paid
  <2> QED BY <1>4, <1>6, <2>1 DEF NameInv, Gone, Booking
<1> QED BY <1>7, <1>8 DEF NameInv

(* What is booked, refunded or reversed. *)
LEMMA BookingStep ==
  ASSUME NEW Ps, NEW Ws, NEW M, NameInv(Ps, Ws, M),
         \/ \E u \in Ps : Payments(Ps, Ws, M)!Capture(u)
         \/ \E text \in SUBSET Ws, named \in Ps \cup {NoPayee} : Payments(Ps, Ws, M)!Book(text, named)
         \/ \E o \in 1..M, text \in SUBSET Ws : Payments(Ps, Ws, M)!Refund(o, text)
  PROVE  NameInv(Ps, Ws, M)'
<1>1. UNCHANGED <<known, payee, merged>>
  BY DEF Payments!Capture, Payments!Book, Payments!Refund
<1>2. PICK last \in 0..M : (\A e \in 1..M : e \in Payments(Ps, Ws, M)!Rows <=> e <= last) /\ Payments(Ps, Ws, M)!NewId = last + 1 /\ M \in Nat
  BY PaidRows DEF NameInv, Paid
<1>3. 0 \in 0..M /\ 0 < Payments(Ps, Ws, M)!NewId
  BY <1>2
<1>4. CASE \E u \in Ps : Payments(Ps, Ws, M)!Capture(u)
  <2>1. PICK u \in Ps : Payments(Ps, Ws, M)!Add(Payments(Ps, Ws, M)!Explicit(u), 0, {})
    BY <1>4 DEF Payments!Capture
  <2>2. PICK v \in (known \ merged) \cup {NoPayee} : v = Payments(Ps, Ws, M)!Explicit(u)
    BY ChosenIs
  <2>3. {} \in SUBSET Ws
    OBVIOUS
  <2> QED BY <1>1, <1>3, <2>1, <2>2, <2>3, AddStep
<1>5. CASE \E text \in SUBSET Ws, named \in Ps \cup {NoPayee} : Payments(Ps, Ws, M)!Book(text, named)
  <2>1. PICK text \in SUBSET Ws, named \in Ps \cup {NoPayee} :
          Payments(Ps, Ws, M)!Add(IF named # NoPayee THEN Payments(Ps, Ws, M)!Explicit(named) ELSE Payments(Ps, Ws, M)!Resolve(text), 0, text)
    BY <1>5 DEF Payments!Book
  <2>2. PICK v \in (known \ merged) \cup {NoPayee} : v = IF named # NoPayee THEN Payments(Ps, Ws, M)!Explicit(named) ELSE Payments(Ps, Ws, M)!Resolve(text)
    BY ChosenIs
  <2> QED BY <1>1, <1>3, <2>1, <2>2, AddStep
<1>6. CASE \E o \in 1..M, text \in SUBSET Ws : Payments(Ps, Ws, M)!Refund(o, text)
  <2>1. PICK o \in 1..M, text \in SUBSET Ws : o \in Payments(Ps, Ws, M)!Rows /\ Payments(Ps, Ws, M)!Add(payment[o].payee, o, text)
    BY <1>6 DEF Payments!Refund
  <2>2. o \in 0..M /\ o < Payments(Ps, Ws, M)!NewId
    BY <1>2, <2>1
  <2>3. payment[o].payee \in known \cup {NoPayee}
    BY DEF NameInv, Paid, Paying
  <2>4. PICK v \in (known \ merged) \cup {NoPayee} : v = payment[o].payee
    BY <2>1, <2>3, PaidRows DEF NameInv, Gone
  <2> QED BY <1>1, <2>1, <2>2, <2>4, AddStep
<1> QED BY <1>4, <1>5, <1>6

LEMMA MatchStep ==
  ASSUME NEW Ps, NEW Ws, NEW M, NameInv(Ps, Ws, M), NEW e \in 1..M,
         \/ \E text \in SUBSET Ws : Payments(Ps, Ws, M)!Match(e, text)
         \/ \E u \in Ps \cup {NoPayee} : Payments(Ps, Ws, M)!Relabel(e, u)
  PROVE  NameInv(Ps, Ws, M)'
<1>1. UNCHANGED <<known, payee, merged>>
  BY DEF Payments!Match, Payments!Relabel
<1>2. /\ payment \in [1..M -> Paying(Ws, M, known)] /\ \A f \in 1..M : Booking(f) => payment[f].payee \notin merged
      /\ payment[e].payee \notin merged
  <2>1. Booking(e)
    BY PaidRows DEF Payments!Match, Payments!Relabel, NameInv
  <2> QED BY <2>1 DEF NameInv, Paid, Gone
<1>3. PICK old \in Paying(Ws, M, known) : old = payment[e]
  BY <1>2
<1>4. PICK new \in Paying(Ws, M, known) :
        /\ payment' = [payment EXCEPT ![e] = new] /\ new.status = old.status /\ new.of = old.of
        /\ new.payee \notin merged
  <2>1. CASE \E text \in SUBSET Ws : Payments(Ps, Ws, M)!Match(e, text)
    <3>1. PICK text \in SUBSET Ws : payment' = [payment EXCEPT ![e].text = text]
      BY <2>1 DEF Payments!Match
    <3> DEFINE new == [old EXCEPT !.text = text]
    <3>2. new \in Paying(Ws, M, known) /\ new.status = old.status /\ new.of = old.of /\ new.payee = old.payee
      BY DEF Paying
    <3>3. payment' = [payment EXCEPT ![e] = new]
      BY <1>2, <1>3, <3>1
    <3> HIDE DEF new
    <3> QED BY <1>2, <1>3, <3>2, <3>3
  <2>2. CASE \E u \in Ps \cup {NoPayee} : Payments(Ps, Ws, M)!Relabel(e, u)
    <3>1. PICK v \in (known \ merged) \cup {NoPayee} : payment' = [payment EXCEPT ![e].payee = v]
      BY <2>2, ChosenIs DEF Payments!Relabel
    <3> DEFINE new == [old EXCEPT !.payee = v]
    <3>2. new \in Paying(Ws, M, known) /\ new.status = old.status /\ new.of = old.of /\ new.payee = v
      BY DEF Paying
    <3>3. payment' = [payment EXCEPT ![e] = new]
      BY <1>2, <1>3, <3>1
    <3>4. v \notin merged
      BY DEF NameInv, Paid
    <3> HIDE DEF new
    <3> QED BY <3>2, <3>3, <3>4
  <2> QED BY <2>1, <2>2
<1>5. /\ payment' \in [1..M -> Paying(Ws, M, known)] /\ payment'[e] = new
      /\ \A f \in (1..M) \ {e} : payment'[f] = payment[f]
  BY <1>2, <1>4
<1>6. Paid(Ps, Ws, M)'
  <2>1. /\ Paid(Ps, Ws, M) /\ known \subseteq Ps /\ merged \subseteq known /\ payee \in [Ps -> Cards(Ws)]
        /\ \A u \in Ps : payee[u].active => u \in known
    BY DEF NameInv, Paid
  <2>2. \A f \in 1..M : payment'[f].status = payment[f].status /\ payment'[f].of = payment[f].of
    BY <1>3, <1>4, <1>5
  <2> QED BY <1>1, <1>5, <2>1, <2>2, SamePayments
<1>7. Gone(M)'
  BY <1>1, <1>2, <1>4, <1>5 DEF NameInv, Gone, Booking
<1> QED BY <1>6, <1>7 DEF NameInv

LEMMA UndoStep ==
  ASSUME NEW Ps, NEW Ws, NEW M, NameInv(Ps, Ws, M), NEW e \in 1..M, Payments(Ps, Ws, M)!Void(e)
  PROVE  NameInv(Ps, Ws, M)'
<1>1. PICK last \in 0..M : (\A f \in 1..M : f \in Payments(Ps, Ws, M)!Rows <=> f <= last) /\ Payments(Ps, Ws, M)!NewId = last + 1 /\ M \in Nat
  BY PaidRows DEF NameInv, Paid
<1>2. PICK n : n = Payments(Ps, Ws, M)!NewId
  OBVIOUS
<1>3. n \in 1..M /\ e < n /\ e \in 0..M /\ UNCHANGED <<known, payee, merged>> /\ payment[e].status = "posted"
  BY <1>1, <1>2 DEF Payments!Void, Payments!Entries
<1>4. /\ payment \in [1..M -> Paying(Ws, M, known)] /\ \A f \in 1..M : Booking(f) => payment[f].payee \notin merged
      /\ payment[e].payee \notin merged
  <2>1. Booking(e)
    BY <1>3 DEF Booking
  <2> QED BY <2>1 DEF NameInv, Paid, Gone
<1>5. PICK old \in Paying(Ws, M, known) : old = payment[e]
  BY <1>4
<1> DEFINE void == [old EXCEPT !.status = "void", !.text = {}]
           back == [payee |-> old.payee, of |-> e, text |-> {}, status |-> "posted"]
<1>6. /\ void \in Paying(Ws, M, known) /\ void.status = "void" /\ void.of = old.of /\ void.payee = old.payee
      /\ back \in Paying(Ws, M, known) /\ back.status = "posted" /\ back.of = e /\ back.payee = old.payee
  BY <1>3 DEF Paying
<1>7. payment' = [payment EXCEPT ![e] = void, ![n] = back]
  BY <1>2, <1>3, <1>4, <1>5 DEF Payments!Void
<1> HIDE DEF void, back
<1>8. /\ payment' \in [1..M -> Paying(Ws, M, known)] /\ payment'[n] = back /\ payment'[e] = void
      /\ \A f \in (1..M) \ {e, n} : payment'[f] = payment[f]
  BY <1>3, <1>4, <1>6, <1>7
<1>9. Paid(Ps, Ws, M)'
  BY <1>2, <1>3, <1>5, <1>6, <1>8, OneMore DEF NameInv
<1>10. Gone(M)'
  BY <1>3, <1>4, <1>5, <1>6, <1>8 DEF NameInv, Gone, Booking
<1> QED BY <1>9, <1>10 DEF NameInv

(* A chain of reversals and refunds ends at a payment that is of none. *)
LEMMA RootIs ==
  ASSUME NEW Ps, NEW Ws, NEW M, Paid(Ps, Ws, M), NEW e \in Payments(Ps, Ws, M)!Rows
  PROVE  /\ Payments(Ps, Ws, M)!Root(e) \in Payments(Ps, Ws, M)!Rows /\ payment[Payments(Ps, Ws, M)!Root(e)].of = 0
         /\ payment[e].of = 0 => Payments(Ps, Ws, M)!Root(e) = e
<1>1. PICK last \in 0..M : (\A f \in 1..M : (Booking(f) <=> f <= last)) /\ Payments(Ps, Ws, M)!Rows = 1..last
  BY PaidRows
<1>2. M \in Nat /\ \A f \in 1..M : payment[f].of < f /\ payment[f].of \in 0..M
  BY DEF Paid, Paying
<1> DEFINE Over(f) == IF payment[f].of = 0 THEN f ELSE payment[f].of
           Climb == [n \in 1..M |-> [f \in Payments(Ps, Ws, M)!Rows |-> Over(f)]]
           Up == CHOOSE up : up = [n \in 0..M |->
                   IF n = 0 THEN e ELSE IF payment[up[n - 1]].of = 0 THEN up[n - 1] ELSE payment[up[n - 1]].of]
<1>3. Payments(Ps, Ws, M)!Root(e) = Up[M]
  BY DEF Payments!Root
<1>4. \A f \in Payments(Ps, Ws, M)!Rows : Over(f) \in Payments(Ps, Ws, M)!Rows
  <2>1. \A f \in 1..last : payment[f].of < f /\ payment[f].of \in 0..M /\ f \in 1..M
    BY <1>1, <1>2
  <2>2. \A f \in 1..last : payment[f].of # 0 => payment[f].of \in 1..last
    BY <1>1, <1>2, <2>1
  <2> QED BY <1>1, <2>2
<1>5. Climb \in [1..M -> [Payments(Ps, Ws, M)!Rows -> Payments(Ps, Ws, M)!Rows]]
  BY <1>4
<1> HIDE DEF Up
<1>6. PICK g \in [0..M -> Payments(Ps, Ws, M)!Rows] : g[0] = e /\ \A n \in 1..M : g[n] = Over(g[n - 1])
  <2>1. PICK X : X = Payments(Ps, Ws, M)!Rows
    OBVIOUS
  <2>2. PICK steps \in [1..M -> [X -> X]] : steps = Climb
    BY <1>5, <2>1
  <2>3. PICK start \in X : start = e
    BY <2>1
  <2>4. PICK g : Chain(M, X, start, steps, g)
    BY <1>2, ChainIs
  <2>5. \A n \in 1..M : g[n - 1] \in X /\ g[n] = steps[n][g[n - 1]]
    BY <1>2, <2>4 DEF Chain
  <2>6. \A n \in 1..M : g[n] = Over(g[n - 1])
    BY <2>1, <2>2, <2>5
  <2> HIDE DEF Over, Climb
  <2> QED BY <2>1, <2>3, <2>4, <2>6 DEF Chain
<1>7. \A n \in 0..M : Up[n] = g[n]
  <2>1. g = [n \in 0..M |-> IF n = 0 THEN e ELSE IF payment[g[n - 1]].of = 0 THEN g[n - 1] ELSE payment[g[n - 1]].of]
    BY <1>6, <1>2
  <2>2. Up = [n \in 0..M |-> IF n = 0 THEN e ELSE IF payment[Up[n - 1]].of = 0 THEN Up[n - 1] ELSE payment[Up[n - 1]].of]
    BY <2>1 DEF Up
  <2>3. Up[0] = e /\ \A n \in 1..M : Up[n] = Over(Up[n - 1])
    BY <1>2, <2>2
  <2> DEFINE Differs == {n \in 0..M : Up[n] # g[n]}
  <2>4. SUFFICES ASSUME Differs # {} PROVE FALSE
    OBVIOUS
  <2>5. PICK n \in Differs : \A k \in Differs : n <= k
    <3>1. Differs \subseteq Nat
      OBVIOUS
    <3> QED BY <2>4, <3>1, LeastNumber
  <2>6. n \in 0..M /\ Up[n] # g[n] /\ n # 0
    BY <1>6, <2>3, <2>5
  <2>7. n \in 1..M /\ n - 1 \in 0..M /\ ~(n <= n - 1)
    BY <1>2, <2>6
  <2>8. Up[n - 1] = g[n - 1]
    BY <2>5, <2>7
  <2>9. Up[n] = Over(Up[n - 1]) /\ g[n] = Over(g[n - 1])
    BY <1>6, <2>3, <2>7
  <2> HIDE DEF Over, Differs
  <2> QED BY <2>6, <2>8, <2>9
<1>8. Payments(Ps, Ws, M)!Root(e) = g[M] /\ g[M] \in Payments(Ps, Ws, M)!Rows
  BY <1>2, <1>3, <1>6, <1>7
<1>9. payment[g[M]].of = 0
  <2> DEFINE High == {n \in 0..M : payment[g[n]].of # 0 /\ ~(g[n] <= e - n)}
  <2>1. High = {}
    <3>1. SUFFICES ASSUME High # {} PROVE FALSE
      OBVIOUS
    <3>2. PICK n \in High : \A k \in High : n <= k
      <4>1. High \subseteq Nat
        OBVIOUS
      <4> QED BY <3>1, <4>1, LeastNumber
    <3>3. e \in 1..last /\ n \in 0..M /\ payment[g[n]].of # 0 /\ ~(g[n] <= e - n)
      BY <1>1, <3>2
    <3>4. n # 0
      BY <1>1, <1>6, <3>3
    <3>5. n \in 1..M /\ n - 1 \in 0..M /\ ~(n <= n - 1)
      BY <1>2, <3>3, <3>4
    <3>6. n - 1 \notin High
      BY <3>2, <3>5
    <3>7. g[n] = Over(g[n - 1]) /\ g[n - 1] \in 1..last /\ g[n - 1] \in 1..M
      BY <1>1, <1>2, <1>6, <3>5
    <3>8. payment[g[n - 1]].of # 0 /\ g[n] = payment[g[n - 1]].of /\ g[n] < g[n - 1] /\ g[n] \in 0..M
      BY <1>2, <3>3, <3>7
    <3>9. g[n - 1] <= e - (n - 1)
      BY <3>5, <3>6, <3>8
    <3>10. e \in Int /\ n \in Int /\ g[n] \in Int /\ g[n - 1] \in Int
      BY <1>1, <1>2, <3>3, <3>7, <3>8
    <3> QED BY <3>3, <3>8, <3>9, <3>10
  <2>2. e \in 1..M /\ g[M] \in 1..M /\ M \in 0..M
    BY <1>1, <1>2, <1>6
  <2> QED BY <1>2, <2>1, <2>2
<1>10. payment[e].of = 0 => g[M] = e
  <2> SUFFICES ASSUME payment[e].of = 0 PROVE g[M] = e
    OBVIOUS
  <2> DEFINE Left == {n \in 0..M : g[n] # e}
  <2>1. Left = {}
    <3>1. SUFFICES ASSUME Left # {} PROVE FALSE
      OBVIOUS
    <3>2. PICK n \in Left : \A k \in Left : n <= k
      <4>1. Left \subseteq Nat
        OBVIOUS
      <4> QED BY <3>1, <4>1, LeastNumber
    <3>3. n \in 0..M /\ g[n] # e /\ n # 0
      BY <1>6, <3>2
    <3>4. n \in 1..M /\ n - 1 \in 0..M /\ ~(n <= n - 1)
      BY <1>2, <3>3
    <3>5. g[n - 1] = e
      BY <3>2, <3>4
    <3> QED BY <1>6, <3>3, <3>4, <3>5
  <2> QED BY <1>2, <2>1
<1> QED BY <1>8, <1>9, <1>10

(* What a change may be. *)
LEMMA ChangeIs ==
  ASSUME NEW Ps, NEW Ws, NEW M, NEW c \in Payments(Ps, Ws, M)!Changes
  PROVE  \/ c.op = "save" /\ c.payee \in Ps /\ c.active \in BOOLEAN /\ c.aliases \in SUBSET Ws
         \/ c.op = "backfill" /\ c = Payments(Ps, Ws, M)!Backfill
         \/ c.op = "link" /\ c.entry \in 1..M /\ c.to \in Ps
         \/ c.op = "merge" /\ c.from \in Ps /\ c.to \in Ps
<1>1. CASE c \in Payments(Ps, Ws, M)!Saves
  <2>1. PICK u \in Ps, mark \in BOOLEAN, said \in SUBSET Ws : c = [op |-> "save", payee |-> u, active |-> mark, aliases |-> said]
    BY <1>1 DEF Payments!Saves
  <2> QED BY <2>1
<1>2. CASE c = Payments(Ps, Ws, M)!Backfill
  BY <1>2 DEF Payments!Backfill
<1>3. CASE c \in Payments(Ps, Ws, M)!Links
  <2>1. PICK e \in 1..M, u \in Ps : c = [op |-> "link", entry |-> e, to |-> u]
    BY <1>3 DEF Payments!Links, Payments!Entries
  <2> QED BY <2>1
<1>4. CASE c \in Payments(Ps, Ws, M)!Merges
  <2>1. PICK u \in Ps, v \in Ps : c = [op |-> "merge", from |-> u, to |-> v]
    BY <1>4 DEF Payments!Merges
  <2> QED BY <2>1
<1> QED BY <1>1, <1>2, <1>3, <1>4 DEF Payments!Changes

LEMMA InferredIs ==
  ASSUME NEW Ps, NEW Ws, NEW M, NameInv(Ps, Ws, M), NEW e \in Payments(Ps, Ws, M)!Rows
  PROVE  Payments(Ps, Ws, M)!Only(Payments(Ps, Ws, M)!Inferred(e)) \in (known \ merged) \cup {NoPayee}
<1>1. PICK source : source = Payments(Ps, Ws, M)!Root(e)
  OBVIOUS
<1>2. source \in 1..M /\ Booking(source)
  BY <1>1, RootIs, PaidRows DEF NameInv
<1>3. payment[source].payee \in known \cup {NoPayee} /\ payment[source].payee \notin merged
  BY <1>2 DEF NameInv, Paid, Gone, Paying
<1>4. Payments(Ps, Ws, M)!Inferred(e) = IF source # e /\ payment[source].payee # NoPayee THEN {payment[source].payee}
                     ELSE Payments(Ps, Ws, M)!Candidates(payee, payment[source].text)
  BY <1>1 DEF Payments!Inferred
<1>5. Payments(Ps, Ws, M)!Inferred(e) \subseteq known \ merged
  BY <1>3, <1>4, ChosenIs
<1> QED BY <1>5, OnlyOne

(* Where a change links a payment, it is a payee that is not gone. *)
LEMMA LinksAre ==
  ASSUME NEW Ps, NEW Ws, NEW M, NameInv(Ps, Ws, M), NEW c \in Payments(Ps, Ws, M)!Changes, Payments(Ps, Ws, M)!Valid(c), NEW e \in Payments(Ps, Ws, M)!Rows
  PROVE  /\ Payments(Ps, Ws, M)!LinksAfter(c)[e] \in (known \ merged) \cup {NoPayee}
         /\ c.op = "merge" => Payments(Ps, Ws, M)!LinksAfter(c)[e] # c.from
<1>1. e \in 1..M /\ payment[e].payee \in (known \ merged) \cup {NoPayee}
  <2>1. e \in 1..M /\ Booking(e)
    BY PaidRows DEF NameInv
  <2> QED BY <2>1 DEF NameInv, Paid, Gone, Paying
<1>2. Payments(Ps, Ws, M)!LinksAfter(c)[e] =
        CASE c.op = "link"     -> IF e = c.entry THEN c.to ELSE payment[e].payee
          [] c.op = "merge"    -> IF payment[e].payee = c.from THEN c.to ELSE payment[e].payee
          [] c.op = "backfill" -> IF payment[e].payee = NoPayee THEN Payments(Ps, Ws, M)!Only(Payments(Ps, Ws, M)!Inferred(e)) ELSE payment[e].payee
          [] OTHER             -> payment[e].payee
  BY DEF Payments!LinksAfter
<1>3. CASE c.op = "save"
  BY <1>1, <1>2, <1>3
<1>4. CASE c.op = "backfill"
  <2>1. Payments(Ps, Ws, M)!LinksAfter(c)[e] = IF payment[e].payee = NoPayee THEN Payments(Ps, Ws, M)!Only(Payments(Ps, Ws, M)!Inferred(e)) ELSE payment[e].payee
    BY <1>2, <1>4
  <2> QED BY <1>1, <1>4, <2>1, InferredIs
<1>5. CASE c.op = "link"
  <2>1. Payments(Ps, Ws, M)!LinksAfter(c)[e] = IF e = c.entry THEN c.to ELSE payment[e].payee
    BY <1>2, <1>5
  <2>2. payee[c.to].active /\ c.to \in Ps
    BY <1>5, ChangeIs DEF Payments!Valid
  <2>3. c.to \in known \ merged
    BY <2>2 DEF NameInv, Paid, Gone
  <2> QED BY <1>1, <1>5, <2>1, <2>3
<1>6. CASE c.op = "merge"
  <2>1. Payments(Ps, Ws, M)!LinksAfter(c)[e] = IF payment[e].payee = c.from THEN c.to ELSE payment[e].payee
    BY <1>2, <1>6
  <2>2. payee[c.to].active /\ c.to \in Ps /\ c.from # c.to
    BY <1>6, ChangeIs DEF Payments!Valid
  <2>3. c.to \in known \ merged
    BY <2>2 DEF NameInv, Paid, Gone
  <2> QED BY <1>1, <2>1, <2>2, <2>3
<1> QED BY <1>3, <1>4, <1>5, <1>6, ChangeIs

LEMMA ApplyStep ==
  ASSUME NEW Ps, NEW Ws, NEW M, NameInv(Ps, Ws, M), NEW c \in Payments(Ps, Ws, M)!Changes, Payments(Ps, Ws, M)!Apply(c)
  PROVE  NameInv(Ps, Ws, M)'
<1>1. /\ Payments(Ps, Ws, M)!Valid(c) /\ payee' = Payments(Ps, Ws, M)!PayeesAfter(c)
      /\ payment' = [e \in 1..M |-> IF e \in Payments(Ps, Ws, M)!Rows THEN [payment[e] EXCEPT !.payee = Payments(Ps, Ws, M)!LinksAfter(c)[e]] ELSE payment[e]]
      /\ known' = IF c.op = "save" THEN known \cup {c.payee} ELSE known
      /\ merged' = CASE c.op = "merge" -> merged \cup {c.from}
                     [] c.op = "save"  -> IF c.active THEN merged \ {c.payee} ELSE merged
                     [] OTHER          -> merged
  BY DEF Payments!Apply, Payments!Entries
<1>2. /\ M \in Nat /\ NoPayee \notin Ps /\ known \subseteq Ps /\ merged \subseteq known
      /\ payment \in [1..M -> Paying(Ws, M, known)] /\ payee \in [Ps -> Cards(Ws)]
      /\ \A u \in Ps : payee[u].active => u \in known
      /\ \A u \in merged : ~payee[u].active
  BY DEF NameInv, Paid, Gone
<1>3. /\ known \subseteq known' /\ known' \subseteq Ps /\ merged' \subseteq known'
      /\ \A u \in merged' : u \notin merged => c.op = "merge" /\ u = c.from
  <2>1. CASE c.op = "save"
    BY <1>1, <1>2, <2>1, ChangeIs
  <2>2. CASE c.op = "merge"
    <3>1. merged' = merged \cup {c.from} /\ known' = known /\ c.from \in known
      BY <1>1, <2>2 DEF Payments!Valid
    <3> QED BY <1>2, <2>2, <3>1
  <2>3. CASE c.op \notin {"save", "merge"}
    BY <1>1, <1>2, <2>3
  <2> QED BY <2>1, <2>2, <2>3
<1>4. ASSUME NEW e \in 1..M
      PROVE  /\ payment'[e] \in Paying(Ws, M, known') /\ payment'[e].of = payment[e].of
             /\ payment'[e].status = payment[e].status /\ (Booking(e) => payment'[e].payee \notin merged')
  <2>1. PICK old \in Paying(Ws, M, known) : old = payment[e]
    BY <1>2
  <2>2. CASE e \in Payments(Ps, Ws, M)!Rows
    <3>1. PICK v \in (known \ merged) \cup {NoPayee} : v = Payments(Ps, Ws, M)!LinksAfter(c)[e] /\ (c.op = "merge" => v # c.from)
      BY <1>1, <2>2, LinksAre
    <3> DEFINE new == [old EXCEPT !.payee = v]
    <3>2. new \in Paying(Ws, M, known') /\ new.of = old.of /\ new.status = old.status /\ new.payee = v
      BY <1>3 DEF Paying
    <3>3. payment'[e] = new
      BY <1>1, <2>1, <2>2, <3>1
    <3>4. v \notin merged'
      BY <1>2, <1>3, <3>1
    <3> HIDE DEF new
    <3> QED BY <2>1, <3>2, <3>3, <3>4
  <2>3. CASE e \notin Payments(Ps, Ws, M)!Rows
    <3>1. payment'[e] = old
      BY <1>1, <2>1, <2>3
    <3>2. ~Booking(e)
      BY <2>3, PaidRows DEF NameInv
    <3>3. old \in Paying(Ws, M, known')
      BY <1>3 DEF Paying
    <3> QED BY <2>1, <3>1, <3>2, <3>3
  <2> QED BY <2>2, <2>3
<1>5. /\ payee' \in [Ps -> Cards(Ws)] /\ \A u \in Ps : payee'[u].active => u \in known'
      /\ \A u \in merged' : ~payee'[u].active
  <2>1. CASE c.op = "save"
    <3>1. c.payee \in Ps /\ [active |-> c.active, aliases |-> c.aliases] \in Cards(Ws)
      BY <2>1, ChangeIs DEF Cards
    <3> DEFINE card == [active |-> c.active, aliases |-> c.aliases]
    <3>2. payee' = [payee EXCEPT ![c.payee] = card] /\ card.active = c.active
      BY <1>1, <2>1 DEF Payments!PayeesAfter
    <3> HIDE DEF card
    <3>3. payee' \in [Ps -> Cards(Ws)] /\ payee'[c.payee] = card /\ \A u \in Ps \ {c.payee} : payee'[u] = payee[u]
      <4>1. card \in Cards(Ws)
        BY <3>1 DEF card
      <4> QED BY <1>2, <3>1, <3>2, <4>1
    <3>4. known' = known \cup {c.payee} /\ merged' = IF c.active THEN merged \ {c.payee} ELSE merged
      BY <1>1, <2>1
    <3> QED BY <1>2, <3>2, <3>3, <3>4
  <2>2. CASE c.op = "merge"
    <3>1. c.from \in Ps /\ c.to \in Ps /\ c.from # c.to /\ payee[c.to].active
      BY <1>1, <2>2, ChangeIs DEF Payments!Valid
    <3>2. PICK old1 \in Cards(Ws), old2 \in Cards(Ws) : old1 = payee[c.from] /\ old2 = payee[c.to]
      BY <1>2, <3>1
    <3> DEFINE gone1 == [old1 EXCEPT !.active = FALSE]
               kept1 == [old2 EXCEPT !.aliases = old2.aliases \cup old1.aliases]
    <3>3. gone1 \in Cards(Ws) /\ kept1 \in Cards(Ws) /\ gone1.active = FALSE /\ kept1.active = old2.active
      BY DEF Cards
    <3>4. payee' = [payee EXCEPT ![c.from] = gone1, ![c.to] = kept1]
      <4>1. payee' = [payee EXCEPT ![c.from].active = FALSE, ![c.to].aliases = @ \cup payee[c.from].aliases]
        BY <1>1, <2>2 DEF Payments!PayeesAfter
      <4> QED BY <1>2, <3>1, <3>2, <4>1
    <3> HIDE DEF gone1, kept1
    <3>5. /\ payee' \in [Ps -> Cards(Ws)] /\ payee'[c.from] = gone1 /\ payee'[c.to] = kept1
          /\ \A u \in Ps \ {c.from, c.to} : payee'[u] = payee[u]
      BY <1>2, <3>1, <3>3, <3>4
    <3>6. known' = known /\ merged' = merged \cup {c.from} /\ c.to \notin merged
      BY <1>1, <1>2, <2>2, <3>1
    <3> QED BY <1>2, <3>1, <3>2, <3>3, <3>5, <3>6
  <2>3. CASE c.op \notin {"save", "merge"}
    <3>1. payee' = payee /\ known' = known /\ merged' = merged
      BY <1>1, <2>3 DEF Payments!PayeesAfter
    <3> QED BY <1>2, <3>1
  <2> QED BY <2>1, <2>2, <2>3
<1>6. payment' \in [1..M -> Paying(Ws, M, known')]
  BY <1>1, <1>4
<1>7. Paid(Ps, Ws, M)'
  BY <1>3, <1>4, <1>5, <1>6, SamePayments DEF NameInv
<1>8. Gone(M)'
  BY <1>4, <1>5 DEF Gone, Booking
<1> QED BY <1>7, <1>8 DEF NameInv


(***************************************************************************)
(* What a preview shows is in its token: the payees and the links that     *)
(* change, and the lines that will match another payee.                    *)
(***************************************************************************)

CardsSeen(c, cards) ==
  CASE c.op = "save"  -> [cards EXCEPT ![c.payee] = [active |-> c.active, aliases |-> c.aliases]]
    [] c.op = "merge" -> [cards EXCEPT ![c.from].active = FALSE,
                                       ![c.to].aliases = @ \cup cards[c.from].aliases]
    [] OTHER          -> cards

LinksSeen(Ps, Ws, M, c, named) ==
  CASE c.op = "link"     -> {<<e, c.to>> : e \in {r \in {c.entry} : named.payee # c.to}}
    [] c.op = "merge"    -> {<<e, c.to>> : e \in DOMAIN named}
    [] c.op = "backfill" -> {<<e, Payments(Ps, Ws, M)!Only(named[e][3])>> :
                               e \in {r \in DOMAIN named : Payments(Ps, Ws, M)!Only(named[r][3]) # NoPayee}}
    [] OTHER             -> {}

Seen(Ps, Ws, M, c, token) ==
  [payees |-> {u \in Ps : CardsSeen(c, token.payees)[u] # token.payees[u]},
   links  |-> LinksSeen(Ps, Ws, M, c, token.entries),
   lines  |-> token.impact]

OfferInv(Ps, Ws, M) ==
  \A s \in shown : /\ s.change \in Payments(Ps, Ws, M)!Changes /\ shown = {s}
                   /\ s.shown = Seen(Ps, Ws, M, s.change, s.token)

LEMMA LinksAreSeen ==
  ASSUME NEW Ps, NEW Ws, NEW M, NameInv(Ps, Ws, M), NEW c \in Payments(Ps, Ws, M)!Changes, Payments(Ps, Ws, M)!Valid(c)
  PROVE  Payments(Ps, Ws, M)!Shown(c).links = LinksSeen(Ps, Ws, M, c, Payments(Ps, Ws, M)!Token(c).entries)
<1>1. PICK X : X = Payments(Ps, Ws, M)!Rows
  OBVIOUS
<1>2. PICK after : after = Payments(Ps, Ws, M)!LinksAfter(c)
  OBVIOUS
<1>3. Payments(Ps, Ws, M)!Shown(c).links = {<<e, after[e]>> : e \in {r \in X : after[r] # payment[r].payee}}
  BY <1>1, <1>2 DEF Payments!Shown
<1>4. after = [e \in X |->
        CASE c.op = "link"     -> IF e = c.entry THEN c.to ELSE payment[e].payee
          [] c.op = "merge"    -> IF payment[e].payee = c.from THEN c.to ELSE payment[e].payee
          [] c.op = "backfill" -> IF payment[e].payee = NoPayee THEN Payments(Ps, Ws, M)!Only(Payments(Ps, Ws, M)!Inferred(e)) ELSE payment[e].payee
          [] OTHER             -> payment[e].payee]
  BY <1>1, <1>2 DEF Payments!LinksAfter
<1>5. PICK named : named = Payments(Ps, Ws, M)!Token(c).entries
  OBVIOUS
<1>6. named = CASE c.op = "save"     -> Payments(Ps, Ws, M)!Cardinality({e \in X : payment[e].payee = c.payee})
                [] c.op = "link"     -> payment[c.entry]
                [] c.op = "merge"    -> [e \in {r \in X : payment[r].payee = c.from} |-> payment[e]]
                [] c.op = "backfill" -> [e \in {r \in X : payment[r].payee = NoPayee} |->
                     <<payment[e], payment[Payments(Ps, Ws, M)!Root(e)], Payments(Ps, Ws, M)!Inferred(e)>>]
  BY <1>1, <1>5 DEF Payments!Token
<1>7. CASE c.op = "save"
  <2>1. \A e \in X : after[e] = payment[e].payee
    BY <1>4, <1>7
  <2>2. Payments(Ps, Ws, M)!Shown(c).links = {}
    BY <1>3, <2>1
  <2> QED BY <1>7, <2>2 DEF LinksSeen
<1>8. CASE c.op = "link"
  <2>1. \A e \in X : after[e] = IF e = c.entry THEN c.to ELSE payment[e].payee
    BY <1>4, <1>8
  <2>2. c.entry \in X /\ named = payment[c.entry]
    BY <1>1, <1>6, <1>8 DEF Payments!Valid
  <2>3. LinksSeen(Ps, Ws, M, c, named) = {<<e, c.to>> : e \in {r \in {c.entry} : named.payee # c.to}}
    BY <1>8 DEF LinksSeen
  <2>4. {r \in X : after[r] # payment[r].payee} = {r \in {c.entry} : named.payee # c.to}
    BY <2>1, <2>2
  <2>5. \A e \in {r \in {c.entry} : named.payee # c.to} : after[e] = c.to
    BY <2>1, <2>2
  <2> QED BY <1>3, <1>5, <2>3, <2>4, <2>5
<1>9. CASE c.op = "merge"
  <2>1. \A e \in X : after[e] = IF payment[e].payee = c.from THEN c.to ELSE payment[e].payee
    BY <1>4, <1>9
  <2>2. c.from # c.to
    BY <1>9 DEF Payments!Valid
  <2>3. named = [e \in {r \in X : payment[r].payee = c.from} |-> payment[e]]
    BY <1>6, <1>9
  <2>4. DOMAIN named = {r \in X : payment[r].payee = c.from}
    BY <2>3
  <2>5. LinksSeen(Ps, Ws, M, c, named) = {<<e, c.to>> : e \in DOMAIN named}
    BY <1>9 DEF LinksSeen
  <2>6. {r \in X : after[r] # payment[r].payee} = DOMAIN named
    BY <2>1, <2>2, <2>4
  <2>7. \A e \in DOMAIN named : after[e] = c.to
    BY <2>1, <2>4
  <2> QED BY <1>3, <1>5, <2>5, <2>6, <2>7
<1>10. CASE c.op = "backfill"
  <2>1. PICK Chosen : Chosen = [e \in X |-> Payments(Ps, Ws, M)!Only(Payments(Ps, Ws, M)!Inferred(e))]
    OBVIOUS
  <2>2. \A e \in X : after[e] = IF payment[e].payee = NoPayee THEN Chosen[e] ELSE payment[e].payee
    BY <1>4, <1>10, <2>1
  <2>3. named = [e \in {r \in X : payment[r].payee = NoPayee} |->
                   <<payment[e], payment[Payments(Ps, Ws, M)!Root(e)], Payments(Ps, Ws, M)!Inferred(e)>>]
    BY <1>6, <1>10
  <2>4. /\ DOMAIN named = {r \in X : payment[r].payee = NoPayee}
        /\ \A e \in DOMAIN named : named[e][3] = Payments(Ps, Ws, M)!Inferred(e)
    BY <2>3
  <2>5. \A e \in DOMAIN named : Payments(Ps, Ws, M)!Only(named[e][3]) = Chosen[e]
    BY <2>1, <2>4
  <2>6. LinksSeen(Ps, Ws, M, c, named) = {<<e, Payments(Ps, Ws, M)!Only(named[e][3])>> :
          e \in {r \in DOMAIN named : Payments(Ps, Ws, M)!Only(named[r][3]) # NoPayee}}
    BY <1>10 DEF LinksSeen
  <2>7. LinksSeen(Ps, Ws, M, c, named) = {<<e, Chosen[e]>> : e \in {r \in DOMAIN named : Chosen[r] # NoPayee}}
    BY <2>5, <2>6
  <2>8. {r \in X : after[r] # payment[r].payee} = {r \in DOMAIN named : Chosen[r] # NoPayee}
    BY <2>2, <2>4
  <2>9. \A e \in {r \in DOMAIN named : Chosen[r] # NoPayee} : after[e] = Chosen[e]
    BY <2>2, <2>4
  <2> QED BY <1>3, <1>5, <2>7, <2>8, <2>9
<1> QED BY <1>7, <1>8, <1>9, <1>10, ChangeIs

LEMMA ShownIsSeen ==
  ASSUME NEW Ps, NEW Ws, NEW M, NameInv(Ps, Ws, M), NEW c \in Payments(Ps, Ws, M)!Changes, Payments(Ps, Ws, M)!Valid(c)
  PROVE  Payments(Ps, Ws, M)!Shown(c) = Seen(Ps, Ws, M, c, Payments(Ps, Ws, M)!Token(c))
<1>1. PICK token : token = Payments(Ps, Ws, M)!Token(c)
  OBVIOUS
<1>2. token.payees = payee /\ token.impact = Payments(Ps, Ws, M)!Impact(c)
  BY <1>1 DEF Payments!Token
<1>3. Payments(Ps, Ws, M)!PayeesAfter(c) = CardsSeen(c, payee)
  BY Zenon DEF Payments!PayeesAfter, CardsSeen
<1>4. PICK linked : linked = Payments(Ps, Ws, M)!Shown(c).links
  OBVIOUS
<1>5. linked = LinksSeen(Ps, Ws, M, c, token.entries)
  BY <1>1, <1>4, LinksAreSeen
<1>6. Payments(Ps, Ws, M)!Shown(c) =
        [payees |-> {u \in Ps : Payments(Ps, Ws, M)!PayeesAfter(c)[u] # payee[u]}, links |-> linked,
         lines |-> Payments(Ps, Ws, M)!Impact(c)]
  BY <1>4 DEF Payments!Shown
<1> QED BY <1>1, <1>2, <1>3, <1>5, <1>6 DEF Seen


(* Every step but a confirmation keeps the payees, or the preview. *)
LEMMA ConfirmedIs ==
  ASSUME NEW Ps, NEW Ws, NEW M, OfferInv(Ps, Ws, M), NEW s \in shown, Payments(Ps, Ws, M)!Next, shown' = {},
         <<payee, payment>>' # <<payee, payment>>
  PROVE  /\ s.token = Payments(Ps, Ws, M)!Token(s.change) /\ s.change \in Payments(Ps, Ws, M)!Changes
         /\ Payments(Ps, Ws, M)!Apply(s.change)
<1>1. shown # {} /\ shown = {s} /\ s.change \in Payments(Ps, Ws, M)!Changes
  BY DEF OfferInv
<1>2. Payments(Ps, Ws, M)!Confirm
  <2>1. \A u, v : ~Payments(Ps, Ws, M)!Capture(u) /\ ~Payments(Ps, Ws, M)!Book(u, v) /\ ~Payments(Ps, Ws, M)!Match(u, v)
                  /\ ~Payments(Ps, Ws, M)!Refund(u, v) /\ ~Payments(Ps, Ws, M)!Void(u) /\ ~Payments(Ps, Ws, M)!Relabel(u, v)
                  /\ ~Payments(Ps, Ws, M)!Preview(u)
    BY <1>1 DEF Payments!Capture, Payments!Book, Payments!Match, Payments!Refund, Payments!Void, Payments!Relabel,
                Payments!Preview
  <2>2. ~Payments(Ps, Ws, M)!Dismiss
    BY DEF Payments!Dismiss
  <2> QED BY <2>1, <2>2 DEF Payments!Next
<1>3. PICK t \in shown : t.token = Payments(Ps, Ws, M)!Token(t.change) /\ Payments(Ps, Ws, M)!Apply(t.change)
  BY <1>2 DEF Payments!Confirm
<1>4. t = s
  BY <1>1, <1>3
<1> QED BY <1>1, <1>3, <1>4

LEMMA NamesGoOn ==
  ASSUME NEW Ps, NEW Ws, NEW M, NameInv(Ps, Ws, M), OfferInv(Ps, Ws, M), Payments(Ps, Ws, M)!Next
  PROVE  NameInv(Ps, Ws, M)' /\ OfferInv(Ps, Ws, M)'
<1>1. CASE \/ \E u \in Ps : Payments(Ps, Ws, M)!Capture(u)
           \/ \E text \in SUBSET Ws, named \in Ps \cup {NoPayee} : Payments(Ps, Ws, M)!Book(text, named)
           \/ \E o \in 1..M, text \in SUBSET Ws : Payments(Ps, Ws, M)!Refund(o, text)
  <2>1. NameInv(Ps, Ws, M)'
    BY <1>1, BookingStep
  <2>2. UNCHANGED shown
    BY <1>1 DEF Payments!Capture, Payments!Book, Payments!Refund
  <2> QED BY <2>1, <2>2 DEF OfferInv
<1>2. CASE \E e \in 1..M : \/ \E text \in SUBSET Ws : Payments(Ps, Ws, M)!Match(e, text)
                           \/ \E u \in Ps \cup {NoPayee} : Payments(Ps, Ws, M)!Relabel(e, u)
  <2>1. NameInv(Ps, Ws, M)'
    BY <1>2, MatchStep
  <2>2. UNCHANGED shown
    BY <1>2 DEF Payments!Match, Payments!Relabel
  <2> QED BY <2>1, <2>2 DEF OfferInv
<1>3. CASE \E e \in 1..M : Payments(Ps, Ws, M)!Void(e)
  <2>1. NameInv(Ps, Ws, M)'
    BY <1>3, UndoStep
  <2>2. UNCHANGED shown
    BY <1>3 DEF Payments!Void
  <2> QED BY <2>1, <2>2 DEF OfferInv
<1>4. CASE \E c \in Payments(Ps, Ws, M)!Changes : Payments(Ps, Ws, M)!Preview(c)
  <2>1. PICK c \in Payments(Ps, Ws, M)!Changes : Payments(Ps, Ws, M)!Preview(c)
    BY <1>4
  <2>2. UNCHANGED <<known, payee, payment, merged>> /\ Payments(Ps, Ws, M)!Valid(c)
    BY <2>1 DEF Payments!Preview
  <2>3. NameInv(Ps, Ws, M)'
    BY <2>2 DEF NameInv, Paid, Gone, Booking
  <2>4. PICK token, told : token = Payments(Ps, Ws, M)!Token(c) /\ told = Payments(Ps, Ws, M)!Shown(c)
    OBVIOUS
  <2>5. shown' = {[token |-> token, change |-> c, shown |-> told]}
    BY <2>1, <2>4 DEF Payments!Preview
  <2>6. told = Seen(Ps, Ws, M, c, token)
    BY <2>2, <2>4, ShownIsSeen
  <2>7. OfferInv(Ps, Ws, M)'
    BY <2>5, <2>6 DEF OfferInv
  <2> QED BY <2>3, <2>7
<1>5. CASE Payments(Ps, Ws, M)!Confirm
  <2>1. PICK s \in shown : Payments(Ps, Ws, M)!Apply(s.change) /\ shown' = {}
    BY <1>5 DEF Payments!Confirm
  <2>2. s.change \in Payments(Ps, Ws, M)!Changes
    BY DEF OfferInv
  <2>3. NameInv(Ps, Ws, M)'
    BY <2>1, <2>2, ApplyStep
  <2> QED BY <2>1, <2>3 DEF OfferInv
<1>6. CASE Payments(Ps, Ws, M)!Dismiss
  BY <1>6 DEF Payments!Dismiss, OfferInv, NameInv, Paid, Gone, Booking
<1> QED BY <1>1, <1>2, <1>3, <1>4, <1>5, <1>6 DEF Payments!Next, Payments!Entries, Payments!Texts

(* A confirmation is of a preview whose token is the one computed now. *)
LEMMA NamesAsShown ==
  ASSUME NEW Ps, NEW Ws, NEW M, NameInv(Ps, Ws, M), OfferInv(Ps, Ws, M), Payments(Ps, Ws, M)!Next
  PROVE  Payments(Ps, Ws, M)!AppliesWhatWasShown
<1> SUFFICES ASSUME NEW s \in shown, shown' = {}, <<payee, payment>>' # <<payee, payment>>
             PROVE  s.shown = Payments(Ps, Ws, M)!Shown(s.change)
  BY DEF Payments!AppliesWhatWasShown
<1>1. PICK c \in Payments(Ps, Ws, M)!Changes :
        c = s.change /\ s.token = Payments(Ps, Ws, M)!Token(c) /\ Payments(Ps, Ws, M)!Apply(c)
  BY ConfirmedIs
<1>2. s.shown = Seen(Ps, Ws, M, c, s.token)
  BY <1>1 DEF OfferInv
<1>3. Payments(Ps, Ws, M)!Valid(c)
  BY <1>1 DEF Payments!Apply
<1>4. Payments(Ps, Ws, M)!Shown(c) = Seen(Ps, Ws, M, c, Payments(Ps, Ws, M)!Token(c))
  BY <1>3, ShownIsSeen
<1> QED BY <1>1, <1>2, <1>4

(* Backfilled, the original and what offsets it resolve alike: the chain of an original is
   itself. *)
LEMMA OffsetsTogether ==
  ASSUME NEW Ps, NEW Ws, NEW M, NameInv(Ps, Ws, M), OfferInv(Ps, Ws, M), Payments(Ps, Ws, M)!Next
  PROVE  Payments(Ps, Ws, M)!OffsetsGroups
<1> SUFFICES ASSUME NEW s \in shown, s.change = Payments(Ps, Ws, M)!Backfill, shown' = {}, payment' # payment,
                    NEW e \in Payments(Ps, Ws, M)!Rows, payment[e].payee = NoPayee
             PROVE  payment'[e].payee = payment'[Payments(Ps, Ws, M)!Root(e)].payee
  BY DEF Payments!OffsetsGroups
<1>1. PICK c \in Payments(Ps, Ws, M)!Changes : c = Payments(Ps, Ws, M)!Backfill /\ Payments(Ps, Ws, M)!Apply(c)
  BY ConfirmedIs
<1>2. c.op = "backfill"
  BY <1>1 DEF Payments!Backfill
<1>3. PICK r : r = Payments(Ps, Ws, M)!Root(e)
  OBVIOUS
<1>4. r \in Payments(Ps, Ws, M)!Rows /\ payment[r].of = 0 /\ Payments(Ps, Ws, M)!Root(r) = r
  <2>1. r \in Payments(Ps, Ws, M)!Rows /\ payment[r].of = 0
    BY <1>3, RootIs DEF NameInv
  <2> QED BY <2>1, RootIs DEF NameInv
<1>5. PICK Then : Then = [f \in Payments(Ps, Ws, M)!Rows |-> Payments(Ps, Ws, M)!Only(Payments(Ps, Ws, M)!Inferred(f))]
  OBVIOUS
<1>6. ASSUME NEW f \in Payments(Ps, Ws, M)!Rows
      PROVE  payment'[f].payee = IF payment[f].payee = NoPayee THEN Then[f] ELSE payment[f].payee
  <2>1. PICK linked : linked = Payments(Ps, Ws, M)!LinksAfter(c)
    OBVIOUS
  <2>2. linked[f] = IF payment[f].payee = NoPayee THEN Then[f] ELSE payment[f].payee
    BY <1>2, <1>5, <2>1 DEF Payments!LinksAfter
  <2>3. f \in 1..M
    BY PaidRows DEF NameInv
  <2>4. payment'[f] = [payment[f] EXCEPT !.payee = linked[f]]
    BY <1>1, <2>1, <2>3 DEF Payments!Apply, Payments!Entries
  <2>5. payment \in [1..M -> Paying(Ws, M, known)]
    BY DEF NameInv, Paid
  <2>6. PICK old \in Paying(Ws, M, known) : old = payment[f]
    BY <2>3, <2>5
  <2>7. payment'[f] = [old EXCEPT !.payee = linked[f]]
    BY <2>4, <2>6
  <2>8. payment'[f].payee = linked[f]
    BY <2>7 DEF Paying
  <2> QED BY <2>2, <2>8
<1>7. /\ Payments(Ps, Ws, M)!Inferred(e) = IF r # e /\ payment[r].payee # NoPayee THEN {payment[r].payee}
                                           ELSE Payments(Ps, Ws, M)!Candidates(payee, payment[r].text)
      /\ Payments(Ps, Ws, M)!Inferred(r) = Payments(Ps, Ws, M)!Candidates(payee, payment[r].text)
  BY <1>3, <1>4 DEF Payments!Inferred
<1>8. CASE r = e
  BY <1>3, <1>8
<1>9. CASE r # e /\ payment[r].payee # NoPayee
  <2>1. Then[e] = payment[r].payee
    BY <1>5, <1>7, <1>9, OnlyOne
  <2> QED BY <1>3, <1>4, <1>6, <1>9, <2>1
<1>10. CASE r # e /\ payment[r].payee = NoPayee
  <2>1. Then[e] = Then[r]
    BY <1>4, <1>5, <1>7, <1>10
  <2> QED BY <1>3, <1>4, <1>6, <1>10, <2>1
<1> QED BY <1>8, <1>9, <1>10

LEMMA NamesBegin ==
  ASSUME NEW Ps, NEW Ws, NEW M, M \in Nat, NoPayee \notin Ps, Payments(Ps, Ws, M)!Init
  PROVE  NameInv(Ps, Ws, M) /\ OfferInv(Ps, Ws, M)
<1>1. /\ known = {} /\ merged = {} /\ shown = {} /\ payee = [u \in Ps |-> [active |-> FALSE, aliases |-> {}]]
      /\ payment = [e \in 1..M |-> [payee |-> NoPayee, of |-> 0, text |-> {}, status |-> "none"]]
  BY DEF Payments!Init, Payments!Unknown, Payments!NoRow, Payments!Entries
<1>2. payee \in [Ps -> Cards(Ws)] /\ \A u \in Ps : ~payee[u].active
  BY <1>1 DEF Cards
<1>3. payment \in [1..M -> Paying(Ws, M, known)] /\ \A e \in 1..M : payment[e].of = 0 /\ payment[e].status = "none"
  BY <1>1 DEF Paying
<1>4. \E last \in 0..M : \A e \in 1..M : (Booking(e) <=> e <= last)
  <2>1. \A e \in 1..M : (Booking(e) <=> e <= 0)
    BY <1>3 DEF Booking
  <2> QED BY <2>1
<1>5. \A e \in 1..M : payment[e].of < e
  BY <1>3
<1>6. Paid(Ps, Ws, M)
  BY <1>1, <1>2, <1>3, <1>4, <1>5 DEF Paid
<1>7. Gone(M)
  BY <1>1 DEF Gone
<1> QED BY <1>1, <1>6, <1>7 DEF NameInv, OfferInv


(* The payees and the groups of MCEdge. *)
LEMMA SameNames ==
  /\ Names!Init => Payments(People, Words, MaxNamed)!Init
  /\ Names!Next => Payments(People, Words, MaxNamed)!Next
  /\ Payments(People, Words, MaxNamed)!TypeOK => Names!TypeOK
  /\ Payments(People, Words, MaxNamed)!MergedAway => Names!MergedAway
  /\ Payments(People, Words, MaxNamed)!AppliesWhatWasShown => Names!AppliesWhatWasShown
  /\ Payments(People, Words, MaxNamed)!OffsetsGroups => Names!OffsetsGroups
<1>1. Names!Init => Payments(People, Words, MaxNamed)!Init
  BY Zenon DEF Names!Init, Payments!Init, Names!Unknown, Payments!Unknown, Names!NoRow, Payments!NoRow, Names!Entries,
         Payments!Entries
<1>2. \A u : (Names!Capture(u) <=> Payments(People, Words, MaxNamed)!Capture(u))
  BY Zenon DEF Names!Capture, Payments!Capture, Names!Explicit, Payments!Explicit, Names!Add, Payments!Add,
         Names!NewId, Payments!NewId, Names!Cardinality, Payments!Cardinality, Names!Rows, Payments!Rows,
         Names!Entries, Payments!Entries
<1>3. \A u, v : (Names!Book(u, v) <=> Payments(People, Words, MaxNamed)!Book(u, v))
  BY Zenon DEF Names!Book, Payments!Book, Names!Explicit, Payments!Explicit, Names!Resolve, Payments!Resolve,
         Names!Only, Payments!Only, Names!Candidates, Payments!Candidates, Names!Add, Payments!Add, Names!NewId,
         Payments!NewId, Names!Cardinality, Payments!Cardinality, Names!Rows, Payments!Rows, Names!Entries,
         Payments!Entries
<1>4. \A u, v : (Names!Match(u, v) <=> Payments(People, Words, MaxNamed)!Match(u, v))
  BY Zenon DEF Names!Match, Payments!Match, Names!Rows, Payments!Rows, Names!Entries, Payments!Entries
<1>5. \A u, v : (Names!Relabel(u, v) <=> Payments(People, Words, MaxNamed)!Relabel(u, v))
  BY Zenon DEF Names!Relabel, Payments!Relabel, Names!Explicit, Payments!Explicit, Names!Resolve, Payments!Resolve,
         Names!Only, Payments!Only, Names!Candidates, Payments!Candidates, Names!Cardinality, Payments!Cardinality,
         Names!Rows, Payments!Rows, Names!Entries, Payments!Entries
<1>6. \A u, v : (Names!Refund(u, v) <=> Payments(People, Words, MaxNamed)!Refund(u, v))
  BY Zenon DEF Names!Refund, Payments!Refund, Names!Add, Payments!Add, Names!NewId, Payments!NewId, Names!Cardinality,
         Payments!Cardinality, Names!Rows, Payments!Rows, Names!Entries, Payments!Entries
<1>7. \A u : (Names!Void(u) <=> Payments(People, Words, MaxNamed)!Void(u))
  BY Zenon DEF Names!Void, Payments!Void, Names!NewId, Payments!NewId, Names!Cardinality, Payments!Cardinality,
         Names!Rows, Payments!Rows, Names!Entries, Payments!Entries
<1>8. \A u : (Names!Valid(u) <=> Payments(People, Words, MaxNamed)!Valid(u))
  BY Zenon DEF Names!Valid, Payments!Valid, Names!Rows, Payments!Rows, Names!Entries, Payments!Entries
<1>9. \A u : Names!Token(u) = Payments(People, Words, MaxNamed)!Token(u)
  BY Zenon DEF Names!Token, Payments!Token, Names!Impact, Payments!Impact, Names!PayeesAfter, Payments!PayeesAfter,
         Names!Resolve, Payments!Resolve, Names!Rows, Payments!Rows, Names!Entries, Payments!Entries, Names!Root,
         Payments!Root, Names!Inferred, Payments!Inferred, Names!Candidates, Payments!Candidates, Names!Only,
         Payments!Only, Names!Cardinality, Payments!Cardinality
<1>10. \A u : Names!Shown(u) = Payments(People, Words, MaxNamed)!Shown(u)
  BY Zenon DEF Names!Shown, Payments!Shown, Names!Impact, Payments!Impact, Names!PayeesAfter, Payments!PayeesAfter,
         Names!LinksAfter, Payments!LinksAfter, Names!Resolve, Payments!Resolve, Names!Rows, Payments!Rows,
         Names!Entries, Payments!Entries, Names!Root, Payments!Root, Names!Inferred, Payments!Inferred,
         Names!Candidates, Payments!Candidates, Names!Only, Payments!Only, Names!Cardinality, Payments!Cardinality
<1>11. \A u : (Names!Apply(u) <=> Payments(People, Words, MaxNamed)!Apply(u))
  BY Zenon DEF Names!Apply, Payments!Apply, Names!Valid, Payments!Valid, Names!PayeesAfter, Payments!PayeesAfter,
         Names!LinksAfter, Payments!LinksAfter, Names!Rows, Payments!Rows, Names!Entries, Payments!Entries,
         Names!Root, Payments!Root, Names!Inferred, Payments!Inferred, Names!Candidates, Payments!Candidates,
         Names!Only, Payments!Only, Names!Cardinality, Payments!Cardinality
<1>12. Names!Changes = Payments(People, Words, MaxNamed)!Changes
  BY SMT DEF Names!Changes, Payments!Changes, Names!Saves, Payments!Saves, Names!Links, Payments!Links, Names!Merges,
         Payments!Merges, Names!Backfill, Payments!Backfill, Names!Entries, Payments!Entries
<1>13. \A u : (Names!Preview(u) <=> Payments(People, Words, MaxNamed)!Preview(u))
  BY Zenon, <1>8, <1>9, <1>10 DEF Names!Preview, Payments!Preview
<1>14. (Names!Confirm <=> Payments(People, Words, MaxNamed)!Confirm) /\ (Names!Dismiss <=> Payments(People, Words, MaxNamed)!Dismiss)
  BY Zenon, <1>9, <1>11 DEF Names!Confirm, Payments!Confirm, Names!Dismiss, Payments!Dismiss
<1>15. Names!Next => Payments(People, Words, MaxNamed)!Next
  BY Zenon, <1>2, <1>3, <1>4, <1>5, <1>6, <1>7, <1>12, <1>13, <1>14 DEF Names!Next, Payments!Next, Names!Entries,
         Payments!Entries, Names!Texts, Payments!Texts
<1>16. Payments(People, Words, MaxNamed)!TypeOK => Names!TypeOK
  BY Zenon DEF Names!TypeOK, Payments!TypeOK, Names!Rows, Payments!Rows, Names!Entries, Payments!Entries
<1>17. Payments(People, Words, MaxNamed)!MergedAway => Names!MergedAway
  BY Zenon DEF Names!MergedAway, Payments!MergedAway, Names!Rows, Payments!Rows, Names!Entries, Payments!Entries
<1>18. Payments(People, Words, MaxNamed)!AppliesWhatWasShown => Names!AppliesWhatWasShown
  BY Zenon, <1>10 DEF Names!AppliesWhatWasShown, Payments!AppliesWhatWasShown
<1>19. Payments(People, Words, MaxNamed)!OffsetsGroups => Names!OffsetsGroups
  BY Zenon DEF Names!OffsetsGroups, Payments!OffsetsGroups, Names!Backfill, Payments!Backfill, Names!Root,
         Payments!Root, Names!Rows, Payments!Rows, Names!Entries, Payments!Entries
<1> QED BY <1>1, <1>15, <1>16, <1>17, <1>18, <1>19

LEMMA SameGroups ==
  /\ Groups!Init => Payments({p}, {}, MaxGrouped)!Init
  /\ Groups!Next => Payments({p}, {}, MaxGrouped)!Next
  /\ Payments({p}, {}, MaxGrouped)!TypeOK => Groups!TypeOK
  /\ Payments({p}, {}, MaxGrouped)!MergedAway => Groups!MergedAway
  /\ Payments({p}, {}, MaxGrouped)!AppliesWhatWasShown => Groups!AppliesWhatWasShown
  /\ Payments({p}, {}, MaxGrouped)!OffsetsGroups => Groups!OffsetsGroups
<1>1. Groups!Init => Payments({p}, {}, MaxGrouped)!Init
  BY Zenon DEF Groups!Init, Payments!Init, Groups!Unknown, Payments!Unknown, Groups!NoRow, Payments!NoRow,
         Groups!Entries, Payments!Entries
<1>2. \A u : (Groups!Capture(u) <=> Payments({p}, {}, MaxGrouped)!Capture(u))
  BY Zenon DEF Groups!Capture, Payments!Capture, Groups!Explicit, Payments!Explicit, Groups!Add, Payments!Add,
         Groups!NewId, Payments!NewId, Groups!Cardinality, Payments!Cardinality, Groups!Rows, Payments!Rows,
         Groups!Entries, Payments!Entries
<1>3. \A u, v : (Groups!Book(u, v) <=> Payments({p}, {}, MaxGrouped)!Book(u, v))
  BY Zenon DEF Groups!Book, Payments!Book, Groups!Explicit, Payments!Explicit, Groups!Resolve, Payments!Resolve,
         Groups!Only, Payments!Only, Groups!Candidates, Payments!Candidates, Groups!Add, Payments!Add, Groups!NewId,
         Payments!NewId, Groups!Cardinality, Payments!Cardinality, Groups!Rows, Payments!Rows, Groups!Entries,
         Payments!Entries
<1>4. \A u, v : (Groups!Match(u, v) <=> Payments({p}, {}, MaxGrouped)!Match(u, v))
  BY Zenon DEF Groups!Match, Payments!Match, Groups!Rows, Payments!Rows, Groups!Entries, Payments!Entries
<1>5. \A u, v : (Groups!Relabel(u, v) <=> Payments({p}, {}, MaxGrouped)!Relabel(u, v))
  BY Zenon DEF Groups!Relabel, Payments!Relabel, Groups!Explicit, Payments!Explicit, Groups!Resolve, Payments!Resolve,
         Groups!Only, Payments!Only, Groups!Candidates, Payments!Candidates, Groups!Cardinality, Payments!Cardinality,
         Groups!Rows, Payments!Rows, Groups!Entries, Payments!Entries
<1>6. \A u, v : (Groups!Refund(u, v) <=> Payments({p}, {}, MaxGrouped)!Refund(u, v))
  BY Zenon DEF Groups!Refund, Payments!Refund, Groups!Add, Payments!Add, Groups!NewId, Payments!NewId,
         Groups!Cardinality, Payments!Cardinality, Groups!Rows, Payments!Rows, Groups!Entries, Payments!Entries
<1>7. \A u : (Groups!Void(u) <=> Payments({p}, {}, MaxGrouped)!Void(u))
  BY Zenon DEF Groups!Void, Payments!Void, Groups!NewId, Payments!NewId, Groups!Cardinality, Payments!Cardinality,
         Groups!Rows, Payments!Rows, Groups!Entries, Payments!Entries
<1>8. \A u : (Groups!Valid(u) <=> Payments({p}, {}, MaxGrouped)!Valid(u))
  BY Zenon DEF Groups!Valid, Payments!Valid, Groups!Rows, Payments!Rows, Groups!Entries, Payments!Entries
<1>9. \A u : Groups!Token(u) = Payments({p}, {}, MaxGrouped)!Token(u)
  BY Zenon DEF Groups!Token, Payments!Token, Groups!Impact, Payments!Impact, Groups!PayeesAfter, Payments!PayeesAfter,
         Groups!Resolve, Payments!Resolve, Groups!Rows, Payments!Rows, Groups!Entries, Payments!Entries, Groups!Root,
         Payments!Root, Groups!Inferred, Payments!Inferred, Groups!Candidates, Payments!Candidates, Groups!Only,
         Payments!Only, Groups!Cardinality, Payments!Cardinality
<1>10. \A u : Groups!Shown(u) = Payments({p}, {}, MaxGrouped)!Shown(u)
  BY Zenon DEF Groups!Shown, Payments!Shown, Groups!Impact, Payments!Impact, Groups!PayeesAfter, Payments!PayeesAfter,
         Groups!LinksAfter, Payments!LinksAfter, Groups!Resolve, Payments!Resolve, Groups!Rows, Payments!Rows,
         Groups!Entries, Payments!Entries, Groups!Root, Payments!Root, Groups!Inferred, Payments!Inferred,
         Groups!Candidates, Payments!Candidates, Groups!Only, Payments!Only, Groups!Cardinality, Payments!Cardinality
<1>11. \A u : (Groups!Apply(u) <=> Payments({p}, {}, MaxGrouped)!Apply(u))
  BY Zenon DEF Groups!Apply, Payments!Apply, Groups!Valid, Payments!Valid, Groups!PayeesAfter, Payments!PayeesAfter,
         Groups!LinksAfter, Payments!LinksAfter, Groups!Rows, Payments!Rows, Groups!Entries, Payments!Entries,
         Groups!Root, Payments!Root, Groups!Inferred, Payments!Inferred, Groups!Candidates, Payments!Candidates,
         Groups!Only, Payments!Only, Groups!Cardinality, Payments!Cardinality
<1>12. Groups!Changes = Payments({p}, {}, MaxGrouped)!Changes
  BY SMT DEF Groups!Changes, Payments!Changes, Groups!Saves, Payments!Saves, Groups!Links, Payments!Links,
         Groups!Merges, Payments!Merges, Groups!Backfill, Payments!Backfill, Groups!Entries, Payments!Entries
<1>13. \A u : (Groups!Preview(u) <=> Payments({p}, {}, MaxGrouped)!Preview(u))
  BY Zenon, <1>8, <1>9, <1>10 DEF Groups!Preview, Payments!Preview
<1>14. (Groups!Confirm <=> Payments({p}, {}, MaxGrouped)!Confirm) /\ (Groups!Dismiss <=> Payments({p}, {}, MaxGrouped)!Dismiss)
  BY Zenon, <1>9, <1>11 DEF Groups!Confirm, Payments!Confirm, Groups!Dismiss, Payments!Dismiss
<1>15. Groups!Next => Payments({p}, {}, MaxGrouped)!Next
  BY Zenon, <1>2, <1>3, <1>4, <1>5, <1>6, <1>7, <1>12, <1>13, <1>14 DEF Groups!Next, Payments!Next, Groups!Entries,
         Payments!Entries, Groups!Texts, Payments!Texts
<1>16. Payments({p}, {}, MaxGrouped)!TypeOK => Groups!TypeOK
  BY Zenon DEF Groups!TypeOK, Payments!TypeOK, Groups!Rows, Payments!Rows, Groups!Entries, Payments!Entries
<1>17. Payments({p}, {}, MaxGrouped)!MergedAway => Groups!MergedAway
  BY Zenon DEF Groups!MergedAway, Payments!MergedAway, Groups!Rows, Payments!Rows, Groups!Entries, Payments!Entries
<1>18. Payments({p}, {}, MaxGrouped)!AppliesWhatWasShown => Groups!AppliesWhatWasShown
  BY Zenon, <1>10 DEF Groups!AppliesWhatWasShown, Payments!AppliesWhatWasShown
<1>19. Payments({p}, {}, MaxGrouped)!OffsetsGroups => Groups!OffsetsGroups
  BY Zenon DEF Groups!OffsetsGroups, Payments!OffsetsGroups, Groups!Backfill, Payments!Backfill, Groups!Root,
         Payments!Root, Groups!Rows, Payments!Rows, Groups!Entries, Payments!Entries
<1> QED BY <1>1, <1>15, <1>16, <1>17, <1>18, <1>19


LEMMA NameInvMeans ==
  ASSUME NEW Ps, NEW Ws, NEW M, NameInv(Ps, Ws, M)
  PROVE  Payments(Ps, Ws, M)!TypeOK /\ Payments(Ps, Ws, M)!MergedAway
<1>1. ASSUME NEW e \in Payments(Ps, Ws, M)!Rows
      PROVE  /\ payment[e].payee \in known \cup {NoPayee} /\ payment[e].payee \notin merged
             /\ payment[e].of \in (1..e - 1) \cup {0}
  <2>1. e \in 1..M /\ Booking(e)
    BY <1>1, PaidRows DEF NameInv
  <2>2. payment[e] \in Paying(Ws, M, known) /\ payment[e].of < e /\ payment[e].payee \notin merged /\ M \in Nat
    BY <2>1 DEF NameInv, Paid, Gone
  <2>3. payment[e].of \in 0..M /\ payment[e].payee \in known \cup {NoPayee}
    BY <2>2 DEF Paying
  <2> QED BY <2>1, <2>2, <2>3
<1>2. \A u \in Ps : payee[u].active \in BOOLEAN /\ payee[u].aliases \subseteq Ws
  BY DEF NameInv, Paid, Cards
<1>3. known \subseteq Ps /\ merged \subseteq known
  BY DEF NameInv, Paid
<1> QED BY <1>1, <1>2, <1>3 DEF Payments!TypeOK, Payments!MergedAway

NamesHere ==
  /\ focus = "names" => NameInv(People, Words, MaxNamed) /\ OfferInv(People, Words, MaxNamed)
  /\ focus = "groups" => NameInv({p}, {}, MaxGrouped) /\ OfferInv({p}, {}, MaxGrouped)

LEMMA NamesUnchanged ==
  ASSUME NEW Ps, NEW Ws, NEW M, NameInv(Ps, Ws, M), OfferInv(Ps, Ws, M), UNCHANGED names
  PROVE  NameInv(Ps, Ws, M)' /\ OfferInv(Ps, Ws, M)'
BY DEF names, NameInv, Paid, Gone, Booking, OfferInv

LEMMA NamesStep ==
  ASSUME NamesHere, [Work]_all
  PROVE  /\ NamesHere'
         /\ focus = "names" => /\ Names!MergedAway' /\ Names!OffsetsGroups /\ Names!AppliesWhatWasShown
         /\ focus = "groups" => Groups!OffsetsGroups
<1>1. focus' = focus
  BY OneAtATime
<1>2. CASE focus = "names"
  <2> SUFFICES /\ NameInv(People, Words, MaxNamed)' /\ OfferInv(People, Words, MaxNamed)'
               /\ Names!OffsetsGroups /\ Names!AppliesWhatWasShown
    <3>1. ASSUME NameInv(People, Words, MaxNamed)' PROVE Names!MergedAway'
      BY <3>1 DEF NameInv, Gone, Booking, Names!MergedAway, Names!Rows, Names!Entries
    <3> QED BY <1>1, <1>2, <3>1 DEF NamesHere
  <2>1. NameInv(People, Words, MaxNamed) /\ OfferInv(People, Words, MaxNamed)
    BY <1>2 DEF NamesHere
  <2>2. CASE Names!Next
    <3>1. Payments(People, Words, MaxNamed)!Next
      BY <2>2, SameNames
    <3> QED BY <2>1, <3>1, NamesGoOn, OffsetsTogether, NamesAsShown, SameNames
  <2>3. CASE UNCHANGED names
    <3>1. Names!OffsetsGroups /\ Names!AppliesWhatWasShown
      BY <2>3 DEF names, Names!OffsetsGroups, Names!AppliesWhatWasShown
    <3> QED BY <2>1, <2>3, <3>1, NamesUnchanged
  <2> QED BY <1>2, <2>2, <2>3, OneAtATime DEF Names!vars, names
<1>3. CASE focus = "groups"
  <2> SUFFICES NameInv({p}, {}, MaxGrouped)' /\ OfferInv({p}, {}, MaxGrouped)' /\ Groups!OffsetsGroups
    BY <1>1, <1>3 DEF NamesHere
  <2>1. NameInv({p}, {}, MaxGrouped) /\ OfferInv({p}, {}, MaxGrouped)
    BY <1>3 DEF NamesHere
  <2>2. CASE Groups!Next
    <3>1. Payments({p}, {}, MaxGrouped)!Next
      BY <2>2, SameGroups
    <3> QED BY <2>1, <3>1, NamesGoOn, OffsetsTogether, SameGroups
  <2>3. CASE UNCHANGED names
    <3>1. Groups!OffsetsGroups
      BY <2>3 DEF names, Groups!OffsetsGroups
    <3> QED BY <2>1, <2>3, <3>1, NamesUnchanged
  <2> QED BY <1>3, <2>2, <2>3, OneAtATime DEF Groups!vars, names
<1>4. CASE focus \notin {"names", "groups"}
  BY <1>1, <1>4 DEF NamesHere
<1> QED BY <1>2, <1>3, <1>4

LEMMA NamesHold == Edge => []NamesHere
<1>1. Begins => NamesHere
  <2>1. Names!Init => NameInv(People, Words, MaxNamed) /\ OfferInv(People, Words, MaxNamed)
    BY SameNames, NamesBegin, NameConstants
  <2>2. Groups!Init => NameInv({p}, {}, MaxGrouped) /\ OfferInv({p}, {}, MaxGrouped)
    BY SameGroups, NamesBegin, NameConstants
  <2> QED BY <2>1, <2>2, BeginsWith DEF NamesHere
<1>2. NamesHere /\ [Work]_all => NamesHere'
  BY NamesStep
<1> QED BY <1>1, <1>2, PTL DEF Edge

(* A payee that was merged away has no payments and gains none, from aliases, rules, people,
   refunds or reversals, until somebody makes it active again; and a backfill gives a
   reversal and a refund, however long their chain, the payee of their original
   (payees.rs): for any payees, aliases and number of payments. *)
THEOREM PayeesAreWholeHolds == Edge => PayeesAreWhole
<1>1. NamesHere /\ [Work]_all =>
        /\ focus = "names" => Names!MergedAway' /\ Names!OffsetsGroups
        /\ focus = "groups" => Groups!OffsetsGroups
  BY NamesStep
<1> QED BY <1>1, NamesHold, PTL DEF Edge, PayeesAreWhole

(***************************************************************************)
(* Mail: for every mailbox, every number of polls that overlap and every    *)
(* death, what has a receipt has arrived, and what is delivered again is    *)
(* recorded once.                                                          *)
(***************************************************************************)

Arrived(m, i) == <<m, i>> \in inbox \/ taken[Contents[m][i]] > 0

Polls ==
  {Away} \cup [step: {"next"}, todo: SUBSET Messages]
         \cup [step: {"publish"}, todo: SUBSET Messages, part: Nat \ {0}]

MailTypes ==
  /\ mailbox \subseteq Messages /\ evidence \subseteq Messages /\ receipts \subseteq evidence
  /\ inbox \subseteq Files /\ scanning \in Files \cup {NoFile}
  /\ taken \in [Attachments -> Nat] /\ poll \in [Pollers -> Polls]

Least(S) == CHOOSE m \in S : \A n \in S : m <= n

(* A poll that publishes has stored the message, and has published the parts before. *)
InOrder(now) ==
  now.step = "publish" =>
    /\ Least(now.todo) \in evidence
    /\ \A i \in DOMAIN Contents[Least(now.todo)] : i < now.part => Arrived(Least(now.todo), i)

PublishesInOrder == \A u \in Pollers : InOrder(poll[u])

(* What the server is about to move has a row. *)
ScannedHasRow == scanning # NoFile => Known(scanning)

MailInv == MailTypes /\ PublishesInOrder /\ ScannedHasRow /\ NothingLost /\ ProcessedOnce

LEMMA Parts ==
  ASSUME NEW m \in Messages
  PROVE  /\ DOMAIN Contents[m] = 1..Len(Contents[m]) /\ Len(Contents[m]) \in Nat
         /\ \A i \in DOMAIN Contents[m] : Contents[m][i] \in Attachments /\ <<m, i>> \in Files
<1>1. Contents[m] \in Seq(Attachments)
  BY MailConstants
<1>2. \A i \in DOMAIN Contents[m] : Contents[m][i] \in Attachments
  BY <1>1
<1>3. \A i \in DOMAIN Contents[m] : <<m, i>> \in Files
  BY DEF Files
<1> QED BY <1>1, <1>2, <1>3

LEMMA FileParts ==
  ASSUME NEW f \in Files
  PROVE  /\ f[1] \in Messages /\ f[2] \in DOMAIN Contents[f[1]] /\ f = <<f[1], f[2]>>
         /\ ContentOf(f) = Contents[f[1]][f[2]] /\ ContentOf(f) \in Attachments /\ f # NoFile
<1>1. PICK m \in Messages : f \in {m} \X DOMAIN Contents[m]
  BY DEF Files
<1>2. f[1] = m /\ f[2] \in DOMAIN Contents[m] /\ f = <<f[1], f[2]>>
  BY <1>1
<1>3. f[2] \in 1..Len(Contents[m]) /\ Contents[m][f[2]] \in Attachments /\ Len(Contents[m]) \in Nat
  BY <1>2, Parts
<1>4. f[2] # 0
  BY <1>3
<1>5. f # NoFile
  BY <1>4 DEF NoFile
<1> QED BY <1>2, <1>3, <1>5 DEF ContentOf

(* A step that loses nothing and starts no receipt. *)
LEMMA Keeps ==
  ASSUME MailInv, evidence \subseteq evidence', receipts' = receipts,
         \A m \in Messages : \A i \in DOMAIN Contents[m] : Arrived(m, i) => Arrived(m, i)'
  PROVE  NothingLost'
BY Parts DEF MailInv, MailTypes, NothingLost, Arrived

(* What was in order stays so. *)
LEMMA StillInOrder ==
  ASSUME MailInv, NEW now \in Polls, InOrder(now), evidence \subseteq evidence',
         \A m \in Messages : \A i \in DOMAIN Contents[m] : Arrived(m, i) => Arrived(m, i)'
  PROVE  InOrder(now)'
BY DEF InOrder, MailInv, MailTypes

(* A step of one poll. *)
LEMMA Polled ==
  ASSUME MailInv, NEW u \in Pollers, NEW new \in Polls, poll' = [poll EXCEPT ![u] = new],
         InOrder(new)', evidence \subseteq evidence',
         \A m \in Messages : \A i \in DOMAIN Contents[m] : Arrived(m, i) => Arrived(m, i)'
  PROVE  PublishesInOrder' /\ poll' \in [Pollers -> Polls]
<1>1. poll'[u] = new /\ poll' \in [Pollers -> Polls] /\ \A w \in Pollers \ {u} : poll'[w] = poll[w]
  BY DEF MailInv, MailTypes
<1>2. ASSUME NEW w \in Pollers, w # u
      PROVE  InOrder(poll[w])'
  <2>1. poll'[w] = poll[w] /\ poll[w] \in Polls /\ InOrder(poll[w])
    BY <1>1, <1>2 DEF MailInv, MailTypes, PublishesInOrder
  <2> DEFINE now == poll[w]
  <2> QED BY <2>1, StillInOrder DEF InOrder
<1> QED BY <1>1, <1>2 DEF PublishesInOrder

(* A step beside the polls. *)
LEMMA BesidePolls ==
  ASSUME MailInv, UNCHANGED <<evidence, receipts, poll>>,
         \A m \in Messages : \A i \in DOMAIN Contents[m] : Arrived(m, i) => Arrived(m, i)'
  PROVE  PublishesInOrder' /\ NothingLost' /\ poll' \in [Pollers -> Polls]
<1>1. \A u \in Pollers : poll[u] \in Polls /\ InOrder(poll[u])
  BY DEF MailInv, MailTypes, PublishesInOrder
<1>2. \A u \in Pollers : InOrder(poll[u])'
  BY <1>1, StillInOrder DEF InOrder
<1> QED BY <1>2, Keeps DEF PublishesInOrder, MailInv, MailTypes

LEMMA MailBegins == Init => MailInv
<1> SUFFICES ASSUME Init
             PROVE  MailInv
  OBVIOUS
<1>1. MailTypes
  BY DEF Init, MailTypes, Polls, Attachments
<1>2. \A u \in Pollers : poll[u].step = "away"
  BY DEF Init, Away
<1>3. \A c \in DOMAIN taken : taken[c] = 0
  BY DEF Init
<1> QED BY <1>1, <1>2, <1>3 DEF Init, MailInv, PublishesInOrder, InOrder, ScannedHasRow, NothingLost, ProcessedOnce

(* Mail that comes and goes, and a poll that begins, ends, skips or dies. *)
LEMMA QuietStep ==
  ASSUME MailInv,
         \/ \E m \in Messages : MailComesOrGoes(m)
         \/ \E u \in Pollers : Begin(u) \/ End(u) \/ Skip(u) \/ Die(u)
         \/ UNCHANGED vars
  PROVE  MailInv'
<1>1. UNCHANGED <<evidence, receipts, inbox, taken, scanning>>
  BY DEF MailComesOrGoes, Begin, End, Skip, Die, vars
<1>2. \A m \in Messages : \A i \in DOMAIN Contents[m] : Arrived(m, i) => Arrived(m, i)'
  BY <1>1 DEF Arrived
<1>3. mailbox' \subseteq Messages
  BY DEF MailComesOrGoes, Begin, End, Skip, Die, vars, MailInv, MailTypes
<1>4. CASE UNCHANGED poll
  <2>1. PublishesInOrder' /\ NothingLost' /\ poll' \in [Pollers -> Polls]
    BY <1>1, <1>2, <1>4, BesidePolls
  <2> QED BY <1>1, <1>3, <2>1 DEF MailInv, MailTypes, ScannedHasRow, Known, ProcessedOnce
<1>5. ASSUME NEW u \in Pollers, Begin(u) \/ End(u) \/ Skip(u) \/ Die(u)
      PROVE  MailInv'
  <2>1. PICK new \in {Away} \cup [step: {"next"}, todo: SUBSET Messages] : poll' = [poll EXCEPT ![u] = new]
    <3>1. CASE Begin(u)
      BY <3>1 DEF Begin, MailInv, MailTypes
    <3>2. CASE End(u) \/ Die(u)
      BY <3>2 DEF End, Die
    <3>3. CASE Skip(u)
      <4>1. Later(u) \in [step: {"next"}, todo: SUBSET Messages]
        BY <3>3 DEF Skip, Later, MailInv, MailTypes, Polls, Away
      <4> QED BY <3>3, <4>1 DEF Skip
    <3> QED BY <1>5, <3>1, <3>2, <3>3
  <2>2. new \in Polls /\ new.step # "publish"
    BY DEF Polls, Away
  <2>3. PublishesInOrder' /\ poll' \in [Pollers -> Polls]
    BY <1>1, <1>2, <2>1, <2>2, Polled DEF InOrder
  <2>4. NothingLost'
    BY <1>1, <1>2, Keeps
  <2> QED BY <1>1, <1>3, <2>3, <2>4 DEF MailInv, MailTypes, ScannedHasRow, Known, ProcessedOnce
<1>6. CASE \E m \in Messages : MailComesOrGoes(m)
  BY <1>4, <1>6 DEF MailComesOrGoes
<1>7. CASE UNCHANGED vars
  BY <1>4, <1>7 DEF vars
<1> QED BY <1>5, <1>6, <1>7

LEMMA StoreStep ==
  ASSUME MailInv, NEW u \in Pollers, StoreMessage(u)
  PROVE  MailInv'
<1> DEFINE put == [step |-> "publish", todo |-> poll[u].todo, part |-> 1]
<1>1. PICK m \in Messages :
         /\ poll[u].step = "next" /\ m = Least(poll[u].todo) /\ evidence' = evidence \cup {m}
         /\ poll' = [poll EXCEPT ![u] = put]
         /\ UNCHANGED <<mailbox, receipts, inbox, taken, scanning>>
  <2> DEFINE n == Next1(u)
  <2>1. n \in Messages /\ n = Least(poll[u].todo)
    BY DEF StoreMessage, MailInv, MailTypes, Next1, Least
  <2> QED BY <2>1 DEF StoreMessage
<1>2. put \in Polls /\ put.todo = poll[u].todo /\ put.part = 1
  <2>1. poll[u] \in Polls /\ poll[u] # Away
    BY <1>1 DEF MailInv, MailTypes, Away
  <2>2. poll[u].todo \in SUBSET Messages
    BY <1>1, <2>1 DEF Polls
  <2> QED BY <1>1, <2>2 DEF Polls
<1> HIDE DEF put
<1>3. PICK new \in Polls : /\ poll' = [poll EXCEPT ![u] = new]
                           /\ new.todo = poll[u].todo /\ new.part = 1
  BY <1>1, <1>2
<1>4. \A n \in Messages : \A i \in DOMAIN Contents[n] : Arrived(n, i) => Arrived(n, i)'
  BY <1>1 DEF Arrived
<1>5. InOrder(new)'
  <2>1. \A i \in DOMAIN Contents[m] : ~(i < 1)
    BY Parts
  <2>2. m \in evidence' /\ m = Least(new.todo)
    BY <1>1, <1>3
  <2> QED BY <1>3, <2>1, <2>2 DEF InOrder
<1>6. PublishesInOrder' /\ poll' \in [Pollers -> Polls]
  BY <1>1, <1>3, <1>4, <1>5, Polled
<1>7. NothingLost'
  BY <1>1, <1>4, Keeps
<1> QED BY <1>1, <1>6, <1>7 DEF MailInv, MailTypes, ScannedHasRow, Known, ProcessedOnce

LEMMA PublishStep ==
  ASSUME MailInv, NEW u \in Pollers, Publish(u)
  PROVE  MailInv'
<1> DEFINE m == Least(poll[u].todo)
           k == poll[u].part
<1>1. /\ poll[u].step = "publish" /\ k <= Len(Contents[m]) /\ inbox' = inbox \cup {<<m, k>>}
      /\ poll' = [poll EXCEPT ![u] = [poll[u] EXCEPT !.part = k + 1]]
      /\ UNCHANGED <<mailbox, evidence, receipts, taken, scanning>>
  BY DEF Publish, Next1, Least
<1>2. poll[u] \in [step: {"publish"}, todo: SUBSET Messages, part: Nat \ {0}]
  BY <1>1 DEF MailInv, MailTypes, Polls, Away
<1>3. /\ m \in evidence /\ m \in Messages
      /\ \A i \in DOMAIN Contents[m] : i < k => Arrived(m, i)
  BY <1>1 DEF MailInv, MailTypes, PublishesInOrder, InOrder
<1>4. PICK new \in Polls : /\ poll' = [poll EXCEPT ![u] = new]
                           /\ new.todo = poll[u].todo /\ new.part = k + 1
  <2> DEFINE put == [poll[u] EXCEPT !.part = k + 1]
  <2>1. put \in Polls /\ put.todo = poll[u].todo /\ put.part = k + 1
    BY <1>2 DEF Polls
  <2>2. poll' = [poll EXCEPT ![u] = put]
    BY <1>1
  <2> HIDE DEF put
  <2> QED BY <2>1, <2>2
<1>5. \A n \in Messages : \A i \in DOMAIN Contents[n] : Arrived(n, i) => Arrived(n, i)'
  BY <1>1 DEF Arrived
<1>6. <<m, k>> \in Files
  BY <1>1, <1>2, <1>3, Parts
<1>7. InOrder(new)'
  <2>1. \A i \in DOMAIN Contents[m] : i < k + 1 => i < k \/ i = k
    BY <1>2, <1>3, Parts
  <2>2. \A i \in DOMAIN Contents[m] : i < k + 1 => Arrived(m, i)'
    BY <1>1, <1>3, <1>5, <2>1 DEF Arrived
  <2> QED BY <1>1, <1>3, <1>4, <2>2 DEF InOrder
<1> HIDE DEF m, k
<1>8. PublishesInOrder' /\ poll' \in [Pollers -> Polls]
  BY <1>1, <1>4, <1>5, <1>7, Polled
<1>9. NothingLost'
  BY <1>1, <1>5, Keeps
<1>10. \A f \in inbox' : f[1] \in evidence'
  BY <1>1, <1>3 DEF MailInv, ProcessedOnce
<1> QED BY <1>1, <1>6, <1>8, <1>9, <1>10 DEF MailInv, MailTypes, ScannedHasRow, Known, ProcessedOnce

LEMMA ReceiptStep ==
  ASSUME MailInv, NEW u \in Pollers, Receipt(u)
  PROVE  MailInv'
<1> DEFINE m == Least(poll[u].todo)
<1>1. /\ poll[u].step = "publish" /\ poll[u].part > Len(Contents[m])
      /\ receipts' = receipts \cup {m} /\ poll' = [poll EXCEPT ![u] = Later(u)]
      /\ UNCHANGED <<mailbox, evidence, inbox, taken, scanning>>
  BY DEF Receipt, MayConfirm, Complete, Next1, Least
<1>2. poll[u] \in [step: {"publish"}, todo: SUBSET Messages, part: Nat \ {0}]
  BY <1>1 DEF MailInv, MailTypes, Polls, Away
<1>3. PICK new \in Polls : poll' = [poll EXCEPT ![u] = new] /\ new.step = "next"
  <2> DEFINE put == Later(u)
  <2>1. put \in Polls /\ put.step = "next"
    BY <1>2 DEF Later, Polls
  <2>2. poll' = [poll EXCEPT ![u] = put]
    BY <1>1
  <2> HIDE DEF put
  <2> QED BY <2>1, <2>2
<1>4. /\ m \in evidence /\ m \in Messages
      /\ \A i \in DOMAIN Contents[m] : i < poll[u].part => Arrived(m, i)
  BY <1>1 DEF MailInv, MailTypes, PublishesInOrder, InOrder
<1>5. \A i \in DOMAIN Contents[m] : Arrived(m, i)
  BY <1>1, <1>2, <1>4, Parts
<1>6. \A n \in Messages : \A i \in DOMAIN Contents[n] : Arrived(n, i) => Arrived(n, i)'
  BY <1>1 DEF Arrived
<1> HIDE DEF m
<1>7. PublishesInOrder' /\ poll' \in [Pollers -> Polls]
  BY <1>1, <1>3, <1>6, Polled DEF InOrder
<1>8. NothingLost'
  BY <1>1, <1>4, <1>5 DEF MailInv, NothingLost, Arrived
<1> QED BY <1>1, <1>4, <1>7, <1>8 DEF MailInv, MailTypes, ScannedHasRow, Known, ProcessedOnce

LEMMA TakeStep ==
  ASSUME MailInv, NEW f \in Files, Take(f)
  PROVE  MailInv'
<1>1. scanning' = f /\ f \in inbox /\ UNCHANGED <<mailbox, evidence, receipts, inbox, poll>>
  BY DEF Take
<1>2. ContentOf(f) \in Attachments
  BY FileParts
<1>3. /\ taken' \in [Attachments -> Nat] /\ taken'[ContentOf(f)] > 0
      /\ \A c \in Attachments : taken[c] <= taken'[c] /\ taken'[c] <= 1
  <2>1. \A c \in Attachments : taken[c] \in Nat /\ taken[c] <= 1
    BY DEF MailInv, MailTypes, ProcessedOnce
  <2>2. CASE AlreadyTaken(f)
    BY <2>1, <2>2, <1>2 DEF Take, AlreadyTaken, Known, MailInv, MailTypes
  <2>3. CASE ~AlreadyTaken(f)
    <3>1. taken' = [taken EXCEPT ![ContentOf(f)] = taken[ContentOf(f)] + 1] /\ taken[ContentOf(f)] = 0
      BY <2>1, <2>3, <1>2 DEF Take, AlreadyTaken, Known
    <3> HIDE DEF ContentOf
    <3> QED BY <2>1, <3>1, <1>2 DEF MailInv, MailTypes
  <2> QED BY <2>2, <2>3
<1>4. \A n \in Messages : \A i \in DOMAIN Contents[n] : Arrived(n, i) => Arrived(n, i)'
  <2> SUFFICES ASSUME NEW n \in Messages, NEW i \in DOMAIN Contents[n], Arrived(n, i)
               PROVE  Arrived(n, i)'
    OBVIOUS
  <2>1. Contents[n][i] \in Attachments
    BY Parts
  <2>2. taken[Contents[n][i]] \in Nat /\ taken'[Contents[n][i]] \in Nat
    BY <1>3, <2>1 DEF MailInv, MailTypes
  <2> QED BY <1>1, <1>3, <2>1, <2>2 DEF Arrived
<1>5. PublishesInOrder' /\ NothingLost' /\ poll' \in [Pollers -> Polls]
  BY <1>1, <1>4, BesidePolls
<1>6. ScannedHasRow'
  BY <1>1, <1>3 DEF ScannedHasRow, Known, ContentOf
<1>7. ProcessedOnce'
  BY <1>1, <1>3 DEF ProcessedOnce, MailInv
<1> QED BY <1>1, <1>3, <1>5, <1>6, <1>7 DEF MailInv, MailTypes

LEMMA StashStep ==
  ASSUME MailInv, Stash
  PROVE  MailInv'
<1>1. /\ scanning # NoFile /\ inbox' = inbox \ {scanning} /\ scanning' = NoFile
      /\ UNCHANGED <<mailbox, evidence, receipts, taken, poll>>
  BY DEF Stash
<1>2. scanning \in Files /\ Known(scanning)
  BY <1>1 DEF MailInv, MailTypes, ScannedHasRow
<1>3. \A n \in Messages : \A i \in DOMAIN Contents[n] : Arrived(n, i) => Arrived(n, i)'
  BY <1>1, <1>2 DEF Arrived, Known, ContentOf
<1>4. PublishesInOrder' /\ NothingLost' /\ poll' \in [Pollers -> Polls]
  BY <1>1, <1>3, BesidePolls
<1> QED BY <1>1, <1>4 DEF MailInv, MailTypes, ScannedHasRow, ProcessedOnce

LEMMA ServerDiesStep ==
  ASSUME MailInv, ServerDies
  PROVE  MailInv'
<1>1. scanning' = NoFile /\ UNCHANGED <<mailbox, evidence, receipts, inbox, taken, poll>>
  BY DEF ServerDies
<1>2. \A n \in Messages : \A i \in DOMAIN Contents[n] : Arrived(n, i) => Arrived(n, i)'
  BY <1>1 DEF Arrived
<1>3. PublishesInOrder' /\ NothingLost' /\ poll' \in [Pollers -> Polls]
  BY <1>1, <1>2, BesidePolls
<1> QED BY <1>1, <1>3 DEF MailInv, MailTypes, ScannedHasRow, ProcessedOnce

LEMMA MailGoesOn == MailInv /\ [Next]_vars => MailInv'
<1> SUFFICES ASSUME MailInv, [Next]_vars
             PROVE  MailInv'
  OBVIOUS
<1>1. CASE (\E m \in Messages : MailComesOrGoes(m)) \/ UNCHANGED vars
  BY <1>1, QuietStep
<1>2. ASSUME NEW u \in Pollers,
             Begin(u) \/ End(u) \/ Skip(u) \/ StoreMessage(u) \/ Publish(u) \/ Receipt(u) \/ Die(u)
      PROVE  MailInv'
  <2>1. CASE Begin(u) \/ End(u) \/ Skip(u) \/ Die(u)
    BY <2>1, QuietStep
  <2>2. CASE StoreMessage(u)
    BY <2>2, StoreStep
  <2>3. CASE Publish(u)
    BY <2>3, PublishStep
  <2>4. CASE Receipt(u)
    BY <2>4, ReceiptStep
  <2> QED BY <1>2, <2>1, <2>2, <2>3, <2>4
<1>3. CASE \E f \in Files : Take(f)
  BY <1>3, TakeStep
<1>4. CASE Stash
  BY <1>4, StashStep
<1>5. CASE ServerDies
  BY <1>5, ServerDiesStep
<1> QED BY <1>1, <1>2, <1>3, <1>4, <1>5 DEF Next

THEOREM MailHolds == Spec => []MailInv
<1>1. Init => MailInv
  BY MailBegins
<1>2. MailInv /\ [Next]_vars => MailInv'
  BY MailGoesOn
<1> QED BY <1>1, <1>2, PTL DEF Spec

LEMMA MailTypeOK == MailInv => TypeOK
BY DEF MailInv, MailTypes, TypeOK, Polls, Away

(* What has a receipt is never delivered again, and all of it has arrived: polls overlap, the
   server takes files between two of them, and each may die anywhere (email.rs). *)
THEOREM ReceiptsAreKept == Spec => []NothingLost
<1>1. MailInv => NothingLost
  BY DEF MailInv
<1> QED BY <1>1, MailHolds, PTL

(* Whatever is published again is taken once, and always beside the message that proves it
   (email.rs, inbox.rs). *)
THEOREM TakenOnce == Spec => []ProcessedOnce
<1>1. MailInv => ProcessedOnce
  BY DEF MailInv
<1> QED BY <1>1, MailHolds, PTL

Pulling == INSTANCE IntakeProofs WITH
  Txs <- {t1}, DayOf <- [t \in {t1} |-> 1], MaxClock <- 3, MaxPulls <- 2, Sinces <- {}, Cutoffs <- {0, 2},
  Exports <- {}, Source <- <<>>, Shape <- <<>>, Generic <- {}, Accounts <- {a},
  inbox <- folder, rows <- imports, open <- active

Dropping == INSTANCE IntakeProofs WITH
  Txs <- {}, DayOf <- <<>>, MaxClock <- 1, MaxPulls <- 0, Sinces <- {}, Cutoffs <- {0},
  Exports <- {e1, e2}, Source <- [e \in {e1, e2} |-> bank], Shape <- [e \in {e1, e2} |-> IF e = e1 THEN x ELSE y], Generic <- {},
  Accounts <- {a, b}, inbox <- folder, rows <- imports, open <- active

(***************************************************************************)
(* Pulls and the inbox, as MCEdge and IntakeProofs instantiate them        *)
(***************************************************************************)

LEMMA SamePulls ==
  /\ Pulls!Init => Pulling!Init
  /\ [Pulls!Next]_(Pulls!vars) => [Pulling!Next]_(Pulling!vars)
<1>1. Pulls!Init => Pulling!Init
  BY DEF Pulls!Init, Pulling!Init, Pulls!NoPull, Pulling!NoPull, Pulls!NoWork, Pulling!NoWork
<1>2. Pulls!Next => Pulling!Next
  BY DEF Pulls!Cardinality, Pulling!Cardinality, Pulls!Moments, Pulling!Moments, Pulls!Pulled, Pulling!Pulled, Pulls!Files, Pulling!Files,
         Pulls!NoPull, Pulling!NoPull, Pulls!NoWork, Pulling!NoWork, Pulls!Written, Pulling!Written, Pulls!Cardinality, Pulling!Cardinality,
         Pulls!Tick, Pulling!Tick, Pulls!Record, Pulling!Record, Pulls!Configure, Pulling!Configure,
         Pulls!Drop, Pulling!Drop, Pulls!OpenOrClose, Pulling!OpenOrClose,
         Pulls!DeleteProfile, Pulling!DeleteProfile, Pulls!StartPull, Pulling!StartPull,
         Pulls!Page, Pulling!Page, Pulls!Publish, Pulling!Publish,
         Pulls!NextCursor, Pulling!NextCursor, Pulls!SaveCursor, Pulling!SaveCursor,
         Pulls!PullFails, Pulling!PullFails, Pulls!Open, Pulling!Open, Pulls!Route, Pulling!Route,
         Pulls!Known, Pulling!Known, Pulls!Row, Pulling!Row, Pulls!Take, Pulling!Take,
         Pulls!Complete, Pulling!Complete, Pulls!Next1, Pulling!Next1, Pulls!Commit, Pulling!Commit,
         Pulls!Learned, Pulling!Learned, Pulls!Learn, Pulling!Learn, Pulls!CutShort, Pulling!CutShort,
         Pulls!ImportFails, Pulling!ImportFails, Pulls!Stash, Pulling!Stash,
         Pulls!Forget, Pulling!Forget, Pulls!Crash, Pulling!Crash, Pulls!Scan, Pulling!Scan,
         Pulls!vars, Pulling!vars, Pulls!bankVars, Pulling!bankVars, Pulls!pullVars, Pulling!pullVars,
         Pulls!ledgerVars, Pulling!ledgerVars, Pulls!Next, Pulling!Next
<1>3. UNCHANGED Pulls!vars => UNCHANGED Pulling!vars
  BY DEF Pulls!vars, Pulling!vars
<1> QED BY <1>1, <1>2, <1>3

LEMMA SamePullsClaims ==
  /\ Pulling!NothingLost => Pulls!NothingLost
  /\ Pulling!KeptUntilRecorded => Pulls!KeptUntilRecorded
  /\ Pulling!ProcessedOnce => Pulls!ProcessedOnce
  /\ Pulling!KeepsRoutes => Pulls!KeepsRoutes
<1>1. Pulling!NothingLost => Pulls!NothingLost
  BY DEF Pulls!NothingLost, Pulling!NothingLost, Pulls!Written, Pulling!Written, Pulls!Cardinality, Pulling!Cardinality,
         Pulls!Pulled, Pulling!Pulled
<1>2. Pulling!KeptUntilRecorded => Pulls!KeptUntilRecorded
  BY DEF Pulls!KeptUntilRecorded, Pulling!KeptUntilRecorded, Pulls!Known, Pulling!Known
<1>3. Pulling!ProcessedOnce => Pulls!ProcessedOnce
  BY DEF Pulls!ProcessedOnce, Pulling!ProcessedOnce, Pulls!Row, Pulling!Row
<1>4. Pulling!KeepsRoutes => Pulls!KeepsRoutes
  BY DEF Pulls!KeepsRoutes, Pulling!KeepsRoutes, Pulls!Learn, Pulling!Learn,
         Pulls!Learned, Pulling!Learned, Pulls!Next1, Pulling!Next1, Pulls!Route, Pulling!Route,
         Pulls!Open, Pulling!Open, Pulls!Pulled, Pulling!Pulled, Pulls!bankVars, Pulling!bankVars,
         Pulls!pullVars, Pulling!pullVars
<1> QED BY <1>1, <1>2, <1>3, <1>4

LEMMA SameDrops ==
  /\ Drops!Init => Dropping!Init
  /\ [Drops!Next]_(Drops!vars) => [Dropping!Next]_(Dropping!vars)
<1>1. Drops!Init => Dropping!Init
  BY DEF Drops!Init, Dropping!Init, Drops!NoPull, Dropping!NoPull, Drops!NoWork, Dropping!NoWork
<1>2. Drops!Next => Dropping!Next
  BY DEF Drops!Cardinality, Dropping!Cardinality, Drops!Moments, Dropping!Moments, Drops!Pulled, Dropping!Pulled, Drops!Files, Dropping!Files,
         Drops!NoPull, Dropping!NoPull, Drops!NoWork, Dropping!NoWork,
         Drops!Written, Dropping!Written, Drops!Cardinality, Dropping!Cardinality, Drops!Tick, Dropping!Tick, Drops!Record, Dropping!Record,
         Drops!Configure, Dropping!Configure, Drops!Drop, Dropping!Drop,
         Drops!OpenOrClose, Dropping!OpenOrClose, Drops!DeleteProfile, Dropping!DeleteProfile,
         Drops!StartPull, Dropping!StartPull, Drops!Page, Dropping!Page,
         Drops!Publish, Dropping!Publish, Drops!NextCursor, Dropping!NextCursor,
         Drops!SaveCursor, Dropping!SaveCursor, Drops!PullFails, Dropping!PullFails,
         Drops!Open, Dropping!Open, Drops!Route, Dropping!Route, Drops!Known, Dropping!Known,
         Drops!Row, Dropping!Row, Drops!Take, Dropping!Take, Drops!Complete, Dropping!Complete,
         Drops!Next1, Dropping!Next1, Drops!Commit, Dropping!Commit, Drops!Learned, Dropping!Learned,
         Drops!Learn, Dropping!Learn, Drops!CutShort, Dropping!CutShort, Drops!ImportFails, Dropping!ImportFails,
         Drops!Stash, Dropping!Stash, Drops!Forget, Dropping!Forget, Drops!Crash, Dropping!Crash,
         Drops!Scan, Dropping!Scan, Drops!vars, Dropping!vars, Drops!bankVars, Dropping!bankVars,
         Drops!pullVars, Dropping!pullVars, Drops!ledgerVars, Dropping!ledgerVars,
         Drops!Next, Dropping!Next
<1>3. UNCHANGED Drops!vars => UNCHANGED Dropping!vars
  BY DEF Drops!vars, Dropping!vars
<1> QED BY <1>1, <1>2, <1>3

LEMMA SameDropsClaims ==
  /\ Dropping!NothingLost => Drops!NothingLost
  /\ Dropping!KeptUntilRecorded => Drops!KeptUntilRecorded
  /\ Dropping!ProcessedOnce => Drops!ProcessedOnce
  /\ Dropping!KeepsRoutes => Drops!KeepsRoutes
<1>1. Dropping!NothingLost => Drops!NothingLost
  BY DEF Drops!NothingLost, Dropping!NothingLost, Drops!Written, Dropping!Written, Drops!Cardinality, Dropping!Cardinality,
         Drops!Pulled, Dropping!Pulled
<1>2. Dropping!KeptUntilRecorded => Drops!KeptUntilRecorded
  BY DEF Drops!KeptUntilRecorded, Dropping!KeptUntilRecorded, Drops!Known, Dropping!Known
<1>3. Dropping!ProcessedOnce => Drops!ProcessedOnce
  BY DEF Drops!ProcessedOnce, Dropping!ProcessedOnce, Drops!Row, Dropping!Row
<1>4. Dropping!KeepsRoutes => Drops!KeepsRoutes
  BY DEF Drops!KeepsRoutes, Dropping!KeepsRoutes, Drops!Learn, Dropping!Learn,
         Drops!Learned, Dropping!Learned, Drops!Next1, Dropping!Next1, Drops!Route, Dropping!Route,
         Drops!Open, Dropping!Open, Drops!Pulled, Dropping!Pulled, Drops!bankVars, Dropping!bankVars,
         Drops!pullVars, Dropping!pullVars
<1> QED BY <1>1, <1>2, <1>3, <1>4

LEMMA PullConstants == Pulling!IntakeConstants
<1>1. Pulling!Named
  BY DEF Pulling!Named
<1>2. [t \in {t1} |-> 1] \in [{t1} -> Nat]
  OBVIOUS
<1> QED BY <1>1, <1>2, NullIsNoAccount DEF Pulling!IntakeConstants, Pulling!Pulled

LEMMA DropConstants == Dropping!IntakeConstants
<1>1. \A e \in {e1, e2} : [f \in {e1, e2} |-> IF f = e1 THEN x ELSE y][e] \in {x, y}
  OBVIOUS
<1>2. Dropping!Named
  BY <1>1, NamesAreNotEmpty, Zenon DEF Dropping!Named
<1>3. <<>> \in [{} -> Nat] /\ {e1, e2} \cap (1..0) = {}
  OBVIOUS
<1> QED BY <1>2, <1>3, NullIsNoAccount DEF Dropping!IntakeConstants, Dropping!Pulled

(* While a behaviour is about mail, pulls or the inbox, what their proofs need holds. *)
EvidenceInv ==
  /\ focus = "mail" => MailInv
  /\ focus = "pulls" => Pulling!Types /\ Pulling!NoneMissing /\ Pulling!Kept /\ Pulling!Once
  /\ focus = "drops" => Dropping!Types /\ Dropping!Kept /\ Dropping!Once

LEMMA EvidenceInvInit == Begins => EvidenceInv
BY BeginsWith, MailBegins, SamePulls, SameDrops, PullConstants, DropConstants,
   Pulling!TypesInit, Pulling!NoneMissingInit, Pulling!KeptInit, Pulling!OnceInit,
   Dropping!TypesInit, Dropping!KeptInit, Dropping!OnceInit DEF EvidenceInv

LEMMA EvidenceInvNext == EvidenceInv /\ [Work]_all => EvidenceInv'
<1> SUFFICES ASSUME EvidenceInv, [Work]_all
             PROVE  EvidenceInv'
  OBVIOUS
<1>1. ASSUME focus = "mail" PROVE MailInv'
  BY <1>1, OneAtATime, MailGoesOn DEF EvidenceInv
<1>2. ASSUME focus = "pulls"
      PROVE  (Pulling!Types /\ Pulling!NoneMissing /\ Pulling!Kept /\ Pulling!Once)'
  <2>1. [Pulling!Next]_(Pulling!vars)
    BY <1>2, OneAtATime, SamePulls
  <2>2. Pulling!Types /\ Pulling!NoneMissing /\ Pulling!Kept /\ Pulling!Once
    BY <1>2 DEF EvidenceInv
  <2> QED BY <2>1, <2>2, PullConstants, Pulling!TypesStep, Pulling!NoneMissingStep, Pulling!KeptStep, Pulling!OnceStep
<1>3. ASSUME focus = "drops"
      PROVE  (Dropping!Types /\ Dropping!Kept /\ Dropping!Once)'
  <2>1. [Dropping!Next]_(Dropping!vars)
    BY <1>3, OneAtATime, SameDrops
  <2>2. Dropping!Types /\ Dropping!Kept /\ Dropping!Once
    BY <1>3 DEF EvidenceInv
  <2> QED BY <2>1, <2>2, DropConstants, Dropping!TypesStep, Dropping!KeptStep, Dropping!OnceStep
<1>4. focus' = focus
  BY OneAtATime
<1> QED BY <1>1, <1>2, <1>3, <1>4 DEF EvidenceInv

LEMMA EvidenceHolds == Edge => []EvidenceInv
<1>1. Begins => EvidenceInv
  BY EvidenceInvInit
<1>2. EvidenceInv /\ [Work]_all => EvidenceInv'
  BY EvidenceInvNext
<1> QED BY <1>1, <1>2, PTL DEF Edge

LEMMA OnceEverywhere == EvidenceInv /\ BankInvHere => DoneOnce
<1> SUFFICES ASSUME EvidenceInv, BankInvHere
             PROVE  DoneOnce
  OBVIOUS
<1>1. focus = "mail" => ProcessedOnce
  BY DEF EvidenceInv, MailInv
<1>2. focus = "pulls" => Pulls!ProcessedOnce
  BY SamePullsClaims DEF EvidenceInv, Pulling!Once
<1>3. focus = "drops" => Drops!ProcessedOnce
  BY SameDropsClaims DEF EvidenceInv, Dropping!Once
<1>4. focus = "consents" => Banks!EachAccountOnce /\ Banks!CodeOnce
  BY DEF BankInvHere, BankInv
<1> QED BY <1>1, <1>2, <1>3, <1>4 DEF DoneOnce

(* Whatever is retried or offered twice is done once: the statements of a message, a file of
   the inbox (apart from a completion that ended after its commit), an account that several
   consents reach in one pull, the answer of a bank to the browser (email.rs, inbox.rs,
   enable_banking.rs); for every mailbox, every number of polls and deaths, and every set of
   consents, accounts, currencies and bookings. *)
THEOREM DoneOnceHolds == Edge => []DoneOnce
BY OnceEverywhere, EvidenceHolds, BankHolds, PTL

LEMMA KeptEverywhere == EvidenceInv /\ BankInvHere /\ PagesHere => NothingIsLost
<1> SUFFICES ASSUME EvidenceInv, BankInvHere, PagesHere
             PROVE  NothingIsLost
  OBVIOUS
<1>1. focus = "mail" => NothingLost
  BY DEF EvidenceInv, MailInv
<1>2. focus = "pulls" => Pulls!NothingLost /\ Pulls!KeptUntilRecorded
  <2>1. focus = "pulls" => Pulling!NothingLost
    BY PullConstants, Pulling!NothingLostIs DEF EvidenceInv, Pulling!NoneMissing
  <2> QED BY <2>1, SamePullsClaims DEF EvidenceInv, Pulling!Kept
<1>3. focus = "drops" => Drops!KeptUntilRecorded
  BY SameDropsClaims DEF EvidenceInv, Dropping!Kept
<1>4. focus = "consents" => Banks!StampsHaveFiles
  BY DEF BankInvHere, BankInv
<1>5. focus = "pages" => Paged!StatementWhole
  BY PagesAre DEF PagesHere
<1> QED BY <1>1, <1>2, <1>3, <1>4, <1>5 DEF NothingIsLost

(* Nothing that was sent, listed, pulled or dropped is lost, whoever dies: a receipt, a cursor
   and a stamp only follow what is on disk (email.rs, pluggy.rs, inbox.rs, enable_banking.rs),
   and a statement of several pages has every booking once, or fails, although its bank
   changes its list between two pages (statement_http.rs). *)
THEOREM NothingIsLostHolds == Edge => []NothingIsLost
BY KeptEverywhere, EvidenceHolds, BankHolds, PagesHold, PTL

(***************************************************************************)
(* Two processes at once, as MCEdge and ImportsProofs instantiate them     *)
(***************************************************************************)

Competing == INSTANCE ImportsProofs WITH
  Workers <- {w1, w2}, Moves <- {coffee}, Text <- [m \in {coffee} |-> coffee], Amount <- [m \in {coffee} |-> coffee],
  Files <- {may, jun}, Rows <- [f \in {may, jun} |-> <<[move |-> coffee, ref |-> r1]>>],
  Strict <- {}, Entries <- {b1, b2}, Nothing <- Nil

LEMMA SameBeside ==
  /\ Beside!Init => Competing!Init
  /\ \A w \in {w1, w2} : Beside!Compete(w) => Competing!Compete(w)
  /\ UNCHANGED beside => UNCHANGED Competing!vars
  /\ Competing!OneLinePerEntry => Beside!OneLinePerEntry
<1>1. Beside!Init => Competing!Init
  BY DEF Beside!Init, Competing!Init, Beside!Lines, Competing!Lines, Beside!NoLine, Competing!NoLine, Beside!Idle, Competing!Idle
<1>2. ASSUME NEW w \in {w1, w2}, Beside!Compete(w)
      PROVE  Competing!Compete(w)
  <2>1. ASSUME NEW f \in {may, jun}, Beside!Import(w, f)
       PROVE  Competing!Import(w, f)
    BY <2>1 DEF Beside!Import, Competing!Import, Beside!LinesOf, Competing!LinesOf, Beside!Begin, Competing!Begin,
            Beside!Idle, Competing!Idle, Beside!NoLine, Competing!NoLine, Beside!Lines, Competing!Lines,
            Beside!entryVars, Competing!entryVars
  <2>2. ASSUME NEW f \in {may, jun}, Beside!Retry(w, f)
       PROVE  Competing!Retry(w, f)
    BY <2>2 DEF Beside!Retry, Competing!Retry, Beside!InOrder, Competing!InOrder,
            Beside!Orders, Competing!Orders, Beside!Injection, Competing!Injection, Beside!IsInjective, Competing!IsInjective, Beside!Cardinality, Competing!Cardinality,
            Beside!LinesOf, Competing!LinesOf, Beside!Range, Competing!Range,
            Beside!Unfinished, Competing!Unfinished, Beside!Begin, Competing!Begin, Beside!Idle, Competing!Idle,
            Beside!entryVars, Competing!entryVars
  <2>3. Beside!CheckReference(w) => Competing!CheckReference(w)
    BY DEF Beside!CheckReference, Competing!CheckReference, Beside!Current, Competing!Current,
            Beside!Doing, Competing!Doing, Beside!Decide, Competing!Decide, Beside!Ref, Competing!Ref,
            Beside!EarlierByReference, Competing!EarlierByReference, Beside!PostedAs, Competing!PostedAs,
            Beside!Live, Competing!Live, Beside!Present, Competing!Present, Beside!Lines, Competing!Lines,
            Beside!Held, Competing!Held, Beside!AfterReference, Competing!AfterReference,
            Beside!entryVars, Competing!entryVars
  <2>4. Beside!CheckFingerprint(w) => Competing!CheckFingerprint(w)
    BY DEF Beside!CheckFingerprint, Competing!CheckFingerprint, Beside!Current, Competing!Current,
            Beside!Doing, Competing!Doing, Beside!Decide, Competing!Decide,
            Beside!EarlierByFingerprint, Competing!EarlierByFingerprint, Beside!Fingerprint, Competing!Fingerprint,
            Beside!Cardinality, Competing!Cardinality, Beside!Move, Competing!Move,
            Beside!Present, Competing!Present, Beside!Lines, Competing!Lines, Beside!Held, Competing!Held,
            Beside!entryVars, Competing!entryVars
  <2>5. Beside!FindMatch(w) => Competing!FindMatch(w)
    BY DEF Beside!FindMatch, Competing!FindMatch, Beside!Current, Competing!Current,
            Beside!Doing, Competing!Doing, Beside!Decide, Competing!Decide,
            Beside!Candidates, Competing!Candidates, Beside!Live, Competing!Live, Beside!Lines, Competing!Lines,
            Beside!Move, Competing!Move, Beside!entryVars, Competing!entryVars
  <2>6. Beside!MarkDuplicate(w) => Competing!MarkDuplicate(w)
    BY DEF Beside!MarkDuplicate, Competing!MarkDuplicate, Beside!Current, Competing!Current,
            Beside!Doing, Competing!Doing, Beside!Present, Competing!Present, Beside!Lines, Competing!Lines,
            Beside!Put, Competing!Put, Beside!Advance, Competing!Advance, Beside!Idle, Competing!Idle,
            Beside!entryVars, Competing!entryVars
  <2>7. Beside!Attach(w) => Competing!Attach(w)
    BY DEF Beside!Attach, Competing!Attach, Beside!Current, Competing!Current, Beside!Doing, Competing!Doing,
            Beside!Ref, Competing!Ref, Beside!Attachable, Competing!Attachable, Beside!Live, Competing!Live,
            Beside!Lines, Competing!Lines, Beside!Put, Competing!Put, Beside!Present, Competing!Present,
            Beside!Booker, Competing!Booker, Beside!Advance, Competing!Advance, Beside!Idle, Competing!Idle
  <2>8. ASSUME NEW e \in {b1, b2}, NEW posted \in BOOLEAN, Beside!Draft(w, e, posted)
       PROVE  Competing!Draft(w, e, posted)
    BY <2>8 DEF Beside!Draft, Competing!Draft, Beside!Current, Competing!Current, Beside!Doing, Competing!Doing,
            Beside!Free, Competing!Free, Beside!PostingReference, Competing!PostingReference,
            Beside!Ref, Competing!Ref, Beside!Booker, Competing!Booker, Beside!Move, Competing!Move,
            Beside!Put, Competing!Put, Beside!Present, Competing!Present, Beside!Lines, Competing!Lines,
            Beside!Advance, Competing!Advance, Beside!Idle, Competing!Idle
  <2>9. Beside!Fail(w) => Competing!Fail(w)
    BY DEF Beside!Fail, Competing!Fail, Beside!Current, Competing!Current, Beside!Put, Competing!Put,
            Beside!Present, Competing!Present, Beside!Lines, Competing!Lines, Beside!Advance, Competing!Advance,
            Beside!Idle, Competing!Idle, Beside!entryVars, Competing!entryVars
  <2>10. Beside!Crash(w) => Competing!Crash(w)
    BY DEF Beside!Crash, Competing!Crash, Beside!Idle, Competing!Idle, Beside!entryVars, Competing!entryVars
  <2>11. ASSUME NEW l \in Beside!Lines, NEW e \in {b1, b2}, Beside!MatchByHand(w, l, e)
        PROVE  Competing!MatchByHand(w, l, e)
    BY <2>11 DEF Beside!MatchByHand, Competing!MatchByHand, Beside!Present, Competing!Present,
            Beside!Lines, Competing!Lines, Beside!Held, Competing!Held, Beside!Live, Competing!Live,
            Beside!Move, Competing!Move, Beside!Begin, Competing!Begin, Beside!Idle, Competing!Idle,
            Beside!entryVars, Competing!entryVars
  <2>12. ASSUME NEW e \in {b1, b2}, Beside!Void(w, e)
        PROVE  Competing!Void(w, e)
    BY <2>12 DEF Beside!Void, Competing!Void, Beside!Idle, Competing!Idle, Beside!ReleaseLines, Competing!ReleaseLines,
            Beside!Lines, Competing!Lines
  <2>13. ASSUME NEW e \in {b1, b2}, NEW n, Beside!Capture(w, e, n, FALSE)
        PROVE  Competing!Capture(w, e, n, FALSE)
    BY <2>13 DEF Beside!Capture, Competing!Capture, Beside!Idle, Competing!Idle, Beside!Free, Competing!Free
  <2> QED BY <1>2, <2>1, <2>2, <2>3, <2>4, <2>5, <2>6, <2>7, <2>8, <2>9, <2>10, <2>11, <2>12, <2>13
       DEF Beside!Compete, Competing!Compete, Beside!ProcessLine, Competing!ProcessLine,
           Beside!Complete, Competing!Complete, Beside!Lines, Competing!Lines, Beside!Range, Competing!Range
<1>3. UNCHANGED beside => UNCHANGED Competing!vars
  BY DEF beside, Competing!vars, Competing!entryVars
<1>4. Competing!OneLinePerEntry => Beside!OneLinePerEntry
  BY DEF Beside!OneLinePerEntry, Competing!OneLinePerEntry, Beside!Lines, Competing!Lines
<1> QED BY <1>1, <1>2, <1>3, <1>4

LEMMA CompetingConstants == Competing!RowsAreMovements /\ Competing!LookAlikes /\ Competing!Nobody
<1> DEFINE twice == [f \in {may, jun} |-> <<[move |-> coffee, ref |-> r1]>>]
<1>1. \A f \in {may, jun} : DOMAIN twice[f] = {1} /\ twice[f] = <<[move |-> coffee, ref |-> r1]>> /\ twice[f][1].ref = r1
  OBVIOUS
<1>2. r1 \in Competing!Refs
  BY <1>1 DEF Competing!Refs
<1>3. Competing!Lines = {<<may, 1>>, <<jun, 1>>}
  BY <1>1 DEF Competing!Lines
<1>4. IsFiniteSet(Competing!Lines)
  <2>1. IsFiniteSet({<<may, 1>>}) /\ IsFiniteSet({<<jun, 1>>})
    BY FS_Singleton
  <2>2. Competing!Lines = {<<may, 1>>} \cup {<<jun, 1>>}
    BY <1>3
  <2> QED BY <2>1, <2>2, FS_Union
<1>5. Competing!RowsAreMovements
  <2>1. \A f \in {may, jun} : twice[f] \in Seq([move : {coffee}, ref : Competing!Refs]) /\ twice[f] # <<>>
    BY <1>1, <1>2
  <2>2. DOMAIN [m \in {coffee} |-> coffee] = {coffee}
    OBVIOUS
  <2> QED BY <1>4, <2>1, <2>2 DEF Competing!RowsAreMovements, Competing!IsFiniteSet, IsFiniteSet
<1>6. Competing!LookAlikes
  BY DEF Competing!LookAlikes
<1>7. Competing!Nobody
  BY <1>3, NilIsNothing DEF Competing!Nobody
<1> QED BY <1>5, <1>6, <1>7

BesideHere == focus = "beside" => Competing!OneEach

LEMMA BesideHolds == Edge => []BesideHere
<1>1. Begins => BesideHere
  BY BeginsWith, SameBeside, CompetingConstants, Competing!OneEachInit DEF BesideHere
<1>2. BesideHere /\ [Work]_all => BesideHere'
  <2> SUFFICES ASSUME BesideHere, [Work]_all, focus' = "beside"
               PROVE  Competing!OneEach'
    BY DEF BesideHere
  <2>1. focus = "beside" /\ [\E w \in {w1, w2} : Beside!Compete(w)]_beside
    BY OneAtATime
  <2>2. [\E w \in {w1, w2} : Competing!Undisturbed(w)]_(Competing!vars)
    BY <2>1, SameBeside, CompetingConstants, Competing!CompeteUndisturbed
  <2> QED BY <2>1, <2>2, CompetingConstants, Competing!OneEachNext DEF BesideHere
<1> QED BY <1>1, <1>2, PTL DEF Edge

LEMMA ClaimedOnce == BesideHere /\ SourcesHere => OneClaim
<1>1. BesideHere => (focus = "beside" => Beside!OneLinePerEntry)
  BY SameBeside DEF BesideHere, Competing!OneEach
<1>2. SourcesHere => (focus = "sources" => Sources!OneLinePerSource /\ Sources!OneRefund /\ Sources!EvidenceAgrees)
  BY SourceInvMeans DEF SourcesHere
<1> QED BY <1>1, <1>2 DEF OneClaim

(* A line of a bank's file is evidence of one entry at most, an entry of one line of a source,
   a purchase has one live refund, and a line in use agrees with a live entry: for any lines
   of any sources, however captures, imports, reviews, voids, refunds, previews,
   reconciliations and repeated matches follow one another (cross_source.rs, refunds.rs,
   matcher.rs); and beside another process that imports. *)
THEOREM OneClaimHolds == Edge => []OneClaim
BY ClaimedOnce, BesideHolds, SourcesHold, PTL

(***************************************************************************)
(* What people decide, and the types of all parts                          *)
(***************************************************************************)

LEMMA DecidedBy ==
  SourcesHere /\ NamesHere /\ ScreenHere /\ FormHere /\ EvidenceInv /\ [Work]_all =>
    /\ focus = "sources" => Sources!AppliesWhatWasShown /\ Sources!KeepsHumanWork
    /\ focus = "names" => Names!AppliesWhatWasShown
    /\ focus = "screen" => Screen!AppliesWhatWasShown /\ Screen!KeepsTitle
    /\ focus = "form" => Form!AppliesWhatWasShown
    /\ focus = "drops" => Drops!KeepsRoutes
<1> SUFFICES ASSUME SourcesHere, NamesHere, ScreenHere, FormHere, EvidenceInv, [Work]_all
             PROVE  /\ focus = "sources" => Sources!AppliesWhatWasShown /\ Sources!KeepsHumanWork
                    /\ focus = "names" => Names!AppliesWhatWasShown
                    /\ focus = "screen" => Screen!AppliesWhatWasShown /\ Screen!KeepsTitle
                    /\ focus = "form" => Form!AppliesWhatWasShown
                    /\ focus = "drops" => Drops!KeepsRoutes
  OBVIOUS
<1>1. focus = "sources" => Sources!AppliesWhatWasShown /\ Sources!KeepsHumanWork
  BY OneAtATime, WorkIsKept, ShownIsApplied DEF SourcesHere
<1>2. focus = "names" => Names!AppliesWhatWasShown
  BY NamesStep
<1>3. focus = "screen" => Screen!AppliesWhatWasShown /\ Screen!KeepsTitle
  BY OneAtATime, ScreenAsShown, TitleKept DEF ScreenHere
<1>4. focus = "form" => Form!AppliesWhatWasShown
  BY OneAtATime, FormGoesOn DEF FormHere
<1>5. focus = "drops" => Drops!KeepsRoutes
  BY DropConstants, Dropping!LearnKeeps, SameDropsClaims DEF EvidenceInv
<1> QED BY <1>1, <1>2, <1>3, <1>4, <1>5

(* A confirmation applies what its preview showed, or nothing: of reconciliations, of payees,
   of the terminal's batches and of its forms, for any books and whatever happens between the
   preview and the confirmation; and neither a draft that was worked on nor the account that
   a kind of file was given is undone by a machine (cross_source.rs, payees.rs, app.rs,
   forms.rs, splits.rs, inbox.rs). *)
THEOREM PeopleDecideHolds == Edge => PeopleDecide
BY DecidedBy, SourcesHold, NamesHold, ScreenHolds, FormHolds, EvidenceHolds, PTL DEF Edge, PeopleDecide

LEMMA PullTypes ==
  /\ Pulling!TypeOK => Pulls!TypeOK
  /\ Dropping!TypeOK => Drops!TypeOK
<1>1. Pulling!TypeOK => Pulls!TypeOK
  BY DEF Pulling!TypeOK, Pulls!TypeOK, Pulling!Moments, Pulls!Moments, Pulling!Written, Pulls!Written,
         Pulling!Cardinality, Pulls!Cardinality, Pulling!Pulled, Pulls!Pulled
<1>2. Dropping!TypeOK => Drops!TypeOK
  BY DEF Dropping!TypeOK, Drops!TypeOK, Dropping!Moments, Drops!Moments, Dropping!Written, Drops!Written,
         Dropping!Cardinality, Drops!Cardinality, Dropping!Pulled, Drops!Pulled
<1> QED BY <1>1, <1>2

LEMMA BankTypesMean == BankInv => Banks!TypeOK
<1> SUFFICES ASSUME BankTypes
             PROVE  Banks!TypeOK
  BY DEF BankInv
<1>1. \A i \in DOMAIN files : files[i].ref \in Banks!Refs
  <2>1. \A i \in DOMAIN files : files[i] \in FileSet
    BY DEF BankTypes
  <2> QED BY <2>1 DEF FileSet
<1>2. \A r \in DOMAIN routes : r \in Banks!Refs /\ routes[r].consent \in saved
  BY DEF BankTypes
<1>3. asking.step \in {"idle", "asking", "publishing"}
  BY DEF BankTypes, Asking, Banks!NoPull
<1>4. flow.step \in {"idle", "waiting", "stopping"}
  BY DEF BankTypes, Flows, Banks!NoFlow
<1> QED BY <1>1, <1>2, <1>3, <1>4 DEF Banks!TypeOK, BankTypes

LEMMA NamesTypes ==
  /\ Payments(People, Words, MaxNamed)!TypeOK => Names!TypeOK
  /\ Payments({p}, {}, MaxGrouped)!TypeOK => Groups!TypeOK
BY DEF Payments!TypeOK, Names!TypeOK, Groups!TypeOK, Payments!Rows, Payments!Entries, Names!Rows, Names!Entries,
       Groups!Rows, Groups!Entries

LEMMA TypesEverywhere ==
  EvidenceInv /\ BankInvHere /\ SourcesHere /\ NamesHere /\ ScreenHere /\ FormHere /\ PagesHere => TypeIsRight
<1> SUFFICES ASSUME EvidenceInv, BankInvHere, SourcesHere, NamesHere, ScreenHere, FormHere, PagesHere
             PROVE  TypeIsRight
  OBVIOUS
<1>1. focus = "mail" => TypeOK
  BY MailTypeOK DEF EvidenceInv
<1>2. focus = "pulls" => Pulls!TypeOK
  BY PullConstants, Pulling!TypeOKIs, PullTypes DEF EvidenceInv
<1>3. focus = "drops" => Drops!TypeOK
  BY DropConstants, Dropping!TypeOKIs, PullTypes DEF EvidenceInv
<1>4. focus = "pages" => Paged!TypeOK
  BY PagesAre DEF PagesHere
<1>5. focus = "consents" => Banks!TypeOK
  BY BankTypesMean DEF BankInvHere
<1>6. focus = "sources" => Sources!TypeOK
  BY SourceInvMeans DEF SourcesHere
<1>7. focus = "names" => Names!TypeOK
  BY NameInvMeans, NamesTypes DEF NamesHere
<1>8. focus = "groups" => Groups!TypeOK
  BY NameInvMeans, NamesTypes DEF NamesHere
<1>9. focus = "screen" => Screen!TypeOK
  BY ScreenMeans DEF ScreenHere
<1>10. focus = "form" => Form!TypeOK
  BY FormMeans DEF FormHere
<1> QED BY <1>1, <1>2, <1>3, <1>4, <1>5, <1>6, <1>7, <1>8, <1>9, <1>10 DEF TypeIsRight

(* Every part of MCEdge keeps its type, for every value of the constants of that part. *)
THEOREM TypesHold == Edge => []TypeIsRight
BY TypesEverywhere, EvidenceHolds, BankHolds, SourcesHold, NamesHold, ScreenHolds, FormHolds, PagesHold, PTL
=============================================================================
