-------------------------- MODULE VaultSharingProofs --------------------------
(***************************************************************************)
(* Owner and recipient of a shared vault never diverge, and their stores    *)
(* implement one stream per grant, for every number of grants, deliveries,  *)
(* edits and keys, whatever is lost, delayed, repeated or cut short.        *)
(***************************************************************************)
EXTENDS VaultSharing, SequenceTheorems, TLAPS

Sent(g) == outbound[g].history

(* A history that another one goes on. *)
Prefix(h, k) == Len(h) <= Len(k) /\ \A i \in 1..Len(h) : h[i] = k[i]

(* What a file says was so at some time, however old it is: a bundle holds the first
   deliveries of its grant, a receipt the first that the recipient accepted.  What is
   pending can be carried. *)
FilesAreOld ==
  /\ \A g \in Grants : Pending(g) => Sent(g) # <<>>
  /\ \A b \in bundles : b.history # <<>> /\ Prefix(b.history, Sent(b.grant))
  /\ \A r \in receipts : Prefix(r.history, replica[r.grant])

(* A revocation is the end, and the owner decided it. *)
NoticeIsLast ==
  \A g \in Grants : \A i \in 1..Len(Sent(g)) :
    Sent(g)[i] = Notice => revoked[g] /\ i = Len(Sent(g))

(* What an import found at its checks holds until its commit. *)
ImportHolds ==
  importing # Nothing =>
    LET b == importing.bundle
        h == replica[b.grant]
    IN  /\ Front(b.history) = h
        /\ Last(b.history) = Notice => h # <<>> /\ Last(h) # Notice
        /\ importing.file # Nothing =>
             importing.file = IF Last(b.history) = Notice THEN file[b.grant] ELSE Last(b.history)

IInv ==
  /\ TypeOK /\ KeysFollow /\ NeverDiverge /\ ReplicaServesCheckpoint
  /\ FilesAreOld /\ NoticeIsLast /\ ImportHolds


(***************************************************************************)
(* Histories                                                               *)
(***************************************************************************)

Deliveries == Payloads \cup {Notice}

LEMMA HistoryIsSequence ==
  ASSUME NEW h \in History
  PROVE  /\ Len(h) \in Nat
         /\ h # <<>> <=> Len(h) > 0
         /\ \A i \in 1..Len(h) : h[i] \in Deliveries
BY EmptySeq, ElementOfSeq, LenProperties DEF History, Deliveries

LEMMA FrontOfHistory ==
  ASSUME NEW h \in History, h # <<>>
  PROVE  /\ Front(h) \in History
         /\ Len(Front(h)) = Len(h) - 1
         /\ \A i \in 1..Len(h) - 1 : Front(h)[i] = h[i]
         /\ Last(h) = h[Len(h)] /\ Last(h) \in Deliveries
<1> DEFINE n == Len(h) - 1
<1>1. /\ Len(h) \in Nat \ {0} /\ n \in Nat /\ n = Len(h) - 1
      /\ \A i \in 1..Len(h) : h[i] \in Deliveries
  BY HistoryIsSequence
<1>2. Front(h) = SubSeq(h, 1, n) /\ Last(h) = h[Len(h)]
  BY DEF Front, Last
<1> HIDE DEF n
<1>3. \A i \in 1..n : h[i] \in Deliveries
  BY <1>1
<1>4. /\ Front(h) \in Seq(Deliveries)
      /\ Len(Front(h)) = IF 1 <= n THEN n - 1 + 1 ELSE 0
      /\ \A i \in 1..n - 1 + 1 : Front(h)[i] = h[1 + i - 1]
  BY <1>1, <1>2, <1>3, SubSeqProperties
<1>5. Len(Front(h)) = n
  BY <1>1, <1>4
<1>6. \A i \in 1..n : Front(h)[i] = h[i]
  BY <1>1, <1>4
<1>7. Front(h) \in History /\ Last(h) \in Deliveries
  BY <1>1, <1>2, <1>4 DEF History, Deliveries
<1> QED BY <1>1, <1>2, <1>5, <1>6, <1>7

LEMMA NextHistory ==
  ASSUME NEW h \in History, NEW d \in Deliveries
  PROVE  /\ Append(h, d) \in History /\ Append(h, d) # <<>>
         /\ Len(Append(h, d)) = Len(h) + 1
         /\ \A i \in 1..Len(h) : Append(h, d)[i] = h[i]
         /\ Append(h, d)[Len(h) + 1] = d /\ Last(Append(h, d)) = d
         /\ Front(Append(h, d)) = h
<1> DEFINE k == Append(h, d)
<1>1. /\ k \in History /\ k # <<>> /\ Len(k) = Len(h) + 1
      /\ \A i \in 1..Len(h) : k[i] = h[i]
      /\ k[Len(h) + 1] = d
  BY AppendProperties DEF History, Deliveries
<1>2. Len(h) \in Nat
  BY HistoryIsSequence
<1> HIDE DEF k
<1>3. Front(k) \in History /\ Len(Front(k)) = Len(h) /\ \A i \in 1..Len(h) : Front(k)[i] = h[i]
  <2>1. Len(k) - 1 = Len(h)
    BY <1>1, <1>2
  <2> QED BY <1>1, <2>1, FrontOfHistory
<1>4. Front(k) = h
  BY <1>3, SeqEqual DEF History
<1> QED BY <1>1, <1>4 DEF Last, k

LEMMA PrefixOfOneLength ==
  ASSUME NEW h \in History, NEW k \in History, Prefix(h, k), Len(h) = Len(k)
  PROVE  h = k
BY SeqEqual DEF Prefix, History

LEMMA PrefixGrows ==
  ASSUME NEW h \in History, NEW k \in History, NEW d \in Deliveries, Prefix(h, k)
  PROVE  Prefix(h, Append(k, d))
<1>1. Len(h) \in Nat /\ Len(k) \in Nat
  BY HistoryIsSequence
<1>2. Len(Append(k, d)) = Len(k) + 1 /\ \A i \in 1..Len(k) : Append(k, d)[i] = k[i]
  BY NextHistory
<1> QED BY <1>1, <1>2 DEF Prefix

(* A bundle that goes on from a replica which is at most one delivery behind is the
   owner's last one, and that one is pending. *)
LEMMA OnlyTheNextFits ==
  ASSUME NEW k \in History, NEW h \in History, NEW r \in History,
         k # <<>>, Prefix(k, h), Front(k) = r, r = h \/ (h # <<>> /\ r = Front(h))
  PROVE  k = h /\ r # h
<1>1. Len(k) \in Nat /\ Len(h) \in Nat /\ Len(r) = Len(k) - 1 /\ Len(k) <= Len(h)
  BY FrontOfHistory, HistoryIsSequence DEF Prefix
<1>2. r # h
  BY <1>1
<1>3. Len(r) = Len(h) - 1
  BY <1>2, FrontOfHistory
<1>4. Len(k) = Len(h)
  BY <1>1, <1>3
<1> QED BY <1>2, <1>4, PrefixOfOneLength


(***************************************************************************)
(* The owner's steps                                                       *)
(***************************************************************************)

LEMMA InitIInv == Init => IInv
<1> SUFFICES ASSUME Init
             PROVE  IInv
  OBVIOUS
<1>1. <<>> \in History /\ Len(<<>>) = 0
  BY EmptySeq DEF History
<1>2. TypeOK
  BY <1>1, BoundAssumption DEF Init, TypeOK, Payloads
<1>3. KeysFollow /\ NeverDiverge /\ ReplicaServesCheckpoint
  BY DEF Init, KeysFollow, NeverDiverge, ReplicaServesCheckpoint, Pending
<1>4. FilesAreOld /\ NoticeIsLast /\ ImportHolds
  BY <1>1 DEF Init, FilesAreOld, NoticeIsLast, ImportHolds, Pending, Sent
<1> QED BY <1>2, <1>3, <1>4 DEF IInv

LEMMA EditKeeps == IInv /\ Edit => IInv'
<1> SUFFICES ASSUME IInv, Edit
             PROVE  IInv'
  OBVIOUS
<1>1. /\ books' = books + 1 /\ books < MaxEdits
      /\ UNCHANGED <<revoked, outbound, replica, file, importing, bundles, receipts, ownerKey, keys, used, proofs, pin, late>>
  BY DEF Edit, recipientVars, fileVars, keyVars
<1>2. TypeOK'
  BY <1>1, BoundAssumption DEF IInv, TypeOK, Payloads
<1> QED BY <1>1, <1>2 DEF IInv, KeysFollow, NeverDiverge, ReplicaServesCheckpoint, FilesAreOld, NoticeIsLast, ImportHolds, Pending, Sent

LEMMA RevokeKeeps ==
  ASSUME IInv, NEW g \in Grants, Revoke(g)
  PROVE  IInv'
<1>1. /\ revoked' = [revoked EXCEPT ![g] = TRUE]
      /\ UNCHANGED <<books, outbound, replica, file, importing, bundles, receipts, ownerKey, keys, used, proofs, pin, late>>
  BY DEF Revoke, recipientVars, fileVars, keyVars
<1>2. TypeOK'
  BY <1>1 DEF IInv, TypeOK
<1>3. NoticeIsLast'
  BY <1>1 DEF IInv, TypeOK, NoticeIsLast, Sent
<1> QED BY <1>1, <1>2, <1>3 DEF IInv, KeysFollow, NeverDiverge, ReplicaServesCheckpoint, FilesAreOld, ImportHolds, Pending, Sent

(* A clock passes the expiry of a grant. *)
LEMMA ExpireKeeps ==
  ASSUME IInv, NEW g \in Grants, NEW who \in Sides, Expire(g, who)
  PROVE  IInv'
<1>1. /\ late' = [late EXCEPT ![g] = @ \cup {who}]
      /\ UNCHANGED <<books, revoked, outbound, replica, file, importing, bundles, receipts, ownerKey, keys, used, proofs, pin>>
  BY DEF Expire, ownerVars, recipientVars, fileVars, keyVars
<1>2. TypeOK'
  BY <1>1 DEF IInv, TypeOK
<1> QED BY <1>1, <1>2 DEF IInv, KeysFollow, NeverDiverge, ReplicaServesCheckpoint, FilesAreOld, NoticeIsLast, ImportHolds, Pending, Sent

(* The kept bundle is written once more. *)
LEMMA ResendKeeps ==
  ASSUME IInv, NEW g \in Grants, NEW notice \in BOOLEAN, Resend(g, notice)
  PROVE  IInv'
<1>1. /\ bundles' = bundles \cup {BundleOf(g)}
      /\ UNCHANGED <<books, revoked, outbound, replica, file, importing, receipts, ownerKey, keys, used, proofs, pin, late>>
  BY DEF Resend, ownerVars, recipientVars, keyVars
<1>2. Sent(g) # <<>> /\ Sent(g) \in History
  BY DEF IInv, TypeOK, Resend, Resends, RevokesAs, FilesAreOld, Sent
<1>3. BundleOf(g) \in Bundle /\ BundleOf(g).grant = g /\ BundleOf(g).history = Sent(g)
  BY DEF IInv, TypeOK, BundleOf, Bundle, Sent
<1>4. TypeOK'
  BY <1>1, <1>3 DEF IInv, TypeOK
<1>5. FilesAreOld'
  <2>1. Prefix(Sent(g), Sent(g))
    BY <1>2, HistoryIsSequence DEF Prefix
  <2> QED BY <1>1, <1>2, <1>3, <2>1 DEF IInv, FilesAreOld, Sent, Pending
<1> QED BY <1>1, <1>4, <1>5 DEF IInv, KeysFollow, NeverDiverge, ReplicaServesCheckpoint, NoticeIsLast, ImportHolds, Pending, Sent

(* The next delivery: only after the last one arrived, and after no revocation. *)
LEMMA ExportKeeps ==
  ASSUME IInv, NEW g \in Grants, NEW notice \in BOOLEAN, NEW written \in BOOLEAN,
         Export(g, notice, written)
  PROVE  IInv'
<1> DEFINE d == IF notice THEN Notice ELSE books
           h == Sent(g)
<1>1. /\ ~Pending(g) /\ revoked[g] = notice
      /\ notice => ~RevokesAs(h)
      /\ outbound' = [outbound EXCEPT ![g] = [history |-> Append(h, d), key |-> ownerKey, acked |-> FALSE]]
      /\ bundles' = IF written THEN bundles \cup {BundleOf(g)'} ELSE bundles
      /\ UNCHANGED <<books, revoked, replica, file, importing, receipts, ownerKey, keys, used, proofs, pin, late>>
  BY DEF Export, MayExport, Resends, recipientVars, keyVars, Sent
<1>2. h \in History /\ d \in Deliveries /\ g \in DOMAIN outbound
  BY DEF IInv, TypeOK, Sent, Deliveries
<1> HIDE DEF d, h
<1>3. /\ outbound'[g] = [history |-> Append(h, d), key |-> ownerKey, acked |-> FALSE]
      /\ Sent(g)' = Append(h, d) /\ Pending(g)' /\ outbound'[g].key = ownerKey
      /\ \A x \in Grants \ {g} : outbound'[x] = outbound[x] /\ Sent(x)' = Sent(x) /\ (Pending(x)' <=> Pending(x))
  BY <1>1, <1>2 DEF IInv, TypeOK, Sent, Pending
<1>4. /\ Append(h, d) \in History /\ Append(h, d) # <<>> /\ Front(Append(h, d)) = h
      /\ Len(h) \in Nat /\ Len(Append(h, d)) = Len(h) + 1
      /\ \A i \in 1..Len(h) : Append(h, d)[i] = h[i]
      /\ Append(h, d)[Len(h) + 1] = d
  BY <1>2, NextHistory, HistoryIsSequence
<1>5. BundleOf(g)' \in Bundle /\ BundleOf(g)'.grant = g /\ BundleOf(g)'.history = Append(h, d)
  <2>1. BundleOf(g)' = [grant |-> g, history |-> Append(h, d), key |-> ownerKey]
    BY <1>3 DEF BundleOf
  <2>2. ownerKey \in 0..MaxKeys
    BY BoundAssumption DEF IInv, TypeOK
  <2> QED BY <2>1, <2>2, <1>4 DEF Bundle
<1>6. TypeOK'
  BY <1>1, <1>4, <1>5, BoundAssumption DEF IInv, TypeOK
<1>7. KeysFollow'
  BY <1>1, <1>3 DEF IInv, KeysFollow
<1>8. NeverDiverge'
  BY <1>1, <1>3, <1>4 DEF IInv, NeverDiverge, Sent, h
<1>9. FilesAreOld'
  <2>1. ASSUME NEW b \in bundles'
        PROVE  b.history # <<>> /\ Prefix(b.history, Sent(b.grant)')
    <3>1. CASE b \in bundles
      <4>1. /\ b.grant \in Grants /\ b.history \in History
            /\ b.history # <<>> /\ Prefix(b.history, Sent(b.grant))
        BY <3>1 DEF IInv, TypeOK, FilesAreOld, Bundle
      <4>2. CASE b.grant = g
        BY <4>1, <4>2, <1>2, <1>3, PrefixGrows DEF h
      <4> QED BY <4>1, <4>2, <1>3
    <3>2. CASE b = BundleOf(g)'
      BY <3>2, <1>3, <1>4, <1>5 DEF Prefix
    <3> QED BY <1>1, <2>1, <3>1, <3>2
  <2>2. \A x \in Grants : Pending(x)' => Sent(x)' # <<>>
    BY <1>3, <1>4 DEF IInv, FilesAreOld
  <2> QED BY <1>1, <2>1, <2>2 DEF IInv, FilesAreOld
<1>10. NoticeIsLast'
  <2>1. \A i \in 1..Len(h) : h[i] # Notice
    <3>1. ASSUME NEW i \in 1..Len(h), h[i] = Notice
          PROVE  FALSE
      <4>1. revoked[g] /\ i = Len(h)
        BY <3>1 DEF IInv, NoticeIsLast, h
      <4>2. RevokesAs(h)
        BY <3>1, <4>1, <1>2, HistoryIsSequence DEF RevokesAs, Last
      <4> QED BY <4>1, <4>2, <1>1
    <3> QED BY <3>1
  <2>2. d = Notice => revoked[g]
    BY <1>1, PayloadAssumption, BoundAssumption DEF IInv, TypeOK, Payloads, d
  <2>3. ASSUME NEW i \in 1..Len(Append(h, d)), Append(h, d)[i] = Notice
        PROVE  revoked'[g] /\ i = Len(Append(h, d))
    BY <2>1, <2>2, <2>3, <1>1, <1>4
  <2>4. ASSUME NEW x \in Grants \ {g}, NEW i \in 1..Len(Sent(x)), Sent(x)[i] = Notice
        PROVE  revoked[x] /\ i = Len(Sent(x))
    BY <2>4 DEF IInv, NoticeIsLast
  <2>5. \A x \in Grants : \A i \in 1..Len(Sent(x)') : Sent(x)'[i] = Notice => revoked'[x] /\ i = Len(Sent(x)')
    BY <2>3, <2>4, <1>1, <1>3
  <2> QED BY <2>5 DEF NoticeIsLast
<1>11. ReplicaServesCheckpoint' /\ ImportHolds'
  BY <1>1 DEF IInv, ReplicaServesCheckpoint, ImportHolds
<1> QED BY <1>6, <1>7, <1>8, <1>9, <1>10, <1>11 DEF IInv

(* A receipt that names the last delivery was written when the recipient had it. *)
LEMMA AcknowledgeKeeps ==
  ASSUME IInv, NEW g \in Grants, NEW r \in receipts, Acknowledge(g, r)
  PROVE  IInv' /\ replica[g] = Sent(g)
<1>1. /\ r.grant = g /\ r.history = Sent(g)
      /\ outbound' = [outbound EXCEPT ![g].acked = TRUE]
      /\ UNCHANGED <<books, revoked, replica, file, importing, bundles, receipts, ownerKey, keys, used, proofs, pin, late>>
  BY DEF Acknowledge, Sent, recipientVars, fileVars, keyVars
<1>2. /\ \A x \in Grants : Sent(x)' = Sent(x) /\ outbound'[x].key = outbound[x].key
      /\ ~Pending(g)' /\ \A x \in Grants \ {g} : Pending(x)' <=> Pending(x)
  BY <1>1 DEF IInv, TypeOK, Sent, Pending
<1>3. replica[g] = Sent(g)
  <2>1. Sent(g) \in History /\ replica[g] \in History /\ Prefix(Sent(g), replica[g])
    BY <1>1 DEF IInv, TypeOK, FilesAreOld, Sent
  <2>2. CASE Sent(g) # <<>> /\ replica[g] = Front(Sent(g))
    BY <2>1, <2>2, FrontOfHistory, HistoryIsSequence DEF Prefix
  <2> QED BY <2>2 DEF IInv, NeverDiverge, Sent
<1>4. TypeOK'
  BY <1>1 DEF IInv, TypeOK
<1>5. NeverDiverge'
  BY <1>1, <1>2, <1>3 DEF IInv, NeverDiverge, Sent
<1>6. KeysFollow' /\ FilesAreOld' /\ NoticeIsLast'
  BY <1>1, <1>2 DEF IInv, KeysFollow, FilesAreOld, NoticeIsLast, TypeOK, Bundle
<1>7. ReplicaServesCheckpoint' /\ ImportHolds'
  BY <1>1 DEF IInv, ReplicaServesCheckpoint, ImportHolds
<1> QED BY <1>3, <1>4, <1>5, <1>6, <1>7 DEF IInv

(* A rotation happens while nothing is pending; its proof leads on from the key before. *)
LEMMA RotateKeeps ==
  ASSUME IInv, NEW committed \in BOOLEAN, Rotate(committed)
  PROVE  IInv'
<1> DEFINE p == [from |-> ownerKey, to |-> keys + 1]
<1>1. /\ Settled /\ keys < MaxKeys /\ keys' = keys + 1 /\ proofs' = proofs \cup {p}
      /\ committed => ownerKey' = keys + 1 /\ used' = used \cup {keys + 1}
      /\ ~committed => ownerKey' = ownerKey /\ used' = used
      /\ UNCHANGED <<books, revoked, outbound, replica, file, importing, bundles, receipts, pin, late>>
  BY DEF Rotate, ownerVars, recipientVars, fileVars
<1>2. /\ keys \in Nat /\ MaxKeys \in Nat /\ keys <= MaxKeys
      /\ ownerKey \in used /\ pin \in used /\ used \subseteq 0..keys
      /\ proofs \subseteq [from: used, to: 1..keys]
  BY BoundAssumption DEF IInv, TypeOK
<1>3. p.from = ownerKey /\ p.to = keys + 1
  OBVIOUS
<1>4. p \in [from: used', to: 1..keys']
  BY <1>1, <1>2
<1> HIDE DEF p
<1>5. TypeOK'
  <2>1. used \subseteq used' /\ ownerKey' \in used' /\ used' \subseteq 0..keys' /\ keys' \in 0..MaxKeys
    <3>1. keys' \in 0..MaxKeys /\ 0..keys \subseteq 0..keys' /\ keys + 1 \in 0..keys'
      BY <1>1, <1>2
    <3>2. CASE committed
      BY <1>1, <1>2, <3>1, <3>2
    <3>3. CASE ~committed
      BY <1>1, <1>2, <3>1, <3>3
    <3> QED BY <3>1, <3>2, <3>3
  <2>2. proofs' \subseteq [from: used', to: 1..keys']
    BY <1>1, <1>2, <1>4, <2>1
  <2> QED BY <1>1, <1>2, <2>1, <2>2 DEF IInv, TypeOK
<1>6. KeysFollow'
  <2>1. \A g \in Grants : ~Pending(g)'
    BY <1>1 DEF Settled, Pending
  <2>2. ASSUME NEW k \in used', k # ownerKey'
        PROVE  \E q \in proofs' : q.from = k /\ q.to \in used' /\ q.to > k
    <3>1. k \in used /\ k < keys + 1
      <4>1. k \in used
        BY <1>1, <2>2
      <4> QED BY <1>2, <4>1
    <3>2. CASE k = ownerKey
      <4>1. committed /\ p.to \in used'
        BY <1>1, <1>3, <2>2, <3>2
      <4> QED BY <1>1, <1>3, <3>1, <3>2, <4>1
    <3>3. CASE k # ownerKey
      <4>1. PICK q \in proofs : q.from = k /\ q.to \in used /\ q.to > k
        BY <3>1, <3>3 DEF IInv, KeysFollow
      <4> QED BY <1>1, <4>1
    <3> QED BY <3>2, <3>3
  <2>3. pin' \in used'
    BY <1>1, <1>2
  <2> QED BY <2>1, <2>2, <2>3 DEF KeysFollow
<1> QED BY <1>1, <1>5, <1>6 DEF IInv, NeverDiverge, ReplicaServesCheckpoint, FilesAreOld, NoticeIsLast, ImportHolds, Pending, Sent


(***************************************************************************)
(* The recipient's steps                                                   *)
(***************************************************************************)

LEMMA ReimportKeeps ==
  ASSUME IInv, NEW b \in bundles, Reimport(b)
  PROVE  IInv'
<1>1. /\ b.history = replica[b.grant] /\ receipts' = receipts \cup {ReceiptOf(b)}
      /\ UNCHANGED <<books, revoked, outbound, replica, file, importing, bundles, ownerKey, keys, used, proofs, pin, late>>
  BY DEF Reimport, ownerVars, recipientVars, keyVars
<1>2. /\ b.grant \in Grants /\ b.history \in History
      /\ ReceiptOf(b) \in Receipt /\ ReceiptOf(b).grant = b.grant /\ ReceiptOf(b).history = b.history
  BY DEF IInv, TypeOK, Bundle, Receipt, ReceiptOf
<1>3. TypeOK'
  BY <1>1, <1>2 DEF IInv, TypeOK
<1>4. FilesAreOld'
  <2>1. Prefix(b.history, b.history)
    BY <1>2, HistoryIsSequence DEF Prefix
  <2> QED BY <1>1, <1>2, <2>1 DEF IInv, FilesAreOld, Sent, Pending
<1> QED BY <1>1, <1>3, <1>4 DEF IInv, KeysFollow, NeverDiverge, ReplicaServesCheckpoint, NoticeIsLast, ImportHolds, Pending, Sent

LEMMA BeginKeeps ==
  ASSUME IInv, NEW b \in bundles, BeginImport(b)
  PROVE  IInv'
<1>1. /\ Acceptable(b) /\ importing' = [bundle |-> b, file |-> Nothing]
      /\ UNCHANGED <<books, revoked, outbound, replica, file, bundles, receipts, ownerKey, keys, used, proofs, pin, late>>
  BY DEF BeginImport, ownerVars, fileVars, keyVars
<1>2. TypeOK'
  BY <1>1 DEF IInv, TypeOK
<1>3. ImportHolds'
  <2>1. /\ Front(b.history) = replica[b.grant]
        /\ Last(b.history) = Notice => replica[b.grant] # <<>> /\ Last(replica[b.grant]) # Notice
    BY <1>1 DEF Acceptable, RevokesAs
  <2> QED BY <1>1, <2>1 DEF ImportHolds
<1> QED BY <1>1, <1>2, <1>3 DEF IInv, KeysFollow, NeverDiverge, ReplicaServesCheckpoint, FilesAreOld, NoticeIsLast, Pending, Sent

(* The file of a revocation is the snapshot that the replica shows. *)
LEMMA PublishKeeps == IInv /\ Publish => IInv'
<1> SUFFICES ASSUME IInv, Publish
             PROVE  IInv'
  OBVIOUS
<1> DEFINE b == importing.bundle
           h == replica[b.grant]
           f == IF Last(b.history) = Notice THEN file[b.grant] ELSE Last(b.history)
<1>1. /\ importing # Nothing /\ importing' = [importing EXCEPT !.file = f]
      /\ UNCHANGED <<books, revoked, outbound, replica, file, bundles, receipts, ownerKey, keys, used, proofs, pin, late>>
  BY DEF Publish, ownerVars, fileVars, keyVars
<1>2. importing \in [bundle: bundles, file: Payloads \cup {Nothing}]
  BY <1>1 DEF IInv, TypeOK
<1>3. /\ b \in bundles /\ b.grant \in Grants /\ b.history \in History /\ b.history # <<>> /\ h \in History
      /\ importing' = [bundle |-> b, file |-> f]
  BY <1>1, <1>2 DEF IInv, TypeOK, Bundle, FilesAreOld
<1>4. /\ Front(b.history) = h
      /\ Last(b.history) = Notice => h # <<>> /\ Last(h) # Notice
  BY <1>1 DEF IInv, ImportHolds
<1>5. f \in Payloads
  <2>1. CASE Last(b.history) = Notice
    <3>1. h # <<>> /\ Last(h) # Notice /\ file[b.grant] = Last(h)
      BY <1>3, <1>4, <2>1 DEF IInv, ReplicaServesCheckpoint, Shown
    <3> QED BY <1>3, <2>1, <3>1, FrontOfHistory DEF Deliveries
  <2>2. CASE Last(b.history) # Notice
    BY <1>3, <2>2, FrontOfHistory DEF Deliveries
  <2> QED BY <2>1, <2>2
<1> HIDE DEF f
<1>6. TypeOK'
  BY <1>1, <1>3, <1>5 DEF IInv, TypeOK
<1>7. ImportHolds'
  BY <1>1, <1>3, <1>4 DEF ImportHolds, f
<1> QED BY <1>1, <1>6, <1>7 DEF IInv, KeysFollow, NeverDiverge, ReplicaServesCheckpoint, FilesAreOld, NoticeIsLast, Pending, Sent

LEMMA CrashKeeps == IInv /\ CrashImport => IInv'
<1> SUFFICES ASSUME IInv, CrashImport
             PROVE  IInv'
  OBVIOUS
<1>1. /\ importing' = Nothing
      /\ UNCHANGED <<books, revoked, outbound, replica, file, bundles, receipts, ownerKey, keys, used, proofs, pin, late>>
  BY DEF CrashImport, ownerVars, fileVars, keyVars
<1>2. TypeOK' /\ ImportHolds'
  BY <1>1 DEF IInv, TypeOK, ImportHolds
<1> QED BY <1>1, <1>2 DEF IInv, KeysFollow, NeverDiverge, ReplicaServesCheckpoint, FilesAreOld, NoticeIsLast, Pending, Sent

(* What is committed is the delivery that the owner waits for. *)
LEMMA CommitKeeps ==
  ASSUME IInv, NEW written \in BOOLEAN, CommitImport(written)
  PROVE  LET g == importing.bundle.grant
         IN  /\ IInv'
             /\ g \in Grants /\ Pending(g) /\ Sent(g) # <<>>
             /\ replica[g] = Front(Sent(g)) /\ replica' = [replica EXCEPT ![g] = Sent(g)]
             /\ Last(Sent(g)) = Notice => replica[g] # <<>>
             /\ UNCHANGED <<books, outbound>>
<1> DEFINE b == importing.bundle
           g == b.grant
           k == b.history
           h == replica[g]
<1>1. /\ importing # Nothing /\ importing.file # Nothing /\ importing' = Nothing
      /\ replica' = [replica EXCEPT ![g] = k] /\ file' = [file EXCEPT ![g] = importing.file]
      /\ receipts' = IF written THEN receipts \cup {ReceiptOf(b)} ELSE receipts
      /\ UNCHANGED <<books, revoked, outbound, bundles, ownerKey, keys, used, proofs, pin, late>>
  BY DEF CommitImport, ownerVars, keyVars
<1>2. importing \in [bundle: bundles, file: Payloads \cup {Nothing}]
  BY <1>1 DEF IInv, TypeOK
<1>3. /\ b \in bundles /\ g \in Grants /\ k \in History /\ k # <<>> /\ h \in History /\ Sent(g) \in History
      /\ importing.file \in Payloads /\ Prefix(k, Sent(g))
  BY <1>1, <1>2 DEF IInv, TypeOK, Bundle, FilesAreOld, Sent
<1>4. /\ Front(k) = h
      /\ Last(k) = Notice => h # <<>> /\ Last(h) # Notice
      /\ importing.file = IF Last(k) = Notice THEN file[g] ELSE Last(k)
  BY <1>1 DEF IInv, ImportHolds
<1>5. h = Sent(g) \/ (Pending(g) /\ Sent(g) # <<>> /\ h = Front(Sent(g)))
  BY <1>3 DEF IInv, NeverDiverge, Sent
<1> HIDE DEF b, g, k, h
<1>6. k = Sent(g) /\ h # Sent(g)
  <2>1. h = Sent(g) \/ (Sent(g) # <<>> /\ h = Front(Sent(g)))
    BY <1>5
  <2> QED BY <1>3, <1>4, <2>1, OnlyTheNextFits
<1>7. Len(k) \in Nat /\ Len(h) = Len(k) - 1 /\ \A i \in 1..Len(k) - 1 : h[i] = k[i]
  BY <1>3, <1>4, FrontOfHistory, HistoryIsSequence
<1>8. ReceiptOf(b) \in Receipt /\ ReceiptOf(b).grant = g /\ ReceiptOf(b).history = k
  BY <1>3 DEF Receipt, ReceiptOf, b, g, k
<1>9. /\ replica'[g] = k /\ file'[g] = importing.file
      /\ \A x \in Grants \ {g} : replica'[x] = replica[x] /\ file'[x] = file[x]
      /\ \A x \in Grants : Sent(x)' = Sent(x) /\ (Pending(x)' <=> Pending(x))
  <2>1. replica \in [Grants -> History] /\ file \in [Grants -> Payloads \cup {Nothing}]
    BY DEF IInv, TypeOK
  <2>2. \A x \in Grants : Sent(x)' = Sent(x) /\ (Pending(x)' <=> Pending(x))
    BY <1>1 DEF Sent, Pending
  <2> QED BY <1>1, <1>3, <2>1, <2>2
<1>10. importing.file = Shown(k)
  <2>1. CASE Last(k) = Notice
    <3>1. h # <<>> /\ file[g] = Last(h)
      BY <1>3, <1>4, <2>1 DEF IInv, ReplicaServesCheckpoint, Shown, h
    <3>2. Last(h) = h[Len(h)] /\ Len(h) \in Nat /\ Len(h) > 0
      BY <1>3, <3>1, FrontOfHistory, HistoryIsSequence
    <3>3. h[Len(h)] = k[Len(k) - 1]
      BY <1>7, <3>2
    <3> QED BY <1>4, <2>1, <3>1, <3>2, <3>3 DEF Shown
  <2> QED BY <1>4, <2>1 DEF Shown
<1>11. TypeOK'
  BY <1>1, <1>3, <1>8 DEF IInv, TypeOK
<1>12. NeverDiverge'
  BY <1>6, <1>9 DEF IInv, NeverDiverge, Sent
<1>13. ReplicaServesCheckpoint'
  BY <1>9, <1>10 DEF IInv, ReplicaServesCheckpoint
<1>14. FilesAreOld'
  <2>1. ASSUME NEW r \in receipts'
        PROVE  Prefix(r.history, replica'[r.grant])
    <3>1. CASE r \in receipts
      <4>1. r.grant \in Grants /\ r.history \in History /\ Prefix(r.history, replica[r.grant])
        BY <3>1 DEF IInv, TypeOK, FilesAreOld, Receipt
      <4>2. CASE r.grant = g
        <5>1. Len(r.history) \in Nat /\ Prefix(r.history, h)
          BY <4>1, <4>2, HistoryIsSequence DEF h
        <5>2. Prefix(r.history, k)
          BY <5>1, <1>7 DEF Prefix
        <5> QED BY <4>2, <5>2, <1>9
      <4> QED BY <4>1, <4>2, <1>9
    <3>2. CASE r = ReceiptOf(b)
      BY <3>2, <1>7, <1>8, <1>9 DEF Prefix
    <3> QED BY <1>1, <2>1, <3>1, <3>2
  <2> QED BY <1>1, <1>9, <2>1 DEF IInv, FilesAreOld, Sent, TypeOK, Bundle
<1>15. KeysFollow' /\ NoticeIsLast' /\ ImportHolds'
  BY <1>1, <1>9 DEF IInv, KeysFollow, NoticeIsLast, ImportHolds
<1>16. IInv'
  BY <1>11, <1>12, <1>13, <1>14, <1>15 DEF IInv
<1> QED BY <1>1, <1>3, <1>4, <1>5, <1>6, <1>16 DEF b, g, k, h

LEMMA AcceptRotationKeeps ==
  ASSUME IInv, NEW p \in proofs, AcceptRotation(p)
  PROVE  IInv'
<1>1. /\ p.to \in used /\ pin' = p.to
      /\ UNCHANGED <<books, revoked, outbound, replica, file, importing, bundles, receipts, ownerKey, keys, used, proofs, late>>
  BY DEF AcceptRotation, ownerVars, recipientVars, fileVars
<1>2. TypeOK' /\ KeysFollow'
  BY <1>1 DEF IInv, TypeOK, KeysFollow, Pending
<1> QED BY <1>1, <1>2 DEF IInv, NeverDiverge, ReplicaServesCheckpoint, FilesAreOld, NoticeIsLast, ImportHolds, Pending, Sent


(***************************************************************************)
(* The invariant                                                           *)
(***************************************************************************)

LEMMA NextIInv == IInv /\ [Next]_vars => IInv'
<1> SUFFICES ASSUME IInv, [Next]_vars
             PROVE  IInv'
  OBVIOUS
<1>1. ASSUME NEW g \in Grants, NEW notice \in BOOLEAN,
             Resend(g, notice) \/ \E w \in BOOLEAN : Export(g, notice, w)
      PROVE  IInv'
  BY <1>1, ResendKeeps, ExportKeeps
<1>2. ASSUME NEW g \in Grants,
             Revoke(g) \/ (\E r \in receipts : Acknowledge(g, r)) \/ \E who \in Sides : Expire(g, who)
      PROVE  IInv'
  BY <1>2, RevokeKeeps, AcknowledgeKeeps, ExpireKeeps
<1>3. ASSUME NEW b \in bundles, Reimport(b) \/ BeginImport(b)
      PROVE  IInv'
  BY <1>3, ReimportKeeps, BeginKeeps
<1>4. ASSUME NEW w \in BOOLEAN, CommitImport(w) \/ Rotate(w)
      PROVE  IInv'
  BY <1>4, CommitKeeps, RotateKeeps
<1>5. CASE UNCHANGED vars
  BY <1>5 DEF vars, ownerVars, recipientVars, fileVars, keyVars, IInv, TypeOK, KeysFollow, NeverDiverge,
    ReplicaServesCheckpoint, FilesAreOld, NoticeIsLast, ImportHolds, Pending, Sent
<1> QED BY <1>1, <1>2, <1>3, <1>4, <1>5, EditKeeps, PublishKeeps, CrashKeeps, AcceptRotationKeeps DEF Next

THEOREM SpecIInv == Spec => []IInv
BY InitIInv, NextIInv, PTL DEF Spec

(* Every variable keeps its type, for every number of grants, deliveries, edits and keys. *)
THEOREM TypeCorrect == Spec => []TypeOK
<1>1. IInv => TypeOK
  BY DEF IInv
<1> QED BY <1>1, SpecIInv, PTL

(* No rotation of the owner's key strands a delivery or a recipient (rotate, accept_rotation). *)
THEOREM RotationsStrandNobody == Spec => []KeysFollow
<1>1. IInv => KeysFollow
  BY DEF IInv
<1> QED BY <1>1, SpecIInv, PTL

(* The recipient is where the last export left it, or one pending delivery behind
   (export, import, acknowledge). *)
THEOREM StoresNeverDiverge == Spec => []NeverDiverge
<1>1. IInv => NeverDiverge
  BY DEF IInv
<1> QED BY <1>1, SpecIInv, PTL

(* The replica's file is the snapshot of its checkpoint (import, open_replica). *)
THEOREM CheckpointIsServed == Spec => []ReplicaServesCheckpoint
<1>1. IInv => ReplicaServesCheckpoint
  BY DEF IInv
<1> QED BY <1>1, SpecIInv, PTL


(***************************************************************************)
(* The stores implement one stream per grant                               *)
(***************************************************************************)

Published == [g \in Grants |-> outbound[g].history]
Acked     == [g \in Grants |-> Len(outbound[g].history) - (IF Pending(g) THEN 1 ELSE 0)]

LEMMA InitStream == Init => Stream!Init
<1> SUFFICES ASSUME Init
             PROVE  Stream!Init
  OBVIOUS
<1>1. Len(<<>>) = 0
  BY EmptySeq
<1> QED BY <1>1 DEF Init, Stream!Init, Pending

(* What leaves outbound, replica and books alone is no step of the stream. *)
LEMMA Stutter == UNCHANGED <<books, outbound, replica>> => UNCHANGED Stream!vars
BY DEF Stream!vars, Pending

LEMMA EditIsEdit == IInv /\ Edit => Stream!Edit
BY DEF Edit, Stream!Edit, Pending, recipientVars

LEMMA ExportIsPublish ==
  ASSUME IInv, NEW g \in Grants, NEW notice \in BOOLEAN, NEW written \in BOOLEAN,
         Export(g, notice, written)
  PROVE  Stream!Publish(g)
<1> DEFINE d == IF notice THEN Notice ELSE books
           h == Sent(g)
<1>1. /\ ~Pending(g) /\ revoked[g] = notice /\ d \in {books, Notice}
      /\ notice => ~RevokesAs(h)
      /\ outbound' = [outbound EXCEPT ![g] = [history |-> Append(h, d), key |-> ownerKey, acked |-> FALSE]]
      /\ UNCHANGED <<books, replica>>
  BY DEF Export, MayExport, Resends, recipientVars, Sent
<1>2. /\ h \in History /\ Len(h) \in Nat /\ d \in Deliveries
      /\ outbound \in [Grants -> [history: History, key: 0..MaxKeys, acked: BOOLEAN]]
  BY HistoryIsSequence DEF IInv, TypeOK, Sent, Deliveries
<1>3. h # <<>> => Last(h) # Notice
  <2>1. ASSUME h # <<>>, Last(h) = Notice
        PROVE  FALSE
    <3>1. h[Len(h)] = Notice /\ Len(h) \in 1..Len(h)
      BY <2>1, <1>2, FrontOfHistory, HistoryIsSequence
    <3>2. revoked[g]
      BY <3>1 DEF IInv, NoticeIsLast, h
    <3> QED BY <1>1, <2>1, <3>2 DEF RevokesAs
  <2> QED BY <2>1
<1>4. Len(Append(h, d)) = Len(h) + 1
  BY <1>2, NextHistory
<1>5. Published[g] = h /\ Acked[g] = Len(h)
  BY <1>1, <1>2 DEF Published, Acked, Sent
<1> HIDE DEF d, h
<1>6. Published' = [Published EXCEPT ![g] = Append(@, d)]
  <2>1. \A x \in Grants : Published'[x] = IF x = g THEN Append(h, d) ELSE Published[x]
    BY <1>1, <1>2 DEF Published
  <2> QED BY <2>1, <1>5 DEF Published
<1>7. Acked' = Acked
  <2>1. Acked'[g] = Len(h)
    BY <1>1, <1>2, <1>4 DEF Acked, Pending
  <2>2. ASSUME NEW x \in Grants, x # g
        PROVE  Acked'[x] = Acked[x]
    BY <1>1, <1>2, <2>2 DEF Acked, Pending
  <2>3. \A x \in Grants : Acked'[x] = Acked[x]
    BY <1>5, <2>1, <2>2
  <2> QED BY <2>3 DEF Acked
<1> QED BY <1>1, <1>3, <1>5, <1>6, <1>7 DEF Stream!Publish, Stream!Last, Last, Published, Acked

LEMMA CommitIsAccept ==
  ASSUME IInv, NEW written \in BOOLEAN, CommitImport(written)
  PROVE  \E g \in Grants : Stream!Accept(g)
<1> DEFINE g == importing.bundle.grant
           h == Sent(g)
<1>1. /\ g \in Grants /\ h # <<>> /\ replica[g] = Front(h) /\ replica' = [replica EXCEPT ![g] = h]
      /\ Last(h) = Notice => replica[g] # <<>>
      /\ UNCHANGED <<books, outbound>>
  BY CommitKeeps
<1>2. h \in History /\ replica \in [Grants -> History]
  BY <1>1 DEF IInv, TypeOK, Sent
<1>3. Published[g] = h /\ Published' = Published /\ Acked' = Acked
  BY <1>1 DEF Published, Acked, Sent, Pending
<1> HIDE DEF g, h
<1>4. Len(h) \in Nat /\ Len(h) > 0 /\ Len(replica[g]) = Len(h) - 1 /\ Last(h) = h[Len(h)]
  BY <1>1, <1>2, FrontOfHistory, HistoryIsSequence
<1>5. h[1] # Notice
  <2>1. CASE h[1] = Notice
    <3>1. 1 = Len(h)
      BY <1>1, <1>4, <2>1 DEF IInv, NoticeIsLast, h
    <3>2. replica[g] # <<>> /\ Len(replica[g]) = 0
      <4>1. Last(h) = Notice
        BY <1>4, <2>1, <3>1
      <4>2. Len(replica[g]) = 0
        BY <1>4, <3>1
      <4> QED BY <1>1, <4>1, <4>2
    <3> QED BY <1>1, <1>2, <3>2, HistoryIsSequence
  <2> QED BY <2>1
<1>6. SubSeq(h, 1, Len(replica[g]) + 1) = h
  <2>1. Len(replica[g]) + 1 = Len(h)
    BY <1>4
  <2>2. /\ SubSeq(h, 1, Len(h)) \in Seq(Deliveries) /\ Len(SubSeq(h, 1, Len(h))) = Len(h)
        /\ \A i \in 1..Len(h) : SubSeq(h, 1, Len(h))[i] = h[i]
    BY <1>2, <1>4, SubSeqProperties, HistoryIsSequence
  <2> QED BY <1>2, <2>1, <2>2, SeqEqual DEF History, Deliveries
<1>7. replica' = [replica EXCEPT ![g] = SubSeq(Published[g], 1, Len(@) + 1)]
  BY <1>1, <1>2, <1>3, <1>6
<1>8. Len(replica[g]) < Len(Published[g]) /\ Published[g][1] # Notice
  BY <1>3, <1>4, <1>5
<1>9. UNCHANGED <<books, Published, Acked>>
  BY <1>1, <1>3
<1>10. Stream!Accept(g)
  BY <1>7, <1>8, <1>9 DEF Stream!Accept, Published, Acked
<1> QED BY <1>1, <1>10

(* A first acknowledgement is one of the stream; another of the same delivery changes nothing. *)
LEMMA AcknowledgeIsAcknowledge ==
  ASSUME IInv, NEW g \in Grants, NEW r \in receipts, Acknowledge(g, r)
  PROVE  Stream!Acknowledge(g) \/ UNCHANGED Stream!vars
<1>1. /\ replica[g] = Sent(g)
      /\ outbound' = [outbound EXCEPT ![g].acked = TRUE]
      /\ UNCHANGED <<books, replica>>
  BY AcknowledgeKeeps DEF Acknowledge, recipientVars
<1>2. /\ outbound \in [Grants -> [history: History, key: 0..MaxKeys, acked: BOOLEAN]]
      /\ Sent(g) \in History /\ Len(Sent(g)) \in Nat
  BY HistoryIsSequence DEF IInv, TypeOK, Sent
<1>3. Published' = Published
  BY <1>1, <1>2 DEF Published
<1>4. Acked' = [Acked EXCEPT ![g] = Len(Sent(g))]
  <2>1. Acked'[g] = Len(Sent(g))
    BY <1>1, <1>2 DEF Acked, Pending, Sent
  <2>2. \A x \in Grants \ {g} : Acked'[x] = Acked[x]
    BY <1>1, <1>2 DEF Acked, Pending
  <2> QED BY <2>1, <2>2 DEF Acked
<1>5. CASE Pending(g)
  <2>1. Acked[g] < Len(replica[g])
    BY <1>1, <1>2, <1>5 DEF Acked, Sent
  <2> QED BY <1>1, <1>3, <1>4, <2>1 DEF Stream!Acknowledge, Published, Acked
<1>6. CASE ~Pending(g)
  <2>1. outbound' = outbound
    BY <1>1, <1>2, <1>6 DEF Pending
  <2> QED BY <1>1, <2>1, Stutter
<1> QED BY <1>5, <1>6

LEMMA StepIsStreamStep == IInv /\ [Next]_vars => [Stream!Next]_(Stream!vars)
<1> SUFFICES ASSUME IInv, [Next]_vars
             PROVE  Stream!Next \/ UNCHANGED Stream!vars
  BY DEF Stream!vars
<1> USE DEF Stream!Next
<1>1. CASE Edit
  BY <1>1, EditIsEdit
<1>2. ASSUME NEW g \in Grants, NEW notice \in BOOLEAN, NEW w \in BOOLEAN, Export(g, notice, w)
      PROVE  Stream!Next
  BY <1>2, ExportIsPublish
<1>3. ASSUME NEW w \in BOOLEAN, CommitImport(w)
      PROVE  Stream!Next
  BY <1>3, CommitIsAccept
<1>4. ASSUME NEW g \in Grants, NEW r \in receipts, Acknowledge(g, r)
      PROVE  Stream!Next \/ UNCHANGED Stream!vars
  BY <1>4, AcknowledgeIsAcknowledge
<1>5. ASSUME NEW g \in Grants,
             Revoke(g) \/ (\E notice \in BOOLEAN : Resend(g, notice)) \/ \E who \in Sides : Expire(g, who)
      PROVE  UNCHANGED Stream!vars
  BY <1>5, Stutter DEF Revoke, Resend, Expire, ownerVars, recipientVars
<1>6. ASSUME NEW b \in bundles, Reimport(b) \/ BeginImport(b)
      PROVE  UNCHANGED Stream!vars
  BY <1>6, Stutter DEF Reimport, BeginImport, ownerVars, recipientVars
<1>7. CASE Publish \/ CrashImport \/ \E w \in BOOLEAN : Rotate(w)
  BY <1>7, Stutter DEF Publish, CrashImport, Rotate, ownerVars, recipientVars
<1>8. ASSUME NEW p \in proofs, AcceptRotation(p)
      PROVE  UNCHANGED Stream!vars
  BY <1>8, Stutter DEF AcceptRotation, ownerVars, recipientVars
<1>9. CASE UNCHANGED vars
  BY <1>9, Stutter DEF vars, ownerVars, recipientVars
<1> QED BY <1>1, <1>2, <1>3, <1>4, <1>5, <1>6, <1>7, <1>8, <1>9 DEF Next

(* Through files that are lost, late and repeated the recipient accepts every delivery
   of a grant in order, once, none that was not published and none after a revocation,
   and the owner goes on only after it knows (export, import, acknowledge). *)
THEOREM StoresImplementStream == Spec => Implements
<1>1. Init => Stream!Init
  BY InitStream
<1>2. IInv /\ [Next]_vars => [Stream!Next]_(Stream!vars)
  BY StepIsStreamStep
<1> QED BY <1>1, <1>2, SpecIInv, PTL DEF Spec, Implements, Stream!Spec

===============================================================================
