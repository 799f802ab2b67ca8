---------------------------- MODULE VaultSharing ----------------------------
(***************************************************************************)
(* Sharing a read-only copy of a vault by files that people carry, as      *)
(* crates/means-sharing/src/store.rs does it.  Owner and recipient each    *)
(* have a trust store; every operation is one immediate transaction of a   *)
(* store, plus files it writes before or after the commit, so that a crash *)
(* can fall in between.  A file written once can be lost, delivered late,  *)
(* or delivered again: files never disappear from `bundles` and `receipts`,*)
(* and an operation may fail to write its own.                             *)
(*                                                                         *)
(* A manifest names the digest of its predecessor, so a digest is modelled *)
(* by the history it commits to: the payloads of the grant's deliveries in *)
(* order.  The history is empty before the first; its length is the        *)
(* revision.                                                               *)
(***************************************************************************)
EXTENDS Naturals, Sequences, SequencesExt

CONSTANTS Grants,        \* the owner's grants, to one recipient each
          Notice,        \* the payload of a revocation, which has no snapshot
          Nothing,       \* no file, no import
          MaxEdits,      \* bound: versions of the books
          MaxRevisions,  \* bound: deliveries of each grant
          MaxKeys        \* bound: keys the owner generates

ASSUME PayloadAssumption == Notice \notin Nat /\ Nothing \notin Nat /\ Notice # Nothing
ASSUME BoundAssumption   == MaxRevisions \in [Grants -> Nat] /\ {MaxEdits, MaxKeys} \subseteq Nat

VARIABLES books,      \* the version of the owner's books
          revoked,    \* grants: revoked
          outbound,   \* the row of the owner's outbound table: the last export
          replica,    \* recipient's checkpoint: the history it accepted
          file,       \* what the file holds that the replica row points to
          importing,  \* the import in progress at the recipient
          bundles,    \* bundle files that were written somewhere
          receipts,   \* receipt files that were written somewhere
          ownerKey,   \* the owner's current key
          keys,       \* the last key the owner generated
          used,       \* the keys that were the owner's at some time
          proofs,     \* rotation proofs that were written
          pin,        \* the owner's key as the recipient has it pinned
          late        \* whose clock is past the expiry of a grant

ownerVars     == <<books, revoked, outbound>>
recipientVars == <<replica, file, importing>>
fileVars      == <<bundles, receipts>>
keyVars       == <<ownerKey, keys, used, proofs, pin>>
vars          == <<ownerVars, recipientVars, fileVars, keyVars, late>>

Payloads == 0..MaxEdits
History  == Seq(Payloads \cup {Notice})
Bundle   == [grant: Grants, history: History, key: 0..MaxKeys]
Receipt  == [grant: Grants, history: History]

Init ==
  /\ books    = 0
  /\ revoked  = [g \in Grants |-> FALSE]
  /\ outbound = [g \in Grants |-> [history |-> <<>>, key |-> 0, acked |-> TRUE]]
  /\ replica  = [g \in Grants |-> <<>>]
  /\ file     = [g \in Grants |-> Nothing]
  /\ importing = Nothing
  /\ bundles  = {} /\ receipts = {}
  /\ ownerKey = 0 /\ keys = 0 /\ used = {0} /\ proofs = {} /\ pin = 0
  /\ late     = [g \in Grants |-> {}]

Pending(g)    == ~outbound[g].acked
RevokesAs(h)  == h # <<>> /\ Last(h) = Notice
BundleOf(g)   == [grant |-> g, history |-> outbound[g].history, key |-> outbound[g].key]

(***************************************************************************)
(* The owner                                                               *)
(***************************************************************************)

(* Any change of the shared books. *)
Edit ==
  /\ books < MaxEdits
  /\ books' = books + 1
  /\ UNCHANGED <<revoked, outbound, recipientVars, fileVars, keyVars, late>>

Revoke(g) ==
  /\ ~revoked[g]
  /\ revoked' = [revoked EXCEPT ![g] = TRUE]
  /\ UNCHANGED <<books, outbound, recipientVars, fileVars, keyVars, late>>

(* export, for a snapshot or (`notice`) a revocation. *)
MayExport(g, notice) == revoked[g] = notice /\ (notice \/ "owner" \notin late[g])

(* A pending export is kept for retries, and a revocation for good. *)
Resends(g, notice) == Pending(g) \/ (notice /\ RevokesAs(outbound[g].history))

(* export of what is kept: the same bytes, to a new destination. *)
Resend(g, notice) ==
  /\ MayExport(g, notice)
  /\ Resends(g, notice)
  /\ RevokesAs(outbound[g].history) = notice
  /\ bundles' = bundles \cup {BundleOf(g)}
  /\ UNCHANGED <<ownerVars, recipientVars, receipts, keyVars, late>>

(* export of the next revision: the bundle is kept and the row committed before
   the destination is written, which may fail. *)
Export(g, notice, written) ==
  /\ MayExport(g, notice)
  /\ ~Resends(g, notice)
  /\ Len(outbound[g].history) < MaxRevisions[g]
  /\ outbound' = [outbound EXCEPT ![g] =
                    [history |-> Append(@.history, IF notice THEN Notice ELSE books),
                     key     |-> ownerKey,
                     acked   |-> FALSE]]
  /\ bundles' = IF written THEN bundles \cup {BundleOf(g)'} ELSE bundles
  /\ UNCHANGED <<books, revoked, recipientVars, receipts, keyVars, late>>

(* Slip caught by NeverDiverge: a receipt of an earlier revision counts. *)
AcknowledgeAny(g, r) ==
  /\ r \in receipts /\ r.grant = g
  /\ outbound' = [outbound EXCEPT ![g].acked = TRUE]
  /\ UNCHANGED <<books, revoked, recipientVars, fileVars, keyVars, late>>

(* acknowledge: only a receipt for the current export counts. *)
Acknowledge(g, r) ==
  /\ r \in receipts /\ r.grant = g
  /\ r.history = outbound[g].history
  /\ outbound' = [outbound EXCEPT ![g].acked = TRUE]
  /\ UNCHANGED <<books, revoked, recipientVars, fileVars, keyVars, late>>

(* Slip caught by KeysFollow: only snapshots are waited for. *)
SnapshotsSettled == \A g \in Grants : Pending(g) => RevokesAs(outbound[g].history)

Settled == \A g \in Grants : ~Pending(g)

(* rotate: refused while any delivery is pending.  The proof, signed with the
   old key, is written before the commit; a crash in between leaves a proof for
   a key that never becomes the owner's. *)
Rotate(committed) ==
  /\ Settled
  /\ keys < MaxKeys
  /\ keys'   = keys + 1
  /\ proofs' = proofs \cup {[from |-> ownerKey, to |-> keys + 1]}
  /\ IF committed THEN ownerKey' = keys + 1 /\ used' = used \cup {keys + 1}
                  ELSE UNCHANGED <<ownerKey, used>>
  /\ UNCHANGED <<ownerVars, recipientVars, fileVars, pin, late>>

(***************************************************************************)
(* The recipient                                                           *)
(***************************************************************************)

ReceiptOf(b) == [grant |-> b.grant, history |-> b.history]

(* Slip caught by DeliverySettles: a repeated import does nothing at all. *)
ReimportSilently(b) ==
  /\ importing = Nothing
  /\ b.key = pin
  /\ b.history = replica[b.grant]
  /\ UNCHANGED vars

(* import of the delivery that is already the checkpoint: only the receipt is
   written again. *)
Reimport(b) ==
  /\ importing = Nothing
  /\ b.key = pin
  /\ b.history = replica[b.grant]
  /\ receipts' = receipts \cup {ReceiptOf(b)}
  /\ UNCHANGED <<ownerVars, recipientVars, bundles, keyVars, late>>

(* Slip caught by Implements: the predecessor is not compared. *)
AcceptableAnyRevision(b) ==
  /\ b.key = pin
  /\ replica[b.grant] = <<>> => Last(b.history) # Notice
  /\ ~RevokesAs(replica[b.grant])
  /\ Last(b.history) = Notice \/ "recipient" \notin late[b.grant]

(* Slip caught by RevocationArrives: a revocation must be in time, too. *)
AcceptableInTime(b) ==
  /\ b.key = pin
  /\ Front(b.history) = replica[b.grant]
  /\ replica[b.grant] = <<>> => Last(b.history) # Notice
  /\ ~RevokesAs(replica[b.grant])
  /\ "recipient" \notin late[b.grant]

(* What import requires of a delivery it has not accepted: the pinned key, the
   checkpoint as its predecessor, a snapshot first, nothing after a revocation,
   and a snapshot in time. *)
Acceptable(b) ==
  LET checkpoint == replica[b.grant]
  IN
  /\ b.key = pin
  /\ Front(b.history) = checkpoint
  /\ checkpoint = <<>> => Last(b.history) # Notice
  /\ ~RevokesAs(checkpoint)
  /\ Last(b.history) = Notice \/ "recipient" \notin late[b.grant]

(* import begins: the checks, and an empty file under a new name.  The immediate
   transaction keeps every other writer of this store out until it ends. *)
BeginImport(b) ==
  /\ importing = Nothing
  /\ b.history # replica[b.grant]
  /\ Acceptable(b)
  /\ importing' = [bundle |-> b, file |-> Nothing]
  /\ UNCHANGED <<ownerVars, replica, file, fileVars, keyVars, late>>

(* Slip caught by TypeOK: a revocation is installed like a snapshot. *)
PublishAnything ==
  /\ importing # Nothing
  /\ importing.file = Nothing
  /\ importing' = [importing EXCEPT !.file = Last(importing.bundle.history)]
  /\ UNCHANGED <<ownerVars, replica, file, fileVars, keyVars, late>>

(* install into the new file, and sync.  A revocation keeps the old file. *)
Publish ==
  /\ importing # Nothing
  /\ importing.file = Nothing
  /\ importing' = [importing EXCEPT !.file =
                     IF Last(importing.bundle.history) = Notice THEN file[importing.bundle.grant]
                     ELSE Last(importing.bundle.history)]
  /\ UNCHANGED <<ownerVars, replica, file, fileVars, keyVars, late>>

(* Slip caught by ReplicaServesCheckpoint: the commit does not wait for the file. *)
CommitEarly(written) ==
  /\ importing # Nothing
  /\ LET b == importing.bundle
     IN  /\ replica'  = [replica EXCEPT ![b.grant] = b.history]
         /\ file'     = [file EXCEPT ![b.grant] = importing.file]
         /\ receipts' = IF written THEN receipts \cup {ReceiptOf(b)} ELSE receipts
  /\ importing' = Nothing
  /\ UNCHANGED <<ownerVars, bundles, keyVars, late>>

(* The commit moves checkpoint and pointer together; the receipt follows and
   may fail to be written. *)
CommitImport(written) ==
  /\ importing # Nothing
  /\ importing.file # Nothing
  /\ LET b == importing.bundle
     IN  /\ replica'  = [replica EXCEPT ![b.grant] = b.history]
         /\ file'     = [file EXCEPT ![b.grant] = importing.file]
         /\ receipts' = IF written THEN receipts \cup {ReceiptOf(b)} ELSE receipts
  /\ importing' = Nothing
  /\ UNCHANGED <<ownerVars, bundles, keyVars, late>>

(* A crash or a failed install: the transaction is gone, the file unreferenced. *)
CrashImport ==
  /\ importing # Nothing
  /\ importing' = Nothing
  /\ UNCHANGED <<ownerVars, replica, file, fileVars, keyVars, late>>

(* Slip caught by KeysFollow: any proof by the pinned key is accepted. *)
AcceptAnyRotation(p) ==
  /\ importing = Nothing
  /\ p.from = pin
  /\ pin' = p.to
  /\ UNCHANGED <<ownerVars, recipientVars, fileVars, ownerKey, keys, used, proofs, late>>

(* accept_rotation: the proof is signed with the pinned key, and the operator
   confirms a fingerprint that the owner really used. *)
AcceptRotation(p) ==
  /\ importing = Nothing
  /\ p.from = pin
  /\ p.to \in used
  /\ pin' = p.to
  /\ UNCHANGED <<ownerVars, recipientVars, fileVars, ownerKey, keys, used, proofs, late>>

(* The two clocks pass the expiry of a grant, each on its own. *)
Expire(g, who) ==
  /\ who \notin late[g]
  /\ late' = [late EXCEPT ![g] = @ \cup {who}]
  /\ UNCHANGED <<ownerVars, recipientVars, fileVars, keyVars>>

Sides == {"owner", "recipient"}

Next ==
  \/ Edit
  \/ \E g \in Grants :
       \/ Revoke(g)
       \/ \E notice \in BOOLEAN : Resend(g, notice) \/ \E w \in BOOLEAN : Export(g, notice, w)
       \/ \E r \in receipts : Acknowledge(g, r)
       \/ \E who \in Sides : Expire(g, who)
  \/ \E b \in bundles : Reimport(b) \/ BeginImport(b)
  \/ Publish \/ CrashImport
  \/ \E w \in BOOLEAN : CommitImport(w) \/ Rotate(w)
  \/ \E p \in proofs : AcceptRotation(p)

Spec == Init /\ [][Next]_vars

(***************************************************************************)
(* Properties                                                              *)
(***************************************************************************)

(* Every variable has its type. *)
TypeOK ==
  /\ books \in Payloads
  /\ revoked  \in [Grants -> BOOLEAN]
  /\ outbound \in [Grants -> [history: History, key: 0..MaxKeys, acked: BOOLEAN]]
  /\ replica  \in [Grants -> History]
  /\ file     \in [Grants -> Payloads \cup {Nothing}]
  /\ importing = Nothing \/ importing \in [bundle: bundles, file: Payloads \cup {Nothing}]
  /\ bundles \subseteq Bundle /\ receipts \subseteq Receipt
  /\ ownerKey \in used /\ pin \in used /\ keys \in 0..MaxKeys /\ used \subseteq 0..keys
  /\ proofs \subseteq [from: used, to: 1..keys]
  /\ late \in [Grants -> SUBSET Sides]

(* Whatever is lost, delayed, repeated or cut short by a crash, the recipient is
   where the owner's last export left it, or one delivery behind one that is
   still pending; what is acknowledged was accepted (export, import, acknowledge). *)
NeverDiverge ==
  \A g \in Grants :
    \/ replica[g] = outbound[g].history
    \/ Pending(g) /\ outbound[g].history # <<>> /\ replica[g] = Front(outbound[g].history)

(* The snapshot in a history that a replica shows: a revocation keeps the one
   before it. *)
Shown(h) == IF Last(h) = Notice THEN h[Len(h) - 1] ELSE Last(h)

(* The replica's pointer names a complete file with the snapshot of the accepted
   checkpoint: a checkpoint never runs ahead of its published payload, and a
   revocation leaves the received copy readable (import, open_replica). *)
ReplicaServesCheckpoint == \A g \in Grants : replica[g] # <<>> => file[g] = Shown(replica[g])

(* Rotations strand nobody, crashes of rotate included: a pending bundle is signed with
   the key that the owner still has, and a recipient that pinned any earlier key finds a
   proof for a later one the owner really used, and never pins another (rotate,
   accept_rotation). *)
KeysFollow ==
  /\ \A g \in Grants : Pending(g) => outbound[g].key = ownerKey
  /\ pin \in used
  /\ \A k \in used \ {ownerKey} : \E p \in proofs : p.from = k /\ p.to \in used /\ p.to > k

(* Each grant is a stream: the recipient accepts every delivery, in order, once,
   and nothing after a revocation; the owner never runs ahead of what it knows. *)
Stream == INSTANCE ReplicaStream WITH
  published <- [g \in Grants |-> outbound[g].history],
  accepted  <- replica,
  acked     <- [g \in Grants |-> Len(outbound[g].history) - (IF Pending(g) THEN 1 ELSE 0)]

Implements == Stream!Spec

(* A pending delivery is settled in the end: its receipt arrives, unless the
   grant is revoked or expires first (import writes the receipt again, export
   the bundle). *)
DeliverySettles ==
  \A g \in Grants : Pending(g) ~> (~Pending(g) \/ revoked[g] \/ late[g] # {})

(* A revocation that was exported after an accepted snapshot is acknowledged in
   the end, whatever the clocks say (import). *)
RevocationArrives ==
  \A g \in Grants :
    (RevokesAs(outbound[g].history) /\ Len(outbound[g].history) > 1) ~> ~Pending(g)

(* The claim of docs/vault-sharing-usage.md: "Before acknowledgement, exporting
   again returns the same pending bundle."  A call of export writes it again. *)
PendingCanBeResent ==
  \A g \in Grants : Pending(g) =>
    \E notice \in BOOLEAN : MayExport(g, notice) /\ RevokesAs(outbound[g].history) = notice
==============================================================================
