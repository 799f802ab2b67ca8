---------------------------- MODULE MailDelivery ----------------------------
(***************************************************************************)
(* Statements that arrive by mail: `means email pull` reads a mailbox       *)
(* (poll in crates/means-server/src/email.rs), stores every message and      *)
(* publishes its attachments in the inbox (deliver in                        *)
(* crates/means-core/src/imports/email.rs), where the running server takes   *)
(* them (scan and take_file in imports/inbox.rs).                            *)
(*                                                                         *)
(* Polls come from a scheduler and may overlap; each is a process that may   *)
(* die anywhere, and the server takes files while they are being delivered.  *)
(* A message is named by the checksum of its content, and an attachment by   *)
(* its message and its part, so that two files of one name never differ.     *)
(***************************************************************************)
EXTENDS Naturals, Sequences, FiniteSets

CONSTANTS Messages,   \* numbers that order the messages of the mailbox
          Contents,   \* message -> contents of its attachments, part by part
          Broken,     \* messages that extract refuses (size, budget, encoding)
          Statements, \* contents whose name the inbox takes for a statement
          Pollers,
          MaxDeaths   \* bound on processes that die

Attachments == UNION {{Contents[m][i] : i \in DOMAIN Contents[m]} : m \in Messages}

ASSUME MailConstants ==
  /\ Messages \subseteq Nat /\ Broken \subseteq Messages
  /\ DOMAIN Contents = Messages
  /\ \A m \in Messages : Contents[m] \in Seq(Attachments)

Files == UNION {{m} \X DOMAIN Contents[m] : m \in Messages}
ContentOf(f) == Contents[f[1]][f[2]]

VARIABLES mailbox,  \* messages the mail server has now
          evidence, \* messages stored under .email/
          receipts, \* messages whose receipt is stored
          inbox,    \* attachments in the folder
          taken,    \* content -> rows of imports that took it
          scanning, \* file of which the server has made a row and which it has not moved yet
          poll,     \* poller -> what it is doing
          deaths

vars == <<mailbox, evidence, receipts, inbox, taken, scanning, poll, deaths>>

Away == [step |-> "away"]
NoFile == <<0, 0>>

Init ==
  /\ mailbox = {} /\ evidence = {} /\ receipts = {} /\ inbox = {}
  /\ taken = [c \in Attachments |-> 0]
  /\ scanning = NoFile
  /\ poll = [p \in Pollers |-> Away]
  /\ deaths = 0

(* Mail comes, and other clients move or delete it. *)
MailComesOrGoes(m) ==
  /\ mailbox' = IF m \in mailbox THEN mailbox \ {m} ELSE mailbox \cup {m}
  /\ UNCHANGED <<evidence, receipts, inbox, taken, scanning, poll, deaths>>

(***************************************************************************)
(* A poll                                                                  *)
(***************************************************************************)

(* All messages, read or not, in the order of their numbers. *)
Begin(p) ==
  /\ poll[p] = Away
  /\ poll' = [poll EXCEPT ![p] = [step |-> "next", todo |-> mailbox]]
  /\ UNCHANGED <<mailbox, evidence, receipts, inbox, taken, scanning, deaths>>

Next1(p) == CHOOSE m \in poll[p].todo : \A n \in poll[p].todo : m <= n
Later(p) == [step |-> "next", todo |-> poll[p].todo \ {Next1(p)}]

End(p) ==
  /\ poll[p].step = "next" /\ poll[p].todo = {}
  /\ poll' = [poll EXCEPT ![p] = Away]
  /\ UNCHANGED <<mailbox, evidence, receipts, inbox, taken, scanning, deaths>>

(* A message that has gone, is too large, cannot be read, or already has its receipt. *)
Skip(p) ==
  /\ poll[p].step = "next" /\ poll[p].todo # {}
  /\ Next1(p) \notin mailbox \/ Next1(p) \in Broken \/ Next1(p) \in receipts
  /\ poll' = [poll EXCEPT ![p] = Later(p)]
  /\ UNCHANGED <<mailbox, evidence, receipts, inbox, taken, scanning, deaths>>

(* Before anything is written every part has been decoded; the message comes first. *)
StoreMessage(p) ==
  /\ poll[p].step = "next" /\ poll[p].todo # {}
  /\ Next1(p) \in mailbox \ (Broken \cup receipts)
  /\ evidence' = evidence \cup {Next1(p)}
  /\ poll' = [poll EXCEPT ![p] = [step |-> "publish", todo |-> poll[p].todo, part |-> 1]]
  /\ UNCHANGED <<mailbox, receipts, inbox, taken, scanning, deaths>>

(* publish_file: a file appears at once, complete; one that is there already is left. *)
Publish(p) ==
  /\ poll[p].step = "publish" /\ poll[p].part <= Len(Contents[Next1(p)])
  /\ inbox' = inbox \cup {<<Next1(p), poll[p].part>>}
  /\ poll' = [poll EXCEPT ![p].part = @ + 1]
  /\ UNCHANGED <<mailbox, evidence, receipts, taken, scanning, deaths>>

(* The receipt follows the files. *)
Complete(p) == poll[p].part > Len(Contents[Next1(p)])
(* Slip caught by NothingLost: the receipt is as old as the stored message. *)
Stored(p) == Next1(p) \in evidence
MayConfirm(p) == Complete(p)
Receipt(p) ==
  /\ poll[p].step = "publish" /\ MayConfirm(p)
  /\ receipts' = receipts \cup {Next1(p)}
  /\ poll' = [poll EXCEPT ![p] = Later(p)]
  /\ UNCHANGED <<mailbox, evidence, inbox, taken, scanning, deaths>>

Die(p) ==
  /\ poll[p] # Away /\ deaths < MaxDeaths
  /\ poll' = [poll EXCEPT ![p] = Away] /\ deaths' = deaths + 1
  /\ UNCHANGED <<mailbox, evidence, receipts, inbox, taken, scanning>>

(***************************************************************************)
(* The server takes what is in the folder                                  *)
(***************************************************************************)

Known(f) == taken[ContentOf(f)] > 0
(* Slip caught by ProcessedOnce: content counts as taken only once the receipt of the
   message that brought it is there. *)
Confirmed(f) == f[1] \in receipts /\ Known(f)
AlreadyTaken(f) == Known(f)

(* Content that has a row is only moved; other content gets one, imported, pending or
   failed, if the stored message proves the name. *)
Take(f) ==
  /\ scanning = NoFile /\ f \in inbox /\ ContentOf(f) \in Statements
  /\ IF AlreadyTaken(f) THEN UNCHANGED taken
     ELSE f[1] \in evidence /\ taken' = [taken EXCEPT ![ContentOf(f)] = @ + 1]
  /\ scanning' = f
  /\ UNCHANGED <<mailbox, evidence, receipts, inbox, poll, deaths>>

Stash ==
  /\ scanning # NoFile
  /\ inbox' = inbox \ {scanning} /\ scanning' = NoFile
  /\ UNCHANGED <<mailbox, evidence, receipts, taken, poll, deaths>>

ServerDies ==
  /\ scanning # NoFile /\ deaths < MaxDeaths
  /\ scanning' = NoFile /\ deaths' = deaths + 1
  /\ UNCHANGED <<mailbox, evidence, receipts, inbox, taken, poll>>

Next ==
  \/ \E m \in Messages : MailComesOrGoes(m)
  \/ \E p \in Pollers :
       \/ Begin(p) \/ End(p) \/ Skip(p)
       \/ StoreMessage(p) \/ Publish(p) \/ Receipt(p) \/ Die(p)
  \/ \E f \in Files : Take(f)
  \/ Stash
  \/ ServerDies

Spec == Init /\ [][Next]_vars

TypeOK ==
  /\ mailbox \subseteq Messages /\ evidence \subseteq Messages /\ receipts \subseteq Messages
  /\ inbox \subseteq Files /\ scanning \in Files \cup {NoFile}
  /\ \A c \in DOMAIN taken : taken[c] \in Nat
  /\ \A p \in Pollers : poll[p] = Away \/ poll[p].step \in {"next", "publish"}

(* A message with a receipt is never delivered again, so all of it must have arrived: the
   message itself, and every attachment either in the folder or, taken from there, in the
   ledger, whoever died or polled at the same time. *)
NothingLost ==
  \A m \in receipts : m \in evidence /\
    \A i \in DOMAIN Contents[m] : <<m, i>> \in inbox \/ taken[Contents[m][i]] > 0

(* What may be published again after a death, or attached to two messages, is recorded once,
   and every file of the folder has the message that proves its name. *)
ProcessedOnce ==
  /\ \A c \in DOMAIN taken : taken[c] <= 1
  /\ \A f \in inbox : f[1] \in evidence
==============================================================================
