------------------------------ MODULE MCProgress ------------------------------
(***************************************************************************)
(* What must happen in the end, on small instances of three components:     *)
(* bank jobs of a server (Connections), and what people take up again,      *)
(* shared snapshots (VaultSharing) and schedules (Templates).  focus names  *)
(* the one that a behaviour is about; the others stay as they begin.        *)
(***************************************************************************)
EXTENDS Connections, Integers, TLC

CONSTANTS g, Notice, Nothing,             \* a grant; see VaultSharing
          Home, Foreign, NoRate, Unstated, Refused, \* see Amounts
          checking, uncategorized, exchange,        \* accounts
          MaxFaults                       \* bound: runs of the schedules that fail or die

VARIABLES focus, faults,
  books, revoked, outbound, replica, file, importing, bundles, receipts,
  ownerKey, keys, used, proofs, pin, late,
  template, entry, lock, run, booked

(* One grant, three deliveries, one rotation. *)
Shared == INSTANCE VaultSharing WITH
  Grants <- {g}, MaxEdits <- 0, MaxKeys <- 1,
  MaxRevisions <- [x \in {g} |-> 3]

Line(a, method, value, of) == [account |-> a, method |-> method, value |-> value, of |-> of]

Fixed == <<Line(checking, "fixed", -3, 0), Line(uncategorized, "balance", Unstated, 0)>>
(* Lines that cannot be resolved. *)
Ring  == <<Line(checking, "input", -3, 0), Line(uncategorized, "percent_of", 10, 3),
           Line(uncategorized, "percent_of", 10, 2)>>

(* Two daily schedules over two days. *)
Scheduled == INSTANCE Templates WITH
  Accounts <- {checking, uncategorized, exchange}, Commodity <- [a \in {checking, uncategorized, exchange} |-> Home],
  FxGainLoss <- exchange, Rate <- <<1, 1>>, MaxMinor <- 9, Bank <- checking, Suspense <- uncategorized,
  Templates <- {1, 2}, Layouts <- {Fixed, Ring}, Every <- {1}, Starts <- {1}, Ends <- {0},
  Auto <- {FALSE}, LastDay <- 2, Limit <- 1, Entries <- 1..4, MaxVersion <- 1,
  Values <- {}, ByHand <- {}, Legs <- {}

shared    == <<books, revoked, outbound, replica, file, importing, bundles, receipts,
               ownerKey, keys, used, proofs, pin, late>>
scheduled == <<template, entry, lock, run, booked>>
all       == <<focus, faults, vars, shared, scheduled>>

Begins ==
  /\ focus \in {"jobs", "sharing", "schedules"} /\ faults = 0
  /\ Init /\ Shared!Init /\ Scheduled!Init

JobsStep    == focus = "jobs" /\ Next /\ UNCHANGED <<focus, faults, shared, scheduled>>
SharingStep == focus = "sharing" /\ Shared!Next /\ UNCHANGED <<focus, faults, vars, scheduled>>

RunsGoOn ==
  /\ focus = "schedules"
  /\ Scheduled!Keep \/ Scheduled!RunSchedules(2) \/ Scheduled!GoesOn
  /\ UNCHANGED <<focus, faults, vars, shared>>

RunStops ==
  /\ focus = "schedules" /\ faults < MaxFaults /\ Scheduled!Stop
  /\ faults' = faults + 1
  /\ UNCHANGED <<focus, vars, shared>>

Move == JobsStep \/ SharingStep \/ RunsGoOn \/ RunStops

(* Threads run and provider calls end: every HTTP client has a timeout of 90 seconds,
   and a browser has ten minutes. *)
JobsGoOn ==
  /\ \A j \in Jobs : WF_vars(focus = "jobs" /\ JobStep(j))
  /\ \A c \in Clients :
       WF_vars(focus = "jobs" /\ (ClientStep(c) \/ \E j \in Jobs, kind \in Kinds : Start(c, j, kind)))

(* Owner and recipient do not give up: the owner writes the pending bundle again and
   reads the receipts, the recipient imports what it holds, also after a crash, and
   confirms the key the owner uses.  Nobody has to revoke, edit, export anew or rotate,
   and clocks need not pass the expiry. *)
PeopleGoOn ==
  /\ WF_shared(focus = "sharing" /\ \E notice \in BOOLEAN : Shared!Resend(g, notice))
  /\ WF_shared(focus = "sharing" /\ \E r \in receipts : Shared!Acknowledge(g, r))
  /\ SF_shared(focus = "sharing" /\ \E b \in bundles : Shared!BeginImport(b))
  /\ SF_shared(focus = "sharing" /\ \E b \in bundles : Shared!Reimport(b))
  /\ SF_shared(focus = "sharing" /\ Shared!Publish)
  /\ SF_shared(focus = "sharing" /\ \E w \in BOOLEAN : Shared!CommitImport(w))
  /\ SF_shared(focus = "sharing" /\ \E p \in proofs : Shared!AcceptRotation(p))

(* Somebody runs the schedules again and again, and a run that nothing stops finishes.  No
   timer does: "Scheduled templates run through an explicit schedule command"
   (docs/data-model.md:65), which calls RunSchedules (grpc.rs). *)
RunsRepeat ==
  /\ WF_scheduled(focus = "schedules" /\ Scheduled!RunSchedules(2))
  /\ WF_scheduled(focus = "schedules" /\ Scheduled!GoesOn)

System == Begins /\ [][Move]_all /\ JobsGoOn /\ PeopleGoOn /\ RunsRepeat

(* Every pending delivery settles and every revocation arrives; see VaultSharing. *)
DeliverySettles == Shared!DeliverySettles /\ Shared!RevocationArrives

(* What is due is booked in the end, if somebody runs the schedules again and again; see
   Templates. *)
DueIsBooked == Scheduled!DueIsBooked
==============================================================================
