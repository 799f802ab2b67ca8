------------------------------ MODULE Consents ------------------------------
(***************************************************************************)
(* Consents to read accounts at a bank (Enable Banking, the server's        *)
(* enable_banking.rs and imports/enable_banking.rs): authorization in the   *)
(* browser with a local callback, discovery of accounts, and pulls over all *)
(* saved consents that publish one file per account and currency.           *)
(*                                                                         *)
(* The bank's answers about one account (transactions, its continuation     *)
(* keys) arrive as a whole or fail.  A file is known by what it holds.      *)
(***************************************************************************)
EXTENDS Integers, Sequences, FiniteSets, FiniteSetsExt

CONSTANTS Consents,   \* consents by age: a larger one was saved later
          Accounts,   \* stable identities (identification_hash)
          Units,      \* currencies
          Home,       \* account -> its currency, as a set: empty when it has several
          Reaches,    \* consent -> accounts that it reaches
          Movements,  \* bookings
          AccountOf, UnitOf, DayOf, \* of a booking
          Cutoffs,    \* saved booking cutoffs, 0 for none
          MaxFiles, MaxFlows, Crashes

Refs == Accounts \X Units

VARIABLES saved,    \* consents in enable_banking_sessions
          valid,    \* consents that the bank still honours
          routes,   \* rows of channel_connections: ref -> [consent, cutoff, stamped]
          files,    \* files published so far, in order: [ref, holds, pull]
          pull,     \* the pull that runs
          flow,     \* the authorization that runs
          heard,    \* what the browser was told, for each callback answered
          flows     \* authorizations so far

vars == <<saved, valid, routes, files, pull, flow, heard, flows>>
flowVars == <<flow, heard, flows>>

NoPull == [step |-> "idle"]
NoFlow == [step |-> "idle"]

(* Consents may have been saved before. *)
Init ==
  /\ saved \in SUBSET (Consents \ {Max(Consents)}) /\ valid \in SUBSET saved
  /\ routes = <<>> /\ files = <<>>
  /\ pull = NoPull /\ flow = NoFlow /\ heard = {} /\ flows = 0

(***************************************************************************)
(* Authorization                                                           *)
(***************************************************************************)

(* connect_flow up to the browser: a fresh state, a listener, a sender for one code. *)
Authorize(c) ==
  /\ flow = NoFlow /\ flows < MaxFlows /\ c \notin saved
  /\ flow' = [step |-> "waiting", consent |-> c, sender |-> TRUE, code |-> "none", state |-> flows]
  /\ flows' = flows + 1
  /\ UNCHANGED <<saved, valid, routes, files, pull, heard>>

(* Slip caught by CodeOnce: the sender stays, a second callback replaces the code. *)
Resend(s, code) ==
  /\ flow.step \in {"waiting", "stopping"} /\ s = flow.state
  /\ flow' = [flow EXCEPT !.code = IF flow.step = "waiting" THEN code ELSE @]
  /\ heard' = heard \cup {<<s, code, "received">>}
  /\ UNCHANGED <<saved, valid, routes, files, pull, flows>>

(* callback: another state is refused; the first answer takes the sender, what comes later
   is told that the callback was used. *)
Callback(s, code) ==
  /\ flow.step \in {"waiting", "stopping"} /\ s = flow.state
  /\ IF flow.sender
     THEN /\ flow' = [flow EXCEPT !.sender = FALSE, !.code = IF flow.step = "waiting" THEN code ELSE @]
          /\ heard' = heard \cup {<<s, code, "received">>}
     ELSE UNCHANGED flow /\ heard' = heard \cup {<<s, code, "used">>}
  /\ UNCHANGED <<saved, valid, routes, files, pull, flows>>

(* The code has come, or ten minutes have passed; the listener closes a moment later. *)
StopListening ==
  /\ flow.step = "waiting"
  /\ flow' = [flow EXCEPT !.step = "stopping"]
  /\ UNCHANGED <<saved, valid, routes, files, pull, heard, flows>>

(* The code is exchanged for a consent with accounts, and its identifier saved. *)
Redeem ==
  /\ flow.step = "stopping" /\ flow.code = "granted"
  /\ Reaches[flow.consent] # {}
  /\ saved' = saved \cup {flow.consent} /\ valid' = valid \cup {flow.consent}
  /\ flow' = NoFlow
  /\ UNCHANGED <<routes, files, pull, heard, flows>>

(* Declined, timed out, or the exchange fails. *)
GiveUp ==
  /\ flow.step = "stopping"
  /\ flow' = NoFlow
  /\ UNCHANGED <<saved, valid, routes, files, pull, heard, flows>>

(* The consent runs out, or the user withdraws it at the bank. *)
Expire(c) ==
  /\ c \in valid
  /\ valid' = valid \ {c}
  /\ UNCHANGED <<saved, routes, files, pull, flowVars>>

(***************************************************************************)
(* Discovery and preferences                                               *)
(***************************************************************************)

NoRoute == [consent |-> 0, cutoff |-> 0, stamped |-> FALSE]
Route(r) == IF r \in DOMAIN routes THEN routes[r] ELSE NoRoute
WithRoute(rs, r, new) == [x \in DOMAIN rs \cup {r} |-> IF x = r THEN new ELSE rs[x]]

(* discover: labels and the consent change; cutoffs and stamps stay. *)
Discover(c, r) ==
  /\ c \in saved \cap valid /\ r[1] \in Reaches[c] /\ r[2] \in Home[r[1]]
  /\ routes' = WithRoute(routes, r, [Route(r) EXCEPT !.consent = c])
  /\ UNCHANGED <<saved, valid, files, pull, flowVars>>

SetCutoff(r, cutoff) ==
  /\ r \in DOMAIN routes
  /\ routes' = [routes EXCEPT ![r].cutoff = cutoff]
  /\ UNCHANGED <<saved, valid, files, pull, flowVars>>

(***************************************************************************)
(* A pull                                                                  *)
(***************************************************************************)

(* The consents and the cutoffs are read once, before the bank is asked. *)
StartPull(only) ==
  /\ pull = NoPull /\ Len(files) < MaxFiles /\ saved # {} /\ only \subseteq saved
  /\ pull' = [step |-> "asking", number |-> Len(files), left |-> IF only = {} THEN saved ELSE only,
              one |-> only # {}, cutoff |-> [r \in Refs |-> Route(r).cutoff],
              seen |-> {}, active |-> FALSE, group |-> {}, new |-> <<>>, account |-> {}, held |-> {}]
  /\ UNCHANGED <<saved, valid, routes, files, flowVars>>

Newest(S) == CHOOSE c \in S : \A d \in S : d <= c

(* Slip caught by EachAccountOnce: every consent serves the accounts that it reaches. *)
Everything == Reaches[Newest(pull.left)]

(* Accounts of the newest consent that no newer one has served in this pull. *)
Unserved == Reaches[Newest(pull.left)] \ pull.seen

(* A consent that has run out is passed over, or ends a pull of that consent alone; all of
   them out is an error too. *)
PassOver ==
  /\ pull.step = "asking" /\ pull.left # {} /\ Newest(pull.left) \notin valid
  /\ pull' = IF pull.one THEN NoPull ELSE [pull EXCEPT !.left = @ \ {Newest(@)}]
  /\ UNCHANGED <<saved, valid, routes, files, flowVars>>

(* The bank is asked from the cutoff of the account's own currency on; each currency then
   has its own. *)
AskedFrom(a) == MapThenSumSet(LAMBDA u : pull.cutoff[<<a, u>>], Home[a])
Kept(a) ==
  {m \in Movements : AccountOf[m] = a /\ DayOf[m] >= AskedFrom(a) /\ DayOf[m] >= pull.cutoff[<<a, UnitOf[m]>>]}

(* All transactions of one account have come; they are grouped by currency, and an account
   without any still has a file. *)
Fetch(a) ==
  /\ pull.step = "asking" /\ pull.left # {} /\ Newest(pull.left) \in valid /\ a \in Unserved
  /\ pull' = [pull EXCEPT !.step = "publishing", !.account = {a}, !.held = Kept(a), !.active = TRUE,
                          !.group = IF Kept(a) = {} THEN Home[a] ELSE {UnitOf[m] : m \in Kept(a)}, !.new = <<>>]
  /\ UNCHANGED <<saved, valid, routes, files, flowVars>>

(* The accounts of the newest consent are served. *)
NextConsent ==
  /\ pull.step = "asking" /\ pull.left # {} /\ Newest(pull.left) \in valid /\ Unserved = {}
  /\ pull' = [pull EXCEPT !.left = @ \ {Newest(@)}, !.active = TRUE]
  /\ UNCHANGED <<saved, valid, routes, files, flowVars>>

Serving == CHOOSE a \in pull.account : TRUE

(* Slip caught by StampsHaveFiles: the row is committed before the file is there. *)
StampFirst(u) ==
  /\ pull.step = "publishing" /\ u \in pull.group /\ Len(files) < MaxFiles
  /\ LET r == <<Serving, u>>
     IN  /\ routes' = WithRoute(routes, r, [Route(r) EXCEPT !.consent = Newest(pull.left), !.stamped = TRUE])
         /\ pull' = [pull EXCEPT !.group = @ \ {u}, !.new = Append(@, r)]
  /\ UNCHANGED <<saved, valid, files, flowVars>>

(* publish_account, one currency: the file appears under its own name. *)
WriteFile(u) ==
  /\ pull.step = "publishing" /\ u \in pull.group /\ Len(files) < MaxFiles
  /\ files' = Append(files, [ref |-> <<Serving, u>>, pull |-> pull.number,
                             holds |-> {m \in pull.held : UnitOf[m] = u}])
  /\ pull' = [pull EXCEPT !.group = @ \ {u}, !.new = Append(@, <<Serving, u>>)]
  /\ UNCHANGED <<saved, valid, routes, flowVars>>

(* The rows of all its currencies, in one transaction after the files. *)
CommitRows ==
  /\ pull.step = "publishing" /\ pull.group = {}
  /\ routes' = [r \in DOMAIN routes \cup {pull.new[i] : i \in DOMAIN pull.new} |->
                  IF \E i \in DOMAIN pull.new : pull.new[i] = r
                  THEN [Route(r) EXCEPT !.consent = Newest(pull.left), !.stamped = TRUE] ELSE routes[r]]
  /\ pull' = [pull EXCEPT !.step = "asking", !.seen = @ \cup pull.account]
  /\ UNCHANGED <<saved, valid, files, flowVars>>

FinishPull ==
  /\ pull.step = "asking" /\ pull.left = {}
  /\ pull' = NoPull
  /\ UNCHANGED <<saved, valid, routes, files, flowVars>>

(* The bank fails, a file cannot be written, or the process ends: what is published stays. *)
PullFails ==
  /\ pull # NoPull /\ (Crashes \/ pull.step = "asking" \/ pull.group # {})
  /\ pull' = NoPull
  /\ UNCHANGED <<saved, valid, routes, files, flowVars>>

Next ==
  \/ \E c \in Consents : Authorize(c) \/ Expire(c)
  \/ \E s \in 0..MaxFlows, code \in {"granted", "declined"} : Callback(s, code)
  \/ StopListening \/ Redeem \/ GiveUp
  \/ \E r \in Refs : (\E c \in Consents : Discover(c, r)) \/ (\E d \in Cutoffs : SetCutoff(r, d))
  \/ \E only \in {{}} \cup {{c} : c \in saved} : StartPull(only)
  \/ PassOver \/ NextConsent \/ CommitRows \/ FinishPull \/ PullFails
  \/ \E a \in Accounts : Fetch(a)
  \/ \E u \in Units : WriteFile(u)

Spec == Init /\ [][Next]_vars

TypeOK ==
  /\ valid \subseteq Consents /\ saved \subseteq Consents
  /\ \A r \in DOMAIN routes : r \in Refs /\ routes[r].consent \in saved
  /\ \A i \in DOMAIN files : files[i].ref \in Refs
  /\ pull.step \in {"idle", "asking", "publishing"}
  /\ flow.step \in {"idle", "waiting", "stopping"}

(* "Files precede connection metadata so a crash can replay evidence, but cannot advance past
   evidence that was never saved" (imports/enable_banking.rs:168). *)
StampsHaveFiles == \A r \in DOMAIN routes : routes[r].stamped => \E i \in DOMAIN files : files[i].ref = r

(* One pull writes the evidence of an account and currency once, whichever consents reach it. *)
EachAccountOnce ==
  \A i, j \in DOMAIN files : files[i].pull = files[j].pull /\ files[i].ref = files[j].ref => i = j

(* A callback that came with the right state but after another cannot replace its code. *)
CodeOnce ==
  \A h, k \in heard : h[1] = k[1] /\ h[3] = "received" /\ k[3] = "received" => h = k
=============================================================================
