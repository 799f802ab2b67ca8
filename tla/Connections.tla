----------------------------- MODULE Connections -----------------------------
(***************************************************************************)
(* The bank operations of a running server                                  *)
(* (crates/means-server/src/connections.rs): a manager that accepts one job *)
(* at a time, the task that carries it out, the requests of the terminal     *)
(* UI, the thread that watches the inbox, and the server's end and restart.  *)
(*                                                                         *)
(* Two mutexes order all of it: "db" guards the server's connection to the  *)
(* ledger and "live" guards what the manager keeps in memory.  An operation *)
(* takes its locks one by one, acts when it holds the last, and lets go.     *)
(***************************************************************************)
EXTENDS Naturals, Sequences, FiniteSets

CONSTANTS Clients,     \* threads that serve requests, and the watcher of the inbox
          Jobs, NoJob, \* identities that jobs may get
          Nobody,      \* no thread
          MaxRequests, \* bound on the requests of all clients together
          MaxEdits,    \* bound on the edits of the booking cutoff
          MaxUnsaved,  \* bound on results that the ledger refuses to store
          MaxStops     \* bound on the ends of the server

ASSUME ConnectionsConstants ==
  /\ NoJob \notin Jobs
  /\ Nobody \notin Clients \cup Jobs
  /\ Clients \cap Jobs = {}
  /\ MaxEdits \in Nat

Threads == Clients \cup Jobs
Locks   == {"db", "live"}

(* What the task of each operation does, step by step. *)
Plan == [pull      |-> <<"account", "fetch", "scan", "finish">>,
         discover  |-> <<"fetch", "store", "finish">>,
         banks     |-> <<"fetch", "banks", "finish">>,
         authorize |-> <<"url", "fetch", "store", "finish">>]
Kinds == DOMAIN Plan

VARIABLES up,       \* does the server run?
          holder,   \* lock -> the thread that holds it
          doing,    \* thread -> its operation, or "none"
          active,   \* Live.active
          url,      \* job whose authorization_url is in memory, or NoJob
          rows,     \* job -> state in connection_jobs, "none" before it has a row
          task,     \* job -> kind, steps done, and whether all went well
          cutoff,   \* booking cutoff of the connection, as the number of its edit
          seen,     \* job -> cutoff that its pull works with
          requests, unsaved, stops \* counters of the bounds, and the jobs not saved

vars == <<up, holder, doing, active, url, rows, task, cutoff, seen, requests, unsaved, stops>>
bounds == <<requests, unsaved, stops>>

Unstarted == [kind |-> "none", done |-> 0, ok |-> TRUE]

Init ==
  /\ up = TRUE
  /\ holder = [l \in Locks |-> Nobody]
  /\ doing = [t \in Threads |-> "none"]
  /\ active = NoJob /\ url = NoJob
  /\ rows = [j \in Jobs |-> "none"]
  /\ task = [j \in Jobs |-> Unstarted]
  /\ cutoff = 0
  /\ seen = [j \in Jobs |-> 0]
  /\ requests = 0 /\ unsaved = {} /\ stops = 0

(* The locks of an operation, in the order in which the code takes them. *)
OrderedLocks(op) ==
  CASE op \in {"list", "configure", "start", "finish"} -> <<"db", "live">>
    [] op \in {"account", "scan", "store"}             -> <<"db">>
    [] op \in {"banks", "url"}                         -> <<"live">>
    [] OTHER                                           -> <<>>
(* Slip caught by JobEnds: an edit looks whether a job is active before it asks for the ledger. *)
LooksFirst(op) == IF op = "configure" THEN <<"live", "db">> ELSE OrderedLocks(op)
LocksOf(op) == OrderedLocks(op)

Held(t) == {l \in Locks : holder[l] = t}
Ready(t) == doing[t] # "none" /\ Cardinality(Held(t)) = Len(LocksOf(doing[t]))

(* db.conn() and live.lock() block until the mutex is free; a poisoned one is used as it is. *)
Acquire(t) ==
  /\ doing[t] # "none" /\ ~Ready(t)
  /\ LET l == LocksOf(doing[t])[Cardinality(Held(t)) + 1]
     IN holder[l] = Nobody /\ holder' = [holder EXCEPT ![l] = t]
  /\ UNCHANGED <<up, doing, active, url, rows, task, cutoff, seen, bounds>>

LetGo(t) == holder' = [l \in Locks |-> IF holder[l] = t THEN Nobody ELSE holder[l]]
Over(t)  == LetGo(t) /\ doing' = [doing EXCEPT ![t] = "none"]

(***************************************************************************)
(* Requests                                                                *)
(***************************************************************************)

(* A request for a list, a mapping edit or a job; or the watcher's scan of the inbox. *)
Ask(c, op) ==
  /\ up /\ doing[c] = "none" /\ requests < MaxRequests
  /\ doing' = [doing EXCEPT ![c] = op]
  /\ requests' = requests + 1
  /\ UNCHANGED <<up, holder, active, url, rows, task, cutoff, seen, unsaved, stops>>

(* list, and a scan: nothing of this model changes. *)
Read(c) ==
  /\ doing[c] \in {"list", "scan"} /\ Ready(c) /\ Over(c)
  /\ UNCHANGED <<up, active, url, rows, task, cutoff, seen, bounds>>

(* configure: refused while a job is active. *)
ConfigureIdle(c) ==
  /\ doing[c] = "configure" /\ Ready(c) /\ Over(c)
  /\ cutoff' \in IF active = NoJob /\ cutoff < MaxEdits THEN {cutoff, cutoff + 1} ELSE {cutoff}
  /\ UNCHANGED <<up, active, url, rows, task, seen, bounds>>
(* Slip caught by CutoffHeld: mappings may be edited at any time. *)
ConfigureAnytime(c) ==
  /\ doing[c] = "configure" /\ Ready(c) /\ Over(c)
  /\ cutoff' \in IF cutoff < MaxEdits THEN {cutoff, cutoff + 1} ELSE {cutoff}
  /\ UNCHANGED <<up, active, url, rows, task, seen, bounds>>
Configure(c) == ConfigureIdle(c)

(* start: refused while a job is active, for what the request says, or when no row can be
   written; else a row, the active job and its task. *)
Refuse(c) ==
  /\ doing[c] = "start" /\ Ready(c) /\ Over(c)
  /\ UNCHANGED <<up, active, url, rows, task, cutoff, seen, bounds>>
NextId == IF \A j \in Jobs : rows[j] # "none" THEN NoJob ELSE CHOOSE j \in Jobs : rows[j] = "none"
Begin(c, j, kind) ==
  /\ doing[c] = "start" /\ Ready(c) /\ j = NextId
  /\ LetGo(c)
  /\ doing' = [doing EXCEPT ![c] = "none", ![j] = Plan[kind][1]]
  /\ rows' = [rows EXCEPT ![j] = "running"]
  /\ task' = [task EXCEPT ![j] = [kind |-> kind, done |-> 0, ok |-> TRUE]]
  /\ active' = j /\ url' = NoJob
  /\ UNCHANGED <<up, cutoff, seen, bounds>>
StartIdle(c, j, kind) == active = NoJob /\ Begin(c, j, kind)
(* Slip caught by OneOperation: one job of each kind at a time. *)
StartPerKind(c, j, kind) == (\A k \in Jobs : rows[k] # "running" \/ task[k].kind # kind) /\ Begin(c, j, kind)
Start(c, j, kind) == StartIdle(c, j, kind)

(***************************************************************************)
(* The task of a job                                                       *)
(***************************************************************************)

(* A step that went well: the pull reads the connection it was asked for, the address for
   the browser is kept in memory. *)
Step(j) ==
  /\ doing[j] \notin {"none", "finish"} /\ Ready(j)
  /\ LetGo(j)
  /\ task' = [task EXCEPT ![j].done = @ + 1]
  /\ doing' = [doing EXCEPT ![j] = Plan[task[j].kind][task[j].done + 2]]
  /\ seen' = IF doing[j] = "account" THEN [seen EXCEPT ![j] = cutoff] ELSE seen
  /\ url' = IF doing[j] = "url" THEN j ELSE url
  /\ UNCHANGED <<up, active, rows, cutoff, bounds>>

(* An error or a panic ends the task; the thread that waits for it goes on to the result. *)
Break(j) ==
  /\ doing[j] \notin {"none", "finish", "banks", "url"} /\ Ready(j)
  /\ LetGo(j)
  /\ task' = [task EXCEPT ![j].ok = FALSE]
  /\ doing' = [doing EXCEPT ![j] = "finish"]
  /\ UNCHANGED <<up, active, url, rows, cutoff, seen, bounds>>

Outcome(j) == IF task[j].ok THEN "succeeded" ELSE "failed"

(* The result is written with the ledger held, and the guard is released before the ledger
   is.  When the row cannot be written the program says so in its log. *)
SavedOrLogged(j) ==
  \/ rows' = [rows EXCEPT ![j] = Outcome(j)] /\ UNCHANGED unsaved
  \/ Cardinality(unsaved) < MaxUnsaved /\ unsaved' = unsaved \cup {j} /\ UNCHANGED rows
Release(j) ==
  /\ doing[j] = "finish" /\ Ready(j) /\ Over(j)
  /\ active' = NoJob /\ url' = NoJob
  /\ SavedOrLogged(j)
  /\ UNCHANGED <<up, task, cutoff, seen, requests, stops>>
(* Slip caught by JobEnds: only a result that could be saved releases the guard. *)
ReleaseSaved(j) ==
  /\ doing[j] = "finish" /\ Ready(j) /\ Over(j)
  /\ SavedOrLogged(j)
  /\ IF rows' = rows THEN UNCHANGED <<active, url>> ELSE active' = NoJob /\ url' = NoJob
  /\ UNCHANGED <<up, task, cutoff, seen, requests, stops>>
Finish(j) == Release(j)

(***************************************************************************)
(* The server stops and comes back                                         *)
(***************************************************************************)

Stop ==
  /\ up /\ stops < MaxStops
  /\ up' = FALSE /\ stops' = stops + 1
  /\ holder' = [l \in Locks |-> Nobody]
  /\ doing' = [t \in Threads |-> "none"]
  /\ active' = NoJob /\ url' = NoJob
  /\ UNCHANGED <<rows, task, cutoff, seen, requests, unsaved>>

(* Manager::new: what was running when the server stopped was interrupted. *)
Interrupted == [j \in Jobs |-> IF rows[j] = "running" THEN "interrupted" ELSE rows[j]]
(* Slip caught by OneOperation: the rows are left as they are. *)
Untouched == rows
Recovered == Interrupted
Restart ==
  /\ ~up /\ up' = TRUE
  /\ rows' = Recovered
  /\ unsaved' = {}
  /\ UNCHANGED <<holder, doing, active, url, task, cutoff, seen, requests, stops>>

JobStep(j) == Acquire(j) \/ Step(j) \/ Break(j) \/ Finish(j)
ClientStep(c) == Acquire(c) \/ Read(c) \/ Configure(c) \/ Refuse(c)

Next ==
  \/ \E c \in Clients :
       \/ \E op \in {"list", "scan", "configure", "start"} : Ask(c, op)
       \/ ClientStep(c)
       \/ \E j \in Jobs, kind \in Kinds : Start(c, j, kind)
  \/ \E j \in Jobs : JobStep(j)
  \/ Stop
  \/ Restart

Spec == Init /\ [][Next]_vars

(***************************************************************************)
(* Properties                                                              *)
(***************************************************************************)

Working(j) == doing[j] # "none"

TypeOK ==
  /\ up \in BOOLEAN /\ active \in Jobs \cup {NoJob} /\ url \in Jobs \cup {NoJob}
  /\ holder \in [Locks -> Threads \cup {Nobody}]
  /\ DOMAIN doing = Threads /\ DOMAIN task = Jobs /\ DOMAIN seen = Jobs
  /\ rows \in [Jobs -> {"none", "running", "succeeded", "failed", "interrupted"}]
  /\ cutoff \in 0..MaxEdits /\ unsaved \subseteq Jobs

(* At most one job's task is alive, whatever threads ask at the same time and whatever
   failed before; it is the active job, its row says that it runs, and the address shown
   for a browser is its own.  And a job that the history shows as running is the active
   one of a running server, except after a result that could not be stored. *)
OneOperation ==
  /\ \A j \in Jobs : Working(j) =>
       active = j /\ rows[j] = "running" /\ url \in {j, NoJob} /\ \A k \in Jobs : Working(k) => k = j
  /\ up => \A j \in Jobs : rows[j] = "running" => active = j \/ j \in unsaved

(* From the moment a pull has read its connection until its file has been scanned, the
   cutoff that it works with is the cutoff in force. *)
CutoffHeld == \A j \in Jobs : task[j].kind = "pull" /\ doing[j] \in {"fetch", "scan"} => seen[j] = cutoff

(* A job that became active ends and makes room for the next: no error, no panic, no refused
   write and no order of the locks keeps the guard taken. *)
JobEnds == \A j \in Jobs : active = j ~> active # j
==============================================================================
