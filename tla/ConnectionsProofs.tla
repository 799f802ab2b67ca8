-------------------------- MODULE ConnectionsProofs --------------------------
(***************************************************************************)
(* One bank operation at a time, and a cutoff that no edit changes under a  *)
(* pull, for every number of clients, jobs, requests, edits, refused writes *)
(* and restarts.                                                           *)
(***************************************************************************)
EXTENDS Connections, TLAPS

(* A task that has not come to its end is at the step of its plan that it has counted up
   to: CutoffHeld needs it, since what a pull has read depends on the step it is at. *)
OnPlan ==
  \A j \in Jobs : Working(j) /\ doing[j] # "finish" =>
    /\ task[j].kind \in Kinds
    /\ task[j].done \in 0..Len(Plan[task[j].kind]) - 1
    /\ doing[j] = Plan[task[j].kind][task[j].done + 1]

(* Nothing runs in a server that has stopped, so that a restart interrupts nobody. *)
StoppedIsIdle == ~up => \A t \in Threads : doing[t] = "none"

IInv == TypeOK /\ OneOperation /\ CutoffHeld /\ OnPlan /\ StoppedIsIdle

(* The plans of the four operations, step by step. *)
LEMMA Plans ==
  /\ Kinds = {"pull", "discover", "banks", "authorize"}
  /\ Plan["pull"] = <<"account", "fetch", "scan", "finish">>
  /\ Plan["discover"] = <<"fetch", "store", "finish">>
  /\ Plan["banks"] = <<"fetch", "banks", "finish">>
  /\ Plan["authorize"] = <<"url", "fetch", "store", "finish">>
BY DEF Kinds, Plan

(* Each plan ends with "finish", has it nowhere else, and has no step "none". *)
LEMMA PlanSteps ==
  ASSUME NEW kind \in Kinds
  PROVE  /\ Len(Plan[kind]) \in Nat /\ Len(Plan[kind]) > 1
         /\ Plan[kind][1] \notin {"none", "finish", "fetch", "scan"} \/ kind # "pull"
         /\ \A n \in 1..Len(Plan[kind]) : /\ Plan[kind][n] # "none"
                                          /\ Plan[kind][n] = "finish" <=> n = Len(Plan[kind])
<1>1. CASE kind = "pull"
  <2>1. Plan[kind] = <<"account", "fetch", "scan", "finish">>
    BY <1>1, Plans
  <2>2. Len(Plan[kind]) = 4 /\ 1..4 = {1, 2, 3, 4}
    BY <2>1
  <2> QED BY <2>1, <2>2
<1>2. CASE kind = "discover"
  <2>1. Plan[kind] = <<"fetch", "store", "finish">>
    BY <1>2, Plans
  <2>2. Len(Plan[kind]) = 3 /\ 1..3 = {1, 2, 3}
    BY <2>1
  <2> QED BY <2>1, <2>2, <1>2
<1>3. CASE kind = "banks"
  <2>1. Plan[kind] = <<"fetch", "banks", "finish">>
    BY <1>3, Plans
  <2>2. Len(Plan[kind]) = 3 /\ 1..3 = {1, 2, 3}
    BY <2>1
  <2> QED BY <2>1, <2>2, <1>3
<1>4. CASE kind = "authorize"
  <2>1. Plan[kind] = <<"url", "fetch", "store", "finish">>
    BY <1>4, Plans
  <2>2. Len(Plan[kind]) = 4 /\ 1..4 = {1, 2, 3, 4}
    BY <2>1
  <2> QED BY <2>1, <2>2, <1>4
<1> QED BY <1>1, <1>2, <1>3, <1>4, Plans

(* The server begins with no job. *)
LEMMA InitIInv == Init => IInv
BY ConnectionsConstants DEF Init, IInv, TypeOK, OneOperation, CutoffHeld, OnPlan, StoppedIsIdle, Working, Threads, Locks, Kinds, Unstarted

(* Letting go leaves every lock with a thread or with nobody. *)
LEMMA LetGoType ==
  ASSUME TypeOK, NEW t \in Threads, LetGo(t)
  PROVE  holder' \in [Locks -> Threads \cup {Nobody}]
BY DEF TypeOK, LetGo

(* A step of a client's thread that starts no job: the jobs, their rows and the guard stay,
   and the cutoff changes only when no job is active. *)
LEMMA ClientKeeps ==
  ASSUME IInv, NEW c \in Clients,
         doing' = [doing EXCEPT ![c] = "none"] \/ (up /\ \E op : doing' = [doing EXCEPT ![c] = op]),
         holder' \in [Locks -> Threads \cup {Nobody}],
         UNCHANGED <<up, active, url, rows, task, seen, unsaved>>,
         cutoff' \in 0..MaxEdits, cutoff' # cutoff => active = NoJob
  PROVE  IInv'
<1>1. \A j \in Jobs : doing'[j] = doing[j]
  BY ConnectionsConstants DEF IInv, TypeOK, Threads
<1>2. TypeOK'
  BY DEF IInv, TypeOK
<1>3. OneOperation' /\ OnPlan'
  BY <1>1 DEF IInv, OneOperation, OnPlan, Working
<1>4. CutoffHeld'
  <2>1. CASE cutoff' = cutoff
    BY <1>1, <2>1 DEF IInv, CutoffHeld
  <2>2. CASE active = NoJob
    BY <1>1, <2>2, ConnectionsConstants DEF IInv, CutoffHeld, OneOperation, Working
  <2> QED BY <2>1, <2>2
<1>5. StoppedIsIdle'
  BY DEF IInv, StoppedIsIdle, TypeOK
<1> QED BY <1>2, <1>3, <1>4, <1>5 DEF IInv

(* A thread that gets its next lock changes nothing else. *)
LEMMA AcquireKeeps ==
  ASSUME IInv, NEW t \in Threads, Acquire(t)
  PROVE  IInv'
<1>1. holder' \in [Locks -> Threads \cup {Nobody}]
  BY DEF Acquire, IInv, TypeOK
<1>2. UNCHANGED <<up, doing, active, url, rows, task, cutoff, seen, unsaved>>
  BY DEF Acquire, bounds
<1> QED BY <1>1, <1>2 DEF IInv, TypeOK, OneOperation, CutoffHeld, OnPlan, StoppedIsIdle, Working

(* A new job begins only when none is active, and then none works. *)
LEMMA StartKeeps ==
  ASSUME IInv, NEW c \in Clients, NEW j \in Jobs, NEW kind \in Kinds, Start(c, j, kind)
  PROVE  IInv'
<1>1. /\ active = NoJob /\ active' = j /\ url' = NoJob
      /\ doing[c] = "start"
      /\ doing' = [doing EXCEPT ![c] = "none", ![j] = Plan[kind][1]]
      /\ rows' = [rows EXCEPT ![j] = "running"]
      /\ task' = [task EXCEPT ![j] = [kind |-> kind, done |-> 0, ok |-> TRUE]]
      /\ UNCHANGED <<up, cutoff, seen, unsaved>> /\ LetGo(c)
  BY DEF Start, StartIdle, Begin, bounds
<1>2. \A k \in Jobs : ~Working(k)
  BY <1>1, ConnectionsConstants DEF IInv, OneOperation
<1>3. /\ doing'[j] = Plan[kind][1] /\ task'[j].kind = kind /\ task'[j].done = 0
      /\ \A k \in Jobs \ {j} : doing'[k] = "none" /\ task'[k] = task[k] /\ rows'[k] = rows[k]
  BY <1>1, <1>2, ConnectionsConstants DEF IInv, TypeOK, Threads, Working
<1>4. TypeOK'
  BY <1>1, LetGoType DEF IInv, TypeOK, Threads
<1>5. OneOperation'
  <2>1. rows'[j] = "running" /\ \A k \in Jobs : doing'[k] # "none" => k = j
    BY <1>1, <1>3 DEF IInv, TypeOK
  <2>2. ASSUME up', NEW k \in Jobs, rows'[k] = "running"
        PROVE  active' = k \/ k \in unsaved'
    BY <2>2, <1>1, <1>3, ConnectionsConstants DEF IInv, OneOperation
  <2> QED BY <1>1, <2>1, <2>2 DEF OneOperation, Working
<1>6. CutoffHeld' /\ OnPlan'
  BY <1>3, PlanSteps DEF CutoffHeld, OnPlan, Working
<1>7. StoppedIsIdle'
  BY <1>1 DEF IInv, StoppedIsIdle, Threads
<1> QED BY <1>4, <1>5, <1>6, <1>7 DEF IInv

(* A step of a task that went well, or its failure: the job keeps working. *)
LEMMA StepKeeps ==
  ASSUME IInv, NEW j \in Jobs, Step(j)
  PROVE  IInv'
<1> DEFINE plan == Plan[task[j].kind]
<1>1. /\ doing[j] \notin {"none", "finish"}
      /\ task' = [task EXCEPT ![j].done = @ + 1]
      /\ doing' = [doing EXCEPT ![j] = plan[task[j].done + 2]]
      /\ seen' = IF doing[j] = "account" THEN [seen EXCEPT ![j] = cutoff] ELSE seen
      /\ url' = IF doing[j] = "url" THEN j ELSE url
      /\ UNCHANGED <<up, active, rows, cutoff, unsaved>> /\ LetGo(j)
  BY DEF Step, bounds
<1>2. /\ Working(j) /\ active = j /\ rows[j] = "running"
      /\ \A k \in Jobs \ {j} : ~Working(k)
  BY <1>1 DEF IInv, OneOperation, Working
<1>3. /\ task[j].kind \in Kinds /\ task[j].done \in 0..Len(plan) - 2
      /\ doing[j] = plan[task[j].done + 1]
  <2>1. /\ task[j].kind \in Kinds /\ task[j].done \in 0..Len(plan) - 1
        /\ doing[j] = plan[task[j].done + 1]
    BY <1>1, <1>2 DEF IInv, OnPlan
  <2>2. /\ Len(plan) \in Nat /\ Len(plan) > 1
        /\ \A n \in 1..Len(plan) : plan[n] = "finish" <=> n = Len(plan)
    BY <2>1, PlanSteps
  <2>3. task[j].done + 1 \in 1..Len(plan) /\ task[j].done + 1 # Len(plan)
    BY <1>1, <2>1, <2>2
  <2> QED BY <2>1, <2>2, <2>3
<1>4. /\ task'[j].kind = task[j].kind /\ task'[j].done = task[j].done + 1
      /\ doing'[j] = plan[task[j].done + 2]
      /\ \A k \in Jobs \ {j} : doing'[k] = doing[k]
  BY <1>1 DEF IInv, TypeOK, Threads
<1>5. TypeOK'
  BY <1>1, LetGoType DEF IInv, TypeOK, Threads
<1>6. OneOperation'
  BY <1>1, <1>2, <1>4, ConnectionsConstants DEF IInv, OneOperation, Working
<1>7. CutoffHeld'
  <2>1. ASSUME task[j].kind = "pull", doing'[j] \in {"fetch", "scan"}
        PROVE  seen'[j] = cutoff
    <3>1. plan = <<"account", "fetch", "scan", "finish">>
      BY <2>1, Plans
    <3>2. doing[j] = "account" \/ seen[j] = cutoff
      BY <2>1, <3>1, <1>3 DEF IInv, CutoffHeld
    <3>3. doing[j] = "account" => seen'[j] = cutoff
      BY <1>1 DEF IInv, TypeOK
    <3>4. doing[j] # "account" => seen'[j] = seen[j]
      BY <1>1
    <3> QED BY <3>2, <3>3, <3>4
  <2> QED BY <2>1, <1>1, <1>2, <1>4 DEF CutoffHeld, Working
<1>8. OnPlan'
  <2>1. \A k \in Jobs : doing'[k] # "none" => k = j
    BY <1>2, <1>4 DEF Working
  <2>2. Len(plan) \in Nat /\ task[j].done + 1 \in 0..Len(plan) - 1 /\ (task[j].done + 1) + 1 = task[j].done + 2
    BY <1>3, PlanSteps
  <2>3. Plan[task'[j].kind] = plan /\ task'[j].kind \in Kinds /\ task'[j].done = task[j].done + 1
    BY <1>3, <1>4
  <2> HIDE DEF plan
  <2>4. /\ task'[j].done \in 0..Len(plan) - 1
        /\ doing'[j] = plan[task'[j].done + 1]
    BY <2>2, <2>3, <1>4
  <2> QED BY <2>1, <2>3, <2>4 DEF OnPlan, Working
<1>9. StoppedIsIdle'
  BY <1>1 DEF IInv, StoppedIsIdle, Threads
<1> QED BY <1>5, <1>6, <1>7, <1>8, <1>9 DEF IInv

LEMMA BreakKeeps ==
  ASSUME IInv, NEW j \in Jobs, Break(j)
  PROVE  IInv'
<1>1. /\ doing[j] # "none"
      /\ task' = [task EXCEPT ![j].ok = FALSE]
      /\ doing' = [doing EXCEPT ![j] = "finish"]
      /\ UNCHANGED <<up, active, url, rows, cutoff, seen, unsaved>> /\ LetGo(j)
  BY DEF Break, bounds
<1>2. /\ doing'[j] = "finish" /\ \A k \in Jobs \ {j} : doing'[k] = doing[k] /\ task'[k] = task[k]
  BY <1>1 DEF IInv, TypeOK, Threads
<1>3. TypeOK'
  BY <1>1, LetGoType DEF IInv, TypeOK, Threads
<1>4. OneOperation'
  BY <1>1, <1>2 DEF IInv, OneOperation, Working
<1>5. CutoffHeld' /\ OnPlan' /\ StoppedIsIdle'
  BY <1>1, <1>2 DEF IInv, CutoffHeld, OnPlan, StoppedIsIdle, Working, Threads
<1> QED BY <1>3, <1>4, <1>5 DEF IInv

(* The end of a task releases the guard, and leaves either its result or a row that the
   restart will find. *)
LEMMA FinishKeeps ==
  ASSUME IInv, NEW j \in Jobs, Finish(j)
  PROVE  IInv'
<1>1. /\ doing[j] = "finish" /\ doing' = [doing EXCEPT ![j] = "none"]
      /\ active' = NoJob /\ url' = NoJob /\ SavedOrLogged(j) /\ LetGo(j)
      /\ UNCHANGED <<up, task, cutoff, seen>>
  BY DEF Finish, Release, Over
<1>2. active = j /\ \A k \in Jobs \ {j} : ~Working(k)
  BY <1>1 DEF IInv, OneOperation, Working
<1>3. \A k \in Jobs : doing'[k] = "none"
  BY <1>1, <1>2 DEF IInv, TypeOK, Threads, Working
<1>4. /\ rows' \in [Jobs -> {"none", "running", "succeeded", "failed", "interrupted"}]
      /\ unsaved \subseteq unsaved' /\ unsaved' \subseteq Jobs
      /\ rows'[j] # "running" \/ j \in unsaved'
      /\ \A k \in Jobs \ {j} : rows'[k] = rows[k]
  BY <1>1 DEF SavedOrLogged, Outcome, IInv, TypeOK
<1>5. TypeOK'
  BY <1>1, <1>4, LetGoType DEF IInv, TypeOK, Threads
<1>6. OneOperation'
  BY <1>1, <1>2, <1>3, <1>4 DEF IInv, OneOperation, Working
<1>7. CutoffHeld' /\ OnPlan' /\ StoppedIsIdle'
  BY <1>1, <1>3 DEF IInv, CutoffHeld, OnPlan, StoppedIsIdle, Working, Threads
<1> QED BY <1>5, <1>6, <1>7 DEF IInv

LEMMA StopKeeps == IInv /\ Stop => IInv'
BY DEF IInv, Stop, TypeOK, OneOperation, CutoffHeld, OnPlan, StoppedIsIdle, Working, Threads, Locks

(* A restart leaves no row running. *)
LEMMA RestartKeeps ==
  ASSUME IInv, Restart
  PROVE  IInv'
<1>1. /\ \A t \in Threads : doing[t] = "none" /\ doing' = doing
      /\ \A j \in Jobs : rows'[j] # "running"
  BY DEF IInv, Restart, Recovered, Interrupted, StoppedIsIdle
<1>2. TypeOK'
  BY DEF IInv, Restart, Recovered, Interrupted, TypeOK
<1>3. OneOperation' /\ CutoffHeld' /\ OnPlan' /\ StoppedIsIdle'
  BY <1>1 DEF OneOperation, CutoffHeld, OnPlan, StoppedIsIdle, Working, Threads, Restart
<1> QED BY <1>2, <1>3 DEF IInv

(* Every step keeps the invariant, whichever thread takes it. *)
LEMMA NextIInv == IInv /\ [Next]_vars => IInv'
<1> SUFFICES ASSUME IInv, [Next]_vars
             PROVE  IInv'
  OBVIOUS
<1>1. ASSUME NEW c \in Clients, NEW op, Ask(c, op)
      PROVE  IInv'
  BY <1>1, ClientKeeps DEF Ask, IInv, TypeOK
<1>2. ASSUME NEW c \in Clients, Read(c) \/ Refuse(c)
      PROVE  IInv'
  <2>1. LetGo(c) /\ c \in Threads
    BY <1>2 DEF Read, Refuse, Over, Threads
  <2> QED BY <1>2, <2>1, ClientKeeps, LetGoType DEF Read, Refuse, Over, bounds, IInv, TypeOK
<1>3. ASSUME NEW c \in Clients, Configure(c)
      PROVE  IInv'
  <2>1. LetGo(c) /\ c \in Threads
    BY <1>3 DEF Configure, ConfigureIdle, Over, Threads
  <2>2. cutoff' \in 0..MaxEdits /\ (cutoff' # cutoff => active = NoJob)
    BY <1>3, ConnectionsConstants DEF Configure, ConfigureIdle, IInv, TypeOK
  <2> QED BY <1>3, <2>1, <2>2, ClientKeeps, LetGoType DEF Configure, ConfigureIdle, Over, bounds, IInv
<1>4. CASE \E t \in Threads : Acquire(t)
  BY <1>4, AcquireKeeps
<1>5. CASE \E c \in Clients, j \in Jobs, kind \in Kinds : Start(c, j, kind)
  BY <1>5, StartKeeps
<1>6. CASE \E j \in Jobs : Step(j) \/ Break(j) \/ Finish(j)
  BY <1>6, StepKeeps, BreakKeeps, FinishKeeps
<1>7. CASE Stop \/ Restart
  BY <1>7, StopKeeps, RestartKeeps
<1>8. CASE UNCHANGED vars
  BY <1>8 DEF vars, bounds, IInv, TypeOK, OneOperation, CutoffHeld, OnPlan, StoppedIsIdle, Working
<1> QED BY <1>1, <1>2, <1>3, <1>4, <1>5, <1>6, <1>7, <1>8 DEF Next, ClientStep, JobStep, Threads

(* Whatever clients ask at the same time, and whatever fails, panics or is restarted, one
   bank operation is alive at a time, and what the history shows as running is it
   (start, finish and Manager::new of connections.rs). *)
THEOREM OneOperationAtATime == Spec => []OneOperation
<1>1. IInv => OneOperation
  BY DEF IInv
<1> QED BY InitIInv, NextIInv, <1>1, PTL DEF Spec

(* A pull works with the cutoff that is in force, from its first look at the connection to
   the scan of its file (configure and start of connections.rs). *)
THEOREM CutoffIsHeld == Spec => []CutoffHeld
<1>1. IInv => CutoffHeld
  BY DEF IInv
<1> QED BY InitIInv, NextIInv, <1>1, PTL DEF Spec

(* Every variable keeps its type. *)
THEOREM ConnectionsTypes == Spec => []TypeOK
<1>1. IInv => TypeOK
  BY DEF IInv
<1> QED BY InitIInv, NextIInv, <1>1, PTL DEF Spec
==============================================================================
