------------------------- MODULE TaskDispatchProofs -------------------------
(***************************************************************************)
(* Proofs about the direct tasks of TaskDispatch, for every number of      *)
(* tasks, messages, clients, requests and restarts.                        *)
(*                                                                         *)
(* The records of tasks live in many places: the store, the copies of the  *)
(* writers, the copies of the bots' handlers, the scheduler's listing.     *)
(* Known says of one record what every record satisfies, wherever it is    *)
(* held; it is monotonic, because ids are not reused and messages are not  *)
(* unsent, so a stale copy is as good as a fresh one (KnownStays).         *)
(***************************************************************************)
EXTENDS TaskDispatch, TLAPS

\* The statuses that only a message sent can lead to.
Begun == {"running"} \cup Outcomes

\* A record of a task created, that does not promise what has not happened: it is
\* not begun before a message is sent, does not ask for another date than the one
\* the task was created for, and is not being dispatched before that date.
Known(r) ==
  /\ r.id <= created
  /\ r.status \in Begun => Sent(r.id)
  /\ asked[r.id] # NoTime => ~r.recurring /\ (r.next = NoTime \/ r.next = asked[r.id])
  /\ asked[r.id] # NoTime /\ r.status = "dispatching" => asked[r.id] <= clock

Filed == \A t \in TaskIds : Exists(t) => tasks[t].id = t /\ Known(tasks[t])

CopiesKnown ==
  \A p \in Procs :
    /\ copy[p] # NoTask => Known(copy[p])
    /\ pc[p] \in {"send", "mark", "put"} => copy[p] # NoTask
    /\ pc[p] = "mark" => Sent(copy[p].id)

RunsKnown ==
  \A e \in RunIds :
    /\ IF runs[e].stage = "none" THEN runs[e].task = NoTask ELSE runs[e].task \in TaskIds
    /\ runs[e].copy # NoTask => Known(runs[e].copy)
    /\ runs[e].stage \in {"progress", "record"} => runs[e].copy # NoTask
    /\ runs[e].stage = "answered" => runs[e].outcome \in Outcomes

ListingKnown == \A r \in due : Known(r) /\ r.next # NoTime /\ r.next <= clock

ClaimKnown ==
  /\ claimed # NoTask => Known(claimed)
  /\ pc[Sched] \in {"run", "send", "mark", "fetch"} => claimed # NoTask
  /\ pc[Sched] = "fetch" => claimed.recurring

IInv == /\ TypeOK
        /\ Filed
        /\ CopiesKnown
        /\ RunsKnown
        /\ ListingKnown
        /\ ClaimKnown

-----------------------------------------------------------------------------
(* What the operators do *)

\* Put stores the copy where there is a task, and changes nothing else.
LEMMA PutStores ==
  ASSUME TypeOK, NEW r \in Task, Put(r)
  PROVE  /\ tasks' \in [TaskIds -> Task \cup {NoTask}]
         /\ \A t \in TaskIds : tasks'[t] = IF t = r.id /\ Exists(t) THEN r ELSE tasks[t]
         /\ \A t \in TaskIds : Exists(t) <=> Exists(t)'
  BY NullsAreDistinct DEF TypeOK, Put, Exists, Task

\* Records stay known: tasks keep their dates, and messages stay sent.
LEMMA KnownStays ==
  ASSUME created \in Nat, created' \in Nat, created <= created',
         clock \in Nat, clock' \in Nat, clock <= clock',
         asked \in [TaskIds -> Time \cup {NoTime}],
         \A t \in TaskIds : t <= created => asked'[t] = asked[t],
         \A t \in TaskIds : Sent(t) => Sent(t)',
         NEW r \in Task, Known(r)
  PROVE  Known(r)'
  BY BoundsAreNumbers DEF Known, Task, TaskIds, Time

\* A run that keeps its task keeps it sent.
LEMMA SentStays ==
  ASSUME TypeOK, RunsKnown, NEW e \in RunIds, NEW r, runs' = [runs EXCEPT ![e] = r],
         runs[e].stage = "none" \/ r.task = runs[e].task
  PROVE  \A t \in TaskIds : Sent(t) => Sent(t)'
  BY NullsAreDistinct DEF Sent, TypeOK, RunsKnown

\* The typed parts of a record with one field changed.
LEMMA RecordChanges ==
  ASSUME NEW r \in Task, NEW st \in Status, NEW next \in Time \cup {NoTime}
  PROVE  /\ [r EXCEPT !.status = st] \in Task
         /\ [r EXCEPT !.next = next] \in Task
         /\ Requeued(r) \in Task
         /\ [r EXCEPT !.status = st].id = r.id
         /\ [r EXCEPT !.next = next].id = r.id
         /\ Requeued(r).id = r.id
         /\ [r EXCEPT !.status = st].recurring = r.recurring
         /\ [r EXCEPT !.status = st].next = r.next
         /\ [r EXCEPT !.status = st].status = st
         /\ [r EXCEPT !.next = next].status = r.status
         /\ [r EXCEPT !.next = next].next = next
         /\ ~Requeued(r).recurring
         /\ Requeued(r).next = NoTime
         /\ Requeued(r).status = "pending"
  BY DEF Task, Requeued, Status

\* A known record may be marked in any way that its messages and its date allow.
LEMMA MarkedIsKnown ==
  ASSUME NEW r \in Task, NEW st \in Status, Known(r), st \in Begun => Sent(r.id),
         st = "dispatching" /\ asked[r.id] # NoTime => asked[r.id] <= clock
  PROVE  Known([r EXCEPT !.status = st])
  BY RecordChanges DEF Known

\* A message is sent for good, and statuses are apart.
LEMMA NotBegun == Begun \cap {"pending", "dispatching", "failed"} = {}
  BY OutcomesAreFinal DEF Begun

-----------------------------------------------------------------------------
(* The invariant *)

LEMMA InitInv == Init => IInv
  <1> SUFFICES ASSUME Init PROVE IInv OBVIOUS
  <1>1. TypeOK
    BY BoundsAreNumbers DEF Init, TypeOK, Run, Stage, PC, Time, TaskIds
  <1>2. Filed /\ CopiesKnown /\ RunsKnown /\ ListingKnown /\ ClaimKnown
    BY DEF Init, Filed, Exists, CopiesKnown, RunsKnown, ListingKnown, ClaimKnown, Procs
  <1> QED BY <1>1, <1>2 DEF IInv

\* A step that creates nothing and unsends nothing keeps every record known.
LEMMA AllStay ==
  ASSUME IInv, UNCHANGED <<created, asked>>, clock' = clock \/ clock' = clock + 1,
         \A t \in TaskIds : Sent(t) => Sent(t)'
  PROVE  \A r \in Task : Known(r) => Known(r)'
  <1> SUFFICES ASSUME NEW r \in Task, Known(r) PROVE Known(r)' OBVIOUS
  <1>1. /\ created \in Nat /\ clock \in Nat /\ asked \in [TaskIds -> Time \cup {NoTime}]
        /\ created' = created /\ clock' \in Nat /\ clock <= clock' /\ asked' = asked
    BY DEF IInv, TypeOK
  <1> QED BY <1>1, KnownStays

\* The parts of the invariant hold of the records a step does not touch.
LEMMA Untouched ==
  ASSUME IInv, \A r \in Task : Known(r) => Known(r)'
  PROVE  /\ UNCHANGED tasks => Filed'
         /\ UNCHANGED runs => RunsKnown'
         /\ UNCHANGED <<due, clock>> => ListingKnown'
         /\ UNCHANGED <<pc, claimed>> => ClaimKnown'
         /\ UNCHANGED <<pc, copy>> /\ (\A t \in TaskIds : Sent(t) => Sent(t)') => CopiesKnown'
  <1>1. UNCHANGED tasks => Filed' BY DEF IInv, TypeOK, Filed, Exists
  <1>2. UNCHANGED runs => RunsKnown' BY DEF IInv, TypeOK, RunsKnown, Run
  <1>3. UNCHANGED <<due, clock>> => ListingKnown' BY DEF IInv, TypeOK, ListingKnown
  <1>4. UNCHANGED <<pc, claimed>> => ClaimKnown' BY DEF IInv, TypeOK, ClaimKnown
  <1>5. UNCHANGED <<pc, copy>> /\ (\A t \in TaskIds : Sent(t) => Sent(t)') => CopiesKnown'
    BY DEF IInv, TypeOK, CopiesKnown, Task
  <1> QED BY <1>1, <1>2, <1>3, <1>4, <1>5

\* A known record is stored.
LEMMA PutFiles ==
  ASSUME IInv, NEW r \in Task, Known(r)', Put(r), \A q \in Task : Known(q) => Known(q)'
  PROVE  Filed'
  BY PutStores DEF IInv, TypeOK, Filed, Exists

\* Process p lets its copy go and goes on elsewhere.
LEMMA CopyLetGo ==
  ASSUME IInv, NEW p \in Procs, NEW label \in {"idle", "claim", "fetch"},
         Hold(p, NoTask), Goto(p, label), UNCHANGED claimed,
         p # Sched => label = "idle",
         label = "fetch" => claimed # NoTask /\ claimed.recurring,
         \A r \in Task : Known(r) => Known(r)', \A t \in TaskIds : Sent(t) => Sent(t)'
  PROVE  /\ CopiesKnown' /\ ClaimKnown'
         /\ copy' \in [Procs -> Task \cup {NoTask}]
         /\ pc' \in [Procs -> PC]
  <1>1. copy' \in [Procs -> Task \cup {NoTask}] /\ pc' \in [Procs -> PC]
    BY DEF IInv, TypeOK, Hold, Goto, PC
  <1>2. CopiesKnown'
    BY DEF IInv, TypeOK, CopiesKnown, Hold, Goto, Task
  <1>3. ClaimKnown'
    BY DEF IInv, TypeOK, ClaimKnown, Goto, Procs
  <1> QED BY <1>1, <1>2, <1>3

-----------------------------------------------------------------------------
(* The dispatch *)

LEMMA SendInv ==
  ASSUME IInv, NEW p \in Procs, NEW e \in RunIds, Send(p, e) PROVE IInv'
  <1> DEFINE run == [task |-> copy[p].id, stage |-> "bot", copy |-> NoTask,
                     outcome |-> NoTask]
  <1>1. copy[p] \in Task /\ copy[p].id \in TaskIds
    BY DEF IInv, TypeOK, CopiesKnown, Send, Task
  <1>2. run \in Run BY <1>1 DEF Run, Stage
  <1>3. TypeOK' BY <1>1, <1>2 DEF IInv, TypeOK, Send, Goto, PC, schedVars, boundVars
  <1>4. \A t \in TaskIds : Sent(t) => Sent(t)'
    BY <1>2, SentStays DEF IInv, Send, FreeRun
  <1>5. Sent(copy[p].id)' BY <1>1 DEF IInv, TypeOK, Sent, Send
  <1>6. \A r \in Task : Known(r) => Known(r)'
    BY <1>4, AllStay DEF Send, boundVars
  <1>7. Filed' /\ ListingKnown'
    BY <1>6, Untouched DEF Send, schedVars
  <1>8. RunsKnown'
    BY <1>1, <1>6 DEF IInv, TypeOK, RunsKnown, Send, Run
  <1>9. CopiesKnown'
    BY <1>1, <1>4, <1>5, <1>6 DEF IInv, TypeOK, CopiesKnown, Send, Goto, Task
  <1>10. ClaimKnown'
    BY <1>6 DEF IInv, TypeOK, ClaimKnown, Send, Goto, schedVars, Procs
  <1> QED BY <1>3, <1>7, <1>8, <1>9, <1>10 DEF IInv

\* Reject, Mark and Store put a known record and let it go.
LEMMA PutInv ==
  ASSUME IInv, NEW p \in Procs, NEW r \in Task, Known(r), Put(r), Hold(p, NoTask),
         NEW label \in {"idle", "claim", "fetch"}, Goto(p, label),
         p # Sched => label = "idle",
         label = "fetch" => claimed # NoTask /\ claimed.recurring,
         UNCHANGED <<created, runs, schedVars, clock, boundVars>>
  PROVE  IInv'
  <1>1. \A t \in TaskIds : Sent(t) => Sent(t)' BY DEF Sent
  <1>2. \A q \in Task : Known(q) => Known(q)' BY <1>1, AllStay DEF boundVars
  <1>3. UNCHANGED <<due, claimed, now, asked, requests, restarts>> BY DEF schedVars, boundVars
  <1>4. Filed' BY <1>2, PutFiles
  <1>5. CopiesKnown' /\ ClaimKnown' /\ copy' \in [Procs -> Task \cup {NoTask}]
        /\ pc' \in [Procs -> PC]
    BY <1>1, <1>2, <1>3, CopyLetGo
  <1>6. TypeOK' BY <1>3, <1>5, PutStores DEF IInv, TypeOK
  <1>7. RunsKnown' /\ ListingKnown' BY <1>2, <1>3, Untouched
  <1> QED BY <1>4, <1>5, <1>6, <1>7 DEF IInv

LEMMA DispatchInv ==
  ASSUME IInv, NEW p \in Procs, Reject(p) \/ Mark(p) \/ Store(p) PROVE IInv'
  <1>1. copy[p] \in Task /\ Known(copy[p])
    BY DEF IInv, TypeOK, CopiesKnown, Reject, Mark, Store
  <1>2. ASSUME pc[p] \in {"send", "mark"}, NEW ok \in BOOLEAN
        PROVE  /\ AfterRun(p, ok) \in {"idle", "claim", "fetch"}
               /\ p # Sched => AfterRun(p, ok) = "idle"
               /\ AfterRun(p, ok) = "fetch" => claimed # NoTask /\ claimed.recurring
    BY <1>2 DEF IInv, ClaimKnown, AfterRun
  <1>3. CASE Reject(p)
    <2> DEFINE r == [copy[p] EXCEPT !.status = "failed"]
               label == AfterRun(p, FALSE)
    <2>1. r \in Task BY <1>1 DEF Task, Status
    <2>2. Known(r) BY <1>1, MarkedIsKnown, NotBegun DEF Status
    <2>3. /\ label \in {"idle", "claim", "fetch"} /\ (p # Sched => label = "idle")
          /\ label = "fetch" => claimed # NoTask /\ claimed.recurring
      BY <1>2, <1>3 DEF Reject
    <2>4. Put(r) /\ Hold(p, NoTask) /\ Goto(p, label)
          /\ UNCHANGED <<created, runs, schedVars, clock, boundVars>>
      BY <1>3 DEF Reject
    <2> HIDE DEF r, label
    <2> QED BY <2>1, <2>2, <2>3, <2>4, PutInv
  <1>4. CASE Mark(p)
    <2> DEFINE r == [copy[p] EXCEPT !.status = "running"]
               label == AfterRun(p, Exists(copy[p].id))
    <2>1. r \in Task BY <1>1 DEF Task, Status
    <2>2. Sent(copy[p].id) BY <1>4 DEF IInv, CopiesKnown, Mark
    <2>3. Known(r) BY <1>1, <2>2, MarkedIsKnown DEF Status
    <2>4. Exists(copy[p].id) \in BOOLEAN BY DEF Exists
    <2>5. /\ label \in {"idle", "claim", "fetch"} /\ (p # Sched => label = "idle")
          /\ label = "fetch" => claimed # NoTask /\ claimed.recurring
      BY <1>2, <1>4, <2>4 DEF Mark
    <2>6. Put(r) /\ Hold(p, NoTask) /\ Goto(p, label)
          /\ UNCHANGED <<created, runs, schedVars, clock, boundVars>>
      BY <1>4 DEF Mark
    <2> HIDE DEF r, label
    <2> QED BY <2>1, <2>3, <2>5, <2>6, PutInv
  <1>5. CASE Store(p)
    BY <1>1, <1>5, PutInv DEF Store
  <1> QED BY <1>3, <1>4, <1>5

-----------------------------------------------------------------------------
(* The scheduler *)

LEMMA SchedulerInv ==
  ASSUME IInv,
         \/ Tick \/ EndTick \/ RunClaimed
         \/ \E r \in due : Claim(r)
         \/ \E next \in Time : Fetch(next)
  PROVE  IInv'
  <1>1. \A t \in TaskIds : Sent(t) => Sent(t)'
    <2> UNCHANGED runs BY DEF Tick, EndTick, RunClaimed, Claim, Fetch
    <2> QED BY DEF Sent
  <1>2. UNCHANGED <<created, runs, asked, clock, requests, restarts>>
    BY DEF Tick, EndTick, RunClaimed, Claim, Fetch, boundVars
  <1>3. \A r \in Task : Known(r) => Known(r)' BY <1>1, <1>2, AllStay
  <1>4. RunsKnown' BY <1>2, <1>3, Untouched
  <1>5. CASE Tick
    <2>1. Listed(clock) \subseteq Task BY DEF IInv, TypeOK, Listed, Exists
    <2>2. TypeOK' BY <1>2, <1>5, <2>1 DEF IInv, TypeOK, Tick, Goto, PC
    <2>3. ListingKnown'
      BY <1>2, <1>3, <1>5 DEF IInv, TypeOK, ListingKnown, Tick, Listed, Due, Filed, Exists
    <2>4. Filed' /\ ClaimKnown' /\ CopiesKnown'
      BY <1>1, <1>3, <1>5, Untouched
         DEF IInv, TypeOK, Tick, Goto, ClaimKnown, CopiesKnown, Procs, Task
    <2> QED BY <1>4, <2>2, <2>3, <2>4 DEF IInv
  <1>6. CASE EndTick
    <2>1. TypeOK' BY <1>2, <1>6 DEF IInv, TypeOK, EndTick, Goto, PC
    <2>2. Filed' /\ ListingKnown' BY <1>3, <1>6, Untouched DEF EndTick
    <2>3. ClaimKnown' /\ CopiesKnown'
      BY <1>1, <1>3, <1>6 DEF IInv, TypeOK, EndTick, Goto, ClaimKnown, CopiesKnown, Procs, Task
    <2> QED BY <1>4, <2>1, <2>2, <2>3 DEF IInv
  <1>7. ASSUME NEW r \in due, Claim(r) PROVE IInv'
    <2>1. r \in Task /\ Known(r) BY DEF IInv, TypeOK, ListingKnown
    <2>2. ASSUME NEW t \in TaskIds, t = r.id, Exists(t)
          PROVE  Claimed(tasks[t]) \in Task /\ Claimed(tasks[t]).id = t /\ Known(Claimed(tasks[t]))
      <3>1. tasks[t] \in Task /\ tasks[t].id = t /\ Known(tasks[t])
        BY <2>2 DEF IInv, TypeOK, Filed, Exists
      <3>2. asked[t] # NoTime => asked[t] <= clock
        BY <2>1, <2>2 DEF IInv, ListingKnown, Known
      <3>3. Known(Claimed(tasks[t])) BY <3>1, <3>2, MarkedIsKnown, NotBegun DEF Claimed, Status
      <3> QED BY <3>1, <3>3 DEF Claimed, Task, Status
    <2>3. r.id \in TaskIds BY <2>1 DEF Task
    <2>4. TypeOK' BY <1>2, <1>7, <2>1, <2>2, <2>3 DEF IInv, TypeOK, Claim, Goto, PC
    <2>5. Filed'
      BY <1>3, <1>7, <2>2, <2>3 DEF IInv, TypeOK, Filed, Exists, Claim
    <2>6. ListingKnown' BY <1>2, <1>3, <1>7 DEF IInv, TypeOK, ListingKnown, Claim
    <2>7. ClaimKnown' BY <1>3, <1>7, <2>1, NullsAreDistinct DEF IInv, TypeOK, ClaimKnown, Claim, Goto, Procs
    <2>8. CopiesKnown'
      BY <1>1, <1>3, <1>7 DEF IInv, TypeOK, CopiesKnown, Claim, Goto, Procs, Task
    <2> QED BY <1>4, <2>4, <2>5, <2>6, <2>7, <2>8 DEF IInv
  <1>8. CASE RunClaimed
    <2>1. claimed \in Task /\ claimed.id \in TaskIds
      BY <1>8 DEF IInv, TypeOK, ClaimKnown, RunClaimed, Task
    <2>2. Exists(claimed.id) => tasks[claimed.id] \in Task /\ Known(tasks[claimed.id])
      BY <2>1 DEF IInv, TypeOK, Filed, Exists
    <2>3. Exists(claimed.id) \in BOOLEAN BY DEF Exists
    <2>4. AfterRun(Sched, Exists(claimed.id)) \in {"claim", "fetch"}
          /\ (AfterRun(Sched, Exists(claimed.id)) = "fetch" => claimed.recurring)
      BY <2>3 DEF AfterRun
    <2>5. TypeOK'
      BY <1>2, <1>8, <2>2, <2>4
         DEF IInv, TypeOK, RunClaimed, Goto, Hold, PC, schedVars, Procs
    <2>6. Filed' /\ ListingKnown' BY <1>2, <1>3, <1>8, Untouched DEF RunClaimed, schedVars
    <2>7. ClaimKnown'
      BY <1>3, <1>8, <2>1, <2>4, NullsAreDistinct
         DEF IInv, TypeOK, ClaimKnown, RunClaimed, Goto, schedVars, Procs
    <2>8. CopiesKnown'
      BY <1>1, <1>3, <1>8, <2>2, <2>4, NullsAreDistinct
         DEF IInv, TypeOK, CopiesKnown, RunClaimed, Goto, Hold, Procs, Task
    <2> QED BY <1>4, <2>5, <2>6, <2>7, <2>8 DEF IInv
  <1>9. ASSUME NEW next \in Time, Fetch(next) PROVE IInv'
    <2> DEFINE r == [tasks[claimed.id] EXCEPT !.next = next]
    <2>1. claimed \in Task /\ claimed.id \in TaskIds /\ claimed.recurring /\ Known(claimed)
      BY <1>9 DEF IInv, TypeOK, ClaimKnown, Fetch, Task
    <2>2. asked[claimed.id] = NoTime BY <2>1 DEF Known
    <2>3. ASSUME Exists(claimed.id) PROVE r \in Task /\ Known(r)
      <3>1. tasks[claimed.id] \in Task /\ tasks[claimed.id].id = claimed.id
            /\ Known(tasks[claimed.id])
        BY <2>1, <2>3 DEF IInv, TypeOK, Filed, Exists
      <3>2. r \in Task /\ r.id = claimed.id /\ r.status = tasks[claimed.id].status
        BY <3>1 DEF Task
      <3> QED BY <2>2, <3>1, <3>2 DEF Known
    <2> HIDE DEF r
    <2>4. /\ pc[Sched] = "fetch" /\ UNCHANGED <<tasks, due, claimed, now>>
          /\ IF Exists(claimed.id) THEN Hold(Sched, r) /\ Goto(Sched, "put")
                                   ELSE Goto(Sched, "claim") /\ UNCHANGED copy
      BY <1>9 DEF Fetch, r, schedVars
    <2>5. TypeOK' BY <1>2, <2>3, <2>4 DEF IInv, TypeOK, Goto, Hold, PC, Procs
    <2>6. Filed' /\ ListingKnown' BY <1>2, <1>3, <2>4, Untouched
    <2>7. ClaimKnown' BY <1>3, <2>1, <2>4 DEF IInv, TypeOK, ClaimKnown, Goto, Procs
    <2>8. CopiesKnown'
      BY <1>1, <1>3, <2>3, <2>4, NullsAreDistinct
         DEF IInv, TypeOK, CopiesKnown, Goto, Hold, Procs, Task
    <2> QED BY <1>4, <2>5, <2>6, <2>7, <2>8 DEF IInv
  <1> QED BY <1>5, <1>6, <1>7, <1>8, <1>9

-----------------------------------------------------------------------------
(* The HTTP handlers *)

\* A task is created under a new id: nothing is known of that id yet.
LEMMA CreateInv ==
  ASSUME IInv, NEW c \in Clients,
         \/ CreateNow(c)
         \/ \E recurring \in BOOLEAN, at \in Time : CreateScheduled(c, recurring, at)
  PROVE  IInv'
  <1>1. PICK r \in Task :
          /\ Create(r) /\ r.id = created + 1 /\ r.status = "pending"
          /\ UNCHANGED <<runs, due, claimed, now, clock, restarts>>
          /\ asked' \in [TaskIds -> Time \cup {NoTime}]
          /\ \A t \in TaskIds : t <= created => asked'[t] = asked[t]
          /\ asked'[created + 1] # NoTime =>
                ~r.recurring /\ (r.next = NoTime \/ r.next = asked'[created + 1])
          /\ requests' = requests + 1 /\ requests < MaxRequests
          /\ \/ Hold(c, r) /\ Goto(c, "send")
             \/ UNCHANGED <<pc, copy>>
    <2>1. CASE CreateNow(c)
      <3>1. created + 1 \in TaskIds
        BY <2>1, BoundsAreNumbers DEF IInv, TypeOK, CreateNow, Create, TaskIds
      <3>2. NewTask(FALSE, NoTime) \in Task BY <3>1 DEF NewTask, Task, Status
      <3>3. asked' = asked /\ asked \in [TaskIds -> Time \cup {NoTime}] /\ created \in Nat
        BY <2>1 DEF IInv, TypeOK, CreateNow
      <3> QED BY <2>1, <3>2, <3>3 DEF CreateNow, Begin, NewTask, schedVars
    <2>2. CASE \E recurring \in BOOLEAN, at \in Time : CreateScheduled(c, recurring, at)
      <3>1. PICK recurring \in BOOLEAN, at \in Time : CreateScheduled(c, recurring, at)
        BY <2>2
      <3>2. created + 1 \in TaskIds
        BY <3>1, BoundsAreNumbers DEF IInv, TypeOK, CreateScheduled, Create, TaskIds
      <3>3. NewTask(recurring, at) \in Task BY <3>2 DEF NewTask, Task, Status
      <3>4. /\ asked' = [asked EXCEPT ![created + 1] = IF recurring THEN NoTime ELSE at]
            /\ asked \in [TaskIds -> Time \cup {NoTime}]
            /\ created \in Nat
        BY <3>1 DEF IInv, TypeOK, CreateScheduled
      <3>5. /\ asked' \in [TaskIds -> Time \cup {NoTime}]
            /\ \A t \in TaskIds : t <= created => asked'[t] = asked[t]
            /\ asked'[created + 1] # NoTime => ~recurring /\ at = asked'[created + 1]
        BY <3>2, <3>4
      <3> QED BY <3>1, <3>3, <3>5 DEF CreateScheduled, Begin, NewTask, schedVars
    <2> QED BY <2>1, <2>2
  <1>2. created' = created + 1 /\ created + 1 \in TaskIds /\ created \in Nat
        /\ tasks' = [tasks EXCEPT ![created + 1] = r]
    BY <1>1, BoundsAreNumbers DEF IInv, TypeOK, Create, TaskIds
  <1>3. \A t \in TaskIds : Sent(t) => Sent(t)' BY <1>1 DEF Sent
  <1>4. \A t \in TaskIds : t <= created => asked'[t] = asked[t] BY <1>1
  <1>5. \A q \in Task : Known(q) => Known(q)'
    <2> SUFFICES ASSUME NEW q \in Task, Known(q) PROVE Known(q)' OBVIOUS
    <2>1. clock \in Nat /\ clock' = clock /\ asked \in [TaskIds -> Time \cup {NoTime}]
      BY <1>1 DEF IInv, TypeOK
    <2> QED BY <1>2, <1>3, <1>4, <2>1, KnownStays
  <1>6. Known(r)'
    BY <1>1, <1>2, NotBegun, NullsAreDistinct DEF IInv, TypeOK, Known, Begun
  <1>7. TypeOK'
    BY <1>1, <1>2, BoundsAreNumbers DEF IInv, TypeOK, Hold, Goto, PC, Procs, TaskIds
  <1>8. Filed' BY <1>1, <1>2, <1>5, <1>6 DEF IInv, TypeOK, Filed, Exists
  <1>9. RunsKnown' /\ ListingKnown' BY <1>1, <1>5, Untouched
  <1>10. CopiesKnown'
    BY <1>1, <1>3, <1>5, <1>6, NullsAreDistinct
       DEF IInv, TypeOK, CopiesKnown, Hold, Goto, Procs, Task
  <1>11. ClaimKnown'
    BY <1>1, <1>5, NullsAreDistinct DEF IInv, TypeOK, ClaimKnown, Goto, Procs
  <1> QED BY <1>7, <1>8, <1>9, <1>10, <1>11 DEF IInv

\* RunNow and Requeue read a task and hold a copy of it.
LEMMA ReadInv ==
  ASSUME IInv, NEW c \in Clients, NEW t \in TaskIds, RunNow(c, t) \/ Requeue(c, t)
  PROVE  IInv'
  <1>1. tasks[t] \in Task /\ Known(tasks[t])
    BY DEF IInv, TypeOK, Filed, Exists, RunNow, Requeue
  <1>2. PICK r \in Task, label \in {"send", "put"} :
          Known(r) /\ Hold(c, r) /\ Goto(c, label)
    <2>1. CASE RunNow(c, t) BY <1>1, <2>1 DEF RunNow
    <2>2. CASE Requeue(c, t)
      <3>1. Requeued(tasks[t]) \in Task /\ Known(Requeued(tasks[t]))
        BY <1>1, NotBegun DEF Known, Requeued, Task, Status
      <3> QED BY <2>2, <3>1 DEF Requeue
    <2> QED BY <2>1, <2>2
  <1>3. /\ UNCHANGED <<tasks, created, runs, due, claimed, now, asked, clock, restarts>>
        /\ requests' = requests + 1 /\ requests < MaxRequests
    BY DEF RunNow, Requeue, Begin, schedVars
  <1>4. \A u \in TaskIds : Sent(u) => Sent(u)' BY <1>3 DEF Sent
  <1>5. \A q \in Task : Known(q) => Known(q)' BY <1>3, <1>4, AllStay
  <1>6. TypeOK'
    BY <1>2, <1>3, BoundsAreNumbers DEF IInv, TypeOK, Hold, Goto, PC, Procs
  <1>7. Filed' /\ RunsKnown' /\ ListingKnown' BY <1>3, <1>5, Untouched
  <1>8. CopiesKnown'
    BY <1>2, <1>4, <1>5, NullsAreDistinct
       DEF IInv, TypeOK, CopiesKnown, Hold, Goto, Procs, Task
  <1>9. ClaimKnown'
    BY <1>2, <1>3, <1>5, NullsAreDistinct DEF IInv, TypeOK, ClaimKnown, Goto, Procs
  <1> QED BY <1>6, <1>7, <1>8, <1>9 DEF IInv

LEMMA DeleteInv ==
  ASSUME IInv, NEW c \in Clients, NEW t \in TaskIds, DeleteTask(c, t) PROVE IInv'
  <1>1. /\ UNCHANGED <<created, runs, pc, copy, due, claimed, now, asked, clock, restarts>>
        /\ tasks' = [tasks EXCEPT ![t] = NoTask]
        /\ requests' = requests + 1 /\ requests < MaxRequests
    BY DEF DeleteTask, Begin, schedVars
  <1>2. \A u \in TaskIds : Sent(u) => Sent(u)' BY <1>1 DEF Sent
  <1>3. \A q \in Task : Known(q) => Known(q)' BY <1>1, <1>2, AllStay
  <1>4. TypeOK' BY <1>1, BoundsAreNumbers DEF IInv, TypeOK
  <1>5. Filed' BY <1>1, <1>3 DEF IInv, TypeOK, Filed, Exists
  <1>6. RunsKnown' /\ ListingKnown' /\ ClaimKnown' /\ CopiesKnown'
    BY <1>1, <1>2, <1>3, Untouched
  <1> QED BY <1>4, <1>5, <1>6 DEF IInv

-----------------------------------------------------------------------------
(* The bots, the clock and the restart *)

\* A run keeps its task; what it holds afterwards is a known record.
LEMMA RunInv ==
  ASSUME IInv, NEW e \in RunIds, NEW r \in Run,
         runs' = [runs EXCEPT ![e] = r],
         runs[e].stage # "none", r.stage # "none", r.task = runs[e].task,
         r.copy # NoTask => Known(r.copy),
         r.stage \in {"progress", "record"} => r.copy # NoTask,
         r.stage = "answered" => r.outcome \in Outcomes,
         TypeOK',
         UNCHANGED <<created, pc, copy, schedVars, clock, boundVars>>,
         tasks' = tasks \/ Filed'
  PROVE  IInv'
  <1>1. \A t \in TaskIds : Sent(t) => Sent(t)' BY SentStays DEF IInv
  <1>2. UNCHANGED <<due, claimed, asked>> BY DEF schedVars, boundVars
  <1>3. \A q \in Task : Known(q) => Known(q)' BY <1>1, <1>2, AllStay
  <1>4. Filed' BY <1>3, Untouched
  <1>5. ListingKnown' /\ ClaimKnown' /\ CopiesKnown'
    BY <1>1, <1>2, <1>3, Untouched
  <1>6. RunsKnown'
    BY <1>3, NullsAreDistinct DEF IInv, TypeOK, RunsKnown, Run
  <1> QED BY <1>4, <1>5, <1>6 DEF IInv

LEMMA BotInv ==
  ASSUME IInv, NEW e \in RunIds, BotStep(e) \/ HandlerStep(e) PROVE IInv'
  <1> DEFINE t == runs[e].task
             At(stage, r) == [runs[e] EXCEPT !.stage = stage, !.copy = r]
  <1>1. runs[e] \in Run BY DEF IInv, TypeOK
  <1>2. runs[e].stage # "none" => t \in TaskIds BY DEF IInv, RunsKnown
  <1>3. t \in TaskIds /\ Exists(t) => tasks[t] \in Task /\ tasks[t].id = t /\ Known(tasks[t])
    BY DEF IInv, TypeOK, Filed, Exists
  <1>4. runs[e].copy # NoTask => runs[e].copy \in Task /\ Known(runs[e].copy)
    BY <1>1 DEF IInv, RunsKnown, Run
  <1>5. runs[e].stage # "none" => Sent(t) BY DEF Sent
  <1>6. ASSUME NEW stage \in Stage, NEW r \in Task \cup {NoTask}
        PROVE  /\ At(stage, r) \in Run /\ At(stage, r).stage = stage
               /\ At(stage, r).copy = r /\ At(stage, r).task = t
    BY <1>1 DEF Run
  <1> HIDE DEF At
  <1>7. ASSUME NEW stage \in {"bot", "lost", "over", "progress", "record"},
               NEW r \in Task \cup {NoTask},
               Advance(e, stage, r), runs[e].stage # "none", r # NoTask => Known(r),
               stage \in {"progress", "record"} => r # NoTask,
               UNCHANGED <<created, pc, copy, schedVars, clock, boundVars>>,
               tasks' = tasks \/ Filed', tasks' \in [TaskIds -> Task \cup {NoTask}]
        PROVE  IInv'
    <2>1. At(stage, r) \in Run /\ At(stage, r).stage = stage
          /\ At(stage, r).copy = r /\ At(stage, r).task = t
      BY <1>6 DEF Stage
    <2>2. runs' = [runs EXCEPT ![e] = At(stage, r)]
      BY <1>7 DEF IInv, TypeOK, Advance, At
    <2>3. TypeOK' BY <1>7, <2>1, <2>2 DEF IInv, TypeOK, schedVars, boundVars
    <2> QED BY <1>7, <2>1, <2>2, <2>3, RunInv
  <1>8. CASE ReadProgress(e)
    <2>1. tasks[t] \in Task /\ Known(tasks[t]) /\ tasks[t] # NoTask
      BY <1>2, <1>3, <1>8, NullsAreDistinct DEF ReadProgress
    <2> QED BY <1>7, <1>8, <2>1 DEF ReadProgress, IInv, TypeOK
  <1>9. ASSUME WriteProgress(e) \/ WriteResult(e) PROVE IInv'
    <2>1. runs[e].copy \in Task /\ Known(runs[e].copy) /\ runs[e].stage # "none" /\ Put(runs[e].copy)
      BY <1>4, <1>9 DEF IInv, RunsKnown, WriteProgress, WriteResult
    <2>2. PICK stage \in {"bot", "over"} :
            Advance(e, stage, NoTask) /\ UNCHANGED <<created, pc, copy, schedVars, clock, boundVars>>
      BY <1>9 DEF WriteProgress, WriteResult
    <2>3. At(stage, NoTask).task = t BY <1>6 DEF Stage
    <2>4. runs' = [runs EXCEPT ![e] = At(stage, NoTask)]
      BY <2>2 DEF IInv, TypeOK, Advance, At
    <2>5. \A u \in TaskIds : Sent(u) => Sent(u)' BY <2>3, <2>4, SentStays DEF IInv
    <2>6. \A q \in Task : Known(q) => Known(q)' BY <2>2, <2>5, AllStay DEF boundVars
    <2>7. Filed' /\ tasks' \in [TaskIds -> Task \cup {NoTask}]
      BY <2>1, <2>6, PutFiles, PutStores DEF IInv
    <2> QED BY <1>7, <2>1, <2>2, <2>7
  <1>10. ASSUME NEW o \in Outcomes, Answer(e, o) PROVE IInv'
    <2> DEFINE r == [runs[e] EXCEPT !.stage = "answered", !.outcome = o]
    <2>1. r \in Run /\ r.stage = "answered" /\ r.outcome = o /\ r.copy = runs[e].copy /\ r.task = t
      BY <1>1 DEF Run, Stage
    <2>2. runs' = [runs EXCEPT ![e] = r] /\ runs[e].stage # "none"
          /\ UNCHANGED <<tasks, created, pc, copy, schedVars, clock, boundVars>>
      BY <1>10 DEF IInv, TypeOK, Answer
    <2>3. TypeOK' BY <2>1, <2>2 DEF IInv, TypeOK, schedVars, boundVars
    <2> HIDE DEF r
    <2> QED BY <1>4, <2>1, <2>2, <2>3, RunInv
  <1>11. CASE Panic(e)
    BY <1>7, <1>11 DEF Panic, IInv, TypeOK
  <1>12. CASE ReadResult(e)
    <2>1. CASE Exists(t)
      <3> DEFINE r == [tasks[t] EXCEPT !.status = runs[e].outcome]
      <3>1. runs[e].outcome \in Outcomes BY <1>12 DEF IInv, RunsKnown, ReadResult
      <3>2. r \in Task /\ r # NoTask /\ Known(r)
        <4>1. tasks[t] \in Task /\ Known(tasks[t]) /\ Sent(tasks[t].id)
          BY <1>2, <1>3, <1>5, <1>12, <2>1 DEF ReadResult
        <4>2. runs[e].outcome \in Status /\ runs[e].outcome # "dispatching"
          BY <3>1, OutcomesAreFinal DEF Status
        <4>3. r \in Task BY <4>1, <4>2 DEF Task
        <4>4. Known(r) BY <4>1, <4>2, MarkedIsKnown
        <4> QED BY <4>3, <4>4, NullsAreDistinct
      <3>3. Advance(e, "record", r) BY <1>12, <2>1 DEF ReadResult
      <3> HIDE DEF r
      <3> QED BY <1>7, <1>12, <3>2, <3>3 DEF ReadResult, IInv, TypeOK
    <2>2. CASE ~Exists(t)
      BY <1>7, <1>12, <2>2 DEF ReadResult, IInv, TypeOK
    <2> QED BY <2>1, <2>2
  <1> QED BY <1>8, <1>9, <1>10, <1>11, <1>12 DEF BotStep, HandlerStep

LEMMA TimeInv ==
  ASSUME IInv, TimePasses PROVE IInv'
  <1>1. /\ UNCHANGED <<tasks, created, runs, pc, copy, due, claimed, now, asked, requests, restarts>>
        /\ clock' = clock + 1 /\ clock < MaxTime
    BY DEF TimePasses, schedVars, boundVars
  <1>2. \A u \in TaskIds : Sent(u) => Sent(u)' BY <1>1 DEF Sent
  <1>3. \A q \in Task : Known(q) => Known(q)' BY <1>1, <1>2, AllStay
  <1>4. TypeOK' BY <1>1, BoundsAreNumbers DEF IInv, TypeOK
  <1>5. ListingKnown'
    BY <1>1, <1>3, NullsAreDistinct, BoundsAreNumbers DEF IInv, TypeOK, ListingKnown, Task, Time
  <1>6. Filed' /\ RunsKnown' /\ ClaimKnown' /\ CopiesKnown' BY <1>1, <1>2, <1>3, Untouched
  <1> QED BY <1>4, <1>5, <1>6 DEF IInv

\* A restart forgets the copies and keeps which messages were sent.
LEMMA RestartInv ==
  ASSUME IInv, Restart PROVE IInv'
  <1>1. \A e \in RunIds : /\ runs'[e] \in Run /\ runs'[e].task = runs[e].task
                          /\ (runs'[e].stage = "none") <=> (runs[e].stage = "none")
                          /\ runs'[e].stage \in {"none", "over", "lost"}
                          /\ runs'[e].copy \in {runs[e].copy, NoTask}
    BY DEF IInv, TypeOK, Restart, Run, Stage
  <1>2. \A u \in TaskIds : Sent(u) => Sent(u)' BY <1>1 DEF Sent
  <1>3. \A q \in Task : Known(q) => Known(q)' BY <1>2, AllStay DEF Restart
  <1>4. TypeOK'
    <2>1. runs' \in [RunIds -> Run] BY <1>1 DEF Restart
    <2>2. restarts' \in 0..MaxRestarts
      <3>1. restarts \in 0..MaxRestarts /\ restarts < MaxRestarts /\ restarts' = restarts + 1
        BY DEF IInv, TypeOK, Restart
      <3> QED BY <3>1, BoundsAreNumbers
    <2>3. pc' \in [Procs -> PC] BY DEF Restart, PC
    <2>4. /\ copy' \in [Procs -> Task \cup {NoTask}]
          /\ due' \in SUBSET Task /\ claimed' \in Task \cup {NoTask}
      BY DEF Restart
    <2> QED BY <2>1, <2>2, <2>3, <2>4 DEF IInv, TypeOK, Restart
  <1>5. RunsKnown' BY <1>1, <1>3, NullsAreDistinct DEF IInv, TypeOK, RunsKnown, Run
  <1>6. Filed' BY <1>3, Untouched DEF Restart
  <1>7. ListingKnown' /\ ClaimKnown' /\ CopiesKnown'
    BY DEF Restart, ListingKnown, ClaimKnown, CopiesKnown, Procs
  <1> QED BY <1>4, <1>5, <1>6, <1>7 DEF IInv

-----------------------------------------------------------------------------
(* The theorems *)

LEMMA NextInv == IInv /\ [Next]_vars => IInv'
  <1> SUFFICES ASSUME IInv, [Next]_vars PROVE IInv' OBVIOUS
  <1>1. CASE SchedStep
    <2>1. Sched \in Procs BY DEF Procs
    <2> QED BY <1>1, <2>1, SchedulerInv, SendInv, DispatchInv DEF SchedStep, DispatchStep
  <1>2. ASSUME NEW c \in Clients, NewRequest(c) \/ DispatchStep(c) PROVE IInv'
    <2>1. c \in Procs BY DEF Procs
    <2> QED BY <1>2, <2>1, CreateInv, ReadInv, DeleteInv, SendInv, DispatchInv
            DEF NewRequest, DispatchStep
  <1>3. ASSUME NEW e \in RunIds, BotStep(e) \/ HandlerStep(e) PROVE IInv'
    BY <1>3, BotInv
  <1>4. CASE TimePasses BY <1>4, TimeInv
  <1>5. CASE Restart BY <1>5, RestartInv
  <1>6. CASE UNCHANGED vars
    <2>1. \A u \in TaskIds : Sent(u) => Sent(u)' BY <1>6 DEF Sent, vars
    <2>2. \A q \in Task : Known(q) => Known(q)' BY <1>6, <2>1, AllStay DEF vars
    <2>3. TypeOK' BY <1>6 DEF IInv, TypeOK, vars
    <2> QED BY <1>6, <2>1, <2>2, <2>3, Untouched DEF IInv, vars
  <1> QED BY <1>1, <1>2, <1>3, <1>4, <1>5, <1>6 DEF Next

LEMMA Invariance == Spec => []IInv
  BY InitInv, NextInv, PTL DEF Spec

\* Every variable keeps its type: statuses, stages and copies of TaskDispatch.
THEOREM TypesAreRespected == Spec => []TypeOK
  <1>1. IInv => TypeOK BY DEF IInv
  <1> QED BY <1>1, Invariance, PTL

\* A task that is running or ended was sent, whatever copies were written back.
THEOREM NoRunWithoutMessage == Spec => []RunningWasSent
  <1>1. IInv => RunningWasSent
    BY DEF IInv, TypeOK, Filed, Known, RunningWasSent, Begun, Exists
  <1> QED BY <1>1, Invariance, PTL
\* A task deleted while a dispatch, the scheduler, a line of progress, a result or
\* a requeue holds a copy of it does not come back: Update stores over a task only.
THEOREM DeletedTasksStayDeleted == Spec => DeletedStaysDeleted
  <1>1. IInv /\ [Next]_vars => [\A t \in 1..created : ~Exists(t) => tasks'[t] = NoTask]_vars
    <2> SUFFICES ASSUME IInv, Next, NEW t \in 1..created, ~Exists(t) PROVE tasks'[t] = NoTask
      BY DEF Next
    <2>1. t \in TaskIds
      <3>1. created \in 0..MaxTasks BY DEF IInv, TypeOK
      <3> QED BY <3>1, BoundsAreNumbers DEF TaskIds
    <2>2. CASE UNCHANGED tasks BY <2>2 DEF Exists
    <2>3. ASSUME NEW r \in Task, Put(r) PROVE tasks'[t] = NoTask
      BY <2>1, <2>3, PutStores DEF IInv, Exists
    <2>4. ASSUME NEW p \in Procs, DispatchStep(p) PROVE tasks'[t] = NoTask
      <3>1. CASE \E e \in RunIds : Send(p, e) BY <2>2, <3>1 DEF Send
      <3>2. CASE Reject(p) \/ Mark(p) \/ Store(p)
        <4>1. copy[p] \in Task BY <3>2 DEF IInv, TypeOK, CopiesKnown, Reject, Mark, Store
        <4>2. /\ [copy[p] EXCEPT !.status = "failed"] \in Task
              /\ [copy[p] EXCEPT !.status = "running"] \in Task
          BY <4>1 DEF Task, Status
        <4> QED BY <2>3, <3>2, <4>1, <4>2 DEF Reject, Mark, Store
      <3> QED BY <2>4, <3>1, <3>2 DEF DispatchStep
    <2>5. CASE SchedStep
      <3>1. CASE \E r \in due : Claim(r)
        BY <2>1, <3>1 DEF IInv, TypeOK, Claim, Exists, Task
      <3>2. CASE Tick \/ EndTick \/ RunClaimed \/ \E next \in Time : Fetch(next)
        BY <2>2, <3>2 DEF Tick, EndTick, RunClaimed, Fetch
      <3> QED BY <2>4, <2>5, <3>1, <3>2 DEF SchedStep, Procs
    <2>6. ASSUME NEW c \in Clients, NewRequest(c) PROVE tasks'[t] = NoTask
      <3>1. ASSUME NEW r, r.id = created + 1, Create(r) PROVE tasks'[t] = NoTask
        BY <2>1, <3>1 DEF IInv, TypeOK, Create, Exists
      <3>2. CASE CreateNow(c) BY <3>1, <3>2 DEF CreateNow, NewTask
      <3>3. CASE \E recurring \in BOOLEAN, at \in Time : CreateScheduled(c, recurring, at)
        BY <3>1, <3>3 DEF CreateScheduled, NewTask
      <3>4. CASE \E u \in TaskIds : RunNow(c, u) \/ Requeue(c, u) \/ DeleteTask(c, u)
        BY <2>1, <2>2, <3>4 DEF IInv, TypeOK, RunNow, Requeue, DeleteTask, Exists
      <3> QED BY <2>6, <3>2, <3>3, <3>4 DEF NewRequest
    <2>7. ASSUME NEW e \in RunIds, BotStep(e) \/ HandlerStep(e) PROVE tasks'[t] = NoTask
      <3>1. CASE WriteProgress(e) \/ WriteResult(e)
        <4>1. runs[e].copy \in Task
          BY <3>1 DEF IInv, TypeOK, RunsKnown, Run, WriteProgress, WriteResult
        <4> QED BY <2>3, <3>1, <4>1 DEF WriteProgress, WriteResult
      <3>2. CASE ReadResult(e) BY <2>2, <3>2 DEF ReadResult
      <3>3. CASE BotStep(e) BY <2>2, <3>3 DEF BotStep, ReadProgress, Panic, Answer
      <3> QED BY <2>7, <3>1, <3>2, <3>3 DEF HandlerStep
    <2>8. CASE TimePasses \/ Restart BY <2>2, <2>8 DEF TimePasses, Restart
    <2> QED BY <2>4, <2>5, <2>6, <2>7, <2>8 DEF Next, Procs
  <1> QED BY <1>1, Invariance, PTL DEF Spec, DeletedStaysDeleted

\* A task created to run once is not claimed before its date, however stale the
\* listing and whatever record was written over it since.
THEOREM OneShotTasksAreNotEarly == Spec => OneShotNotEarly
  <1> DEFINE Claims(t) == /\ asked[t] # NoTime /\ Exists(t) /\ tasks[t].status = "pending"
                          /\ tasks'[t] # NoTask /\ tasks'[t].status = "dispatching"
  <1>1. ASSUME IInv, IInv', [Next]_vars, NEW t \in TaskIds, Claims(t)
        PROVE  asked[t] <= clock
    <2>1. asked'[t] # NoTime => asked'[t] <= clock'
      BY <1>1 DEF IInv, Filed, Known, Exists
    <2>2. tasks[t].id = t /\ t <= created BY <1>1 DEF IInv, Filed, Known
    <2>3. CASE UNCHANGED <<asked, clock>> BY <1>1, <2>1, <2>3
    <2>4. CASE SchedStep
      BY <2>3, <2>4 DEF SchedStep, DispatchStep, Tick, EndTick, RunClaimed, Claim, Fetch,
                        Send, Reject, Mark, Store, boundVars
    <2>5. ASSUME NEW c \in Clients, NewRequest(c) \/ DispatchStep(c)
          PROVE  asked[t] <= clock
      <3>1. CASE \E recurring \in BOOLEAN, at \in Time : CreateScheduled(c, recurring, at)
        <4>1. t # created + 1
          <5>1. created \in 0..MaxTasks BY <1>1 DEF IInv, TypeOK
          <5> QED BY <2>2, <5>1 DEF TaskIds
        <4>2. asked \in [TaskIds -> Time \cup {NoTime}] BY <1>1 DEF IInv, TypeOK
        <4>3. clock' = clock /\ asked'[t] = asked[t]
          BY <3>1, <4>1, <4>2 DEF CreateScheduled
        <4> QED BY <1>1, <2>1, <4>3
      <3>2. CASE CreateNow(c) BY <2>3, <3>2 DEF CreateNow
      <3>3. CASE \E u \in TaskIds : RunNow(c, u) \/ Requeue(c, u) \/ DeleteTask(c, u)
        BY <2>3, <3>3 DEF RunNow, Requeue, DeleteTask
      <3>4. CASE DispatchStep(c)
        BY <2>3, <3>4 DEF DispatchStep, Send, Reject, Mark, Store, boundVars
      <3> QED BY <2>5, <3>1, <3>2, <3>3, <3>4 DEF NewRequest
    <2>6. ASSUME NEW e \in RunIds, BotStep(e) \/ HandlerStep(e) PROVE asked[t] <= clock
      BY <2>3, <2>6 DEF BotStep, HandlerStep, ReadProgress, Panic, Answer, WriteProgress,
                        ReadResult, WriteResult, boundVars
    <2>7. ~TimePasses BY <1>1, NotBegun DEF TimePasses
    <2>8. CASE Restart \/ UNCHANGED vars BY <2>3, <2>8 DEF Restart, vars
    <2> QED BY <1>1, <2>4, <2>5, <2>6, <2>7, <2>8 DEF Next
  <1>2. IInv /\ IInv' /\ [Next]_vars
          => [\A t \in TaskIds :
                asked[t] # NoTime /\ Exists(t) /\ tasks[t].status = "pending"
                /\ tasks'[t] # NoTask /\ tasks'[t].status = "dispatching"
                  => asked[t] <= clock]_vars
    BY <1>1
  <1> HIDE DEF Claims
  <1> QED BY <1>2, Invariance, PTL DEF Spec, OneShotNotEarly
=============================================================================
