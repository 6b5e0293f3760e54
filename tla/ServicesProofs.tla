--------------------------- MODULE ServicesProofs ---------------------------
(***************************************************************************)
(* What holds of eight services of the daemon: of the tech-lead pool for   *)
(* any board, any number of concurrent callers and any number of restarts; *)
(* of the shared stores for any processes and keys and any number of       *)
(* mutations and crashes; of a bot's backup for any number of overlapping  *)
(* runs, failures and losses of the machine; of a Buzz monitor for any     *)
(* channels and any number of events and lost connections; of the plugins  *)
(* and the skills for any registries, names, versions and identifiers and  *)
(* any number of failing file operations and restarts; of the users for    *)
(* any names, passwords and operators and any number of requests, failing  *)
(* writes and restarts; and of the start of the process for any setup and  *)
(* any number of changes of the keystore, failures and restarts.           *)
(***************************************************************************)
EXTENDS TechLeadPool, SharedStore, Memory, BuzzMonitor, Plugins, Skills, Users, Startup,
  FiniteSetTheorems, TLAPS

-----------------------------------------------------------------------------
(* The pool of tech-leads *)

\* The counter is the last name given: the next one is nobody's.
NamesAreGiven == \A e \in entries : e.name <= counter

PoolInv == TypeOK /\ OneEntryEach /\ StandbyIsAlone /\ NamesAreGiven

\* The first entry of a set that has one is that entry.
LEMMA FirstOfOne ==
  ASSUME NEW e
  PROVE  e.name <= e.name => First({e}) = e
PROOF
  BY DEF First

\* An item's entry, found by scanning the slice, is the only one it has.
LEMMA EntryOfItem ==
  ASSUME TypeOK, OneEntryEach, NEW i \in Items, EntriesOf(i) # {}, None \notin Items
  PROVE  EntriesOf(i) = {First(EntriesOf(i))}
PROOF
<1>1. PICK e \in entries : e.item = i
  BY DEF EntriesOf
<1>2. EntriesOf(i) = {e}
  BY <1>1 DEF EntriesOf, OneEntryEach
<1>3. e.name <= e.name
  BY <1>1 DEF TypeOK, Entry, Name
<1> QED
  BY <1>2, <1>3, FirstOfOne

\* The idle entry Allocate reuses is the whole pool.
LEMMA StandbyIsFirst ==
  ASSUME TypeOK, StandbyIsAlone, Idle # {}
  PROVE  entries = {First(Idle)} /\ First(Idle).status = "idle"
PROOF
<1>1. PICK e \in entries : e.status = "idle"
  BY DEF Idle
<1>2. entries = {e} /\ Idle = {e}
  BY <1>1 DEF StandbyIsAlone, Idle
<1>3. e.name <= e.name
  BY <1>1 DEF TypeOK, Entry, Name
<1> QED
  BY <1>1, <1>2, <1>3, FirstOfOne

\* An allocation keeps the invariant, and the pool is not empty after it unless
\* it was empty before.
LEMMA AllocateStep ==
  ASSUME PoolInv, NEW i \in Items, Allocate(i)
  PROVE  /\ entries' \in SUBSET Entry /\ counter' \in Nat
         /\ running' \in SUBSET Name /\ cancelled' \in SUBSET Name
         /\ OneEntryEach' /\ StandbyIsAlone' /\ NamesAreGiven'
         /\ entries # {} => entries' # {}
PROOF
<1> USE DEF PoolInv
<1>1. CASE UNCHANGED <<poolVars, botVars>>
  BY <1>1 DEF poolVars, botVars, TypeOK, OneEntryEach, StandbyIsAlone, NamesAreGiven
<1>2. CASE Idle # {} /\ entries' = (entries \ {First(Idle)}) \cup {Fill(First(Idle), i)}
                     /\ UNCHANGED <<counter, botVars>>
  <2> DEFINE e == First(Idle)
             f == Fill(e, i)
  <2>1. entries = {e} /\ e \in Entry
    BY <1>2, StandbyIsFirst DEF TypeOK
  <2>2. entries' = {f} /\ UNCHANGED <<counter, running, cancelled>>
    BY <1>2, <2>1 DEF botVars
  <2>3. f \in Entry /\ f.name = e.name /\ f.status = "allocated" /\ f.item = i
    BY <2>1 DEF Fill, Entry
  <2> HIDE DEF e, f
  <2>4. OneEntryEach' /\ StandbyIsAlone' /\ NamesAreGiven'
    BY <2>1, <2>2, <2>3, NoneIsNoItem DEF OneEntryEach, StandbyIsAlone, NamesAreGiven
  <2> QED
    BY <2>2, <2>3, <2>4 DEF TypeOK
<1>3. CASE /\ Unlisted(i) /\ Idle = {}
           /\ counter' = counter + 1
           /\ entries' = entries \cup {[name |-> counter + 1, status |-> "allocated", item |-> i]}
           /\ running' = running \cup {counter + 1}
           /\ cancelled' = cancelled \cup {counter + 1}
  <2> DEFINE f == [name |-> counter + 1, status |-> "allocated", item |-> i]
  <2>1. counter \in Nat /\ counter + 1 \in Name /\ f \in Entry
    BY DEF TypeOK, Entry, Name
  <2>2. f.name = counter + 1 /\ f.status = "allocated" /\ f.item = i
    OBVIOUS
  <2>3. entries' = entries \cup {f}
    BY <1>3
  <2> HIDE DEF f
  <2>4. \A e \in entries : e.name \in Nat /\ e.name < counter + 1 /\ e.item # i
    BY <1>3, <2>1 DEF TypeOK, Entry, Name, NamesAreGiven, Unlisted, EntriesOf
  <2>5. OneEntryEach'
    BY <2>2, <2>3, <2>4 DEF OneEntryEach
  <2>6. StandbyIsAlone'
    BY <1>3, <2>2, <2>3, NoneIsNoItem DEF StandbyIsAlone, Idle
  <2>7. NamesAreGiven'
    BY <1>3, <2>1, <2>2, <2>3, <2>4 DEF NamesAreGiven
  <2> QED
    BY <1>3, <2>1, <2>3, <2>5, <2>6, <2>7 DEF TypeOK
<1>4. CASE counter' = RolledBack(counter + 1) /\ UNCHANGED <<entries, botVars>>
  BY <1>4 DEF RolledBack, botVars, TypeOK, OneEntryEach, StandbyIsAlone, NamesAreGiven
<1> QED
  BY <1>1, <1>2, <1>3, <1>4 DEF Allocate

\* A release keeps the invariant, and never empties the pool.
LEMMA DeallocateStep ==
  ASSUME PoolInv, NEW i \in Items, Deallocate(i)
  PROVE  /\ entries' \in SUBSET Entry /\ counter' \in Nat
         /\ running' \in SUBSET Name /\ cancelled' \in SUBSET Name
         /\ OneEntryEach' /\ StandbyIsAlone' /\ NamesAreGiven'
         /\ entries # {} => entries' # {}
PROOF
<1> USE DEF PoolInv
<1> DEFINE e == First(EntriesOf(i))
<1>1. CASE UNCHANGED <<poolVars, botVars>>
  BY <1>1 DEF poolVars, botVars, TypeOK, OneEntryEach, StandbyIsAlone, NamesAreGiven
<1>2. CASE EntriesOf(i) # {} /\ entries' = {Empty(e)} /\ UNCHANGED <<counter, botVars>>
  <2>1. e \in entries /\ e \in Entry
    BY <1>2, EntryOfItem, NoneIsNoItem DEF EntriesOf, TypeOK
  <2> HIDE DEF e
  <2>2. /\ Empty(e) \in Entry /\ Empty(e).name = e.name
        /\ Empty(e).status = "idle" /\ Empty(e).item = None
    BY <2>1 DEF Empty, Entry
  <2>3. OneEntryEach' /\ StandbyIsAlone' /\ NamesAreGiven'
    BY <1>2, <2>1, <2>2 DEF OneEntryEach, StandbyIsAlone, NamesAreGiven, Empty
  <2> QED
    BY <1>2, <2>2, <2>3 DEF TypeOK, botVars
<1>3. CASE /\ EntriesOf(i) # {} /\ ~KeepsLast /\ entries' = entries \ {e}
           /\ cancelled' = cancelled \cup ({e.name} \cap running)
           /\ UNCHANGED <<running, counter>>
  <2>1. entries' \subseteq entries
    BY <1>3
  <2>2. entries' # {}
    <3>1. e \in entries
      BY <1>3, EntryOfItem, NoneIsNoItem DEF EntriesOf
    <3>2. entries # {e}
      <4>1. Cardinality({e}) = 1
        BY FS_Singleton
      <4> QED
        BY <1>3, <4>1 DEF KeepsLast
    <3> QED
      BY <1>3, <3>1, <3>2
  <2>3. OneEntryEach' /\ StandbyIsAlone' /\ NamesAreGiven'
    BY <1>3, <2>1 DEF OneEntryEach, StandbyIsAlone, NamesAreGiven
  <2> QED
    BY <1>3, <2>1, <2>2, <2>3 DEF TypeOK
<1> QED
  BY <1>1, <1>2, <1>3, Zenon DEF Deallocate

LEMMA PoolInitInv == Init => PoolInv
PROOF
  BY BoundsAreNumbers DEF Init, PoolInv, TypeOK, OneEntryEach, StandbyIsAlone, NamesAreGiven, Column

\* A step of anyone keeps the invariant, and empties the pool only by a restart.
LEMMA PoolNextInv ==
  PoolInv /\ [Next]_vars => /\ PoolInv'
                            /\ entries # {} /\ restarts' = restarts => entries' # {}
PROOF
<1> SUFFICES ASSUME PoolInv, [Next]_vars
             PROVE  PoolInv' /\ (entries # {} /\ restarts' = restarts => entries' # {})
  OBVIOUS
<1> USE DEF PoolInv
<1>1. ASSUME NEW c \in Callers, RunHook(c)
      PROVE  PoolInv' /\ (entries # {} => entries' # {})
  <2>1. hook[c] \in Items
    BY <1>1 DEF RunHook, TypeOK
  <2>2. /\ entries' \in SUBSET Entry /\ counter' \in Nat
        /\ running' \in SUBSET Name /\ cancelled' \in SUBSET Name
        /\ OneEntryEach' /\ StandbyIsAlone' /\ NamesAreGiven'
        /\ entries # {} => entries' # {}
    BY <1>1, <2>1, AllocateStep, DeallocateStep DEF RunHook
  <2> QED
    BY <1>1, <2>2 DEF RunHook, TypeOK
<1>2. ASSUME NEW c \in Callers, NEW i \in Items, MoveItem(c, i)
      PROVE  PoolInv' /\ UNCHANGED entries
  BY <1>2, BoundsAreNumbers DEF MoveItem, Writes, TypeOK, Column, OneEntryEach, StandbyIsAlone,
     NamesAreGiven, poolVars, botVars
<1>3. ASSUME NEW i \in Items, DeleteItem(i)
      PROVE  PoolInv' /\ UNCHANGED entries
  BY <1>3, BoundsAreNumbers DEF DeleteItem, Writes, TypeOK, Column, OneEntryEach, StandbyIsAlone,
     NamesAreGiven, poolVars, botVars
<1>4. ASSUME NEW n \in running, InstanceExits(n)
      PROVE  PoolInv' /\ UNCHANGED entries
  BY <1>4 DEF InstanceExits, TypeOK, OneEntryEach, StandbyIsAlone, NamesAreGiven, poolVars,
     boardVars
<1>5. ASSUME Restart
      PROVE  PoolInv' /\ restarts' # restarts
  BY <1>5, BoundsAreNumbers DEF Restart, TypeOK, OneEntryEach, StandbyIsAlone, NamesAreGiven
<1>6. ASSUME UNCHANGED vars
      PROVE  PoolInv' /\ UNCHANGED entries
  BY <1>6 DEF vars, TypeOK, OneEntryEach, StandbyIsAlone, NamesAreGiven
<1> QED
  BY <1>1, <1>2, <1>3, <1>4, <1>5, <1>6 DEF Next

LEMMA PoolInvariance == Spec => []PoolInv
PROOF
  BY PoolInitInv, PoolNextInv, PTL DEF Spec

\* Names and items of the pool's entries are distinct, however concurrent hooks
\* are ordered (Allocate's scan for a duplicate, nextName's counter).
THEOREM EntriesAreDistinct == Spec => []OneEntryEach
PROOF
<1>1. PoolInv => OneEntryEach
  BY DEF PoolInv
<1> QED
  BY PoolInvariance, <1>1, PTL

\* Allocate reuses the standby before it spawns, and Deallocate makes a standby
\* of the last entry only: an idle entry is the whole pool.
THEOREM StandbyAlone == Spec => []StandbyIsAlone
PROOF
<1>1. PoolInv => StandbyIsAlone
  BY DEF PoolInv
<1> QED
  BY PoolInvariance, <1>1, PTL

\* The pool keeps an entry from its first use to the end of the process.
THEOREM PoolStaysUsed == Spec => PoolNeverEmpties
PROOF
<1>1. PoolInv /\ [Next]_vars => [entries # {} /\ restarts' = restarts => entries' # {}]_vars
  BY PoolNextInv
<1> QED
  BY PoolInvariance, <1>1, PTL DEF Spec, PoolNeverEmpties
-----------------------------------------------------------------------------
(* The shared stores *)

\* The steps of persist from the lock on.
Holding == {"locked", "write", "flush", "rename", "release"}

\* The change of a call is in the process's memory, and the process has touched its keys.
Asked(p) ==
  /\ pc[p] \in InCall <=> change[p] # NoChange
  /\ change[p] # NoChange =>
       \A k \in DOMAIN change[p] : mem[p][k] = change[p][k] /\ p \in by[k]

\* Who has the lock file is alone between the reading and the renaming.
Exclusive(p) ==
  /\ pc[p] \in Holding <=> lock = p
  /\ pc[p] \in {"write", "flush", "rename"} => merged[p] = Merge(file, change[p])
  /\ pc[p] = "flush" => tmp = Torn
  /\ pc[p] = "rename" => tmp = merged[p]

Agrees(p) ==
  \A k \in Keys : pc[p] # "down" /\ by[k] \subseteq {p} /\ k \notin behind[p] => file[k] = mem[p][k]

StoreInv ==
  /\ StoreTypeOK
  /\ \A p \in Procs : Asked(p)
  /\ ~raced => file # Torn /\ \A p \in Procs : Exclusive(p) /\ Agrees(p)

\* A change names keys, and gives them stamps.
LEMMA ChangeIsMap ==
  ASSUME NEW c \in Changes
  PROVE  DOMAIN c \subseteq Keys /\ \A k \in DOMAIN c : c[k] \in Stamps
  <1>1. PICK S \in SUBSET Keys : c \in [S -> Stamps] BY DEF Changes
  <1> QED BY <1>1

LEMMA MergeIsMap ==
  ASSUME NEW map \in Maps, NEW c \in Changes
  PROVE  Merge(map, c) \in Maps
  BY ChangeIsMap DEF Merge, Maps

LEMMA BlankIsMap == Blank \in Maps
  BY StoreAssumption DEF Blank, Maps, Stamps

LEMMA MarksAreApart ==
  /\ NoChange \notin Changes /\ Torn \notin Maps /\ NoFile \notin Maps /\ Torn # NoFile
  /\ Free \notin Procs /\ Stale \notin Procs /\ Free # Stale
  BY StoreAssumption DEF MarksAreNew

\* Every mutation changes memory by a change of the store's keys.
LEMMA CallMutates ==
  ASSUME StoreInv, NEW p \in Procs, Call(p)
  PROVE  \E c \in Changes : Mutate(p, c)
  <1> USE DEF StoreInv, StoreTypeOK
  <1>1. ASSUME NEW S \in SUBSET Keys, Put(p, S) PROVE \E c \in Changes : Mutate(p, c)
    <2>1. mutations + 1 \in Stamps BY <1>1, StoreAssumption DEF Put, Mutate, Stamps
    <2>2. [k \in S |-> mutations + 1] \in [S -> Stamps] BY <2>1
    <2> QED BY <1>1, <2>2 DEF Put, Changes
  <1>2. ASSUME NEW S \in SUBSET Keys, Remove(p, S) PROVE \E c \in Changes : Mutate(p, c)
    <2>1. [k \in S |-> 0] \in [S -> Stamps] BY StoreAssumption DEF Stamps
    <2> QED BY <1>2, <2>1 DEF Remove, Changes
  <1>3. CASE Create(p) BY <1>1, <1>3 DEF Create, Keys
  <1>4. CASE AppendMessage(p)
    <2>1. PICK m \in Messages : Put(p, {m} \cup {t \in {ThreadOf[m]} : mem[p][t] # 0})
      BY <1>4 DEF AppendMessage
    <2>2. {m} \cup {t \in {ThreadOf[m]} : mem[p][t] # 0} \subseteq Keys
      BY StoreAssumption DEF ThreadsOfMessages, Keys
    <2> QED BY <1>1, <2>1, <2>2
  <1>5. CASE Update(p) BY <1>1, <1>5 DEF Update, Keys
  <1>6. CASE Reorder(p)
    <2>1. PICK S \in SUBSET Records : Put(p, {k \in S : mem[p][k] # 0}) BY <1>6 DEF Reorder
    <2>2. {k \in S : mem[p][k] # 0} \subseteq Keys BY DEF Keys
    <2> QED BY <1>1, <2>1, <2>2
  <1>7. CASE Delete(p) BY <1>2, <1>7 DEF Delete, Keys
  <1>8. CASE DeleteThread(p)
    <2>1. PICK t \in Used \cap Threads :
            Remove(p, {t} \cup {m \in Messages : ThreadOf[m] = t /\ mem[p][m] # 0})
      BY <1>8 DEF DeleteThread
    <2>2. {t} \cup {m \in Messages : ThreadOf[m] = t /\ mem[p][m] # 0} \subseteq Keys BY DEF Keys
    <2> QED BY <1>2, <2>1, <2>2
  <1> QED BY <1>3, <1>4, <1>5, <1>6, <1>7, <1>8 DEF Call

\* A file that cannot be read counts as an empty one.
LEMMA ContentsIsMap == StoreTypeOK => Contents \in Maps
  BY BlankIsMap DEF Contents, StoreTypeOK

LEMMA StoreInitInv == StoreInit => StoreInv
  <1> SUFFICES ASSUME StoreInit PROVE StoreInv OBVIOUS
  <1> USE DEF StoreInit
  <1>1. 0 \in Stamps /\ 0 \in 0 .. MaxCrashes BY StoreAssumption DEF Stamps
  <1>2. StoreTypeOK BY <1>1, BlankIsMap DEF StoreTypeOK
  <1>3. \A p \in Procs : Asked(p) BY DEF Asked, InCall
  <1>4. file # Torn BY BlankIsMap, MarksAreApart
  <1>5. \A p \in Procs : Exclusive(p) /\ Agrees(p)
    BY MarksAreApart DEF Exclusive, Holding, Agrees
  <1> QED BY <1>2, <1>3, <1>4, <1>5 DEF StoreInv

LEMMA StoreTypeStep == StoreInv /\ [StoreNext]_storeVars => StoreTypeOK'
  <1> SUFFICES ASSUME StoreInv, [StoreNext]_storeVars PROVE StoreTypeOK' OBVIOUS
  <1> USE DEF StoreInv, StoreTypeOK, Goto, InCall
  <1>1. ASSUME NEW p \in Procs, Open(p) PROVE StoreTypeOK'
    BY <1>1, ContentsIsMap DEF Open
  <1>2. ASSUME NEW p \in Procs, Call(p) PROVE StoreTypeOK'
    <2>1. PICK c \in Changes : Mutate(p, c) BY <1>2, CallMutates
    <2>2. Merge(mem[p], c) \in Maps BY MergeIsMap
    <2>3. mutations' \in Stamps BY <2>1, StoreAssumption DEF Mutate, Stamps
    <2>4. DOMAIN c \subseteq Keys BY ChangeIsMap
    <2> HIDE DEF InCall
    <2>5. by' \in [Keys -> SUBSET Procs] BY <2>1 DEF Mutate
    <2>6. pc' \in [Procs -> {"down", "idle", "release"} \cup InCall] BY <2>1 DEF Mutate, InCall
    <2> QED BY <2>1, <2>2, <2>3, <2>4, <2>5, <2>6 DEF Mutate
  <1>3. ASSUME NEW p \in Procs, Acquire(p) \/ FindStale(p) \/ Reclaim(p) \/ GiveUp(p) \/ Release(p)
        PROVE  StoreTypeOK'
    BY <1>3 DEF Acquire, FindStale, Reclaim, GiveUp, Release
  <1>4. ASSUME NEW p \in Procs, ReadAndMerge(p) PROVE StoreTypeOK'
    <2>1. change[p] \in Changes BY <1>4 DEF ReadAndMerge, Asked
    <2>2. Merge(Contents, change[p]) \in Maps BY <2>1, ContentsIsMap, MergeIsMap
    <2> QED BY <1>4, <2>2 DEF ReadAndMerge, Reread
  <1>5. ASSUME NEW p \in Procs, BeginWrite(p) \/ EndWrite(p) PROVE StoreTypeOK'
    BY <1>5 DEF BeginWrite, EndWrite
  <1>6. ASSUME NEW p \in Procs, Rename(p) PROVE StoreTypeOK'
    BY <1>6, BlankIsMap DEF Rename
  <1>7. ASSUME NEW p \in Procs, Crash(p) PROVE StoreTypeOK'
    BY <1>7, BlankIsMap, StoreAssumption DEF Crash
  <1>8. CASE UNCHANGED storeVars BY <1>8 DEF storeVars
  <1> QED BY <1>1, <1>2, <1>3, <1>4, <1>5, <1>6, <1>7, <1>8 DEF StoreNext, Persist

\* Keys are touched and never forgotten, and a call keeps its change until it ends.
LEMMA AskedStep == StoreInv /\ [StoreNext]_storeVars => \A q \in Procs : Asked(q)'
  <1> SUFFICES ASSUME StoreInv, [StoreNext]_storeVars, NEW q \in Procs PROVE Asked(q)' OBVIOUS
  <1> USE MarksAreApart DEF StoreInv, StoreTypeOK, Goto, InCall, Asked
  <1>1. ASSUME NEW p \in Procs, Open(p) PROVE Asked(q)'
    BY <1>1 DEF Open
  <1>2. ASSUME NEW p \in Procs, Call(p) PROVE Asked(q)'
    <2>1. PICK c \in Changes : Mutate(p, c) BY <1>2, CallMutates
    <2>2. DOMAIN c \subseteq Keys BY ChangeIsMap
    <2>3. CASE p = q
      <3>1. change'[q] = c /\ pc'[q] = "wait" BY <2>1, <2>3 DEF Mutate
      <3>2. \A k \in DOMAIN c : mem'[q][k] = c[k] /\ q \in by'[k]
        BY <2>1, <2>2, <2>3 DEF Mutate, Merge
      <3> QED BY <3>1, <3>2
    <2>4. CASE p # q
      <3>1. change'[q] = change[q] /\ pc'[q] = pc[q] /\ mem'[q] = mem[q]
        BY <2>1, <2>4 DEF Mutate
      <3>2. change[q] # NoChange => DOMAIN change[q] \subseteq Keys BY ChangeIsMap
      <3>3. \A k \in Keys : by[k] \subseteq by'[k] BY <2>1 DEF Mutate
      <3> QED BY <3>1, <3>2, <3>3
    <2> QED BY <2>3, <2>4
  <1>3. ASSUME NEW p \in Procs, Acquire(p) \/ FindStale(p) \/ Reclaim(p) \/ Release(p)
        PROVE  Asked(q)'
    BY <1>3 DEF Acquire, FindStale, Reclaim, Release
  <1>4. ASSUME NEW p \in Procs, ReadAndMerge(p) \/ BeginWrite(p) \/ EndWrite(p) PROVE Asked(q)'
    BY <1>4 DEF ReadAndMerge, BeginWrite, EndWrite
  <1>5. ASSUME NEW p \in Procs, GiveUp(p) \/ Rename(p) PROVE Asked(q)'
    BY <1>5 DEF GiveUp, Rename
  <1>6. ASSUME NEW p \in Procs, Crash(p) PROVE Asked(q)'
    BY <1>6 DEF Crash
  <1>7. CASE UNCHANGED storeVars BY <1>7 DEF storeVars
  <1> QED BY <1>1, <1>2, <1>3, <1>4, <1>5, <1>6, <1>7 DEF StoreNext, Persist

\* What a step that is not of the holder of the lock leaves alone.
LEMMA OnlyHolderWrites ==
  ASSUME StoreInv, NEW p \in Procs, Open(p) \/ Call(p) \/ FindStale(p) \/ GiveUp(p)
  PROVE  /\ pc[p] \notin Holding /\ pc'[p] \notin Holding
         /\ UNCHANGED <<file, tmp, lock, merged, raced>>
         /\ \A q \in Procs \ {p} : pc'[q] = pc[q] /\ change'[q] = change[q]
  <1> USE DEF StoreInv, StoreTypeOK, Goto, Holding
  <1>1. CASE Open(p) BY <1>1 DEF Open
  <1>2. CASE Call(p)
    <2>1. PICK c \in Changes : Mutate(p, c) BY <1>2, CallMutates
    <2> QED BY <2>1 DEF Mutate
  <1>3. CASE FindStale(p) \/ GiveUp(p) BY <1>3 DEF FindStale, GiveUp
  <1> QED BY <1>1, <1>2, <1>3

LEMMA RacedStays == StoreInv /\ [StoreNext]_storeVars /\ ~raced' => ~raced
  <1> SUFFICES ASSUME StoreInv, [StoreNext]_storeVars, ~raced' PROVE ~raced OBVIOUS
  <1>1. ASSUME NEW p \in Procs, Call(p) PROVE UNCHANGED raced BY <1>1, OnlyHolderWrites
  <1> QED BY <1>1 DEF StoreNext, Open, Persist, Acquire, FindStale, Reclaim, GiveUp, ReadAndMerge,
    BeginWrite, EndWrite, Rename, Release, Crash, storeVars

\* The lock file is removed only by who is named in it, or when it names no running process.
LEMMA ExclusiveStep ==
  ASSUME StoreInv, [StoreNext]_storeVars, ~raced'
  PROVE  file' # Torn /\ \A q \in Procs : Exclusive(q)'
  <1> USE MarksAreApart DEF StoreInv, StoreTypeOK, Goto, Exclusive, Holding
  <1>1. ~raced BY RacedStays
  <1>2. ASSUME NEW p \in Procs, Open(p) \/ Call(p) \/ FindStale(p) \/ GiveUp(p)
        PROVE  file' # Torn /\ \A q \in Procs : Exclusive(q)'
    <2>1. /\ pc[p] \notin Holding /\ pc'[p] \notin Holding
          /\ UNCHANGED <<file, tmp, lock, merged, raced>>
          /\ \A q \in Procs \ {p} : pc'[q] = pc[q] /\ change'[q] = change[q]
      BY <1>2, OnlyHolderWrites
    <2> QED BY <1>1, <2>1 DEF Merge
  <1>3. ASSUME NEW p \in Procs, Acquire(p) \/ Reclaim(p) \/ Release(p)
        PROVE  file' # Torn /\ \A q \in Procs : Exclusive(q)'
    <2>1. CASE Acquire(p) BY <1>1, <2>1 DEF Acquire, Merge
    <2>2. CASE Reclaim(p) BY <1>1, <2>2 DEF Reclaim, Merge
    <2>3. CASE Release(p) BY <1>1, <2>3 DEF Release, Merge
    <2> QED BY <1>3, <2>1, <2>2, <2>3
  <1>4. ASSUME NEW p \in Procs, ReadAndMerge(p) \/ BeginWrite(p) \/ EndWrite(p) \/ Rename(p)
        PROVE  file' # Torn /\ \A q \in Procs : Exclusive(q)'
    <2>1. \A q \in Procs \ {p} : pc[q] \notin Holding /\ pc'[q] = pc[q] /\ lock # q
      BY <1>1, <1>4 DEF ReadAndMerge, BeginWrite, EndWrite, Rename
    <2>2. lock = p /\ lock' = p
      BY <1>1, <1>4 DEF ReadAndMerge, BeginWrite, EndWrite, Rename
    <2>3. CASE ReadAndMerge(p)
      <3>1. merged'[p] = Merge(file, change[p])
        BY <1>1, <2>3 DEF ReadAndMerge, Reread, Contents
      <3> QED BY <1>1, <2>1, <2>2, <2>3, <3>1 DEF ReadAndMerge, Merge
    <2>4. CASE BeginWrite(p) BY <1>1, <2>1, <2>2, <2>4 DEF BeginWrite, Merge
    <2>5. CASE EndWrite(p)
      <3>1. tmp' = merged[p] /\ UNCHANGED file BY <1>1, <2>5 DEF EndWrite
      <3> QED BY <1>1, <2>1, <2>2, <2>5, <3>1 DEF EndWrite, Merge
    <2>6. CASE Rename(p)
      <3>1. tmp = merged[p] /\ merged[p] \in Maps BY <1>1, <2>6 DEF Rename
      <3>2. file' \in Maps BY <2>6, <3>1 DEF Rename
      <3> QED BY <2>1, <2>2, <2>6, <3>2 DEF Rename
    <2> QED BY <1>4, <2>3, <2>4, <2>5, <2>6
  <1>5. ASSUME NEW p \in Procs, Crash(p)
        PROVE  file' # Torn /\ \A q \in Procs : Exclusive(q)'
    <2>1. \A q \in Procs \ {p} :
            pc'[q] = pc[q] /\ change'[q] = change[q] /\ merged'[q] = merged[q]
      BY <1>5 DEF Crash
    <2>2. pc'[p] = "down" /\ UNCHANGED <<file, tmp>> /\ lock' = IF lock = p THEN Stale ELSE lock
      BY <1>5 DEF Crash
    <2> QED BY <1>1, <2>1, <2>2 DEF Merge
  <1>6. CASE UNCHANGED storeVars BY <1>1, <1>6 DEF storeVars, Merge
  <1> QED BY <1>2, <1>3, <1>4, <1>5, <1>6 DEF StoreNext, Persist

\* Nobody but a process itself changes what it alone has touched.
LEMMA AgreesStep ==
  ASSUME StoreInv, [StoreNext]_storeVars, ~raced'
  PROVE  \A q \in Procs : Agrees(q)'
  <1> SUFFICES ASSUME NEW q \in Procs PROVE Agrees(q)' OBVIOUS
  <1> USE MarksAreApart DEF StoreInv, StoreTypeOK, Goto, Agrees
  <1>1. ~raced BY RacedStays
  <1>2. ASSUME NEW p \in Procs, Open(p) PROVE Agrees(q)'
    <2>1. CASE p = q BY <1>1, <1>2, <2>1 DEF Open, Contents
    <2>2. CASE p # q BY <1>1, <1>2, <2>2 DEF Open
    <2> QED BY <2>1, <2>2
  <1>3. ASSUME NEW p \in Procs, Call(p) PROVE Agrees(q)'
    <2>1. PICK c \in Changes : Mutate(p, c) BY <1>3, CallMutates
    <2>2. UNCHANGED file BY <2>1 DEF Mutate
    <2>3. SUFFICES ASSUME NEW k \in Keys, pc'[q] # "down", by'[k] \subseteq {q}, k \notin behind'[q]
                   PROVE  file[k] = mem'[q][k]
      BY <2>2
    <2>4. pc[q] # "down" /\ by[k] \subseteq {q} /\ k \notin behind[q] BY <2>1, <2>3 DEF Mutate
    <2>5. p = q => k \notin DOMAIN c BY <2>1, <2>3 DEF Mutate
    <2>6. mem'[q][k] = mem[q][k] BY <2>1, <2>5 DEF Mutate, Merge
    <2> QED BY <1>1, <2>4, <2>6
  <1>4. ASSUME NEW p \in Procs,
               \/ Acquire(p) \/ FindStale(p) \/ Reclaim(p) \/ GiveUp(p) \/ Release(p)
               \/ ReadAndMerge(p) \/ BeginWrite(p)
        PROVE  Agrees(q)'
    BY <1>1, <1>4 DEF Acquire, FindStale, Reclaim, GiveUp, Release, ReadAndMerge, BeginWrite
  <1>5. ASSUME NEW p \in Procs, EndWrite(p) PROVE Agrees(q)'
    BY <1>1, <1>5 DEF EndWrite, Exclusive
  <1>6. ASSUME NEW p \in Procs, Rename(p) PROVE Agrees(q)'
    <2>1. file' = Merge(file, change[p]) BY <1>1, <1>6 DEF Rename, Exclusive
    <2>2. change[p] \in Changes BY <1>6 DEF Rename, Asked, InCall
    <2>3. UNCHANGED <<mem, by>> BY <1>6 DEF Rename
    <2>4. SUFFICES ASSUME NEW k \in Keys, pc'[q] # "down", by[k] \subseteq {q}, k \notin behind'[q]
                   PROVE  file'[k] = mem[q][k]
      BY <2>3
    <2>5. CASE k \in DOMAIN change[p]
      <3>1. mem[p][k] = change[p][k] /\ p \in by[k] BY <2>2, <2>5 DEF Asked
      <3>2. p = q BY <2>4, <3>1
      <3> QED BY <2>1, <2>5, <3>1, <3>2 DEF Merge
    <2>6. CASE k \notin DOMAIN change[p]
      <3>1. pc[q] # "down" /\ k \notin behind[q] BY <1>6, <2>4, <2>6 DEF Rename
      <3>2. file'[k] = file[k] BY <2>1, <2>6 DEF Merge
      <3> QED BY <1>1, <2>4, <3>1, <3>2
    <2> QED BY <2>5, <2>6
  <1>7. ASSUME NEW p \in Procs, Crash(p) PROVE Agrees(q)'
    <2>1. CASE p = q BY <1>7, <2>1 DEF Crash
    <2>2. CASE p # q BY <1>1, <1>7, <2>2 DEF Crash
    <2> QED BY <2>1, <2>2
  <1>8. CASE UNCHANGED storeVars BY <1>1, <1>8 DEF storeVars
  <1> QED BY <1>2, <1>3, <1>4, <1>5, <1>6, <1>7, <1>8 DEF StoreNext, Persist

LEMMA StoreNextInv == StoreInv /\ [StoreNext]_storeVars => StoreInv'
  BY StoreTypeStep, AskedStep, ExclusiveStep, AgreesStep DEF StoreInv

LEMMA StoreInvariance == StoreSpec => []StoreInv
  BY StoreInitInv, StoreNextInv, PTL DEF StoreSpec

\* Every step of a process is a step of the map, or none.
LEMMA StoreStepsAreMapSteps ==
  StoreInv /\ [StoreNext]_storeVars => [Shared!Next]_<<file, change, raced>>
  <1> SUFFICES ASSUME StoreInv, [StoreNext]_storeVars
               PROVE  Shared!Next \/ UNCHANGED <<file, change, raced>>
    OBVIOUS
  <1> USE MarksAreApart DEF StoreInv, StoreTypeOK, Shared!Next
  <1>1. CASE raced' BY <1>1 DEF Shared!Break
  <1>2. CASE ~raced'
    <2>1. ~raced BY <1>2, RacedStays
    <2>2. raced' = raced BY <1>2, <2>1, StoreTypeStep
    <2>3. ASSUME NEW p \in Procs, Call(p) PROVE Shared!Ask(p)
      <3>1. PICK c \in Changes : Mutate(p, c) BY <2>3, CallMutates
      <3>2. PICK S \in SUBSET Keys : c \in [S -> Stamps] BY DEF Changes
      <3>3. change[p] = NoChange BY <3>1 DEF Mutate, Asked, InCall
      <3>4. change' = [change EXCEPT ![p] = c] /\ change'[p] = c /\ UNCHANGED file
        BY <3>1 DEF Mutate
      <3> QED BY <3>2, <3>3, <3>4 DEF Shared!Ask
    <2>4. ASSUME NEW p \in Procs, Rename(p) PROVE Shared!Apply(p)
      <3>1. file' = Merge(file, change[p]) BY <2>1, <2>4 DEF Rename, Exclusive
      <3>2. change[p] # NoChange BY <2>4 DEF Rename, Asked, InCall
      <3> QED BY <2>4, <3>1, <3>2 DEF Rename, Merge, Shared!Apply
    <2>5. ASSUME NEW p \in Procs, GiveUp(p) PROVE Shared!Drop(p)
      <3>1. change[p] # NoChange BY <2>5 DEF GiveUp, Asked, InCall
      <3> QED BY <2>5, <3>1 DEF GiveUp, Shared!Drop
    <2>6. ASSUME NEW p \in Procs, Crash(p)
          PROVE  Shared!Drop(p) \/ UNCHANGED <<file, change, raced>>
      <3>1. change' = [change EXCEPT ![p] = NoChange] /\ UNCHANGED <<file, raced>>
        BY <2>6 DEF Crash
      <3>2. CASE change[p] = NoChange BY <3>1, <3>2
      <3>3. CASE change[p] # NoChange BY <3>1, <3>3 DEF Shared!Drop
      <3> QED BY <3>2, <3>3
    <2>7. ASSUME NEW p \in Procs, EndWrite(p) PROVE UNCHANGED <<file, change, raced>>
      BY <2>1, <2>7 DEF EndWrite, Exclusive
    <2>8. ASSUME NEW p \in Procs,
                 \/ Open(p) \/ Acquire(p) \/ FindStale(p) \/ Reclaim(p) \/ Release(p)
                 \/ ReadAndMerge(p) \/ BeginWrite(p)
          PROVE  UNCHANGED <<file, change>>
      BY <2>8 DEF Open, Acquire, FindStale, Reclaim, Release, ReadAndMerge, BeginWrite
    <2>9. CASE UNCHANGED storeVars BY <2>9 DEF storeVars
    <2> QED BY <2>1, <2>2, <2>3, <2>4, <2>5, <2>6, <2>7, <2>8, <2>9 DEF StoreNext, Persist,
      Shared!Operation
  <1> QED BY <1>1, <1>2

\* Every variable of the stores keeps its type: in particular the file is a whole map or is
\* marked as torn (persist of the three stores).
THEOREM StoreTypesAreRespected == StoreSpec => []StoreTypeOK
  <1>1. StoreInv => StoreTypeOK BY DEF StoreInv
  <1> QED BY <1>1, StoreInvariance, PTL

\* What a process alone has touched is on disk as it remembers it, until the lock of a running
\* process is removed (persist; AcquireWait and Release of the file lock).
THEOREM OwnEntriesReachDisk == StoreSpec => []OwnEntriesAgree
  <1>1. StoreInv => OwnEntriesAgree BY DEF StoreInv, Agrees, OwnEntriesAgree
  <1> QED BY <1>1, StoreInvariance, PTL

\* The store implements the map whose changes are applied or dropped whole (persist).
THEOREM StoreIsAtomicMap == StoreSpec => IsAtomicMap
  <1>1. StoreInit => Shared!Init BY BlankIsMap DEF StoreInit, Maps, Shared!Init
  <1> QED BY <1>1, StoreInvariance, StoreStepsAreMapSteps, PTL DEF StoreSpec, IsAtomicMap,
    Shared!Spec
-----------------------------------------------------------------------------
(* The backup of a bot's memory *)

\* No run outlives its process, and an empty directory is no repository.
AtRest ==
  /\ bot # "running" => \A r \in Runs : run[r] = NoRun
  /\ empty => repo = "none" /\ bot \notin {"restoring", "running"}
  /\ repo = "none" => base = 0
  /\ restored => repo = "cloned"
  /\ bot = "restoring" => repo = "cloned" /\ remote.commit > 0 /\ ~restored

\* While nobody else pushes, a clone that has the branch builds on the branch's last commit.
OnBranch ==
  repo = "cloned" => \/ bot = "restoring" /\ base = 0
                     \/ base > 0 /\ base = remote.commit /\ (bot = "restoring" => index = head)

\* What a run has staged is in the directory and in what it commits, and is committed before
\* it pushes.
Carried(r) ==
  /\ run[r].at # "idle" => run[r].files \subseteq index /\ index \subseteq files
  /\ run[r].at \in {"push", "pull", "again"} => run[r].files \subseteq head

Diverged == theirs \/ cut = "fetch"

\* While nothing has diverged, only what is in the remote's history is reported.
Reported ==
  /\ promised \subseteq remote.past /\ remote.files \subseteq remote.past
  /\ OnBranch
  /\ repo = "cloned" => \A r \in Runs : Carried(r)

\* While no clone has been cut off either, files only grow on their way to the remote: from
\* the branch to the directory, by way of what is committed and staged.
Newer ==
  /\ promised \subseteq remote.files
  /\ repo = "cloned" /\ base > 0 => remote.files \subseteq head /\ head \subseteq index
  /\ repo = "cloned" /\ bot # "restoring" => index \subseteq files

BackupInv ==
  /\ BackupTypeOK
  /\ AtRest
  /\ ~Diverged => Reported
  /\ ~Diverged /\ cut = "never" => Newer

LEMMA BackupBounds ==
  /\ MaxContents \in Nat /\ MaxFaults \in Nat /\ MaxLosses \in Nat
  /\ 1 \in 1 .. MaxContents
  /\ 0 \in 0 .. MaxContents /\ 1 \in 0 .. MaxContents
  /\ 0 \in 0 .. MaxFaults /\ 0 \in 0 .. MaxLosses
  BY BackupAssumption

LEMMA NextNumber ==
  ASSUME NEW m \in Nat, NEW n \in 0 .. m, n < m
  PROVE  n + 1 \in 0 .. m /\ n + 1 \in 1 .. m
  OBVIOUS

\* A step of a run is its own.
LEMMA RunGoes ==
  ASSUME NEW r \in Runs, NEW step, BackupTypeOK, Goes(r, step)
  PROVE  /\ \A q \in Runs \ {r} : run'[q] = run[q]
         /\ run'[r].at = step /\ run'[r].files = run[r].files
  BY DEF BackupTypeOK, Goes

LEMMA RunEnds ==
  ASSUME NEW r \in Runs, BackupTypeOK, Ends(r)
  PROVE  (\A q \in Runs \ {r} : run'[q] = run[q]) /\ run'[r] = NoRun
  BY DEF BackupTypeOK, Ends

LEMMA BackupInitInv == BackupInit => BackupInv
  <1> SUFFICES ASSUME BackupInit PROVE BackupInv OBVIOUS
  <1> USE BackupBounds DEF BackupInit
  <1>1. {files, index, head, promised} \subseteq Content /\ contents \in 0 .. MaxContents
        /\ remote \in [commit : Nat, files : Content, past : Content]
    BY DEF Content
  <1>2. BackupTypeOK BY <1>1 DEF BackupTypeOK, NoRun, Content
  <1> QED BY <1>2 DEF BackupInv, AtRest, Diverged, Reported, OnBranch, Newer

LEMMA BackupTypeStep == BackupInv /\ [BackupNext]_backupVars => BackupTypeOK'
  <1> SUFFICES ASSUME BackupInv, [BackupNext]_backupVars PROVE BackupTypeOK' OBVIOUS
  <1> USE BackupBounds DEF BackupInv, BackupTypeOK, config, git, NoRun, Fault, Content
  <1>1. ASSUME Written PROVE contents' \in 0 .. MaxContents /\ files' \in Content
    BY <1>1, NextNumber DEF Written
  <1>2. CASE EnsureOwner
    <2>1. CASE Written BY <1>1, <1>2, <2>1 DEF EnsureOwner, Written
    <2>2. CASE UNCHANGED <<files, empty, contents>> BY <1>2, <2>2 DEF EnsureOwner
    <2> QED BY <1>2, <2>1, <2>2 DEF EnsureOwner
  <1>3. CASE startBot BY <1>3 DEF startBot
  <1>4. CASE PlainClone
    <2>1. CASE FetchBranch BY <2>1 DEF FetchBranch
    <2>2. CASE CheckOut
      <3>1. head \in SUBSET (1 .. MaxContents) /\ files \in SUBSET (1 .. MaxContents) OBVIOUS
      <3>2. files' \in SUBSET (1 .. MaxContents) BY ONLY <2>2, <3>1 DEF CheckOut
      <3> QED BY <2>2, <3>2 DEF CheckOut
    <2>3. CASE CloneEnds BY <2>3 DEF CloneEnds
    <2> QED BY <1>4, <2>1, <2>2, <2>3 DEF PlainClone
  <1>5. CASE CloneFails BY <1>5 DEF CloneFails
  <1>6. CASE Write BY <1>1, <1>6 DEF Write, Written
  <1>7. CASE ForeignPush BY <1>7, NextNumber DEF ForeignPush
  <1>8. ASSUME NEW r \in Runs, Stage(r) \/ Commit(r) PROVE BackupTypeOK'
    BY <1>8 DEF Stage, Commit, At, Goes, Ends
  <1>9. ASSUME NEW r \in Runs, Push(r) \/ Retry(r) PROVE BackupTypeOK'
    BY <1>9 DEF Push, Retry, Pushed, CanPush, Elsewhere, At, Goes, Ends
  <1>10. ASSUME NEW r \in Runs, Pull(r) PROVE BackupTypeOK'
    BY <1>10 DEF Pull, PullFails, UpToDate, Replaced, CanPush, At, Goes, Ends
  <1>11. CASE ProcessEnds BY <1>11 DEF ProcessEnds
  <1>12. CASE Lose BY <1>12, NextNumber DEF Lose
  <1>13. CASE UNCHANGED backupVars BY <1>13 DEF backupVars
  <1> QED BY <1>2, <1>3, <1>4, <1>5, <1>6, <1>7, <1>8, <1>9, <1>10, <1>11, <1>12, <1>13
    DEF BackupNext, BackupRun

LEMMA AtRestStep == BackupInv /\ [BackupNext]_backupVars => AtRest'
  <1> SUFFICES ASSUME BackupInv, [BackupNext]_backupVars PROVE AtRest' OBVIOUS
  <1> USE DEF BackupInv, BackupTypeOK, AtRest, config, git, NoRun
  <1>1. CASE EnsureOwner BY <1>1 DEF EnsureOwner, Written
  <1>2. CASE startBot BY <1>2 DEF startBot, isDirEmpty
  <1>3. CASE PlainClone \/ CloneFails
    <2>1. CASE FetchBranch BY <2>1 DEF FetchBranch
    <2>2. CASE CheckOut BY <2>2 DEF CheckOut
    <2>3. CASE CloneEnds BY <2>3 DEF CloneEnds
    <2>4. CASE CloneFails BY <2>4 DEF CloneFails
    <2> QED BY <1>3, <2>1, <2>2, <2>3, <2>4 DEF PlainClone
  <1>4. CASE Write \/ ForeignPush
    <2>1. CASE Write BY <2>1 DEF Write, Written
    <2>2. CASE ForeignPush
      <3>1. remote'.commit = remote.commit + 1 BY <2>2 DEF ForeignPush
      <3> QED BY <2>2, <3>1 DEF ForeignPush
    <2> QED BY <1>4, <2>1, <2>2
  <1>5. ASSUME NEW r \in Runs, Stage(r) PROVE AtRest' BY <1>5 DEF Stage, At
  <1>6. ASSUME NEW r \in Runs, Commit(r) PROVE AtRest' BY <1>6 DEF Commit, At
  <1>7. ASSUME NEW r \in Runs, Pushed(r), bot = "running", UNCHANGED <<bot, empty, repo, restored>>
        PROVE  AtRest'
    BY <1>7 DEF Pushed, CanPush, Elsewhere
  <1>8. ASSUME NEW r \in Runs, Push(r) \/ Retry(r) PROVE AtRest' BY <1>7, <1>8 DEF Push, Retry, At
  <1>9. ASSUME NEW r \in Runs, Pull(r) PROVE AtRest'
    BY <1>9 DEF Pull, PullFails, UpToDate, Replaced, At
  <1>10. CASE ProcessEnds BY <1>10 DEF ProcessEnds
  <1>11. CASE Lose BY <1>11 DEF Lose
  <1>12. CASE UNCHANGED backupVars BY <1>12 DEF backupVars
  <1> QED BY <1>1, <1>2, <1>3, <1>4, <1>5, <1>6, <1>8, <1>9, <1>10, <1>11, <1>12
    DEF BackupNext, BackupRun

\* Divergence and a clone that was cut off are for good.
LEMMA DivergedStep ==
  ASSUME BackupInv, [BackupNext]_backupVars, ~Diverged'
  PROVE  ~Diverged /\ ~ForeignPush /\ (cut' = "never" => cut = "never")
  BY DEF BackupNext, BackupRun, EnsureOwner, startBot, PlainClone, FetchBranch, CheckOut, CloneEnds,
    CloneFails, Write, ForeignPush, Stage, Commit, Push, Pull, Retry, ProcessEnds, Lose, backupVars,
    Diverged

\* Whatever runs overlap or end, what is reported was pushed, and files only grow on their way.
LEMMA ReportedStep ==
  ASSUME BackupInv, [BackupNext]_backupVars, ~Diverged'
  PROVE  Reported' /\ (cut' = "never" => Newer')
  <1> DEFINE Fine == Reported' /\ (cut' = "never" => Newer')
  <1>0. ~Diverged /\ ~ForeignPush /\ (cut' = "never" => cut = "never") BY DivergedStep
  <1> USE BackupBounds, <1>0
    DEF BackupInv, BackupTypeOK, AtRest, Reported, OnBranch, Carried, Newer, config, git, NoRun,
        Content
  <1>1. CASE EnsureOwner
    <2>1. CASE Written BY <1>1, <2>1 DEF EnsureOwner, Written
    <2>2. CASE UNCHANGED <<files, empty, contents>> BY <1>1, <2>2 DEF EnsureOwner
    <2> QED BY <1>1, <2>1, <2>2 DEF EnsureOwner
  <1>2. CASE startBot BY <1>2 DEF startBot, isDirEmpty
  <1>3. CASE FetchBranch BY <1>3 DEF FetchBranch
  <1>4. CASE CheckOut BY <1>4 DEF CheckOut
  <1>5. CASE CloneEnds BY <1>5 DEF CloneEnds
  <1>6. CASE CloneFails BY <1>6 DEF CloneFails
  <1>7. CASE Write BY <1>7 DEF Write, Written
  <1>8. ASSUME NEW r \in Runs, Stage(r) PROVE Fine
    <2>1. index' = files
          /\ UNCHANGED <<bot, files, head, base, remote, cut, promised>>
      BY <1>8 DEF Stage
    <2>2. bot = "running" /\ (repo' = "cloned" => repo = "cloned") BY <1>8 DEF Stage, At
    <2>3. \A q \in Runs : \/ run'[q] = run[q]
                          \/ q = r /\ run'[q] = [at |-> "staged", files |-> files]
      BY <1>8 DEF Stage
    <2> QED BY <2>1, <2>2, <2>3
  <1>9. ASSUME NEW r \in Runs, Commit(r) PROVE Fine
    <2>1. head' = index
          /\ UNCHANGED <<bot, files, index, repo, base, remote, cut, promised>>
      BY <1>9 DEF Commit
    <2>2. run[r].at = "staged" /\ bot = "running" /\ (Ends(r) \/ Goes(r, "push"))
      BY <1>9 DEF Commit, At
    <2>3. /\ \A q \in Runs \ {r} : run'[q] = run[q]
          /\ \/ run'[r] = NoRun
             \/ run'[r].at = "push" /\ run'[r].files = run[r].files
      BY <2>2, RunEnds, RunGoes
    <2> QED BY <2>1, <2>2, <2>3
  <1>10. ASSUME NEW r \in Runs, run[r].at \in {"push", "again"}, Pushed(r), bot = "running",
               UNCHANGED <<bot, files, index, head, repo, cut>>
        PROVE  Fine
    <2>1. CanPush /\ ~Elsewhere BY <1>10 DEF Pushed, CanPush, Elsewhere
    <2>2. remote'.files = head /\ base' = remote'.commit /\ base' > 0
      BY <1>10, <2>1 DEF Pushed, CanPush
    <2>3. head \subseteq remote'.past /\ remote.past \subseteq remote'.past
      BY <1>10, <2>1 DEF Pushed, CanPush
    <2>4. promised' \subseteq promised \cup head BY <1>10, <2>1 DEF Pushed, CanPush
    <2>5. \A q \in Runs : run'[q] = run[q] \/ run'[q] = NoRun BY <1>10, RunEnds DEF Pushed
    <2>6. repo = "cloned" /\ base > 0 BY <1>10, <2>1 DEF CanPush
    <2> QED BY <1>10, <2>2, <2>3, <2>4, <2>5, <2>6
  <1>11. ASSUME NEW r \in Runs, run[r].at \in {"push", "pull", "again"},
               Goes(r, "pull") \/ Goes(r, "again") \/ Ends(r),
               UNCHANGED <<bot, files, index, head, base, repo, remote, cut, promised>>
        PROVE  Fine
    <2>1. \A q \in Runs : \/ run'[q] = run[q] \/ run'[q] = NoRun
                          \/ /\ run[q].at \in {"push", "pull", "again"}
                             /\ run'[q].at \in {"pull", "again"} /\ run'[q].files = run[q].files
      BY <1>11, RunGoes, RunEnds
    <2> QED BY <1>11, <2>1
  <1>12. ASSUME NEW r \in Runs, Push(r) \/ Retry(r) PROVE Fine
    <2>1. CASE Pushed(r) BY <1>10, <1>12, <2>1 DEF Push, Retry, At
    <2>2. CASE ~Pushed(r) BY <1>11, <1>12, <2>2 DEF Push, Retry, At
    <2> QED BY <2>1, <2>2
  <1>13. ASSUME NEW r \in Runs, Pull(r) PROVE Fine
    <2>1. ~Replaced(r) BY <1>13 DEF Replaced, Pull, At
    <2> QED BY <1>11, <1>13, <2>1 DEF Pull, PullFails, UpToDate, At
  <1>14. CASE ProcessEnds
    <2>1. bot = "restoring" => base # 0 BY <1>14 DEF ProcessEnds, Diverged
    <2>2. cut' = "never" => bot # "restoring" BY <1>14 DEF ProcessEnds
    <2> QED BY <1>14, <2>1, <2>2 DEF ProcessEnds
  <1>15. CASE Lose BY <1>15 DEF Lose
  <1>16. CASE UNCHANGED backupVars BY <1>16 DEF backupVars
  <1> QED
    BY <1>1, <1>2, <1>3, <1>4, <1>5, <1>6, <1>7, <1>8, <1>9, <1>12, <1>13, <1>14, <1>15, <1>16
    DEF BackupNext, BackupRun, PlainClone

LEMMA BackupNextInv == BackupInv /\ [BackupNext]_backupVars => BackupInv'
  BY BackupTypeStep, AtRestStep, ReportedStep, DivergedStep DEF BackupInv

\* Every variable of the backup keeps its type (Backup, Restore, startBot).
THEOREM BackupTypesAreRespected == BackupSpec => []BackupTypeOK
  <1>1. BackupInv => BackupTypeOK BY DEF BackupInv
  <1> QED BY <1>1, BackupInitInv, BackupNextInv, PTL DEF BackupSpec

\* What a completed backup has reported was pushed, whatever runs overlap and wherever the
\* process ends, unless somebody else pushes or a clone is cut off before it has the branch;
\* unless any clone is cut off, the branch keeps it and a clone brings it back (Backup,
\* pushWithRetry, Restore).
THEOREM BackupsOutliveMachine == BackupSpec => []BackupIsKept
  <1>1. BackupInv => BackupIsKept
    BY DEF BackupInv, BackupTypeOK, AtRest, Diverged, Reported, OnBranch, Newer, BackupIsKept,
      CompletedIsPushed, CompletedIsKept, RestoredIsComplete
  <1> QED BY <1>1, BackupInitInv, BackupNextInv, PTL DEF BackupSpec
-----------------------------------------------------------------------------
(* The Buzz monitor *)

\* The presence loop that can be cancelled is the one that runs, and there is one from before
\* a connection is used until after its loss is noticed.
OneLoop ==
  /\ presenceCancel \in {0, 1}
  /\ loops = IF presenceCancel = 0 THEN {} ELSE {presenceCancel}
  /\ authed \/ watch = "swap" => presenceCancel # 0

\* The loops begin once each, when run gets to them, and run begins once.
BegunInOrder ==
  /\ identity = "free" => stage = "off"
  /\ stage \in {"off", "connect", "authenticate", "announce", "discovery"} =>
       worker["discovery"].pc = "off"
  /\ stage \in {"off", "connect", "authenticate", "announce", "discovery", "membership"} =>
       worker["membership"].pc = "off"

\* An entry is a subscription of its channel, and a loop works on one that was begun.
KnownSubscriptions ==
  /\ Len(subs) <= events
  /\ \A c \in Channels :
       channels[c] # 0 => channels[c] \in DOMAIN subs /\ subs[channels[c]].channel = c
  /\ \A w \in Workers :
       worker[w].pc \in {"opening", "undo", "cancel"} => worker[w].sub \in DOMAIN subs

\* The membership loop is about to cancel the subscription.
BeingCancelled(s) == worker["membership"].pc = "cancel" /\ worker["membership"].sub = s

\* Until one fails, a subscription that has not been cancelled is its channel's entry,
\* opened or not, or has been taken out for that.
Listed ==
  ~failed =>
    /\ \A w \in Workers : worker[w].pc # "undo"
    /\ worker["discovery"].pc # "cancel"
    /\ \A s \in DOMAIN subs :
         ~subs[s].cancelled => channels[subs[s].channel] = s \/ BeingCancelled(s)

MonitorInv == MonitorTypeOK /\ OneLoop /\ BegunInOrder /\ KnownSubscriptions /\ Listed

LEMMA MonitorBounds ==
  /\ MaxStarts \in Nat /\ MaxEvents \in Nat /\ MaxDrops \in Nat
  /\ Workers = {"discovery", "membership"}
  BY MonitorAssumption DEF Workers

\* A subscription that is begun comes after the others.
LEMMA Begun ==
  ASSUME MonitorInv, NEW w \in Workers, NEW c \in Channels, Event(w), Begin(w, c)
  PROVE  /\ subs' \in Seq(Sub) /\ Len(subs') = Len(subs) + 1 /\ Len(subs') \in 1 .. MaxEvents
         /\ DOMAIN subs' = DOMAIN subs \cup {Len(subs')}
         /\ \A s \in DOMAIN subs : subs'[s] = subs[s]
         /\ subs'[Len(subs')].channel = c /\ ~subs'[Len(subs')].cancelled
  <1>1. [channel |-> c, state |-> "opening", cancelled |-> FALSE, link |-> drops] \in Sub
    BY DEF MonitorInv, MonitorTypeOK, ChannelTypeOK, LinkTypeOK, Sub
  <1> QED BY <1>1, MonitorBounds
    DEF MonitorInv, MonitorTypeOK, ChannelTypeOK, KnownSubscriptions, Begin, Event

\* A change of one subscription keeps which there are, and of which channels.
LEMMA Changed ==
  ASSUME MonitorInv, NEW s \in DOMAIN subs, NEW x \in Sub, x.channel = subs[s].channel,
         subs' = [subs EXCEPT ![s] = x]
  PROVE  /\ subs' \in Seq(Sub) /\ Len(subs') = Len(subs) /\ DOMAIN subs' = DOMAIN subs
         /\ \A t \in DOMAIN subs : subs'[t].channel = subs[t].channel
  BY DEF MonitorInv, MonitorTypeOK, ChannelTypeOK, LinkTypeOK, Sub

LEMMA SubscriptionKept ==
  ASSUME NEW x \in Sub
  PROVE  /\ [x EXCEPT !.state = "live"] \in Sub /\ [x EXCEPT !.state = "failed"] \in Sub
         /\ [x EXCEPT !.cancelled = TRUE] \in Sub
         /\ [x EXCEPT !.state = "live"].channel = x.channel
         /\ [x EXCEPT !.state = "failed"].channel = x.channel
         /\ [x EXCEPT !.cancelled = TRUE].channel = x.channel
  BY DEF Sub

LEMMA OfAChannel ==
  ASSUME MonitorInv
  PROVE  \A s \in DOMAIN subs : s # 0 /\ subs[s] \in Sub /\ subs[s].channel \in Channels
  <1>1. \A s \in DOMAIN subs : s # 0 /\ subs[s] \in Sub
    BY DEF MonitorInv, MonitorTypeOK, ChannelTypeOK
  <1> QED BY <1>1 DEF Sub

\* What a loop works on is a subscription.
LEMMA WorkedOn ==
  ASSUME MonitorInv, NEW w \in Workers, worker[w].pc \in {"opening", "undo", "cancel"}
  PROVE  /\ worker[w].sub \in DOMAIN subs /\ subs[worker[w].sub] \in Sub
         /\ subs[worker[w].sub].channel \in Channels
  <1>1. worker[w].sub \in DOMAIN subs BY DEF MonitorInv, KnownSubscriptions
  <1>2. subs[worker[w].sub] \in Sub
    BY <1>1 DEF MonitorInv, MonitorTypeOK, ChannelTypeOK
  <1> QED BY <1>1, <1>2 DEF Sub

LEMMA MonitorInitInv == MonitorInit => MonitorInv
  <1> SUFFICES ASSUME MonitorInit PROVE MonitorInv OBVIOUS
  <1> USE MonitorBounds DEF MonitorInit
  <1>1. subs \in Seq(Sub) /\ DOMAIN subs = {} /\ Len(subs) = 0 OBVIOUS
  <1>2. worker \in [Workers -> [pc : {"off", "wait", "opening", "undo", "cancel"},
                               sub : 0 .. MaxEvents]]
    OBVIOUS
  <1>3. channels \in [Channels -> 0 .. MaxEvents] OBVIOUS
  <1>4. LinkTypeOK
    <2>1. authed \in BOOLEAN OBVIOUS
    <2> QED BY <2>1 DEF LinkTypeOK
  <1>5. ChannelTypeOK BY <1>1, <1>2, <1>3 DEF ChannelTypeOK
  <1> QED BY <1>1, <1>4, <1>5 DEF MonitorInv, MonitorTypeOK, OneLoop, BegunInOrder,
    KnownSubscriptions, Listed

LEMMA LinkTypeStep == MonitorInv /\ [MonitorNext]_monitorVars => LinkTypeOK'
  <1> SUFFICES ASSUME MonitorInv, [MonitorNext]_monitorVars PROVE LinkTypeOK' OBVIOUS
  <1> USE MonitorBounds DEF MonitorInv, MonitorTypeOK, LinkTypeOK, linkVars
  <1>1. CASE StartMonitor BY <1>1 DEF StartMonitor
  <1>2. CASE RunFails BY <1>2 DEF RunFails
  <1>3. CASE Connect \/ Authenticate BY <1>3 DEF Connect, Authenticate, RunStep
  <1>4. Connected => presenceCancel' \in Nat /\ loops' \subseteq Nat
    BY FS_EmptySet DEF Connected, OneLoop
  <1>5. CASE Announce
    <2>1. authed' \in BOOLEAN BY <1>5 DEF Announce
    <2> QED BY <1>4, <1>5, <2>1 DEF Announce, RunStep
  <1>6. CASE startDiscovery \/ startMembershipWatch
    BY <1>6 DEF startDiscovery, startMembershipWatch, StartLoop, RunStep
  <1>7. CASE LoseConnection BY <1>7 DEF LoseConnection
  <1>8. CASE Suspend
    <2>1. authed' \in BOOLEAN BY <1>8 DEF Suspend
    <2> QED BY <1>8, <2>1 DEF Suspend, WatchStep, Disconnected
  <1>9. CASE Swap
    <2>1. authed' \in BOOLEAN BY <1>9 DEF Swap
    <2> QED BY <1>9, <2>1 DEF Swap, WatchStep
  <1>10. CASE NoticeLoss \/ Redial BY <1>10 DEF NoticeLoss, Redial, WatchStep
  <1>11. CASE Resume BY <1>4, <1>11 DEF Resume, WatchStep
  <1>12. ASSUME UNCHANGED <<identity, stage, linkVars, starts>> PROVE LinkTypeOK' BY <1>12
  <1> QED BY <1>1, <1>2, <1>3, <1>5, <1>6, <1>7, <1>8, <1>9, <1>10, <1>11, <1>12
    DEF MonitorNext, monitorVars, watchLoop, subscribeToChannel, Event, Subscribed, SubscribeFails,
      UndoEntry, Cancel, Working, unsubscribeFromChannel

LEMMA ChannelTypeStep == MonitorInv /\ [MonitorNext]_monitorVars => ChannelTypeOK'
  <1> SUFFICES ASSUME MonitorInv, [MonitorNext]_monitorVars PROVE ChannelTypeOK' OBVIOUS
  <1> USE MonitorBounds DEF MonitorInv, MonitorTypeOK, ChannelTypeOK, channelVars
  <1>1. CASE startDiscovery \/ startMembershipWatch
    BY <1>1 DEF startDiscovery, startMembershipWatch, StartLoop
  <1>2. ASSUME NEW w \in Workers, NEW c \in Channels, subscribeToChannel(w, c)
        PROVE  ChannelTypeOK'
    <2>1. CASE channels[c] # 0 BY <1>2, <2>1 DEF subscribeToChannel, Event
    <2>2. CASE channels[c] = 0
      <3>1. Event(w) /\ Begin(w, c) BY <1>2, <2>2 DEF subscribeToChannel
      <3>2. Len(subs) + 1 \in 0 .. MaxEvents BY <3>1 DEF Event, KnownSubscriptions
      <3>3. [pc |-> "opening", sub |-> Len(subs) + 1] \in
              [pc : {"off", "wait", "opening", "undo", "cancel"}, sub : 0 .. MaxEvents]
        BY <3>2
      <3>4. worker' \in [Workers -> [pc : {"off", "wait", "opening", "undo", "cancel"},
                                     sub : 0 .. MaxEvents]]
        BY <3>1, <3>3 DEF Begin
      <3>5. channels' \in [Channels -> 0 .. MaxEvents] BY <3>1, <3>2 DEF Begin
      <3> QED BY <3>1, <3>4, <3>5, Begun DEF Event
    <2> QED BY <2>1, <2>2
  <1>3. ASSUME NEW w \in Workers, Subscribed(w) PROVE ChannelTypeOK'
    <2>1. worker[w].sub \in DOMAIN subs /\ subs[worker[w].sub] \in Sub
      BY <1>3, WorkedOn DEF Subscribed, Working
    <2>2. [subs[worker[w].sub] EXCEPT !.state = "live"] \in Sub BY <2>1, SubscriptionKept
    <2> QED BY <1>3, <2>1, <2>2 DEF Subscribed, Working, Waits
  <1>4. ASSUME NEW w \in Workers, SubscribeFails(w) PROVE ChannelTypeOK'
    <2>1. worker[w].sub \in DOMAIN subs /\ subs[worker[w].sub] \in Sub
      BY <1>4, WorkedOn DEF SubscribeFails, Working
    <2>2. [subs[worker[w].sub] EXCEPT !.state = "failed"] \in Sub BY <2>1, SubscriptionKept
    <2>3. failed' \in BOOLEAN BY <1>4 DEF SubscribeFails
    <2> QED BY <1>4, <2>1, <2>2, <2>3 DEF SubscribeFails, Working
  <1>5. ASSUME NEW w \in Workers, UndoEntry(w) PROVE ChannelTypeOK'
    <2>1. channels' \in [Channels -> 0 .. MaxEvents] BY <1>5, WorkedOn DEF UndoEntry, Working
    <2>2. worker' = [worker EXCEPT ![w].pc = "cancel"] /\ UNCHANGED <<subs, events, failed>>
      BY <1>5 DEF UndoEntry, Working
    <2> QED BY <2>1, <2>2
  <1>6. ASSUME NEW w \in Workers, Cancel(w) PROVE ChannelTypeOK'
    <2>1. worker[w].sub \in DOMAIN subs /\ subs[worker[w].sub] \in Sub
      BY <1>6, WorkedOn DEF Cancel, Working
    <2>2. [subs[worker[w].sub] EXCEPT !.cancelled = TRUE] \in Sub BY <2>1, SubscriptionKept
    <2> QED BY <1>6, <2>1, <2>2 DEF Cancel, Working, Waits
  <1>7. ASSUME NEW c \in Channels, unsubscribeFromChannel(c) PROVE ChannelTypeOK'
    BY <1>7 DEF unsubscribeFromChannel, Event
  <1>8. CASE UNCHANGED channelVars BY <1>8
  <1> QED BY <1>1, <1>2, <1>3, <1>4, <1>5, <1>6, <1>7, <1>8 DEF MonitorNext, monitorVars,
    StartMonitor, RunFails, Connect, Authenticate, Announce, LoseConnection, watchLoop, NoticeLoss,
    Suspend, Redial, Resume, Swap, WatchStep

LEMMA OneLoopStep == MonitorInv /\ [MonitorNext]_monitorVars => OneLoop'
  <1> SUFFICES ASSUME MonitorInv, [MonitorNext]_monitorVars PROVE OneLoop' OBVIOUS
  <1> USE DEF MonitorInv, MonitorTypeOK, LinkTypeOK, OneLoop, linkVars
  <1>1. Connected => presenceCancel' = 1 /\ loops' = {1} BY FS_EmptySet DEF Connected
  <1>2. Disconnected => presenceCancel' = 0 /\ loops' = {} BY DEF Disconnected
  <1>3. CASE Announce BY <1>1, <1>3 DEF Announce
  <1>4. CASE watchLoop
    BY <1>1, <1>2, <1>4 DEF watchLoop, NoticeLoss, Suspend, Redial, Resume, Swap, WatchStep
  <1>5. CASE Connect BY <1>5 DEF Connect
  <1>6. CASE LoseConnection BY <1>6 DEF LoseConnection
  <1>7. CASE UNCHANGED linkVars BY <1>7
  <1> QED BY <1>3, <1>4, <1>5, <1>6, <1>7 DEF MonitorNext, monitorVars, StartMonitor, RunFails,
    Authenticate, startDiscovery, startMembershipWatch, StartLoop, subscribeToChannel, Event,
    Subscribed, SubscribeFails, UndoEntry, Cancel, Working, unsubscribeFromChannel

LEMMA BegunInOrderStep == MonitorInv /\ [MonitorNext]_monitorVars => BegunInOrder'
  <1> SUFFICES ASSUME MonitorInv, [MonitorNext]_monitorVars PROVE BegunInOrder' OBVIOUS
  <1> USE MonitorBounds DEF MonitorInv, MonitorTypeOK, LinkTypeOK, ChannelTypeOK, BegunInOrder,
    channelVars
  <1>1. CASE StartMonitor \/ RunFails \/ Connect \/ Authenticate \/ Announce
    BY <1>1 DEF StartMonitor, RunFails, Connect, Authenticate, Announce, RunStep
  <1>2. CASE startDiscovery \/ startMembershipWatch
    BY <1>2 DEF startDiscovery, startMembershipWatch, StartLoop, RunStep
  <1>3. CASE LoseConnection \/ watchLoop
    BY <1>3 DEF LoseConnection, watchLoop, NoticeLoss, Suspend, Redial, Resume, Swap, WatchStep
  <1>4. ASSUME NEW w \in Workers, NEW c \in Channels, subscribeToChannel(w, c)
        PROVE  BegunInOrder'
    BY <1>4 DEF subscribeToChannel, Event, Begin
  <1>5. ASSUME NEW w \in Workers,
               Subscribed(w) \/ SubscribeFails(w) \/ UndoEntry(w) \/ Cancel(w)
        PROVE  BegunInOrder'
    BY <1>5 DEF Subscribed, SubscribeFails, UndoEntry, Cancel, Working, Waits
  <1>6. ASSUME NEW c \in Channels, unsubscribeFromChannel(c) PROVE BegunInOrder'
    BY <1>6 DEF unsubscribeFromChannel, Event
  <1>7. CASE UNCHANGED monitorVars BY <1>7 DEF monitorVars
  <1> QED BY <1>1, <1>2, <1>3, <1>4, <1>5, <1>6, <1>7 DEF MonitorNext

LEMMA KnownStep == MonitorInv /\ [MonitorNext]_monitorVars => KnownSubscriptions'
  <1> SUFFICES ASSUME MonitorInv, [MonitorNext]_monitorVars PROVE KnownSubscriptions' OBVIOUS
  <1> USE MonitorBounds
      DEF MonitorInv, MonitorTypeOK, ChannelTypeOK, KnownSubscriptions, channelVars
  <1>1. CASE startDiscovery \/ startMembershipWatch
    BY <1>1 DEF startDiscovery, startMembershipWatch, StartLoop
  <1>2. ASSUME NEW w \in Workers, NEW c \in Channels, subscribeToChannel(w, c)
        PROVE  KnownSubscriptions'
    <2>1. CASE channels[c] # 0 BY <1>2, <2>1 DEF subscribeToChannel, Event
    <2>2. CASE channels[c] = 0
      <3>1. Event(w) /\ Begin(w, c) BY <1>2, <2>2 DEF subscribeToChannel
      <3>2. Len(subs') = Len(subs) + 1 /\ events' = events + 1 BY <3>1, Begun DEF Event
      <3>3. /\ DOMAIN subs \subseteq DOMAIN subs' /\ Len(subs') \in DOMAIN subs'
            /\ \A s \in DOMAIN subs : subs'[s] = subs[s]
            /\ subs'[Len(subs')].channel = c
        BY <3>1, Begun
      <3>4. \A d \in Channels : channels'[d] = IF d = c THEN Len(subs') ELSE channels[d]
        BY <3>1, <3>2 DEF Begin
      <3>5. \A v \in Workers \ {w} : worker'[v] = worker[v] BY <3>1 DEF Begin
      <3>6. worker'[w].sub = Len(subs') BY <3>1, <3>2 DEF Begin
      <3> QED BY <3>2, <3>3, <3>4, <3>5, <3>6
    <2> QED BY <2>1, <2>2
  <1>3. ASSUME NEW w \in Workers, worker[w].pc \in {"opening", "cancel"}, UNCHANGED channels,
               NEW x \in Sub, x.channel = subs[worker[w].sub].channel,
               subs' = [subs EXCEPT ![worker[w].sub] = x],
               UNCHANGED events, Waits(w) \/ worker' = [worker EXCEPT ![w].pc = "undo"]
        PROVE  KnownSubscriptions'
    <2>1. worker[w].sub \in DOMAIN subs BY <1>3
    <2>2. /\ Len(subs') = Len(subs) /\ DOMAIN subs' = DOMAIN subs
          /\ \A t \in DOMAIN subs : subs'[t].channel = subs[t].channel
      BY <1>3, <2>1, Changed
    <2>3. \A v \in Workers : worker'[v].sub = worker[v].sub \/ worker'[v].pc = "wait"
      BY <1>3 DEF Waits
    <2>4. \A v \in Workers : worker'[v].pc \in {"opening", "undo", "cancel"} =>
                               worker[v].pc \in {"opening", "undo", "cancel"}
      BY <1>3 DEF Waits
    <2> QED BY <1>3, <2>2, <2>3, <2>4
  <1>4. ASSUME NEW w \in Workers, Subscribed(w) \/ SubscribeFails(w) \/ Cancel(w)
        PROVE  KnownSubscriptions'
    <2>1. worker[w].pc \in {"opening", "cancel"} /\ UNCHANGED events
      BY <1>4 DEF Subscribed, SubscribeFails, Cancel, Working
    <2>2. subs[worker[w].sub] \in Sub BY <2>1, WorkedOn
    <2>3. PICK x \in Sub : /\ x.channel = subs[worker[w].sub].channel
                           /\ subs' = [subs EXCEPT ![worker[w].sub] = x]
      <3>1. CASE Subscribed(w)
        <4> DEFINE x == [subs[worker[w].sub] EXCEPT !.state = "live"]
        <4>1. x \in Sub /\ x.channel = subs[worker[w].sub].channel BY <2>2, SubscriptionKept
        <4>2. subs' = [subs EXCEPT ![worker[w].sub] = x] BY <3>1 DEF Subscribed
        <4> QED BY <4>1, <4>2
      <3>2. CASE SubscribeFails(w)
        <4> DEFINE x == [subs[worker[w].sub] EXCEPT !.state = "failed"]
        <4>1. x \in Sub /\ x.channel = subs[worker[w].sub].channel BY <2>2, SubscriptionKept
        <4>2. subs' = [subs EXCEPT ![worker[w].sub] = x] BY <3>2 DEF SubscribeFails
        <4> QED BY <4>1, <4>2
      <3>3. CASE Cancel(w)
        <4> DEFINE x == [subs[worker[w].sub] EXCEPT !.cancelled = TRUE]
        <4>1. x \in Sub /\ x.channel = subs[worker[w].sub].channel BY <2>2, SubscriptionKept
        <4>2. subs' = [subs EXCEPT ![worker[w].sub] = x] BY <3>3 DEF Cancel
        <4> QED BY <4>1, <4>2
      <3> QED BY <1>4, <3>1, <3>2, <3>3
    <2> QED BY <1>3, <1>4, <2>1, <2>3 DEF Subscribed, SubscribeFails, Cancel
  <1>5. ASSUME NEW w \in Workers, UndoEntry(w) PROVE KnownSubscriptions'
    BY <1>5, WorkedOn DEF UndoEntry, Working
  <1>6. ASSUME NEW c \in Channels, unsubscribeFromChannel(c) PROVE KnownSubscriptions'
    BY <1>6 DEF unsubscribeFromChannel, Event
  <1>7. CASE UNCHANGED channelVars BY <1>7
  <1> QED BY <1>1, <1>2, <1>4, <1>5, <1>6, <1>7 DEF MonitorNext, monitorVars, StartMonitor,
    RunFails, Connect, Authenticate, Announce, LoseConnection, watchLoop, NoticeLoss, Suspend,
    Redial, Resume, Swap, WatchStep

\* A subscription is begun only for a channel without an entry, so that the entry names the
\* only one; until one fails, an entry is taken out only to be cancelled.
LEMMA ListedStep == MonitorInv /\ [MonitorNext]_monitorVars => Listed'
  <1> SUFFICES ASSUME MonitorInv, [MonitorNext]_monitorVars, ~failed' PROVE Listed'
    BY DEF Listed
  <1> USE MonitorBounds
      DEF MonitorInv, MonitorTypeOK, ChannelTypeOK, Listed, BeingCancelled, channelVars
  <1>1. CASE startDiscovery \/ startMembershipWatch
    BY <1>1 DEF startDiscovery, startMembershipWatch, StartLoop, RunStep, BegunInOrder
  <1>2. ASSUME NEW w \in Workers, NEW c \in Channels, subscribeToChannel(w, c) PROVE Listed'
    <2>1. CASE channels[c] # 0 BY <1>2, <2>1 DEF subscribeToChannel, Event
    <2>2. CASE channels[c] = 0
      <3>1. Event(w) /\ Begin(w, c) BY <1>2, <2>2 DEF subscribeToChannel
      <3>2. /\ DOMAIN subs' = DOMAIN subs \cup {Len(subs')}
            /\ \A s \in DOMAIN subs : subs'[s] = subs[s]
            /\ subs'[Len(subs')].channel = c
        BY <3>1, Begun
      <3>3. channels' = [channels EXCEPT ![c] = Len(subs')] BY <3>1, Begun DEF Begin
      <3>4. ~failed /\ worker[w].pc = "wait" BY <3>1 DEF Event
      <3>5. /\ worker'[w].pc = "opening" /\ worker'[w].pc \notin {"undo", "cancel"}
            /\ \A v \in Workers \ {w} : worker'[v] = worker[v]
        BY <3>1 DEF Begin
      <3>6. ASSUME NEW s \in DOMAIN subs, ~subs[s].cancelled
            PROVE  channels'[subs[s].channel] = s \/ BeingCancelled(s)'
        <4>1. CASE BeingCancelled(s) BY <3>4, <3>5, <4>1
        <4>2. CASE channels[subs[s].channel] = s
          <5>1. subs[s].channel \in Channels /\ s # 0 BY OfAChannel
          <5>2. subs[s].channel # c BY <2>2, <4>2, <5>1
          <5> QED BY <3>3, <4>2, <5>2
        <4> QED BY <3>4, <3>6, <4>1, <4>2
      <3> QED BY <3>2, <3>3, <3>4, <3>5, <3>6
    <2> QED BY <2>1, <2>2
  <1>3. ASSUME NEW w \in Workers, Subscribed(w) PROVE Listed'
    <2>1. worker[w].sub \in DOMAIN subs /\ worker[w].pc = "opening" /\ ~failed
      BY <1>3, WorkedOn DEF Subscribed, Working
    <2>2. /\ DOMAIN subs' = DOMAIN subs /\ UNCHANGED channels
          /\ \A s \in DOMAIN subs : /\ subs'[s].channel = subs[s].channel
                                    /\ subs'[s].cancelled = subs[s].cancelled
      BY <1>3, <2>1 DEF Subscribed
    <2>3. worker'[w].pc = "wait" /\ \A v \in Workers \ {w} : worker'[v] = worker[v]
      BY <1>3 DEF Subscribed, Waits
    <2>4. \A s \in DOMAIN subs : BeingCancelled(s) => BeingCancelled(s)' BY <2>1, <2>3
    <2>5. \A v \in Workers : worker'[v].pc \in {worker[v].pc, "wait"} BY <2>3
    <2>6. ~failed /\ (\A v \in Workers : worker[v].pc # "undo") /\ worker["discovery"].pc # "cancel"
      BY <2>1
    <2>7. \A s \in DOMAIN subs :
            ~subs[s].cancelled => channels[subs[s].channel] = s \/ BeingCancelled(s)'
      BY <2>4, <2>6
    <2>8. \A s \in DOMAIN subs' :
            ~subs'[s].cancelled => channels'[subs'[s].channel] = s \/ BeingCancelled(s)'
      BY <2>2, <2>7
    <2>9. (\A v \in Workers : worker'[v].pc # "undo") /\ worker'["discovery"].pc # "cancel"
      BY <2>5, <2>6
    <2> QED BY <2>8, <2>9
  <1>4. ASSUME NEW w \in Workers PROVE ~SubscribeFails(w) BY <1>4 DEF SubscribeFails
  <1>5. ASSUME NEW w \in Workers PROVE ~UndoEntry(w) BY <1>5 DEF UndoEntry, Working
  <1>6. ASSUME NEW w \in Workers, Cancel(w) PROVE Listed'
    <2>1. worker[w].sub \in DOMAIN subs /\ worker[w].pc = "cancel" /\ ~failed
      BY <1>6, WorkedOn DEF Cancel, Working
    <2>2. w = "membership" BY <2>1
    <2>3. /\ DOMAIN subs' = DOMAIN subs /\ UNCHANGED channels
          /\ \A s \in DOMAIN subs \ {worker[w].sub} : subs'[s] = subs[s]
      BY <1>6, <2>1 DEF Cancel
    <2>4. subs'[worker[w].sub].cancelled
      <3>1. subs[worker[w].sub] \in Sub BY <2>1, OfAChannel
      <3>2. subs'[worker[w].sub] = [subs[worker[w].sub] EXCEPT !.cancelled = TRUE]
        BY <1>6, <2>1 DEF Cancel
      <3> QED BY <3>1, <3>2 DEF Sub
    <2>5. worker'[w].pc = "wait" /\ \A v \in Workers \ {w} : worker'[v] = worker[v]
      BY <1>6 DEF Cancel, Waits
    <2> QED BY <2>1, <2>2, <2>3, <2>4, <2>5
  <1>7. ASSUME NEW c \in Channels, unsubscribeFromChannel(c) PROVE Listed'
    <2>1. worker["membership"].pc = "wait" /\ ~failed BY <1>7 DEF unsubscribeFromChannel, Event
    <2>2. worker'["membership"] = [pc |-> "cancel", sub |-> channels[c]]
      BY <1>7 DEF unsubscribeFromChannel
    <2>3. worker'["discovery"] = worker["discovery"] /\ UNCHANGED subs
      BY <1>7 DEF unsubscribeFromChannel
    <2>4. \A d \in Channels \ {c} : channels'[d] = channels[d] BY <1>7 DEF unsubscribeFromChannel
    <2>5. \A s \in DOMAIN subs : subs[s].channel \in Channels BY OfAChannel
    <2> QED BY <2>1, <2>2, <2>3, <2>4, <2>5
  <1>8. CASE UNCHANGED channelVars BY <1>8
  <1> QED BY <1>1, <1>2, <1>3, <1>4, <1>5, <1>6, <1>7, <1>8 DEF MonitorNext, monitorVars,
    StartMonitor, RunFails, Connect, Authenticate, Announce, LoseConnection, watchLoop, NoticeLoss,
    Suspend, Redial, Resume, Swap, WatchStep

LEMMA MonitorInvariance == MonitorSpec => []MonitorInv
  <1>1. MonitorInv /\ [MonitorNext]_monitorVars => MonitorInv'
    BY LinkTypeStep, ChannelTypeStep, OneLoopStep, BegunInOrderStep, KnownStep, ListedStep
    DEF MonitorInv, MonitorTypeOK
  <1> QED BY <1>1, MonitorInitInv, PTL DEF MonitorSpec

\* Every variable of the monitor keeps its type (run, watchLoop, subscribeToChannel).
THEOREM MonitorTypesAreRespected == MonitorSpec => []MonitorTypeOK
  <1>1. MonitorInv => MonitorTypeOK BY DEF MonitorInv
  <1> QED BY <1>1, MonitorInvariance, PTL

\* There is one presence loop while the relay is connected, and until a subscription fails what
\* is consumed from a channel can be cancelled, in any order of the announcements, of the two
\* loops and of the losses of the connection (onConnStateChange, subscribeToChannel,
\* unsubscribeFromChannel).
THEOREM MonitorStaysConsistent == MonitorSpec => []MonitorIsConsistent
  <1>1. MonitorInv => OneLoopWhileConnected
    BY FS_EmptySet, FS_Singleton DEF MonitorInv, OneLoop, OneLoopWhileConnected
  <1>2. MonitorInv => ListedUnlessFailed
    BY MonitorBounds DEF MonitorInv, MonitorTypeOK, ChannelTypeOK, Listed, BeingCancelled,
      ListedUnlessFailed, Listening
  <1> QED BY <1>1, <1>2, MonitorInvariance, PTL DEF MonitorIsConsistent

-----------------------------------------------------------------------------
(* The skills *)

\* An identifier that was not drawn is used nowhere.
DrawnFirst ==
  \A i \in SkillIds \ drawn : /\ skills[i] = "none" /\ i \notin removed /\ held.id # i
                              /\ meta[i] = NoRecord /\ i \notin named

\* A record that no uploaded file holds is in its own directory.
InItsPlace ==
  \A i \in SkillIds \ named, k \in Entries : nested[k].id # i /\ (meta[k].id = i => k = i)

\* The lock is held for a skill that is listed, or to remove one that is not.
HeldFor ==
  /\ held.op \in {"save", "write"} => skills[held.id] # "none"
  /\ held.op = "remove" => skills[held.id] = "none"
  /\ held.op = "none" => held = Unheld

\* The record of a skill that no uploaded file names: it is active only with an approval, it is
\* gone with the skill, and a skill that is being uploaded is new.
RecordIsAllowed ==
  \A i \in SkillIds \ named :
     /\ meta[i].id = i => meta[i].status # "none"
     /\ meta[i].id = i /\ meta[i].status = "active" => i \in approved
     /\ i \in removed => meta[i].id # i
     /\ i \in upload => skills[i] = "none" /\ i \notin removed /\ held.id # i

\* Memory and record agree once the record is written.
RecordAgrees ==
  \A i \in SkillIds \ (unsettled \cup named) :
     held.id # i => skills[i] = IF meta[i].id = i THEN meta[i].status ELSE "none"

SkillInv ==
  /\ SkillTypeOK
  /\ DrawnFirst /\ InItsPlace /\ HeldFor
  /\ LeaveIsKept /\ RecordIsAllowed /\ RecordAgrees

LEMMA SkillInitInv == SkillInit => SkillInv
  BY SkillAssumption DEF SkillInit, SkillInv, SkillTypeOK, Entries, Status, SkillRecord, Record,
    NoRecord, Unheld, DrawnFirst, InItsPlace, HeldFor, LeaveIsKept, RecordIsAllowed, RecordAgrees

\* What a restart finds of a skill that no uploaded file names is its own record.
LEMMA FoundIsOwn ==
  ASSUME SkillInv, NEW i \in SkillIds, i \notin named
  PROVE  RecordsOf(i) = IF meta[i].id = i THEN {meta[i]} ELSE {}
  <1>1. i \in Entries /\ (\A k \in Entries : nested[k].id # i)
        /\ (\A k \in Entries : meta[k].id = i => k = i)
    BY DEF SkillInv, InItsPlace, Entries
  <1>2. meta[i].id = i => meta[i].status # "none" BY DEF SkillInv, RecordIsAllowed
  <1> QED BY <1>1, <1>2 DEF RecordsOf

LEMMA SkillTypeStep == SkillInv /\ [SkillNext]_skillVars => SkillTypeOK'
  <1> SUFFICES ASSUME SkillInv, [SkillNext]_skillVars PROVE SkillTypeOK' OBVIOUS
  <1> USE SkillAssumption DEF SkillInv, SkillTypeOK, Entries, Status, SkillRecord, Record, NoRecord,
    Unheld, DiskFails, Holds
  <1>1. ASSUME NEW i \in SkillIds, BeginUpload(i) PROVE SkillTypeOK' BY <1>1 DEF BeginUpload
  <1>2. ASSUME NEW i \in SkillIds, UploadFails(i) PROVE SkillTypeOK' BY <1>2 DEF UploadFails
  <1>3. ASSUME NEW i \in SkillIds, WriteFiles(i) PROVE SkillTypeOK' BY <1>3 DEF WriteFiles
  <1>4. ASSUME NEW i \in SkillIds, StageSkill(i) PROVE SkillTypeOK' BY <1>4 DEF StageSkill
  <1>5. ASSUME NEW i \in Entries, saveMeta(i) PROVE SkillTypeOK' BY <1>5 DEF saveMeta
  <1>6. ASSUME NEW i \in Entries, ApproveSkill(i) PROVE SkillTypeOK' BY <1>6 DEF ApproveSkill
  <1>7. ASSUME NEW i \in Entries, RemoveSkill(i) PROVE SkillTypeOK' BY <1>7 DEF RemoveSkill
  <1>8. ASSUME NEW i \in Entries, RemoveAll(i) PROVE SkillTypeOK' BY <1>8 DEF RemoveAll
  <1>9. CASE loadFromDisk BY <1>9 DEF loadFromDisk
  <1>10. CASE UNCHANGED skillVars BY <1>10 DEF skillVars
  <1> QED BY <1>1, <1>2, <1>3, <1>4, <1>5, <1>6, <1>7, <1>8, <1>9, <1>10
    DEF SkillNext, Reject, Revoke

\* A restart gives a skill that no uploaded file names the status of its own record.
LEMMA ReloadStep == SkillInv /\ loadFromDisk => SkillInv'
  <1> SUFFICES ASSUME SkillInv, loadFromDisk PROVE SkillInv' OBVIOUS
  <1>1. SkillTypeOK' BY SkillTypeStep DEF SkillNext
  <1>2. UNCHANGED <<meta, nested, drawn, approved, removed, named, unsettled>>
        /\ upload' = {} /\ held' = Unheld
    BY DEF loadFromDisk
  <1>3. ASSUME NEW i \in SkillIds, i \notin named
        PROVE  skills'[i] = IF meta[i].id = i THEN meta[i].status ELSE "none"
    <2>1. RecordsOf(i) = IF meta[i].id = i THEN {meta[i]} ELSE {} BY <1>3, FoundIsOwn
    <2> QED BY <2>1 DEF loadFromDisk, Entries
  <1>4. \A i \in SkillIds \ drawn : i \notin named => skills'[i] = "none"
    BY <1>3, SkillAssumption DEF SkillInv, DrawnFirst, NoRecord, Record
  <1>5. DrawnFirst' /\ InItsPlace' /\ HeldFor'
    BY <1>2, <1>4, SkillAssumption
    DEF SkillInv, DrawnFirst, InItsPlace, HeldFor, Unheld, NoRecord, Record
  <1>6. LeaveIsKept' /\ RecordIsAllowed' BY <1>2, <1>3 DEF SkillInv, LeaveIsKept, RecordIsAllowed
  <1>7. RecordAgrees' BY <1>2, <1>3 DEF RecordAgrees
  <1> QED BY <1>1, <1>5, <1>6, <1>7 DEF SkillInv

LEMMA SkillNextInv == SkillInv /\ [SkillNext]_skillVars => SkillInv'
  <1> SUFFICES ASSUME SkillInv, [SkillNext]_skillVars PROVE SkillInv' OBVIOUS
  <1>0. SkillTypeOK' BY SkillTypeStep
  <1> USE SkillAssumption, <1>0 DEF SkillInv, SkillTypeOK, Entries, Status, SkillRecord, Record,
    NoRecord, Unheld, DiskFails, Holds, DrawnFirst, InItsPlace, HeldFor, LeaveIsKept,
    RecordIsAllowed, RecordAgrees
  <1>1. ASSUME NEW i \in SkillIds, BeginUpload(i) PROVE SkillInv' BY <1>1 DEF BeginUpload
  <1>2. ASSUME NEW i \in SkillIds, UploadFails(i) PROVE SkillInv' BY <1>2 DEF UploadFails
  <1>3. ASSUME NEW i \in SkillIds, WriteFiles(i) PROVE SkillInv'
    <2>1. PICK k \in (drawn \ {i}) \cup {Phantom}, status \in {"staged", "active"} :
            /\ \/ meta' = [meta EXCEPT ![i] = Record(k, status)] /\ UNCHANGED nested
               \/ nested' = [nested EXCEPT ![i] = Record(k, status)] /\ UNCHANGED meta
            /\ named' = named \cup {k}
      BY <1>3 DEF WriteFiles
    <2>2. i \in upload /\ i \in drawn
          /\ UNCHANGED <<skills, upload, held, drawn, approved, removed, unsettled>>
      BY <1>3 DEF WriteFiles
    <2>3. DrawnFirst' BY <2>1, <2>2
    <2>4. InItsPlace' /\ HeldFor' /\ LeaveIsKept' BY <2>1, <2>2
    <2>5. RecordIsAllowed' /\ RecordAgrees' BY <2>1, <2>2
    <2> QED BY <2>3, <2>4, <2>5
  <1>4. ASSUME NEW i \in SkillIds, StageSkill(i) PROVE SkillInv' BY <1>4 DEF StageSkill
  <1>5. ASSUME NEW i \in Entries, saveMeta(i) PROVE SkillInv' BY <1>5 DEF saveMeta
  <1>6. ASSUME NEW i \in Entries, ApproveSkill(i) PROVE SkillInv' BY <1>6 DEF ApproveSkill
  <1>7. ASSUME NEW i \in Entries, RemoveSkill(i) PROVE SkillInv' BY <1>7 DEF RemoveSkill
  <1>8. ASSUME NEW i \in Entries, RemoveAll(i) PROVE SkillInv'
    <2>1. UNCHANGED <<skills, upload, drawn, approved, named>> /\ held.op = "remove" /\ held.id = i
          /\ skills[i] = "none"
      BY <1>8 DEF RemoveAll
    <2>2. CASE UNCHANGED <<removed, held>>
      <3>1. /\ meta' = [meta EXCEPT ![i] = NoRecord] \/ UNCHANGED meta
            /\ nested' = [nested EXCEPT ![i] = NoRecord] \/ UNCHANGED nested
            /\ UNCHANGED unsettled
        BY <1>8, <2>2 DEF RemoveAll
      <3> QED BY <2>1, <2>2, <3>1
    <2>3. CASE held' = Unheld
      <3>1. UNCHANGED <<meta, nested>>
            /\ \/ meta[i] = NoRecord /\ removed' = removed \cup {i} /\ unsettled' = unsettled \ {i}
               \/ UNCHANGED removed /\ unsettled' = unsettled \cup {i}
        BY <1>8, <2>1, <2>3 DEF RemoveAll
      <3>2. DrawnFirst' /\ InItsPlace' /\ HeldFor' BY <2>1, <2>3, <3>1
      <3>3. LeaveIsKept' /\ RecordIsAllowed' BY <2>1, <2>3, <3>1
      <3>4. RecordAgrees' BY <2>1, <2>3, <3>1
      <3> QED BY <3>2, <3>3, <3>4
    <2> QED BY <1>8, <2>2, <2>3 DEF RemoveAll
  <1>9. CASE loadFromDisk BY <1>9, ReloadStep
  <1>10. CASE UNCHANGED skillVars BY <1>10 DEF skillVars
  <1> QED BY <1>1, <1>2, <1>3, <1>4, <1>5, <1>6, <1>7, <1>8, <1>9, <1>10
    DEF SkillNext, Reject, Revoke

LEMMA SkillInvariance == SkillSpec => []SkillInv
  BY SkillInitInv, SkillNextInv, PTL DEF SkillSpec

\* Every variable of the skills keeps its type (Stage, Approve, Reject, loadFromDisk).
THEOREM SkillTypesAreRespected == SkillSpec => []SkillTypeOK
  <1>1. SkillInv => SkillTypeOK BY DEF SkillInv
  <1> QED BY <1>1, SkillInvariance, PTL

\* As long as no uploaded file names it, no skill is active without an approval, a removed one
\* stays so, and a restart finds a skill as it is, wherever the process ends and with any
\* uploads under way, unless a write of its record had failed or is under way (Stage, Approve,
\* Reject, Revoke, loadFromDisk).
THEOREM SkillsStayKept == SkillSpec => []SkillsAreKept
  <1>1. ASSUME SkillInv PROVE SkillsAreKept
    <2>1. LeaveIsKept BY <1>1 DEF SkillInv
    <2>2. ASSUME NEW i \in SkillIds, i \notin unsettled \cup named, held.id # i
          PROVE  RecordsOf(i) = IF skills[i] = "none" THEN {} ELSE {Record(i, skills[i])}
      <3>1. i \in Entries /\ meta[i] \in SkillRecord
        BY <1>1 DEF SkillInv, SkillTypeOK, Entries
      <3>2. meta[i].id = i => meta[i] = Record(i, meta[i].status) /\ meta[i].status # "none"
        BY <1>1, <2>2, <3>1 DEF SkillInv, RecordIsAllowed, SkillRecord, Record
      <3>3. skills[i] = IF meta[i].id = i THEN meta[i].status ELSE "none"
        BY <1>1, <2>2 DEF SkillInv, RecordAgrees
      <3> QED BY <1>1, <2>2, <3>2, <3>3, FoundIsOwn
    <2> QED BY <2>1, <2>2 DEF SkillsAreKept, RestartFindsSkills
  <1> QED BY <1>1, SkillInvariance, PTL

-----------------------------------------------------------------------------
(* The plugins *)

HasRecord(n) == dir[n].status \notin {Absent, Truncated}
Writing == {"status", "writing", "manifest", "last"}

\* The files are those of the manifest, as far as it covers them.
Covers(manifest, kept) ==
  \A f \in Parts : manifest[f] # 0 => kept[f] \in {0, manifest[f]}

\* The directory is of a plugin whose installation was answered, as its record or as the
\* memory says.
Vouched(n) ==
  \/ HasRecord(n) /\ dir[n].status.id \in answered
  \/ \E p \in plugins : p.name = n /\ p.id \in answered

DirectoriesMatch ==
  \A n \in Names : Vouched(n) /\ dir[n].manifest \notin {Absent, Truncated} =>
    Covers(dir[n].manifest, dir[n].files)

\* What a call has unpacked, or what it writes the manifest of, is what was verified.
CallMatches ==
  op # Absent =>
    /\ op.step = "unpack" =>
         /\ op.archive = op.plugin.manifest
         /\ \A f \in Parts \ op.todo :
              op.archive[f] # 0 => unpacked[Target].files[f] = op.archive[f]
    /\ op.step \in Writing /\ (op.plugin.id \in answered \/ ~Known(op.plugin.id)) =>
         Covers(op.plugin.manifest, dir[Target].files)

\* An installation is of a new plugin under a free name, every other call but a removal is
\* of a plugin in memory.
CallIsKnown ==
  op # Absent =>
    /\ op.step \in {"unpack", "manifest", "last"} => ~Known(op.plugin.id)
    /\ op.step # "remove" =>
         \/ op.plugin \in plugins
         \/ ~Known(op.plugin.id) /\ ~Installed(Target) /\ op.plugin.id \in Ids \ answered
    /\ op.step = "remove" => ~Known(op.plugin.id)

\* The identifiers were given by an installation here, each to one name, and none again, or
\* they are the one that archives of the name hold.
Given(id, n) == id \in 1 .. installs \ gone \/ id = n

IdsAreOwn ==
  /\ \A p \in plugins : Given(p.id, p.name)
  /\ \A p \in plugins : \A q \in plugins : p.id = q.id => p = q
  /\ \A n \in Names : HasRecord(n) =>
       /\ Given(dir[n].status.id, n)
       /\ \A m \in Names : HasRecord(m) /\ dir[m].status.id = dir[n].status.id => m = n
       /\ \A p \in plugins : p.id = dir[n].status.id => p.name = n
       /\ op # Absent /\ op.plugin.id = dir[n].status.id => n = Target
  /\ op # Absent => Given(op.plugin.id, Target)
  /\ gone \subseteq 1 .. installs \cup Names /\ answered \subseteq 1 .. installs

\* A directory that is being unpacked has no record but that of its archive.
Unfinished(n) == unpacked[n].status # Absent
UnpackedIsPacked ==
  \A n \in Names : Unfinished(n) => unpacked[n].status # Truncated /\ unpacked[n].status.id = n

\* Whatever says that a plugin is active has the leave for it.
MayRun(x) == x.status = "active" /\ x.id \in Ids => x.registry \in Trusted \/ x.id \in allowed

LeaveIsGiven ==
  /\ \A p \in plugins \cup bots : MayRun(p)
  /\ \A n \in Names : HasRecord(n) => MayRun(dir[n].status)
  /\ op # Absent => MayRun(op.plugin)

\* What the directory of a name has of it.
RecordOf(n) == IF HasRecord(n) THEN {Loaded(n, dir[n])} ELSE {}
OfName(n) == {p \in plugins : p.name = n}

\* The names that no call is changing are on the disk as in memory, or at least free in both;
\* the one that a call is changing is on its way there.
OthersAreSaved ==
  \A n \in Names \ dirty : op = Absent \/ n # Target =>
    /\ ~Unfinished(n) => OfName(n) = RecordOf(n)
    /\ OfName(n) = {} => ~HasRecord(n)

CallIsOnItsWay ==
  op # Absent /\ Target \notin dirty =>
    /\ op.step = "unpack" => ~HasRecord(Target)
    /\ op.step \in {"status", "writing"} /\ op.plugin \in plugins /\ ~Unfinished(Target) =>
         OfName(Target) = {op.plugin} /\ ReadManifest(Target) = op.plugin.manifest
    /\ op.step \in {"manifest", "last"} =>
         ~Installed(Target) /\ dir[Target].status = StatusOf(op.plugin)
    /\ op.step = "remove" /\ ~Unfinished(Target) => ~Installed(Target)

RegistriesAreSaved == saved # {} => regs \cup ConfigRegs = StartRegistries

PluginInv ==
  /\ PluginTypeOK
  /\ DirectoriesMatch /\ FilesAreVerified /\ CallMatches
  /\ CallIsKnown /\ IdsAreOwn /\ UnpackedIsPacked /\ LeaveIsGiven
  /\ OthersAreSaved /\ CallIsOnItsWay /\ RegistriesAreSaved

-----------------------------------------------------------------------------
\* The bounds, which the provers know as numbers only one by one.
LEMMA PluginBounds ==
  /\ MaxVersion \in Nat /\ MaxVersion > 0 /\ MaxChanges \in Nat /\ MaxInstalls \in Nat
  /\ MaxFileFaults \in Nat /\ MaxKills \in Nat
  /\ ConfigRegs \subseteq Registries /\ Absent # Truncated /\ Ids \cap Names = {}
  /\ Absent \notin Fetched /\ Absent \notin StoreCall
  BY PluginAssumption

LEMMA MarksAreNoFiles ==
  /\ Absent \notin StatusFile /\ Truncated \notin StatusFile
  /\ Absent \notin Files /\ Truncated \notin Files
  BY PluginAssumption

LEMMA NoFilesAreFiles ==
  NoFiles \in Files /\ NoDirectory \in Directory /\ \A f \in Parts : NoFiles[f] = 0
  BY PluginBounds DEF NoFiles, Files, NoDirectory, Directory

\* A call that is under way, and its parts.
LEMMA CallShape ==
  ASSUME PluginTypeOK, op # Absent
  PROVE  /\ op \in StoreCall /\ op.plugin \in Plugin /\ op.archive \in Files
         /\ op.todo \subseteq Parts \cup RecordFiles /\ Target \in Names
         /\ op.plugin.manifest \in Files /\ op.plugin.registry \in Registries
         /\ op.step \in {"unpack", "remove"} \cup Writing
  BY DEF PluginTypeOK, StoreCall, Plugin, Target, Writing

LEMMA DirShape ==
  ASSUME PluginTypeOK, NEW n \in Names
  PROVE  /\ dir[n] \in Directory /\ dir[n].files \in Files /\ unpacked[n] \in Directory
         /\ dir[n].status \in StatusFile \cup {Absent, Truncated}
         /\ dir[n].manifest \in Files \cup {Absent, Truncated}
  BY DEF PluginTypeOK, Directory

LEMMA LoadShape ==
  ASSUME PluginTypeOK
  PROVE  /\ \A n \in Names : ReadManifest(n) \in Files
         /\ \A n \in Names : \A p \in LoadOf(n) :
              /\ p \in Plugin /\ p.name = n
              /\ \/ HasRecord(n) /\ p = Loaded(n, dir[n]) /\ p.id = dir[n].status.id
                 \/ /\ HasStatus(unpacked[n]) /\ p = Loaded(n, unpacked[n])
                    /\ p.id = unpacked[n].status.id
         /\ Load \subseteq Plugin
         /\ \A n \in Names : {p \in Load : p.name = n} = LoadOf(n)
         /\ \A p \in Load : p.name \in Names /\ p \in LoadOf(p.name)
         /\ \A n \in Names : \A p \in LoadOf(n) : \A q \in LoadOf(n) : p.id = q.id => p = q
         /\ \A n \in Names : HasRecord(n) => LoadOf(n) # {}
         /\ \A n \in Names : ~Unfinished(n) => LoadOf(n) = RecordOf(n)
  <1>1. \A n \in Names : ReadManifest(n) \in Files
    BY DirShape, NoFilesAreFiles DEF ReadManifest, ManifestIn
  <1>2. ASSUME NEW n \in Names, NEW d \in Directory, HasStatus(d)
        PROVE  Loaded(n, d) \in Plugin /\ Loaded(n, d).name = n /\ Loaded(n, d).id = d.status.id
    <2>1. d.status \in StatusFile /\ ManifestIn(d) \in Files
      BY <1>2, NoFilesAreFiles DEF HasStatus, ManifestIn, Directory
    <2> QED BY <2>1 DEF Loaded, Plugin, StatusFile
  <1>3. \A n \in Names : \A p \in LoadOf(n) :
          \E d \in {dir[n], unpacked[n]} :
            /\ p = Loaded(n, d) /\ HasStatus(d)
            /\ HasStatus(unpacked[n]) /\ unpacked[n].status.id = d.status.id => d = unpacked[n]
    BY DEF LoadOf
  <1>4. \A n \in Names : \A p \in LoadOf(n) :
          /\ p \in Plugin /\ p.name = n
          /\ \/ HasRecord(n) /\ p = Loaded(n, dir[n]) /\ p.id = dir[n].status.id
             \/ /\ HasStatus(unpacked[n]) /\ p = Loaded(n, unpacked[n])
                /\ p.id = unpacked[n].status.id
    BY <1>2, <1>3, DirShape DEF HasStatus, HasRecord
  <1>5. \A p \in Load : \E n \in Names : p \in LoadOf(n) BY DEF Load
  <1>6. \A n \in Names : LoadOf(n) \subseteq Load BY DEF Load
  <1>7. ASSUME NEW n \in Names, NEW p \in LoadOf(n), NEW q \in LoadOf(n), p.id = q.id PROVE p = q
    <2>1. PICK d \in {dir[n], unpacked[n]} :
            /\ p = Loaded(n, d) /\ HasStatus(d)
            /\ HasStatus(unpacked[n]) /\ unpacked[n].status.id = d.status.id => d = unpacked[n]
      BY <1>3
    <2>2. PICK e \in {dir[n], unpacked[n]} :
            /\ q = Loaded(n, e) /\ HasStatus(e)
            /\ HasStatus(unpacked[n]) /\ unpacked[n].status.id = e.status.id => e = unpacked[n]
      BY <1>3
    <2>3. d.status.id = e.status.id BY <1>2, <1>7, <2>1, <2>2, DirShape
    <2> QED BY <2>1, <2>2, <2>3
  <1>8. ASSUME NEW n \in Names, HasRecord(n) PROVE LoadOf(n) # {}
    BY <1>8 DEF LoadOf, HasRecord, HasStatus
  <1>9. ASSUME NEW n \in Names, ~Unfinished(n) PROVE LoadOf(n) = RecordOf(n)
    <2>1. ~HasStatus(unpacked[n]) BY <1>9 DEF Unfinished, HasStatus
    <2> QED BY <2>1 DEF LoadOf, RecordOf, HasRecord, HasStatus
  <1> QED BY <1>1, <1>4, <1>5, <1>6, <1>7, <1>8, <1>9

\* The requests to the registries keep their types and leave the store alone.
LEMMA FetchTypeStep ==
  ASSUME PluginTypeOK,
         \/ Registry
         \/ \E r \in Installers :
              \/ \E g \in Registries, n \in Names : LookUp(r, g, n)
              \/ FetchIndex(r) \/ FetchManifest(r) \/ FetchArchive(r) \/ FetchSkills(r)
              \/ FetchFails(r)
  PROVE  PluginTypeOK' /\ UNCHANGED store
  <1> USE PluginBounds DEF store, disk, history
  <1>1. CASE Registry
    BY <1>1 DEF Registry, AddRegistry, RemoveRegistry, ChangeRegistries, Publish, FileFails,
      PluginTypeOK, Versions, manager, mishaps
  <1>2. ASSUME NEW r \in Installers,
               \/ \E g \in Registries, n \in Names : LookUp(r, g, n)
               \/ FetchIndex(r) \/ FetchManifest(r) \/ FetchArchive(r) \/ FetchSkills(r)
               \/ FetchFails(r)
        PROVE  PluginTypeOK' /\ UNCHANGED store
    <2>1. /\ UNCHANGED <<manager, store, mishaps>>
          /\ \E x \in Fetched \cup {Absent} : fetch' = [fetch EXCEPT ![r] = x]
      <3> DEFINE was == fetch[r]
      <3>1. was \in Fetched \cup {Absent} BY DEF PluginTypeOK
      <3>2. \A v \in 0 .. MaxVersion : Archive(v) \in Files BY DEF Archive, Files
      <3>3. newest \in 1 .. MaxVersion /\ 0 \in 0 .. MaxVersion BY DEF PluginTypeOK, Versions
      <3>4. CASE \E g \in Registries, n \in Names : LookUp(r, g, n)
        <4>1. PICK g \in Registries, n \in Names : LookUp(r, g, n) BY <3>4
        <4> DEFINE x == [step |-> "index", registry |-> g, name |-> n, version |-> 0,
                         manifest |-> NoFiles, archive |-> NoFiles]
        <4>2. x \in Fetched BY <3>3, NoFilesAreFiles DEF Fetched
        <4> QED BY <4>1, <4>2 DEF LookUp
      <3>5. CASE FetchIndex(r)
        <4>1. was \in Fetched BY <3>1, <3>5 DEF FetchIndex, Fetching
        <4>2. PICK v \in 1 .. newest :
                fetch' = [fetch EXCEPT ![r] = [was EXCEPT !.step = "manifest", !.version = v]]
          BY <3>5 DEF FetchIndex
        <4>3. [was EXCEPT !.step = "manifest", !.version = v] \in Fetched
          <5>1. v \in 0 .. MaxVersion BY <3>3
          <5> QED BY <4>1, <5>1 DEF Fetched
        <4> QED BY <3>5, <4>2, <4>3 DEF FetchIndex
      <3>6. CASE FetchManifest(r)
        <4>1. was \in Fetched BY <3>1, <3>6 DEF FetchManifest, Fetching
        <4>2. PICK v \in Found(r) :
                fetch' = [fetch EXCEPT ![r] = [was EXCEPT !.step = "archive",
                                                          !.manifest = Archive(v)]]
          BY <3>6 DEF FetchManifest
        <4>3. Archive(v) \in Files BY <3>2, <3>3, <4>1 DEF Found, Fetched
        <4>4. [was EXCEPT !.step = "archive", !.manifest = Archive(v)] \in Fetched
          BY <4>1, <4>3 DEF Fetched
        <4> QED BY <3>6, <4>2, <4>4 DEF FetchManifest
      <3>7. CASE FetchArchive(r)
        <4>1. was \in Fetched BY <3>1, <3>7 DEF FetchArchive, Fetching
        <4>2. PICK v \in Found(r) :
                fetch' = [fetch EXCEPT ![r] = [was EXCEPT !.step = "ready", !.version = 0,
                                                          !.archive = Archive(v)]]
          BY <3>7 DEF FetchArchive
        <4>3. Archive(v) \in Files BY <3>2, <3>3, <4>1 DEF Found, Fetched
        <4>4. [was EXCEPT !.step = "ready", !.version = 0, !.archive = Archive(v)] \in Fetched
          BY <3>3, <4>1, <4>3 DEF Fetched
        <4> QED BY <3>7, <4>2, <4>4 DEF FetchArchive
      <3>8. CASE FetchSkills(r)
        <4>1. was \in Fetched BY <3>1, <3>8 DEF FetchSkills, Fetching
        <4>2. PICK v \in Found(r) \cup {0} :
                fetch' = [fetch EXCEPT ![r] =
                            [was EXCEPT !.step = "ready", !.version = 0,
                                        !.manifest = [was.manifest EXCEPT !["skill"] = v],
                                        !.archive = [was.manifest EXCEPT !["skill"] = v]]]
          BY <3>8 DEF FetchSkills
        <4> DEFINE packed == [was.manifest EXCEPT !["skill"] = v]
        <4>3. v \in 0 .. MaxVersion BY <3>3, <4>1 DEF Found, Fetched
        <4>4. packed \in Files BY <4>1, <4>3 DEF Fetched, Files
        <4> HIDE DEF packed
        <4>5. [was EXCEPT !.step = "ready", !.version = 0, !.manifest = packed,
                          !.archive = packed] \in Fetched
          BY <3>3, <4>1, <4>4 DEF Fetched
        <4> QED BY <3>8, <4>2, <4>5 DEF FetchSkills, packed
      <3>9. CASE FetchFails(r) BY <3>9 DEF FetchFails
      <3> QED BY <1>2, <3>4, <3>5, <3>6, <3>7, <3>8, <3>9
    <2> QED BY <2>1 DEF PluginTypeOK, manager, mishaps
  <1> QED BY <1>1, <1>2

\* A file of a directory goes.
LEMMA ShrunkShape ==
  ASSUME NEW d \in Directory, NEW e \in Shrunk(d)
  PROVE  /\ e \in Directory
         /\ e.status \in {d.status, Absent} /\ e.manifest \in {d.manifest, Absent}
         /\ \A f \in Parts : e.files[f] \in {0, d.files[f]}
  <1> USE PluginBounds DEF Directory, Files
  <1>1. CASE \E p \in Parts : e = [d EXCEPT !.files[p] = 0]
    <2>1. PICK p \in Parts : e = [d EXCEPT !.files[p] = 0] BY <1>1
    <2>2. [d.files EXCEPT ![p] = 0] \in Files OBVIOUS
    <2>3. e = [d EXCEPT !.files = [d.files EXCEPT ![p] = 0]] BY <2>1
    <2> QED BY <2>2, <2>3
  <1>2. CASE e \in {[d EXCEPT !.status = Absent], [d EXCEPT !.manifest = Absent]} BY <1>2
  <1> QED BY <1>1, <1>2 DEF Shrunk

\* What an archive holds can be unpacked, and its record is of the archive's name.
LEMMA UnpackingShape ==
  ASSUME PluginTypeOK, op # Absent
  PROVE  /\ Unpacking.manifest \in Files \cup {Absent}
         /\ \/ Unpacking.status = Absent
            \/ /\ Unpacking.status \in StatusFile /\ Unpacking.status.id = Target
               /\ Unpacking.status # Truncated
  <1>1. op.archive \in Files /\ op.plugin.registry \in Registries /\ Target \in Names BY CallShape
  <1>2. [id |-> Target, registry |-> op.plugin.registry, status |-> "active"] \in StatusFile
    BY <1>1 DEF StatusFile, AnyId, Statuses
  <1> QED BY <1>1, <1>2, MarksAreNoFiles DEF Unpacking, ArchiveHolds

\* A step of the call that holds the mutex is about its own plugin and its own directory.
LEMMA AtTarget ==
  ASSUME PluginTypeOK, StoreStep
  PROVE  /\ op # Absent
         /\ UNCHANGED <<manager, fetch, bots, installs, allowed, kills>>
         /\ dir' \in [Names -> Directory] /\ unpacked' \in [Names -> Directory]
         /\ \A n \in Names \ {Target} : dir'[n] = dir[n] /\ unpacked'[n] = unpacked[n]
         /\ \/ unpacked'[Target].status \in {unpacked[Target].status, Absent}
            \/ unpacked'[Target].status # Truncated /\ unpacked'[Target].status.id = Target
         /\ op.step # "unpack" => unpacked' = unpacked
         /\ op' \in StoreCall \cup {Absent}
         /\ op' # Absent => op'.plugin = op.plugin /\ UNCHANGED <<plugins, dirty>>
         /\ \/ UNCHANGED <<plugins, answered>>
            \/ /\ op.step = "last" /\ plugins' = plugins \cup {op.plugin}
               /\ answered' = answered \cup {op.plugin.id}
         /\ \/ dir'[Target].status \in {dir[Target].status, Absent, Truncated, StatusOf(op.plugin)}
            \/ op.step = "unpack" /\ dir'[Target].status = unpacked[Target].status
         /\ op.step = "remove" => dir'[Target].status \in {dir[Target].status, Absent}
         /\ \/ gone' = gone
            \/ /\ gone' = gone \cup {op.plugin.id} /\ dir'[Target].status = Absent
               /\ op.step = "remove" /\ op' = Absent
         /\ dirty' = dirty \/ (dirty' = dirty \cup {Target} /\ op' = Absent)
         /\ fileFaults' \in 0 .. MaxFileFaults
  <1> USE PluginBounds, NoFilesAreFiles DEF disk, history, mishaps, Writing
  <1>1. op # Absent
    BY DEF StoreStep, Unpack, Promote, Truncate, WriteStatus, TruncateManifest, WriteManifest,
      WriteFails, RemoveFile, Removed, In
  <1>2. /\ op \in StoreCall /\ op.plugin \in Plugin /\ op.archive \in Files
        /\ op.todo \subseteq Parts \cup RecordFiles /\ Target \in Names
        /\ op.plugin.manifest \in Files
    BY <1>1, CallShape
  <1>3. dir[Target] \in Directory /\ unpacked[Target] \in Directory BY <1>2, DirShape
  <1>4. dir \in [Names -> Directory] /\ unpacked \in [Names -> Directory]
        /\ fileFaults \in 0 .. MaxFileFaults
    BY DEF PluginTypeOK
  <1>5. StatusOf(op.plugin) \in StatusFile BY <1>2 DEF StatusOf, Plugin, StatusFile
  <1>6. CASE Unpack
    <2>1. PICK p \in op.todo :
            /\ op' = [op EXCEPT !.todo = @ \ {p}]
            /\ \/ p \in Parts
                  /\ unpacked' = [unpacked EXCEPT ![Target].files[p] = op.archive[p]]
               \/ unpacked' = [unpacked EXCEPT ![Target].status = Unpacking.status]
               \/ unpacked' = [unpacked EXCEPT ![Target].manifest = Unpacking.manifest]
      BY <1>6 DEF Unpack
    <2>2. [op EXCEPT !.todo = @ \ {p}] \in StoreCall BY <1>2 DEF StoreCall
    <2>3. op'.plugin = op.plugin BY <1>2, <2>1 DEF StoreCall
    <2>4. /\ unpacked' \in [Names -> Directory]
          /\ \A n \in Names \ {Target} : unpacked'[n] = unpacked[n]
          /\ \/ unpacked'[Target].status \in {unpacked[Target].status, Absent}
             \/ unpacked'[Target].status # Truncated /\ unpacked'[Target].status.id = Target
      <3> DEFINE d == unpacked[Target]
      <3>1. CASE p \in Parts /\ unpacked' = [unpacked EXCEPT ![Target].files[p] = op.archive[p]]
        <4>1. [d EXCEPT !.files[p] = op.archive[p]] \in Directory
              /\ [d EXCEPT !.files[p] = op.archive[p]].status = d.status
          <5>1. [d.files EXCEPT ![p] = op.archive[p]] \in Files BY <1>2, <1>3 DEF Directory, Files
          <5>2. [d EXCEPT !.files[p] = op.archive[p]]
                  = [d EXCEPT !.files = [d.files EXCEPT ![p] = op.archive[p]]]
            BY <1>3 DEF Directory
          <5> QED BY <1>3, <5>1, <5>2 DEF Directory
        <4>2. unpacked' = [unpacked EXCEPT ![Target] = [d EXCEPT !.files[p] = op.archive[p]]]
          BY <3>1
        <4> QED BY <1>2, <1>4, <4>1, <4>2
      <3>2. CASE unpacked' = [unpacked EXCEPT ![Target].status = Unpacking.status]
        <4>1. [d EXCEPT !.status = Unpacking.status] \in Directory
              /\ [d EXCEPT !.status = Unpacking.status].status = Unpacking.status
          BY <1>1, <1>3, UnpackingShape DEF Directory
        <4> QED BY <1>1, <1>2, <1>4, <3>2, <4>1, UnpackingShape
      <3>3. CASE unpacked' = [unpacked EXCEPT ![Target].manifest = Unpacking.manifest]
        <4>1. [d EXCEPT !.manifest = Unpacking.manifest] \in Directory
              /\ [d EXCEPT !.manifest = Unpacking.manifest].status = d.status
          BY <1>1, <1>3, UnpackingShape DEF Directory
        <4> QED BY <1>2, <1>4, <3>3, <4>1
      <3> QED BY <2>1, <3>1, <3>2, <3>3
    <2>5. /\ op.step = "unpack"
          /\ UNCHANGED <<manager, fetch, plugins, bots, dir, installs, dirty, history, mishaps>>
      BY <1>6 DEF Unpack, In
    <2> QED BY <1>1, <1>4, <2>1, <2>2, <2>3, <2>4, <2>5
  <1>7. CASE Promote
    <2>2. [op EXCEPT !.step = "status", !.archive = NoFiles] \in StoreCall
          /\ [op EXCEPT !.step = "status", !.archive = NoFiles].plugin = op.plugin
      BY <1>2 DEF StoreCall
    <2>3. /\ unpacked' = [unpacked EXCEPT ![Target] = NoDirectory] /\ op.step = "unpack"
          /\ UNCHANGED <<manager, fetch, plugins, bots, installs, dirty, answered, allowed, gone,
                         kills>>
      BY <1>7 DEF Promote, In
    <2>4. \/ /\ dir' = [dir EXCEPT ![Target] = unpacked[Target]]
             /\ op' = [op EXCEPT !.step = "status", !.archive = NoFiles]
          \/ dir' = dir /\ op' = Absent
      BY <1>7 DEF Promote
    <2>5. fileFaults' \in 0 .. MaxFileFaults BY <1>4, <1>7 DEF Promote, FileFails
    <2>6. dir' \in [Names -> Directory]
          /\ dir'[Target].status \in {dir[Target].status, unpacked[Target].status}
          /\ \A n \in Names \ {Target} : dir'[n] = dir[n]
      BY <1>2, <1>3, <1>4, <2>4
    <2>7. op' \in StoreCall \cup {Absent} /\ (op' # Absent => op'.plugin = op.plugin)
      BY <2>2, <2>4
    <2>8. /\ unpacked' \in [Names -> Directory] /\ unpacked'[Target].status = Absent
          /\ \A n \in Names \ {Target} : unpacked'[n] = unpacked[n]
      BY <1>2, <1>4, <2>3 DEF NoDirectory
    <2> QED BY <1>1, <2>3, <2>5, <2>6, <2>7, <2>8
  <1>8. CASE Truncate
    <2>1. [dir[Target] EXCEPT !.status = Truncated] \in Directory
          /\ [dir[Target] EXCEPT !.status = Truncated].status = Truncated
      BY <1>3 DEF Directory
    <2>2. [op EXCEPT !.step = "writing"] \in StoreCall
          /\ [op EXCEPT !.step = "writing"].plugin = op.plugin
      BY <1>2 DEF StoreCall
    <2> QED BY <1>1, <1>2, <1>3, <1>4, <1>8, <2>1, <2>2 DEF Truncate, In
  <1>9. CASE WriteStatus
    <2>1. [dir[Target] EXCEPT !.status = StatusOf(op.plugin)] \in Directory
          /\ [dir[Target] EXCEPT !.status = StatusOf(op.plugin)].status = StatusOf(op.plugin)
      BY <1>3, <1>5 DEF Directory
    <2>2. [op EXCEPT !.step = "manifest"] \in StoreCall
          /\ [op EXCEPT !.step = "manifest"].plugin = op.plugin
      BY <1>2 DEF StoreCall
    <2>3. op' \in {Absent, [op EXCEPT !.step = "manifest"]} BY <1>9 DEF WriteStatus, AfterStatus
    <2> QED BY <1>1, <1>2, <1>3, <1>4, <1>9, <2>1, <2>2, <2>3 DEF WriteStatus, In
  <1>10. CASE TruncateManifest
    <2>1. [dir[Target] EXCEPT !.manifest = Truncated] \in Directory
          /\ [dir[Target] EXCEPT !.manifest = Truncated].status = dir[Target].status
      BY <1>3 DEF Directory
    <2>2. [op EXCEPT !.step = "last"] \in StoreCall
          /\ [op EXCEPT !.step = "last"].plugin = op.plugin
      BY <1>2 DEF StoreCall
    <2> QED BY <1>1, <1>2, <1>3, <1>4, <1>10, <2>1, <2>2 DEF TruncateManifest
  <1>11. CASE WriteManifest
    <2>1. [dir[Target] EXCEPT !.manifest = op.plugin.manifest] \in Directory
          /\ [dir[Target] EXCEPT !.manifest = op.plugin.manifest].status = dir[Target].status
      BY <1>2, <1>3 DEF Directory
    <2> QED BY <1>1, <1>2, <1>3, <1>4, <1>11, <2>1 DEF WriteManifest, In
  <1>12. CASE WriteFails BY <1>1, <1>2, <1>3, <1>4, <1>12 DEF WriteFails, FileFails
  <1>13. CASE RemoveFile
    <2>1. PICK d \in Shrunk(dir[Target]) : dir' = [dir EXCEPT ![Target] = d]
      BY <1>13 DEF RemoveFile
    <2>2. d \in Directory /\ d.status \in {dir[Target].status, Absent} BY <1>3, ShrunkShape
    <2> QED BY <1>1, <1>2, <1>3, <1>4, <1>13, <2>1, <2>2 DEF RemoveFile
  <1>14. CASE Removed
    <2>1. CASE Shrunk(dir[Target]) = {}
      <3>1. dir[Target].status = Absent BY <2>1 DEF Shrunk
      <3> QED BY <1>1, <1>2, <1>3, <1>4, <1>14, <3>1 DEF Removed, In, FileFails
    <2>2. CASE Shrunk(dir[Target]) # {}
      BY <1>1, <1>2, <1>3, <1>4, <1>14, <2>2 DEF Removed, In, FileFails
    <2> QED BY <2>1, <2>2
  <1> QED BY <1>6, <1>7, <1>8, <1>9, <1>10, <1>11, <1>12, <1>13, <1>14 DEF StoreStep

\* A call that an operator makes puts a plugin of the same identifier and name in the place of
\* one in memory, or takes it out.
Removal(p) == [step |-> "remove", plugin |-> p, archive |-> NoFiles, todo |-> {}]

LEMMA OperatorCall ==
  ASSUME PluginTypeOK, NEW p \in plugins, Manage(p)
  PROVE  /\ op = Absent /\ op' \in StoreCall /\ op'.plugin \in Plugin
         /\ UNCHANGED <<manager, fetch, bots, dir, unpacked, installs, dirty, answered, gone,
                        mishaps>>
         /\ allowed \subseteq allowed' /\ allowed' \subseteq AnyId
         /\ op'.plugin.id = p.id /\ op'.plugin.registry = p.registry /\ op'.plugin.name = p.name
         /\ op'.plugin.status = "active" => p.status = "active" \/ p.id \in allowed'
         /\ op'.plugin.manifest \in {p.manifest, ReadManifest(p.name)}
         /\ op'.todo = {}
         /\ \/ op'.step = "status" /\ plugins' = (plugins \ {p}) \cup {op'.plugin}
            \/ op'.step = "remove" /\ plugins' = plugins \ {p}
  <1> USE NoFilesAreFiles DEF disk, history
  <1>1. p \in Plugin /\ p.id \in AnyId /\ allowed \subseteq AnyId BY DEF PluginTypeOK, Plugin
  <1>2. ASSUME NEW q \in Plugin PROVE Saves(q) \in StoreCall BY <1>2 DEF Saves, StoreCall
  <1>3. CASE Approve(p) \/ Enable(p)
    <2> DEFINE q == [p EXCEPT !.status = "active"]
    <2>1. q \in Plugin /\ q.id = p.id /\ q.registry = p.registry /\ q.name = p.name
          /\ q.manifest = p.manifest
      BY <1>1 DEF Plugin, Statuses
    <2>2. Change(p, q) /\ allowed' = allowed \cup {p.id} BY <1>3 DEF Enable, Approve
    <2> HIDE DEF q
    <2> QED BY <1>1, <1>2, <2>1, <2>2 DEF Change, Saves
  <1>4. CASE Disable(p)
    <2> DEFINE q == [p EXCEPT !.status = "disabled"]
    <2>1. q \in Plugin /\ q.id = p.id /\ q.registry = p.registry /\ q.name = p.name
          /\ q.manifest = p.manifest /\ q.status = "disabled"
      BY <1>1 DEF Plugin, Statuses
    <2>2. Change(p, q) /\ allowed' = allowed BY <1>4 DEF Disable
    <2> HIDE DEF q
    <2> QED BY <1>1, <1>2, <2>1, <2>2 DEF Change, Saves
  <1>5. CASE Reload(p)
    <2> DEFINE q == [p EXCEPT !.manifest = ReadManifest(p.name),
                              !.status = IF Runnable(p.name) THEN @ ELSE "disabled"]
    <2>1. ReadManifest(p.name) \in Files BY <1>1, LoadShape DEF Plugin
    <2>2. q \in Plugin /\ q.id = p.id /\ q.registry = p.registry /\ q.name = p.name
          /\ q.manifest = ReadManifest(p.name) /\ q.status \in {p.status, "disabled"}
      BY <1>1, <2>1 DEF Plugin, Statuses
    <2>3. Change(p, q) /\ allowed' = allowed BY <1>5 DEF Reload
    <2> HIDE DEF q
    <2> QED BY <1>1, <1>2, <2>2, <2>3 DEF Change, Saves
  <1>6. CASE RemovePlugin(p)
    <2>1. op' = Removal(p) /\ Removal(p) \in StoreCall
      BY <1>1, <1>6 DEF RemovePlugin, Removal, StoreCall
    <2> QED BY <1>1, <1>6, <2>1 DEF RemovePlugin, Removal
  <1> QED BY <1>3, <1>4, <1>5, <1>6 DEF Manage

\* An installation that is not turned away gives a new identifier to a free name.
LEMMA InstallBegins ==
  ASSUME PluginTypeOK, NEW r \in Installers, Install(r)
  PROVE  /\ op = Absent
         /\ UNCHANGED <<manager, plugins, bots, dir, unpacked, dirty, history, mishaps>>
         /\ fetch' \in [Installers -> Fetched \cup {Absent}]
         /\ \/ op' = Absent /\ installs' = installs
            \/ /\ op' \in StoreCall /\ op'.plugin \in Plugin /\ op'.step = "unpack"
               /\ installs' = installs + 1 /\ installs' \in Ids /\ op'.plugin.id = installs'
               /\ ~Installed(op'.plugin.name)
               /\ op'.plugin.status = "active" => op'.plugin.registry \in Trusted
               /\ op'.archive = op'.plugin.manifest
               /\ \A p \in Parts \ op'.todo : op'.archive[p] = 0
  <1> USE PluginBounds DEF disk, history
  <1>1. fetch[r] \in Fetched BY DEF Install, Fetching, PluginTypeOK
  <1>2. fetch' \in [Installers -> Fetched \cup {Absent}] BY DEF Install, PluginTypeOK
  <1>3. CASE Installed(fetch[r].name) \/ ~Verified(fetch[r]) BY <1>2, <1>3 DEF Install
  <1>4. CASE ~Installed(fetch[r].name) /\ Verified(fetch[r])
    <2> DEFINE new == [id |-> installs', registry |-> fetch[r].registry,
                       status |-> FirstStatus(fetch[r].registry),
                       name |-> fetch[r].name, manifest |-> fetch[r].manifest]
               made == [step |-> "unpack", plugin |-> new, archive |-> fetch[r].archive,
                        todo |-> PartsOf(ArchiveHolds(fetch[r].archive, fetch[r].registry,
                                                      fetch[r].name))]
    <2>1. installs' = installs + 1 /\ installs' \in Ids /\ installs' \in AnyId
      BY <1>4 DEF Install, PluginTypeOK, Ids, AnyId
    <2>2. FirstStatus(fetch[r].registry) \in Statuses
          /\ (FirstStatus(fetch[r].registry) = "active" => fetch[r].registry \in Trusted)
      BY DEF FirstStatus, Statuses
    <2>3. new \in Plugin BY <1>1, <2>1, <2>2 DEF Plugin, Fetched
    <2>4. op' = made BY <1>4 DEF Install
    <2>5. made \in StoreCall /\ \A p \in Parts \ made.todo : made.archive[p] = 0
      <3> DEFINE within == ArchiveHolds(fetch[r].archive, fetch[r].registry, fetch[r].name)
      <3>1. within.files = fetch[r].archive BY DEF ArchiveHolds
      <3>2. PartsOf(within) \subseteq Parts \cup RecordFiles
            /\ \A p \in Parts \ PartsOf(within) : fetch[r].archive[p] = 0
        BY <3>1 DEF PartsOf
      <3> HIDE DEF new, within
      <3> QED BY <1>1, <2>3, <3>2 DEF StoreCall, Fetched, within
    <2>6. fetch[r].archive = fetch[r].manifest BY <1>4 DEF Verified
    <2>7. ~Installed(new.name) BY <1>4
    <2> QED BY <1>2, <1>4, <2>1, <2>2, <2>3, <2>4, <2>5, <2>6, <2>7 DEF Install
  <1> QED BY <1>3, <1>4

\* Every step keeps the types.
LEMMA PluginTypeStep == PluginTypeOK /\ [PluginNext]_pluginVars => PluginTypeOK'
  <1> SUFFICES ASSUME PluginTypeOK, [PluginNext]_pluginVars PROVE PluginTypeOK' OBVIOUS
  <1> USE PluginBounds DEF disk, history, manager, mishaps
  <1>1. CASE Registry BY <1>1, FetchTypeStep
  <1>2. ASSUME NEW r \in Installers, Request(r) PROVE PluginTypeOK'
    <2>1. CASE Install(r)
      <3>1. installs' \in 0 .. MaxInstalls BY <2>1, InstallBegins DEF PluginTypeOK, Ids
      <3>2. op' \in StoreCall \cup {Absent} BY <2>1, InstallBegins
      <3> QED BY <2>1, <3>1, <3>2, InstallBegins DEF PluginTypeOK
    <2>2. CASE ~Install(r) BY <1>2, <2>2, FetchTypeStep DEF Request
    <2> QED BY <2>1, <2>2
  <1>3. CASE StoreStep
    <2>1. op # Absent /\ op.plugin \in Plugin /\ Target \in Names BY <1>3, AtTarget, CallShape
    <2>2. op.plugin.id \in AnyId BY <2>1 DEF Plugin
    <2>3. /\ plugins' \subseteq Plugin /\ gone' \subseteq AnyId /\ answered' \subseteq AnyId
          /\ dirty' \subseteq Names
      BY <1>3, <2>1, <2>2, AtTarget DEF PluginTypeOK
    <2> QED BY <1>3, <2>3, AtTarget DEF PluginTypeOK
  <1>4. ASSUME NEW p \in plugins, Manage(p) PROVE PluginTypeOK'
    <2>1. plugins' \subseteq Plugin BY <1>4, OperatorCall DEF PluginTypeOK
    <2> QED BY <1>4, <2>1, OperatorCall DEF PluginTypeOK
  <1>5. CASE ProcessRestarts
    BY <1>5, LoadShape DEF ProcessRestarts, StartRegistries, PluginTypeOK
  <1>6. CASE UNCHANGED pluginVars BY <1>6 DEF pluginVars, store, PluginTypeOK
  <1> QED BY <1>1, <1>2, <1>3, <1>4, <1>5, <1>6 DEF PluginNext

\* A step that is not an installation, not of a call and not of an operator leaves the store
\* and what it has on the disk as they are.
LEMMA OtherSteps ==
  ASSUME PluginTypeOK, [PluginNext]_pluginVars
  PROVE  \/ UNCHANGED store
         \/ \E r \in Installers : Install(r)
         \/ StoreStep
         \/ \E p \in plugins : Manage(p)
         \/ ProcessRestarts
  BY FetchTypeStep DEF PluginNext, Request, pluginVars

\* Identifiers are given one by one, and follow a plugin to its directory and out of it.
LEMMA IdsAreOwnStep ==
  ASSUME PluginInv, [PluginNext]_pluginVars PROVE IdsAreOwn'
  <1> USE PluginBounds DEF PluginInv, IdsAreOwn, HasRecord, Given, disk, history
  <1>0. /\ PluginTypeOK /\ installs \in Nat /\ 1 .. installs \subseteq Ids
        /\ \A p \in plugins : p.name \in Names
    BY DEF PluginTypeOK, Ids, Plugin
  <1>1. CASE UNCHANGED store BY <1>1 DEF store, Target
  <1>2. ASSUME NEW r \in Installers, Install(r) PROVE IdsAreOwn'
    <2>1. CASE op' = Absent BY <1>0, <1>2, <2>1, InstallBegins
    <2>2. CASE op' # Absent
      <3>1. /\ op = Absent /\ UNCHANGED <<plugins, dir, gone, answered>>
            /\ installs' = installs + 1 /\ op'.plugin.id = installs' /\ installs' \in Ids
        BY <1>0, <1>2, <2>2, InstallBegins
      <3>2. 1 .. installs \subseteq 1 .. installs' /\ installs' \notin 1 .. installs
            /\ installs' \in 1 .. installs' /\ installs' \notin Names
        BY <1>0, <3>1
      <3>3. \A n \in Names : HasRecord(n) => dir[n].status.id # installs' BY <3>2
      <3>4. installs' \notin gone BY <3>2
      <3> QED BY <3>1, <3>2, <3>3, <3>4
    <2> QED BY <2>1, <2>2
  <1>3. CASE StoreStep
    <2> USE <1>0, <1>3, AtTarget
    <2> DEFINE id == op.plugin.id
    <2>1. /\ op # Absent /\ Target \in Names /\ Given(id, Target)
          /\ StatusOf(op.plugin).id = id /\ StatusOf(op.plugin) \notin {Absent, Truncated}
          /\ op.plugin.name = Target
      BY CallShape, MarksAreNoFiles DEF StatusOf, Plugin, StatusFile, Target
    <2>2. op' # Absent => op'.plugin = op.plugin /\ Target' = Target BY DEF Target
    <2>3. \A n \in Names : HasRecord(n)' =>
            \/ HasRecord(n) /\ dir'[n].status = dir[n].status
            \/ n = Target /\ dir'[n].status.id \in {id, n}
      BY <2>1 DEF UnpackedIsPacked, Unfinished
    <2>4. \A p \in plugins' : p \in plugins \/ (p = op.plugin /\ ~Known(id))
      BY DEF CallIsKnown
    <2>5. \A p \in plugins : p.id = id => p = op.plugin BY <2>1 DEF CallIsKnown, Known
    <2>6. \A n \in Names : HasRecord(n) /\ dir[n].status.id = id => n = Target BY <2>1
    <2>7. /\ \A n \in Names : HasRecord(n) /\ dir[n].status.id = Target => n = Target
          /\ \A p \in plugins' : p.id = Target => p.name = Target
      BY <2>1, <2>4
    <2>8. answered' \subseteq 1 .. installs'
      <3>1. CASE answered' = answered BY <3>1
      <3>2. CASE answered' # answered
        <4>1. op.step = "last" /\ answered' = answered \cup {id} BY <3>2
        <4>2. id \in 1 .. installs BY <2>1, <4>1 DEF CallIsKnown, Known
        <4> QED BY <4>1, <4>2
      <3> QED BY <3>1, <3>2
    <2>9. CASE gone' = gone
      <3>1. \A p \in plugins' : p.id \in (1 .. installs' \ gone') \cup {p.name} BY <2>1, <2>4, <2>9
      <3>2. \A p \in plugins' : \A q \in plugins' : p.id = q.id => p = q
        BY <2>4 DEF Known
      <3>3. \A n \in Names : HasRecord(n)' =>
              dir'[n].status.id \in (1 .. installs' \ gone') \cup {n}
        BY <2>1, <2>3, <2>9
      <3>4. \A n \in Names : \A m \in Names :
              HasRecord(n)' /\ HasRecord(m)' /\ dir'[m].status.id = dir'[n].status.id => m = n
        BY <2>3, <2>6, <2>7
      <3>5. \A n \in Names : HasRecord(n)' =>
              (\A p \in plugins' : p.id = dir'[n].status.id => p.name = n)
        BY <2>1, <2>3, <2>4, <2>5, <2>6, <2>7
      <3>6. \A n \in Names : HasRecord(n)' =>
              (op' # Absent /\ op'.plugin.id = dir'[n].status.id => n = Target')
        BY <2>2, <2>3, <2>6
      <3> QED BY <2>1, <2>2, <2>8, <2>9, <3>1, <3>2, <3>3, <3>4, <3>5, <3>6
    <2>10. CASE gone' # gone
      <3>1. /\ gone' = gone \cup {id} /\ dir'[Target].status = Absent /\ op.step = "remove"
            /\ op' = Absent /\ UNCHANGED <<plugins, answered>>
        BY <2>10
      <3>2. \A p \in plugins : p.id # id BY <2>1, <3>1 DEF CallIsKnown, Known
      <3>3. \A n \in Names : HasRecord(n)' => HasRecord(n) /\ dir'[n].status = dir[n].status
                                              /\ n # Target
        BY <2>3, <3>1
      <3>4. \A p \in plugins' : p.id \in (1 .. installs' \ gone') \cup {p.name} BY <3>1, <3>2
      <3>5. \A n \in Names : HasRecord(n)' =>
              dir'[n].status.id \in (1 .. installs' \ gone') \cup {n}
        BY <2>6, <3>1, <3>3
      <3>6. gone' \subseteq 1 .. installs' \cup Names BY <2>1, <3>1
      <3> QED BY <2>8, <3>1, <3>3, <3>4, <3>5, <3>6
    <2> QED BY <2>9, <2>10
  <1>4. ASSUME NEW p \in plugins, Manage(p) PROVE IdsAreOwn'
    <2>1. /\ op = Absent /\ op' # Absent /\ UNCHANGED <<dir, installs, answered, gone>>
          /\ op'.plugin.id = p.id /\ Target' = p.name
          /\ \A q \in plugins' : (q \in plugins /\ q # p) \/ q = op'.plugin
      BY <1>0, <1>4, OperatorCall DEF Target
    <2>2. \A n \in Names : HasRecord(n) /\ p.id = dir[n].status.id => n = Target' BY <2>1
    <2>3. \A q \in plugins' : (q \in plugins /\ q.id # p.id)
                             \/ (q = op'.plugin /\ q.id = p.id /\ q.name = Target')
      BY <2>1 DEF Target
    <2> QED BY <2>1, <2>2, <2>3
  <1>5. CASE ProcessRestarts
    <2>1. op' = Absent /\ UNCHANGED <<dir, installs, answered, gone>> /\ plugins' = Load
      BY <1>5 DEF ProcessRestarts
    <2>2. \A p \in Load : /\ p.name \in Names /\ p \in LoadOf(p.name)
                          /\ \/ p.id = p.name
                             \/ HasRecord(p.name) /\ p.id = dir[p.name].status.id
      <3> SUFFICES ASSUME NEW p \in Load
                   PROVE  /\ p.name \in Names /\ p \in LoadOf(p.name)
                          /\ \/ p.id = p.name
                             \/ HasRecord(p.name) /\ p.id = dir[p.name].status.id
        OBVIOUS
      <3>1. p.name \in Names /\ p \in LoadOf(p.name) BY <1>0, LoadShape
      <3>2. \/ HasRecord(p.name) /\ p.id = dir[p.name].status.id
            \/ HasStatus(unpacked[p.name]) /\ p.id = unpacked[p.name].status.id
        BY <1>0, <3>1, LoadShape
      <3> QED BY <3>1, <3>2 DEF UnpackedIsPacked, Unfinished, HasStatus
    <2>3. \A p \in Load : Given(p.id, p.name) BY <2>2
    <2>4. \A n \in Names : HasRecord(n) => (\A p \in Load : p.id = dir[n].status.id => p.name = n)
      BY <1>0, <2>2
    <2>5. \A p \in Load : \A q \in Load : p.id = q.id => p = q
      <3>1. \A p \in Load : \A q \in Load : p.id = q.id => p.name = q.name BY <1>0, <2>2
      <3> QED BY <1>0, <2>2, <3>1, LoadShape
    <2> QED BY <2>1, <2>3, <2>4, <2>5
  <1> QED BY <1>0, <1>1, <1>2, <1>3, <1>4, <1>5, OtherSteps

\* A directory that is being unpacked has no record but that of its archive.
LEMMA UnpackedStep ==
  ASSUME PluginInv, [PluginNext]_pluginVars PROVE UnpackedIsPacked'
  <1> USE DEF PluginInv, UnpackedIsPacked, Unfinished, disk, history
  <1>1. CASE UNCHANGED store BY <1>1 DEF store
  <1>2. ASSUME NEW r \in Installers, Install(r) PROVE UnpackedIsPacked' BY <1>2, InstallBegins
  <1>3. CASE StoreStep
    <2>1. op # Absent /\ Target \in Names BY <1>3, AtTarget, CallShape
    <2> QED BY <1>3, <2>1, AtTarget
  <1>4. ASSUME NEW p \in plugins, Manage(p) PROVE UnpackedIsPacked' BY <1>4, OperatorCall
  <1>5. CASE ProcessRestarts BY <1>5 DEF ProcessRestarts
  <1> QED BY <1>1, <1>2, <1>3, <1>4, <1>5, OtherSteps

\* The status is copied from memory to the disk and back, and only an operator makes it active.
LEMMA LeaveIsGivenStep ==
  ASSUME PluginInv, [PluginNext]_pluginVars PROVE LeaveIsGiven'
  <1> USE DEF PluginInv, LeaveIsGiven, MayRun, HasRecord, disk, history
  <1>1. CASE UNCHANGED store BY <1>1 DEF store
  <1>2. ASSUME NEW r \in Installers, Install(r) PROVE LeaveIsGiven' BY <1>2, InstallBegins
  <1>3. CASE StoreStep
    <2>1. op # Absent /\ Target \in Names /\ MayRun(op.plugin) /\ UNCHANGED <<bots, allowed>>
      BY <1>3, AtTarget, CallShape
    <2>2. MayRun(StatusOf(op.plugin)) BY <2>1 DEF StatusOf
    <2>3. \A p \in plugins' : MayRun(p) BY <1>3, <2>1, AtTarget
    <2>4. \A n \in Names : HasRecord(n)' => MayRun(dir'[n].status)
      BY <1>3, <2>1, <2>2, AtTarget, PluginBounds DEF UnpackedIsPacked, Unfinished
    <2>5. op' # Absent => MayRun(op'.plugin) BY <1>3, <2>1, AtTarget
    <2> QED BY <2>1, <2>3, <2>4, <2>5
  <1>4. ASSUME NEW p \in plugins, Manage(p) PROVE LeaveIsGiven'
    <2>1. op'.plugin.status = "active" /\ op'.plugin.id \in Ids =>
            op'.plugin.registry \in Trusted \/ op'.plugin.id \in allowed'
      BY <1>4, OperatorCall
    <2> QED BY <1>4, <2>1, OperatorCall
  <1>5. CASE ProcessRestarts
    <2>1. \A n \in Names : \A p \in LoadOf(n) : MayRun(p)
      <3> SUFFICES ASSUME NEW n \in Names, NEW p \in LoadOf(n) PROVE MayRun(p) OBVIOUS
      <3>1. CASE HasRecord(n) /\ p = Loaded(n, dir[n]) BY <3>1 DEF Loaded
      <3>2. CASE HasStatus(unpacked[n]) /\ p.id = unpacked[n].status.id
        BY <3>2, PluginBounds DEF UnpackedIsPacked, Unfinished, HasStatus
      <3> QED BY <3>1, <3>2, LoadShape
    <2>2. \A p \in Load : MayRun(p) BY <2>1, LoadShape
    <2> QED BY <1>5, <2>2 DEF ProcessRestarts
  <1> QED BY <1>1, <1>2, <1>3, <1>4, <1>5, OtherSteps

\* Which plugins are known changes only between two calls, and with the last step of one.
LEMMA CallIsKnownStep ==
  ASSUME PluginInv, [PluginNext]_pluginVars PROVE CallIsKnown'
  <1> USE DEF PluginInv, CallIsKnown, Known, Installed
  <1>1. CASE UNCHANGED store BY <1>1 DEF store, history, Target
  <1>2. ASSUME NEW r \in Installers, Install(r) PROVE CallIsKnown'
    <2>1. CASE op' = Absent BY <2>1
    <2>2. CASE op' # Absent
      <3>1. /\ UNCHANGED <<plugins, answered>> /\ op'.step = "unpack"
            /\ op'.plugin.id = installs + 1 /\ installs + 1 \in Ids
            /\ \A p \in plugins : p.name # Target'
        BY <1>2, <2>2, InstallBegins DEF Target, history
      <3>2. installs + 1 \notin answered
            /\ \A p \in plugins : p.id # installs + 1
        BY <3>1, PluginBounds DEF IdsAreOwn, Given, PluginTypeOK, Plugin
      <3> QED BY <3>1, <3>2
    <2> QED BY <2>1, <2>2
  <1>3. CASE StoreStep
    <2> SUFFICES ASSUME op' # Absent PROVE CallIsKnown' OBVIOUS
    <2>1. op # Absent /\ op'.plugin = op.plugin /\ Target' = Target
          /\ UNCHANGED <<plugins, answered>>
      <3>1. op.step = "last" => op' = Absent
        <4>1. op # Absent /\ op \in StoreCall BY <1>3, AtTarget, CallShape
        <4> QED BY <1>3, <4>1 DEF StoreStep, Unpack, Promote, Truncate, WriteStatus,
              TruncateManifest, WriteManifest, WriteFails, RemoveFile, Removed, In
      <3> QED BY <1>3, <3>1, AtTarget DEF Target
    <2>2. op'.step = op.step \/ (op.step = "unpack" /\ op'.step = "status")
          \/ (op.step = "status" /\ op'.step = "writing")
          \/ (op.step = "writing" /\ op'.step = "manifest" /\ ~Known(op.plugin.id))
          \/ (op.step = "manifest" /\ op'.step = "last")
      <3>1. op \in StoreCall BY <2>1, CallShape
      <3> USE <1>3, <2>1, <3>1 DEF StoreStep, Unpack, Promote, Truncate, WriteStatus, AfterStatus,
        TruncateManifest, WriteManifest, WriteFails, RemoveFile, Removed, In, StoreCall
      <3> QED OBVIOUS
    <2>3. op.step \in {"unpack", "remove"} \cup Writing BY <2>1, CallShape
    <2> QED BY <2>1, <2>2, <2>3 DEF Writing
  <1>4. ASSUME NEW p \in plugins, Manage(p) PROVE CallIsKnown'
    <2>1. \A q \in plugins : q.id = p.id => q = p BY DEF IdsAreOwn
    <2> QED BY <1>4, <2>1, OperatorCall
  <1>5. CASE ProcessRestarts BY <1>5 DEF ProcessRestarts
  <1> QED BY <1>1, <1>2, <1>3, <1>4, <1>5, OtherSteps

\* The file of the registries has the list, or it cannot be read.
LEMMA RegistriesStep ==
  ASSUME PluginInv, [PluginNext]_pluginVars PROVE RegistriesAreSaved'
  <1> USE DEF PluginInv, RegistriesAreSaved, StartRegistries, manager
  <1>1. CASE Registry
    BY <1>1 DEF Registry, AddRegistry, RemoveRegistry, ChangeRegistries, Publish
  <1>2. ASSUME NEW r \in Installers, Request(r) PROVE RegistriesAreSaved'
    BY <1>2 DEF Request, LookUp, FetchIndex, FetchManifest, FetchArchive, FetchSkills, FetchFails,
      Install
  <1>3. CASE StoreStep BY <1>3, AtTarget
  <1>4. ASSUME NEW p \in plugins, Manage(p) PROVE RegistriesAreSaved' BY <1>4, OperatorCall
  <1>5. CASE ProcessRestarts BY <1>5 DEF ProcessRestarts
  <1>6. CASE UNCHANGED pluginVars BY <1>6 DEF pluginVars
  <1> QED BY <1>1, <1>2, <1>3, <1>4, <1>5, <1>6 DEF PluginNext

\* A file that goes leaves the rest as the manifest has it.
LEMMA CoversFewer ==
  ASSUME NEW manifest, NEW kept, NEW fewer, Covers(manifest, kept),
         \A f \in Parts : fewer[f] \in {0, kept[f]}
  PROVE  Covers(manifest, fewer)
  BY DEF Covers

\* What the manifest covers is put in place as one directory, and only then the manifest.
LEMMA FilesStep ==
  ASSUME PluginInv, [PluginNext]_pluginVars
  PROVE  DirectoriesMatch' /\ FilesAreVerified' /\ CallMatches'
  <1> USE DEF PluginInv
  <1> DEFINE Matching == DirectoriesMatch /\ FilesAreVerified /\ CallMatches
  <1>0. /\ \A p \in plugins : p.id \in answered => Covers(p.manifest, dir[p.name].files)
        /\ \A p \in plugins : p.name \in Names /\ p.id \in AnyId
    BY DEF FilesAreVerified, Covers, PluginTypeOK, Plugin
  <1>6. answered \subseteq Ids
    <2>1. installs \in 0 .. MaxInstalls /\ answered \subseteq 1 .. installs
      BY DEF IdsAreOwn, PluginTypeOK
    <2> QED BY <2>1, PluginBounds DEF Ids
  <1>1. CASE UNCHANGED store
    BY <1>1 DEF store, disk, history, DirectoriesMatch, Vouched, HasRecord, FilesAreVerified,
      CallMatches, Target, Covers, Known
  <1>2. ASSUME NEW r \in Installers, Install(r) PROVE Matching'
    <2>1. DirectoriesMatch' /\ FilesAreVerified'
      BY <1>2, InstallBegins
      DEF DirectoriesMatch, Vouched, HasRecord, FilesAreVerified, Covers, history
    <2>2. CallMatches' BY <1>2, InstallBegins DEF CallMatches, Target, Writing
    <2> QED BY <2>1, <2>2
  <1>3. CASE StoreStep
    <2>0. PICK t \in Names : t = Target BY <1>3, AtTarget, CallShape
    <2> USE <2>0
    <2>1. /\ op # Absent /\ op \in StoreCall /\ dir[t] \in Directory
          /\ op.plugin \in Plugin /\ op.archive \in Files
          /\ unpacked[t] \in Directory /\ op.plugin.name = t /\ op.plugin.id \in AnyId
      BY <1>3, AtTarget, CallShape, DirShape DEF Target, Plugin
    <2>2. dir \in [Names -> Directory] /\ unpacked \in [Names -> Directory] BY DEF PluginTypeOK
    <2>3. op' # Absent => op'.plugin = op.plugin /\ Target' = t BY <1>3, AtTarget DEF Target
    <2>4. ASSUME UNCHANGED <<plugins, answered>>,
                 Vouched(t)' /\ dir'[t].manifest \notin {Absent, Truncated} =>
                   Covers(dir'[t].manifest, dir'[t].files)
          PROVE  DirectoriesMatch'
      <3> SUFFICES ASSUME NEW n \in Names, n # t, Vouched(n)',
                          dir'[n].manifest \notin {Absent, Truncated}
                   PROVE  Covers(dir'[n].manifest, dir'[n].files)
        BY <2>4 DEF DirectoriesMatch
      <3>1. dir'[n] = dir[n] /\ Vouched(n) BY <1>3, <2>4, AtTarget DEF Vouched, HasRecord
      <3> QED BY <3>1 DEF DirectoriesMatch
    <2>5. Vouched(t) /\ dir[t].manifest \notin {Absent, Truncated} =>
            Covers(dir[t].manifest, dir[t].files)
      BY DEF DirectoriesMatch
    <2>6. CASE Unpack
      <3>1. PICK p \in op.todo :
              /\ op' = [op EXCEPT !.todo = @ \ {p}]
              /\ \/ p \in Parts /\ unpacked' = [unpacked EXCEPT ![t].files[p] = op.archive[p]]
                 \/ /\ p \in RecordFiles
                    /\ \/ unpacked' = [unpacked EXCEPT ![t].status = Unpacking.status]
                       \/ unpacked' = [unpacked EXCEPT ![t].manifest = Unpacking.manifest]
        BY <2>6 DEF Unpack, RecordFiles
      <3>2. UNCHANGED <<dir, plugins, answered>> /\ op.step = "unpack"
        BY <2>6 DEF Unpack, In, history
      <3>3. /\ op'.step = "unpack" /\ op'.archive = op.archive /\ op'.todo = op.todo \ {p}
            /\ op'.plugin = op.plugin /\ op' # Absent
        BY <2>1, <3>1, <3>2, PluginBounds DEF StoreCall
      <3>4. \A f \in Parts \ {p} : unpacked'[t].files[f] = unpacked[t].files[f]
        BY <2>1, <2>2, <3>1 DEF Directory, Files
      <3>5. p \in Parts => unpacked'[t].files[p] = op.archive[p]
        BY <2>1, <2>2, <3>1 DEF Directory, Files, Parts, RecordFiles
      <3>6. \A f \in Parts \ op'.todo : op.archive[f] # 0 => unpacked'[t].files[f] = op.archive[f]
        BY <2>1, <3>2, <3>3, <3>4, <3>5 DEF CallMatches
      <3>7. CallMatches' BY <2>1, <2>3, <3>2, <3>3, <3>6 DEF CallMatches, Writing
      <3> QED BY <3>2, <3>7 DEF DirectoriesMatch, Vouched, HasRecord, FilesAreVerified, Covers
    <2>7. CASE Promote
      <3>1. UNCHANGED <<plugins, answered>> /\ op.step = "unpack"
        BY <2>7 DEF Promote, In, history
      <3>2. CASE op' = Absent
        <4>1. UNCHANGED dir
          <5>1. [op EXCEPT !.step = "status", !.archive = NoFiles] \in StoreCall
            BY <2>1, NoFilesAreFiles DEF StoreCall
          <5> QED BY <2>7, <3>2, <5>1, PluginBounds DEF Promote
        <4> QED BY <3>1, <3>2, <4>1
              DEF DirectoriesMatch, Vouched, HasRecord, FilesAreVerified, Covers, CallMatches
      <3>3. CASE op' # Absent
        <4>1. /\ op.todo = {} /\ dir[t] = NoDirectory
              /\ dir' = [dir EXCEPT ![t] = unpacked[t]]
              /\ op' = [op EXCEPT !.step = "status", !.archive = NoFiles]
          BY <2>7, <3>3 DEF Promote
        <4>2. dir'[t] = unpacked[t] BY <2>2, <4>1
        <4>3. Covers(op.plugin.manifest, unpacked[t].files)
          BY <2>1, <3>1, <4>1 DEF CallMatches, Covers
        <4>4. op'.step = "status" BY <2>1, <4>1 DEF StoreCall
        <4>5. CallMatches' BY <2>3, <4>2, <4>3, <4>4 DEF CallMatches, Covers
        <4>6. \A p \in plugins : p.name # t BY <2>1, <3>1 DEF CallIsKnown, Known, Installed
        <4>7. FilesAreVerified' BY <1>0, <1>3, <3>1, <4>6, AtTarget DEF FilesAreVerified
        <4>8. ~Vouched(t)'
          <5>1. answered \subseteq Ids BY <1>6
          <5>2. HasRecord(t)' => dir'[t].status.id = t
            BY <4>2 DEF HasRecord, UnpackedIsPacked, Unfinished
          <5> QED BY <3>1, <4>6, <5>1, <5>2, PluginBounds DEF Vouched
        <4>9. DirectoriesMatch' BY <2>4, <3>1, <4>8
        <4> QED BY <4>5, <4>7, <4>9
      <3> QED BY <3>2, <3>3
    <2>8. CASE Truncate \/ WriteStatus \/ TruncateManifest
      <3>1. /\ dir'[t].files = dir[t].files /\ UNCHANGED <<plugins, answered>>
            /\ op.step \in Writing
            /\ dir'[t].manifest \in {dir[t].manifest, Truncated} /\ dir'[t] \in Directory
            /\ dir'[t].status \in {dir[t].status, Truncated}
               \/ (op.step = "writing" /\ dir'[t].status.id = op.plugin.id)
        BY <2>1, <2>2, <2>8, <1>3, AtTarget
        DEF Truncate, WriteStatus, TruncateManifest, In, Writing, Directory, history, StatusOf
      <3>2. op' # Absent => op'.step \in Writing
        BY <2>1, <2>8 DEF Truncate, WriteStatus, AfterStatus, TruncateManifest, Writing, StoreCall
      <3>3. CallMatches'
        BY <2>1, <2>3, <3>1, <3>2 DEF CallMatches, Covers, Writing, Known
      <3>4. \A n \in Names : dir'[n].files = dir[n].files BY <1>3, <3>1, AtTarget
      <3>5. FilesAreVerified' BY <1>0, <3>1, <3>4 DEF FilesAreVerified
      <3>6. Vouched(t)' => Vouched(t)
        BY <2>1, <3>1 DEF Vouched, HasRecord, CallIsKnown, Writing
      <3>7. DirectoriesMatch' BY <2>4, <2>5, <3>1, <3>6
      <3> QED BY <3>3, <3>5, <3>7
    <2>9. CASE WriteManifest
      <3>1. /\ dir'[t].files = dir[t].files /\ dir'[t].manifest = op.plugin.manifest
            /\ dir'[t].status = dir[t].status
            /\ dir'[t] \in Directory /\ op.step = "last" /\ op' = Absent
            /\ plugins' = plugins \cup {op.plugin} /\ answered' = answered \cup {op.plugin.id}
        BY <2>1, <2>2, <2>9, <1>3, AtTarget DEF WriteManifest, In, Directory
      <3>2. Covers(op.plugin.manifest, dir[t].files)
        BY <2>1, <3>1 DEF CallMatches, CallIsKnown, Writing
      <3>3. \A n \in Names : dir'[n].files = dir[n].files BY <1>3, <3>1, AtTarget
      <3>4. \A p \in plugins : p.id # op.plugin.id BY <2>1, <3>1 DEF CallIsKnown, Known
      <3>5. \A p \in plugins' : p.id \in answered' => Covers(p.manifest, dir'[p.name].files)
        BY <1>0, <2>1, <3>1, <3>2, <3>3, <3>4
      <3>6. ASSUME NEW n \in Names, n # t, Vouched(n)' PROVE dir'[n] = dir[n] /\ Vouched(n)
        <4>1. dir'[n] = dir[n] BY <1>3, <3>6, AtTarget
        <4>2. HasRecord(n) => dir[n].status.id # op.plugin.id BY <2>1, <3>6 DEF IdsAreOwn
        <4> QED BY <2>1, <3>1, <3>4, <3>6, <4>1, <4>2 DEF Vouched, HasRecord
      <3>7. DirectoriesMatch' BY <3>1, <3>2, <3>6 DEF DirectoriesMatch
      <3> QED BY <3>1, <3>5, <3>7 DEF FilesAreVerified, Covers, CallMatches
    <2>10. CASE WriteFails \/ Removed
      <3>1. UNCHANGED <<dir, plugins, answered>> /\ op' = Absent
        BY <2>10 DEF WriteFails, Removed, disk, history
      <3> QED BY <3>1
            DEF DirectoriesMatch, Vouched, HasRecord, FilesAreVerified, Covers, CallMatches
    <2>11. CASE RemoveFile
      <3>1. PICK d \in Shrunk(dir[t]) : dir' = [dir EXCEPT ![t] = d] BY <2>11 DEF RemoveFile
      <3>2. /\ d \in Directory /\ d.manifest \in {dir[t].manifest, Absent} /\ dir'[t] = d
            /\ d.status \in {dir[t].status, Absent}
            /\ \A f \in Parts : d.files[f] \in {0, dir[t].files[f]}
        BY <2>1, <2>2, <3>1, ShrunkShape
      <3>3. UNCHANGED <<op, plugins, answered>> /\ op.step = "remove"
        BY <2>11 DEF RemoveFile, In, history
      <3>4. Vouched(t)' => Vouched(t) BY <3>2, <3>3 DEF Vouched, HasRecord
      <3>5. DirectoriesMatch' BY <2>4, <2>5, <3>2, <3>3, <3>4, CoversFewer
      <3>6. \A p \in plugins : p.id \in answered => Covers(p.manifest, dir'[p.name].files)
        <4> TAKE p \in plugins
        <4>1. CASE p.name = t
          BY <1>0, <3>2, <4>1, CoversFewer
        <4>2. CASE p.name # t BY <1>0, <1>3, <4>2, AtTarget
        <4> QED BY <4>1, <4>2
      <3> QED BY <2>3, <3>3, <3>5, <3>6 DEF FilesAreVerified, Covers, CallMatches, Writing
    <2> QED BY <1>3, <2>6, <2>7, <2>8, <2>9, <2>10, <2>11 DEF StoreStep
  <1>4. ASSUME NEW p \in plugins, Manage(p) PROVE Matching'
    <2> DEFINE q == op'.plugin
    <2>1. /\ op' # Absent /\ Target' = p.name /\ UNCHANGED <<dir, unpacked, answered>>
          /\ op'.step \in {"status", "remove"} /\ plugins' \subseteq plugins \cup {q}
          /\ (op'.step = "status" => q \in plugins')
          /\ (op'.step = "remove" => plugins' \subseteq plugins)
          /\ q.manifest \in {p.manifest, ReadManifest(p.name)} /\ q.id = p.id /\ q.name = p.name
      BY <1>4, OperatorCall, PluginBounds DEF Target
    <2>2. \A n \in Names : Vouched(n)' => Vouched(n) BY <1>0, <2>1 DEF Vouched, HasRecord
    <2>3. p.id \in answered => Covers(q.manifest, dir[p.name].files)
      <3>1. p.id \in answered => Vouched(p.name) BY DEF Vouched
      <3> QED BY <1>0, <2>1, <3>1, NoFilesAreFiles
            DEF ReadManifest, ManifestIn, DirectoriesMatch, Covers
    <2>4. \A x \in plugins' : x.id \in answered' => Covers(x.manifest, dir'[x.name].files)
      BY <1>0, <2>1, <2>3
    <2>5. CallMatches' BY <2>1, <2>3 DEF CallMatches, Covers, Writing, Known
    <2>6. DirectoriesMatch' BY <2>1, <2>2 DEF DirectoriesMatch
    <2> QED BY <2>1, <2>4, <2>5, <2>6 DEF FilesAreVerified, Covers
  <1>5. CASE ProcessRestarts
    <2>1. op' = Absent /\ UNCHANGED <<dir, answered>> /\ plugins' = Load
      BY <1>5 DEF ProcessRestarts, disk, history
    <2>2. answered \subseteq Ids BY <1>6
    <2>3. ASSUME NEW p \in Load, p.id \in answered
          PROVE  /\ p.name \in Names /\ p.manifest = ReadManifest(p.name)
                 /\ HasRecord(p.name) /\ dir[p.name].status.id \in answered
      <3>1. p.name \in Names /\ p \in LoadOf(p.name) BY LoadShape
      <3>2. \/ HasRecord(p.name) /\ p = Loaded(p.name, dir[p.name]) /\ p.id = dir[p.name].status.id
            \/ HasStatus(unpacked[p.name]) /\ p.id = unpacked[p.name].status.id
        BY <3>1, LoadShape
      <3>3. ~(HasStatus(unpacked[p.name]) /\ p.id = unpacked[p.name].status.id)
        BY <2>2, <2>3, <3>1, PluginBounds DEF UnpackedIsPacked, Unfinished, HasStatus
      <3>4. Loaded(p.name, dir[p.name]).manifest = ReadManifest(p.name)
        BY DEF Loaded, ReadManifest
      <3> QED BY <2>3, <3>1, <3>2, <3>3, <3>4
    <2>4. \A n \in Names : Vouched(n)' => Vouched(n) BY <2>1, <2>3 DEF Vouched, HasRecord
    <2>5. \A n \in Names : Vouched(n) => Covers(ReadManifest(n), dir[n].files)
      BY NoFilesAreFiles DEF ReadManifest, ManifestIn, DirectoriesMatch, Covers
    <2>6. \A p \in Load : p.id \in answered => Covers(p.manifest, dir[p.name].files)
      BY <2>3, <2>5 DEF Vouched
    <2> QED BY <2>1, <2>4, <2>6 DEF FilesAreVerified, Covers, DirectoriesMatch, CallMatches
  <1> QED BY <1>1, <1>2, <1>3, <1>4, <1>5, OtherSteps

\* The status of an installed plugin is rewritten under its name only, and a new plugin is
\* listed when its directory is complete.
LEMMA DiskStep ==
  ASSUME PluginInv, [PluginNext]_pluginVars
  PROVE  OthersAreSaved' /\ CallIsOnItsWay'
  <1> USE DEF PluginInv
  <1> DEFINE Saved == OthersAreSaved /\ CallIsOnItsWay
  <1>0. \A p \in plugins : p \in Plugin /\ p.name \in Names BY DEF PluginTypeOK, Plugin
  <1>1. CASE UNCHANGED store
    BY <1>1 DEF store, disk, OthersAreSaved, CallIsOnItsWay, OfName, RecordOf, Loaded, ReadManifest,
      ManifestIn, HasRecord, Unfinished, Target, Installed
  <1>2. ASSUME NEW r \in Installers, Install(r) PROVE Saved'
    <2>1. /\ op = Absent /\ UNCHANGED <<plugins, dir, unpacked, dirty>>
          /\ op' # Absent => op'.step = "unpack" /\ ~Installed(Target') /\ Target' \in Names
      BY <1>2, InstallBegins DEF Target, Plugin
    <2>2. \A n \in Names \ dirty : OfName(n) = {} => ~HasRecord(n) BY <2>1 DEF OthersAreSaved
    <2>3. OthersAreSaved'
      BY <2>1 DEF OthersAreSaved, OfName, RecordOf, Loaded, ManifestIn, HasRecord, Unfinished
    <2>4. ASSUME op' # Absent, Target' \notin dirty PROVE ~HasRecord(Target')
      <3>1. OfName(Target') = {} BY <2>1, <2>4 DEF OfName, Installed
      <3> QED BY <2>1, <2>2, <2>4, <3>1 DEF HasRecord
    <2>5. CallIsOnItsWay' BY <2>1, <2>4 DEF CallIsOnItsWay, HasRecord
    <2> QED BY <2>3, <2>5
  <1>3. CASE StoreStep
    <2>0. PICK t \in Names : t = Target BY <1>3, AtTarget, CallShape
    <2> USE <2>0
    <2>1. /\ op # Absent /\ t \in Names /\ op \in StoreCall /\ dir[t] \in Directory
          /\ op.plugin \in Plugin /\ op.plugin.manifest \in Files /\ op.plugin.name = t
      BY <1>3, AtTarget, CallShape, DirShape DEF Target
    <2>2. dir \in [Names -> Directory] BY DEF PluginTypeOK
    <2>3. /\ op' # Absent => op'.plugin = op.plugin /\ Target' = t /\ UNCHANGED <<plugins, dirty>>
          /\ dirty \subseteq dirty'
      BY <1>3, AtTarget DEF Target
    <2>4. ASSUME NEW n \in Names, n # t
          PROVE  /\ OfName(n)' = OfName(n) /\ RecordOf(n)' = RecordOf(n)
                 /\ Unfinished(n)' = Unfinished(n) /\ HasRecord(n)' = HasRecord(n)
      <3>1. dir'[n] = dir[n] /\ unpacked'[n] = unpacked[n] BY <1>3, <2>4, AtTarget
      <3>2. plugins' = plugins \/ plugins' = plugins \cup {op.plugin} BY <1>3, AtTarget
      <3> QED BY <2>1, <2>4, <3>1, <3>2
            DEF OfName, RecordOf, Loaded, ManifestIn, HasRecord, Unfinished
    <2>5. ASSUME \/ op' # Absent \/ t \in dirty'
                 \/ /\ ~Unfinished(t)' => OfName(t)' = RecordOf(t)'
                    /\ OfName(t)' = {} => ~HasRecord(t)'
          PROVE  OthersAreSaved'
      BY <2>1, <2>3, <2>4, <2>5 DEF OthersAreSaved
    <2>6. CASE Unpack
      <3>1. op.step = "unpack" /\ UNCHANGED <<dir, plugins>> BY <2>6 DEF Unpack, In
      <3>2. op' # Absent /\ op'.step = "unpack"
        BY <2>1, <2>6, <3>1, PluginBounds DEF Unpack, StoreCall
      <3> QED BY <2>1, <2>3, <2>5, <3>1, <3>2 DEF CallIsOnItsWay, HasRecord
    <2>7. CASE Promote
      <3>1. op.step = "unpack" /\ UNCHANGED <<plugins, dirty>> BY <2>7 DEF Promote, In
      <3>2. ~Known(op.plugin.id) /\ ~Installed(t) BY <2>1, <3>1 DEF CallIsKnown, Known
      <3>3. CASE op' = Absent
        <4>1. UNCHANGED dir
          <5>1. [op EXCEPT !.step = "status", !.archive = NoFiles] \in StoreCall
            BY <2>1, NoFilesAreFiles DEF StoreCall
          <5> QED BY <2>7, <3>3, <5>1, PluginBounds DEF Promote
        <4>2. t \notin dirty => OfName(t)' = {} /\ RecordOf(t)' = {} /\ ~HasRecord(t)'
          BY <2>1, <3>1, <3>2, <4>1 DEF CallIsOnItsWay, OfName, RecordOf, HasRecord, Installed
        <4> QED BY <2>5, <3>1, <3>3, <4>2 DEF CallIsOnItsWay
      <3>4. CASE op' # Absent
        <4>1. op' = [op EXCEPT !.step = "status", !.archive = NoFiles]
          BY <2>7, <3>4 DEF Promote
        <4>2. op'.step = "status" /\ op.plugin \notin plugins
          BY <2>1, <3>2, <4>1 DEF StoreCall, Known
        <4> QED BY <2>3, <2>5, <3>1, <3>4, <4>2 DEF CallIsOnItsWay
      <3> QED BY <3>3, <3>4
    <2>8. CASE Truncate
      <3>1. op.step = "status" /\ UNCHANGED <<plugins, unpacked, dirty>> BY <2>8 DEF Truncate, In
      <3>2. op' # Absent /\ op'.step = "writing" BY <2>1, <2>8, PluginBounds DEF Truncate, StoreCall
      <3>3. dir'[t].manifest = dir[t].manifest /\ dir'[t].status = Truncated
        BY <2>1, <2>2, <2>8 DEF Truncate, Directory
      <3>4. ReadManifest(t)' = ReadManifest(t) BY <3>3 DEF ReadManifest, ManifestIn
      <3>5. OfName(t)' = OfName(t) /\ Unfinished(t)' = Unfinished(t) BY <3>1 DEF OfName, Unfinished
      <3> QED BY <2>1, <2>3, <2>5, <3>1, <3>2, <3>3, <3>4, <3>5 DEF CallIsOnItsWay
    <2>9. CASE WriteStatus
      <3>1. op.step = "writing" /\ UNCHANGED <<plugins, unpacked, dirty>>
        BY <2>9 DEF WriteStatus, In
      <3>2. dir'[t].manifest = dir[t].manifest /\ dir'[t].status = StatusOf(op.plugin)
        BY <2>1, <2>2, <2>9 DEF WriteStatus, Directory
      <3>3. CASE Known(op.plugin.id)
        <4>1. op' = Absent BY <2>9, <3>3 DEF WriteStatus, AfterStatus
        <4>2. op.plugin \in plugins BY <2>1, <3>1, <3>3 DEF CallIsKnown
        <4>3. ASSUME t \notin dirty, ~Unfinished(t)' PROVE OfName(t)' = RecordOf(t)'
          <5>1. OfName(t) = {op.plugin} /\ ReadManifest(t) = op.plugin.manifest
            BY <2>1, <3>1, <4>2, <4>3 DEF CallIsOnItsWay, Unfinished
          <5>2. OfName(t)' = {op.plugin} BY <3>1, <5>1 DEF OfName
          <5>3. ManifestIn(dir[t])' = op.plugin.manifest BY <3>2, <5>1 DEF ReadManifest, ManifestIn
          <5>4. HasRecord(t)'
            BY <2>1, <3>2, MarksAreNoFiles DEF HasRecord, StatusOf, StatusFile, Plugin
          <5>5. Loaded(t, dir[t])' = op.plugin BY <2>1, <3>2, <5>3 DEF Loaded, StatusOf, Plugin
          <5> QED BY <5>2, <5>4, <5>5 DEF RecordOf
        <4>4. OfName(t)' # {} BY <2>1, <3>1, <4>2 DEF OfName
        <4> QED BY <2>5, <3>1, <4>1, <4>3, <4>4 DEF CallIsOnItsWay
      <3>4. CASE ~Known(op.plugin.id)
        <4>1. op' = [op EXCEPT !.step = "manifest"] BY <2>9, <3>4 DEF WriteStatus, AfterStatus
        <4>2. op' # Absent /\ op'.step = "manifest" BY <2>1, <4>1, PluginBounds DEF StoreCall
        <4>3. ~Installed(t) BY <2>1, <3>1, <3>4 DEF CallIsKnown, Known
        <4> QED BY <2>3, <2>5, <3>1, <3>2, <4>2, <4>3 DEF CallIsOnItsWay, Installed
      <3> QED BY <3>3, <3>4
    <2>10. CASE TruncateManifest
      <3>1. op.step = "manifest" /\ UNCHANGED <<plugins, dirty>> BY <2>10 DEF TruncateManifest, In
      <3>2. op' # Absent /\ op'.step = "last"
        BY <2>1, <2>10, PluginBounds DEF TruncateManifest, StoreCall
      <3>3. dir'[t].status = dir[t].status BY <2>1, <2>2, <2>10 DEF TruncateManifest, Directory
      <3> QED BY <2>1, <2>3, <2>5, <3>1, <3>2, <3>3 DEF CallIsOnItsWay, Installed
    <2>11. CASE WriteManifest
      <3>1. /\ op.step = "last" /\ plugins' = plugins \cup {op.plugin} /\ UNCHANGED dirty
            /\ op' = Absent
        BY <2>11 DEF WriteManifest, In
      <3>2. dir'[t].status = dir[t].status /\ dir'[t].manifest = op.plugin.manifest
        BY <2>1, <2>2, <2>11 DEF WriteManifest, Directory
      <3>3. ASSUME t \notin dirty PROVE OfName(t)' = RecordOf(t)'
        <4>1. ~Installed(t) /\ dir'[t].status = StatusOf(op.plugin)
          BY <2>1, <3>1, <3>2, <3>3 DEF CallIsOnItsWay
        <4>2. OfName(t)' = {op.plugin} BY <2>1, <3>1, <4>1 DEF OfName, Installed
        <4>3. ManifestIn(dir[t])' = op.plugin.manifest
          BY <2>1, <3>2, MarksAreNoFiles DEF ManifestIn
        <4>4. HasRecord(t)'
          BY <2>1, <4>1, MarksAreNoFiles DEF HasRecord, StatusOf, StatusFile, Plugin
        <4>5. Loaded(t, dir[t])' = op.plugin BY <2>1, <4>1, <4>3 DEF Loaded, StatusOf, Plugin
        <4> QED BY <4>2, <4>4, <4>5 DEF RecordOf
      <3>4. OfName(t)' # {} BY <2>1, <3>1 DEF OfName
      <3> QED BY <2>5, <3>1, <3>3, <3>4 DEF CallIsOnItsWay
    <2>12. CASE WriteFails
      <3>1. t \in dirty' /\ op' = Absent BY <2>12 DEF WriteFails
      <3> QED BY <2>5, <3>1 DEF CallIsOnItsWay
    <2>13. CASE RemoveFile
      <3>1. op.step = "remove" /\ UNCHANGED <<op, plugins, unpacked, dirty>>
        BY <2>13 DEF RemoveFile, In
      <3> QED BY <2>1, <2>3, <2>5, <3>1 DEF CallIsOnItsWay, Installed, Unfinished
    <2>14. CASE Removed
      <3>1. op.step = "remove" /\ UNCHANGED <<plugins, dir, unpacked>> /\ op' = Absent
        BY <2>14 DEF Removed, In, disk
      <3>2. CASE t \in dirty' BY <2>5, <3>1, <3>2 DEF CallIsOnItsWay
      <3>3. CASE t \notin dirty'
        <4>1. Shrunk(dir[t]) = {} BY <2>14, <3>3 DEF Removed
        <4>2. dir[t].status = Absent BY <4>1 DEF Shrunk
        <4>3. ~Unfinished(t) => ~Installed(t) BY <2>1, <2>3, <3>1, <3>3 DEF CallIsOnItsWay
        <4>4. /\ ~Unfinished(t)' => OfName(t)' = {} /\ RecordOf(t)' = {}
              /\ ~HasRecord(t)'
          BY <3>1, <4>2, <4>3 DEF OfName, Installed, RecordOf, HasRecord, Unfinished
        <4> QED BY <2>5, <3>1, <4>4 DEF CallIsOnItsWay
      <3> QED BY <3>2, <3>3
    <2> QED BY <1>3, <2>6, <2>7, <2>8, <2>9, <2>10, <2>11, <2>12, <2>13, <2>14 DEF StoreStep
  <1>4. ASSUME NEW p \in plugins, Manage(p) PROVE Saved'
    <2> DEFINE q == op'.plugin
    <2>1. /\ op = Absent /\ op' # Absent /\ Target' = p.name /\ UNCHANGED <<dir, unpacked, dirty>>
          /\ q.name = p.name /\ q.manifest \in {p.manifest, ReadManifest(p.name)}
          /\ \/ op'.step = "status" /\ plugins' = (plugins \ {p}) \cup {q}
             \/ op'.step = "remove" /\ plugins' = plugins \ {p}
      BY <1>4, OperatorCall, PluginBounds DEF Target
    <2>2. \A n \in Names \ dirty : /\ ~Unfinished(n) => OfName(n) = RecordOf(n)
                                   /\ OfName(n) = {} => ~HasRecord(n)
      BY <2>1 DEF OthersAreSaved
    <2>3. \A n \in Names : /\ RecordOf(n)' = RecordOf(n) /\ ReadManifest(n)' = ReadManifest(n)
                           /\ HasRecord(n)' = HasRecord(n) /\ Unfinished(n)' = Unfinished(n)
      BY <2>1 DEF RecordOf, Loaded, ReadManifest, ManifestIn, HasRecord, Unfinished
    <2>4. \A n \in Names : n # p.name => OfName(n)' = OfName(n) BY <2>1 DEF OfName
    <2>5. OthersAreSaved' BY <2>1, <2>2, <2>3, <2>4 DEF OthersAreSaved
    <2>6. ASSUME p.name \notin dirty, ~Unfinished(p.name)
          PROVE  OfName(p.name) = {p} /\ p.manifest = ReadManifest(p.name)
      <3>1. p \in OfName(p.name) BY DEF OfName
      <3>2. OfName(p.name) = RecordOf(p.name)
        <4>1. p.name \in Names \ dirty BY <1>0, <1>4, <2>6
        <4>2. \A n \in Names \ dirty : ~Unfinished(n) => OfName(n) = RecordOf(n)
          BY <2>1 DEF OthersAreSaved
        <4> QED BY <2>6, <4>1, <4>2
      <3>3. RecordOf(p.name) = {Loaded(p.name, dir[p.name])} /\ p = Loaded(p.name, dir[p.name])
        BY <3>1, <3>2 DEF RecordOf
      <3>4. Loaded(p.name, dir[p.name]).manifest = ReadManifest(p.name) BY DEF Loaded, ReadManifest
      <3> QED BY <3>2, <3>3, <3>4
    <2>7. CASE op'.step = "status"
      <3>1. plugins' = (plugins \ {p}) \cup {q} BY <2>1, <2>7
      <3>2. p.name \notin dirty /\ ~Unfinished(p.name) => OfName(p.name)' = {q}
        BY <2>1, <2>6, <3>1 DEF OfName
      <3>3. p.name \notin dirty /\ ~Unfinished(p.name) => ReadManifest(p.name)' = q.manifest
        BY <1>0, <2>1, <2>3, <2>6
      <3> QED BY <1>0, <2>1, <2>3, <2>5, <2>7, <3>1, <3>2, <3>3 DEF CallIsOnItsWay
    <2>8. CASE op'.step = "remove"
      <3>1. p.name \notin dirty /\ ~Unfinished(p.name) => \A x \in plugins' : x.name # p.name
        BY <2>1, <2>6, <2>8 DEF OfName
      <3> QED BY <1>0, <2>1, <2>3, <2>5, <2>8, <3>1 DEF CallIsOnItsWay, Installed
    <2> QED BY <2>1, <2>7, <2>8
  <1>5. CASE ProcessRestarts
    <2>1. op' = Absent /\ UNCHANGED <<dir, unpacked>> /\ plugins' = Load
      BY <1>5 DEF ProcessRestarts, disk
    <2>2. \A n \in Names : OfName(n)' = LoadOf(n) BY <2>1, LoadShape DEF OfName
    <2>3. \A n \in Names : /\ RecordOf(n)' = RecordOf(n) /\ HasRecord(n)' = HasRecord(n)
                           /\ Unfinished(n)' = Unfinished(n)
      BY <2>1 DEF RecordOf, Loaded, ManifestIn, HasRecord, Unfinished
    <2>4. \A n \in Names : /\ ~Unfinished(n) => LoadOf(n) = RecordOf(n)
                           /\ HasRecord(n) => LoadOf(n) # {}
      BY LoadShape
    <2>5. ASSUME NEW n \in Names
          PROVE  /\ ~Unfinished(n)' => OfName(n)' = RecordOf(n)'
                 /\ OfName(n)' = {} => ~HasRecord(n)'
      <3>1. OfName(n)' = LoadOf(n) BY <2>2
      <3>2. RecordOf(n)' = RecordOf(n) BY <2>3
      <3> QED BY <2>1, <2>4, <3>1, <3>2 DEF HasRecord, Unfinished
    <2>6. OthersAreSaved'
      <3> SUFFICES ASSUME NEW n \in (Names \ dirty)'
                   PROVE  /\ ~Unfinished(n)' => OfName(n)' = RecordOf(n)'
                          /\ OfName(n)' = {} => ~HasRecord(n)'
        BY DEF OthersAreSaved
      <3>1. n \in Names OBVIOUS
      <3> QED BY <2>5, <3>1
    <2> QED BY <2>1, <2>6 DEF CallIsOnItsWay
  <1> QED BY <1>1, <1>2, <1>3, <1>4, <1>5, OtherSteps

LEMMA PluginInitInv == PluginInit => PluginInv
  <1> SUFFICES ASSUME PluginInit PROVE PluginInv OBVIOUS
  <1> USE PluginBounds DEF PluginInit
  <1>1. PluginTypeOK
    BY NoFilesAreFiles DEF PluginTypeOK, Versions, Directory, NoDirectory
  <1>2. DirectoriesMatch /\ FilesAreVerified /\ CallMatches
    BY DEF DirectoriesMatch, FilesAreVerified, CallMatches, NoDirectory
  <1>3. CallIsKnown /\ IdsAreOwn /\ UnpackedIsPacked /\ LeaveIsGiven
    BY DEF CallIsKnown, IdsAreOwn, UnpackedIsPacked, Unfinished, LeaveIsGiven, NoDirectory,
      HasRecord
  <1>4. OthersAreSaved /\ CallIsOnItsWay /\ RegistriesAreSaved
    BY DEF OthersAreSaved, CallIsOnItsWay, RegistriesAreSaved, OfName, RecordOf, HasRecord,
      NoDirectory
  <1> QED BY <1>1, <1>2, <1>3, <1>4 DEF PluginInv

LEMMA PluginInvariance == PluginSpec => []PluginInv
  <1>1. PluginInv /\ [PluginNext]_pluginVars => PluginInv'
    BY PluginTypeStep, IdsAreOwnStep, UnpackedStep, LeaveIsGivenStep, CallIsKnownStep,
      RegistriesStep, FilesStep, DiskStep DEF PluginInv
  <1> QED BY <1>1, PluginInitInv, PTL DEF PluginSpec

\* Every variable of the plugins keeps its type (Manager.Add, Install, Store.saveStatus).
THEOREM PluginTypesAreRespected == PluginSpec => []PluginTypeOK
  <1>1. PluginInv => PluginTypeOK BY DEF PluginInv
  <1> QED BY <1>1, PluginInvariance, PTL

\* The files of a plugin whose installation was answered are those that were verified; a
\* restart finds the plugins and the registries as they are, but for names where a file
\* operation failed or an archive with its own status.json was left half unpacked; of the
\* plugins this store gave their identifiers, none is active without leave, and a removed one
\* does not come back.  For any names, registries, versions and records in archives, and any
\* crashes and failing file operations in between (Install, Approve, Reload, Remove,
\* loadFromDisk).  Of a plugin that comes from an archive's own record nothing is said:
\* NoneActiveWithoutLeave does not hold.
THEOREM PluginsStayKept == PluginSpec => []PluginsAreKept
  <1>1. PluginInv => FilesAreVerified /\ ActiveWasAllowed
    BY DEF PluginInv, LeaveIsGiven, MayRun, ActiveWasAllowed
  <1>2. PluginInv => RestartFindsAll
    <2> SUFFICES ASSUME PluginInv PROVE RestartFindsAll OBVIOUS
    <2>1. \A n \in Names : ~Unfinished(n) => LoadOf(n) = RecordOf(n)
      BY LoadShape DEF PluginInv
    <2> QED BY <2>1
          DEF PluginInv, OthersAreSaved, OfName, Unfinished, RegistriesAreSaved, RestartFindsAll
  <1>3. PluginInv => RemovedStaysRemoved
    <2> SUFFICES ASSUME PluginInv, NEW p \in plugins \cup Load, p.id \in Ids
                 PROVE  p.id \notin gone
      BY DEF RemovedStaysRemoved
    <2> USE DEF PluginInv, IdsAreOwn, Given
    <2>1. CASE p \in plugins BY <2>1, PluginBounds DEF PluginTypeOK, Plugin
    <2>2. CASE p \in Load
      <3>1. p.name \in Names /\ p \in LoadOf(p.name) BY <2>2, LoadShape
      <3>2. \/ HasRecord(p.name) /\ p.id = dir[p.name].status.id
            \/ HasStatus(unpacked[p.name]) /\ p.id = unpacked[p.name].status.id
        BY <3>1, LoadShape
      <3>3. ~(HasStatus(unpacked[p.name]) /\ p.id = unpacked[p.name].status.id)
        BY <3>1, PluginBounds DEF UnpackedIsPacked, Unfinished, HasStatus
      <3> QED BY <3>1, <3>2, <3>3, PluginBounds
    <2> QED BY <2>1, <2>2
  <1> QED BY <1>1, <1>2, <1>3, PluginInvariance, PTL DEF PluginsAreKept

-----------------------------------------------------------------------------
(* The users *)

\* A request names a user; only one without a token may not, and it is refused (auth).
KnownCalls ==
  {k \in UserCall : k.op # "none" =>
     \/ k.user \in UserNames
     \/ k.op = "changePassword" /\ k.phase = "sent" /\ k.token = NoToken}

KnownTokens == {t \in Token : t = NoToken \/ t.sub \in UserNames}

PasswordIsLastSet == \A u \in UserNames : users[u].hash = lastSet[u]

\* The provider: what is in memory is in the file unless a write has failed.
ProviderInv ==
  /\ users \in [UserNames -> Account]
  /\ userFile \in [UserNames -> Account]
  /\ failures \in 0 .. MaxFailures
  /\ unsaved \in BOOLEAN
  /\ lastSet \in [UserNames -> Passwords \cup {Nobody}]
  /\ ~unsaved => userFile = users
  /\ PasswordIsLastSet

CommandInv ==
  /\ call \in [Operators -> KnownCalls]
  /\ ctl \in [Operators -> [cred : KnownTokens, fresh : KnownTokens]]

CountInv ==
  /\ requests \in 0 .. MaxRequests
  /\ serverStarts \in 0 .. MaxServerStarts
  /\ chosen \subseteq UserNames

UserInv == ProviderInv /\ CommandInv /\ CountInv

LEMMA UserBounds == MaxRequests \in Nat /\ MaxFailures \in Nat /\ MaxServerStarts \in Nat
  BY UserAssumption

LEMMA NoneKnown ==
  /\ NoCall \in KnownCalls /\ NoToken \in KnownTokens /\ NoUser \in Account
  /\ AdminAccount \in Account
  BY UserAssumption DEF NoCall, KnownCalls, UserCall, Ops, ForAdmin, ForAll, NoToken, KnownTokens,
    Token, NoUser, Account, AdminAccount

\* What the provider holds changes in memory and, unless the write fails, in the file.
LEMMA PersistStep ==
  ASSUME ProviderInv, NEW changed \in [UserNames -> Account], persist(changed)
  PROVE  /\ users' = changed
         /\ userFile' \in [UserNames -> Account]
         /\ failures' \in 0 .. MaxFailures
         /\ unsaved' \in BOOLEAN
         /\ ~unsaved' => userFile' = users'
  <1>1. CASE userFile' = changed /\ unsaved' = FALSE /\ UNCHANGED failures
    BY <1>1 DEF ProviderInv, persist
  <1>2. CASE /\ failures < MaxFailures /\ failures' = failures + 1
             /\ unsaved' = TRUE /\ UNCHANGED userFile
    <2>1. failures' \in 0 .. MaxFailures BY <1>2, UserBounds DEF ProviderInv
    <2> QED BY <1>2, <2>1 DEF ProviderInv, persist
  <1> QED BY <1>1, <1>2 DEF persist

LEMMA CreateStep ==
  ASSUME ProviderInv, NEW u \in UserNames, NEW role \in {"none", "user", "admin"},
         CreateUser(u, role)
  PROVE  ProviderInv'
  <1> DEFINE account == [role |-> role, enabled |-> TRUE, mustChange |-> TRUE, hash |-> Nobody]
  <1> DEFINE changed == [users EXCEPT ![u] = account]
  <1>1. account \in Account BY DEF Account
  <1>2. changed \in [UserNames -> Account] BY <1>1 DEF ProviderInv
  <1>3. persist(changed) BY DEF CreateUser
  <1>4. lastSet' = [lastSet EXCEPT ![u] = Nobody] BY DEF CreateUser
  <1>5. \A v \in UserNames : changed[v].hash = lastSet'[v]
    BY <1>4 DEF ProviderInv, PasswordIsLastSet
  <1>6. lastSet' \in [UserNames -> Passwords \cup {Nobody}] BY <1>4 DEF ProviderInv
  <1> HIDE DEF changed
  <1> QED BY <1>2, <1>3, <1>5, <1>6, PersistStep DEF ProviderInv, PasswordIsLastSet

LEMMA UpdateStep ==
  ASSUME ProviderInv, NEW u \in UserNames, NEW account \in Account, UpdateUser(u, account)
  PROVE  ProviderInv'
  <1> DEFINE changed == [users EXCEPT ![u] = [account EXCEPT !.hash = users[u].hash]]
  <1>1. users[u] \in Account /\ users[u].hash \in Passwords \cup {Nobody}
    BY DEF ProviderInv, Account
  <1>2. [account EXCEPT !.hash = users[u].hash] \in Account BY <1>1 DEF Account
  <1>3. [account EXCEPT !.hash = users[u].hash].hash = users[u].hash BY DEF Account
  <1>4. changed \in [UserNames -> Account] BY <1>2 DEF ProviderInv
  <1>5. persist(changed) /\ UNCHANGED lastSet BY DEF UpdateUser
  <1>6. \A v \in UserNames : changed[v].hash = lastSet'[v]
    BY <1>3, <1>5 DEF ProviderInv, PasswordIsLastSet
  <1> HIDE DEF changed
  <1> QED BY <1>4, <1>5, <1>6, PersistStep DEF ProviderInv, PasswordIsLastSet

LEMMA DeleteStep ==
  ASSUME ProviderInv, NEW u \in UserNames, DeleteUser(u)
  PROVE  ProviderInv'
  <1> DEFINE changed == [users EXCEPT ![u] = NoUser]
  <1>1. changed \in [UserNames -> Account] BY NoneKnown DEF ProviderInv
  <1>2. persist(changed) BY DEF DeleteUser
  <1>3. lastSet' = [lastSet EXCEPT ![u] = Nobody] BY DEF DeleteUser
  <1>4. \A v \in UserNames : changed[v].hash = lastSet'[v]
    BY <1>3 DEF ProviderInv, PasswordIsLastSet, NoUser
  <1>5. lastSet' \in [UserNames -> Passwords \cup {Nobody}] BY <1>3 DEF ProviderInv
  <1> HIDE DEF changed
  <1> QED BY <1>1, <1>2, <1>4, <1>5, PersistStep DEF ProviderInv, PasswordIsLastSet

LEMMA SetPasswordStep ==
  ASSUME ProviderInv, NEW u \in UserNames, NEW password \in Passwords \cup {Nobody},
         SetPassword(u, password)
  PROVE  ProviderInv'
  <1> DEFINE account == [users[u] EXCEPT !.hash = password, !.mustChange = FALSE]
  <1> DEFINE changed == [users EXCEPT ![u].hash = password, ![u].mustChange = FALSE]
  <1>1. users[u] \in Account BY DEF ProviderInv
  <1>2. account \in Account /\ account.hash = password BY <1>1 DEF Account
  <1>3. changed = [users EXCEPT ![u] = account] BY DEF ProviderInv
  <1>4. changed \in [UserNames -> Account] BY <1>2, <1>3 DEF ProviderInv
  <1>5. persist(changed) BY DEF SetPassword
  <1>6. lastSet' = [lastSet EXCEPT ![u] = password] BY DEF SetPassword
  <1>7. \A v \in UserNames : changed[v].hash = lastSet'[v]
    BY <1>2, <1>3, <1>6 DEF ProviderInv, PasswordIsLastSet
  <1>8. lastSet' \in [UserNames -> Passwords \cup {Nobody}] BY <1>6 DEF ProviderInv
  <1> HIDE DEF changed
  <1> QED BY <1>4, <1>5, <1>7, <1>8, PersistStep DEF ProviderInv, PasswordIsLastSet

LEMMA UnchangedStep == ProviderInv /\ Unchanged => ProviderInv'
  BY DEF ProviderInv, Unchanged, PasswordIsLastSet

LEMMA AnsweredStep ==
  ASSUME CommandInv, NEW c \in Operators, Answered(c)
  PROVE  CommandInv'
  BY NoneKnown DEF CommandInv, Answered

\* A request that is let through, and one whose handler has read the user, names a user.
LEMMA CallerIsKnown ==
  ASSUME CommandInv, NEW c \in Operators, call[c].op # "none"
  PROVE  /\ call[c] \in UserCall
         /\ call[c].phase = "read" \/ call[c].token # NoToken \/ call[c].op # "changePassword"
              => call[c].user \in UserNames
  <1>1. call[c] \in KnownCalls BY DEF CommandInv
  <1> QED BY <1>1 DEF KnownCalls

LEMMA WorkingKeepsCounts ==
  ASSUME CountInv, NEW c \in Operators, NEW command, NEW when, WorkingOn(c, command, when),
         chosen' \subseteq UserNames
  PROVE  CountInv'
  BY DEF CountInv, WorkingOn

\* A command that is sent names a user, or has no token.
LEMMA RequestStep ==
  ASSUME UserInv, NEW c \in Operators, NEW request \in KnownCalls, Run(c, request)
  PROVE  UserInv'
  <1>1. ProviderInv' BY UnchangedStep DEF UserInv, Run
  <1>2. CommandInv' BY DEF UserInv, CommandInv, Run
  <1>3. CountInv' BY UserBounds DEF UserInv, CountInv, Run, Unchanged
  <1> QED BY <1>1, <1>2, <1>3 DEF UserInv

LEMMA SentIsKnown ==
  ASSUME NEW command \in Ops, NEW u \in UserNames \cup {Nobody},
         NEW old \in Passwords \cup {Nobody}, NEW new \in Passwords \cup {Nobody},
         NEW role \in {"none", "user", "admin"}, NEW token \in KnownTokens,
         u \in UserNames \/ (command = "changePassword" /\ token = NoToken)
  PROVE  Sent(command, u, old, new, role, token) \in KnownCalls
  <1> DEFINE k == [op |-> command, user |-> u, old |-> old, new |-> new, role |-> role,
                   token |-> token, phase |-> "sent", copy |-> NoUser]
  <1>1. Sent(command, u, old, new, role, token) = k BY DEF Sent
  <1>2. k \in UserCall BY NoneKnown DEF UserCall, KnownTokens
  <1> QED BY <1>1, <1>2 DEF KnownCalls

LEMMA CommandStep ==
  ASSUME UserInv, NEW c \in Operators, UserCommand(c) \/ ProfileCommand(c) \/ LoginCommand(c)
  PROVE  UserInv'
  <1>1. ctl[c].cred \in KnownTokens BY DEF UserInv, CommandInv
  <1>2. PICK request \in KnownCalls : Run(c, request)
    <2>1. CASE UserCommand(c)
      BY <1>1, <2>1, SentIsKnown DEF UserCommand, Ops, ForAdmin
    <2>2. CASE ProfileCommand(c)
      <3>1. ctl[c].cred.sub \in UserNames
        BY <1>1, <2>2 DEF ProfileCommand, KnownTokens, NoToken
      <3> QED BY <1>1, <2>2, <3>1, SentIsKnown DEF ProfileCommand, Ops, ForAll
    <2>3. CASE LoginCommand(c)
      BY <2>3, SentIsKnown, NoneKnown DEF LoginCommand, Ops
    <2> QED BY <2>1, <2>2, <2>3
  <1> QED BY <1>2, RequestStep

\* What the server does with a request that it works on, handler by handler.
LEMMA LoginStep ==
  ASSUME UserInv, NEW c \in Operators, handleLogin(c)
  PROVE  UserInv'
  <1> DEFINE u == call[c].user
  <1> DEFINE token == [sub |-> u, role |-> users[u].role]
  <1>1. call[c].op = "login" /\ call[c].phase = "sent" BY DEF handleLogin, WorkingOn
  <1>2. call[c] \in UserCall /\ u \in UserNames BY <1>1, CallerIsKnown DEF UserInv
  <1>3. token \in KnownTokens
    <2>1. users[u] \in Account BY <1>2 DEF UserInv, ProviderInv
    <2> QED BY <1>2, <2>1 DEF KnownTokens, Token, Account
  <1>4. ctl[c].cred \in KnownTokens BY DEF UserInv, CommandInv
  <1>5. ProviderInv' BY UnchangedStep DEF UserInv, handleLogin
  <1>6. CountInv' BY WorkingKeepsCounts DEF UserInv, CountInv, handleLogin, Unchanged
  <1>7. CommandInv'
    <2>1. CASE users[u].mustChange
      <3>1. PICK q \in Passwords :
              call' = [call EXCEPT ![c] = Sent("changePassword", ctl[c].cred.sub, call[c].old, q,
                                               "none", ctl[c].cred)]
        BY <2>1 DEF handleLogin
      <3>2. Sent("changePassword", ctl[c].cred.sub, call[c].old, q, "none", ctl[c].cred)
              \in KnownCalls
        <4>1. /\ ctl[c].cred.sub \in UserNames \cup {Nobody}
              /\ ctl[c].cred.sub \in UserNames \/ ctl[c].cred = NoToken
          BY <1>4 DEF KnownTokens, Token
        <4>2. call[c].old \in Passwords \cup {Nobody} BY <1>2 DEF UserCall
        <4> QED BY <1>4, <4>1, <4>2, SentIsKnown DEF Ops, ForAll
      <3>3. ctl' = [ctl EXCEPT ![c].fresh = token] BY <2>1 DEF handleLogin
      <3> QED BY <1>3, <3>1, <3>2, <3>3 DEF UserInv, CommandInv
    <2>2. CASE ~users[u].mustChange
      <3>1. call' = [call EXCEPT ![c] = NoCall] /\ ctl' = [ctl EXCEPT ![c].cred = token]
        BY <2>2 DEF handleLogin
      <3> QED BY <1>3, <3>1, NoneKnown DEF UserInv, CommandInv
    <2> QED BY <2>1, <2>2
  <1> QED BY <1>5, <1>6, <1>7 DEF UserInv

LEMMA AnswerStep ==
  ASSUME UserInv, NEW c \in Operators, Answered(c), ProviderInv', CountInv'
  PROVE  UserInv'
  BY AnsweredStep DEF UserInv

LEMMA AdminStep ==
  ASSUME UserInv, NEW c \in Operators,
         \/ handleUserCreate(c) \/ handleUserRemove(c) \/ handleUserSetPassword(c) \/ Refused(c)
  PROVE  UserInv'
  <1> DEFINE u == call[c].user
  <1> USE DEF Serving, WorkingOn
  <1>0. Answered(c) /\ UNCHANGED <<requests, serverStarts>>
    BY DEF handleUserCreate, handleUserRemove, handleUserSetPassword, Refused
  <1>1. CASE handleUserCreate(c)
    <2>1. call[c].op = "create" BY <1>1 DEF handleUserCreate
    <2>2. u \in UserNames /\ call[c].role \in {"none", "user", "admin"}
      BY <2>1, CallerIsKnown DEF UserInv, UserCall
    <2>3. ProviderInv' BY <1>1, <2>2, CreateStep DEF UserInv, handleUserCreate
    <2>4. CountInv' BY <1>0, <1>1 DEF UserInv, CountInv, handleUserCreate, CreateUser
    <2> QED BY <1>0, <2>3, <2>4, AnswerStep
  <1>2. CASE handleUserRemove(c)
    <2>1. call[c].op = "remove" BY <1>2 DEF handleUserRemove
    <2>2. u \in UserNames BY <2>1, CallerIsKnown DEF UserInv
    <2>3. ProviderInv' BY <1>2, <2>2, DeleteStep DEF UserInv, handleUserRemove
    <2>4. CountInv' BY <1>0, <1>2 DEF UserInv, CountInv, handleUserRemove, DeleteUser
    <2> QED BY <1>0, <2>3, <2>4, AnswerStep
  <1>3. CASE handleUserSetPassword(c)
    <2>1. call[c].op = "setPassword" BY <1>3 DEF handleUserSetPassword
    <2>2. u \in UserNames /\ call[c].new \in Passwords \cup {Nobody}
      BY <2>1, CallerIsKnown DEF UserInv, UserCall
    <2>3. ProviderInv' BY <1>3, <2>2, SetPasswordStep DEF UserInv, handleUserSetPassword
    <2>4. CountInv' BY <1>0, <1>3 DEF UserInv, CountInv, handleUserSetPassword
    <2> QED BY <1>0, <2>3, <2>4, AnswerStep
  <1>4. CASE Refused(c)
    <2>1. Unchanged BY <1>4 DEF Refused
    <2>2. ProviderInv' BY <2>1, UnchangedStep DEF UserInv
    <2>3. CountInv' BY <1>0, <2>1 DEF UserInv, CountInv, Unchanged
    <2> QED BY <1>0, <2>2, <2>3, AnswerStep
  <1> QED BY <1>1, <1>2, <1>3, <1>4

\* The handlers that read a user by one call and write all of it back by another.
LEMMA ReadStep ==
  ASSUME UserInv, NEW c \in Operators, NEW command \in ForAdmin \cup {"setName"},
         ReadUser(c, command)
  PROVE  UserInv'
  <1> DEFINE u == call[c].user
  <1>1. call[c].op = command /\ command \in Ops /\ command \notin {"none", "changePassword"}
    BY DEF ReadUser, Serving, WorkingOn, Ops, ForAdmin, ForAll
  <1>2. u \in UserNames /\ call[c] \in UserCall BY <1>1, CallerIsKnown DEF UserInv
  <1>3. users[u] \in Account BY <1>2 DEF UserInv, ProviderInv
  <1>4. [call[c] EXCEPT !.phase = "read", !.copy = users[u]] \in KnownCalls
    BY <1>1, <1>2, <1>3 DEF KnownCalls, UserCall
  <1>5. call' = [call EXCEPT ![c] = [call[c] EXCEPT !.phase = "read", !.copy = users[u]]]
    BY DEF ReadUser, UserInv, CommandInv
  <1>6. CommandInv' BY <1>4, <1>5 DEF UserInv, CommandInv, ReadUser
  <1>7. ProviderInv' BY UnchangedStep DEF UserInv, ReadUser
  <1>8. CountInv' BY DEF UserInv, CountInv, ReadUser, Serving, WorkingOn, Unchanged
  <1> QED BY <1>6, <1>7, <1>8 DEF UserInv

LEMMA WriteStep ==
  ASSUME UserInv, NEW c \in Operators, NEW command \in Ops, NEW account \in Account,
         WriteUser(c, command, account)
  PROVE  UserInv'
  <1> DEFINE u == call[c].user
  <1>1. call[c].op = command /\ call[c].phase = "read" BY DEF WriteUser, WorkingOn
  <1>2. u \in UserNames BY <1>1, CallerIsKnown DEF UserInv, Ops, ForAdmin, ForAll
  <1>3. Unchanged \/ UpdateUser(u, account) BY DEF WriteUser
  <1>4. ProviderInv' BY <1>2, <1>3, UnchangedStep, UpdateStep DEF UserInv
  <1>5. UNCHANGED <<requests, serverStarts, chosen>> /\ Answered(c)
    BY <1>3 DEF WriteUser, WorkingOn, Unchanged, UpdateUser
  <1>6. CountInv' BY <1>5 DEF UserInv, CountInv
  <1> QED BY <1>4, <1>5, <1>6, AnswerStep

LEMMA ChangeStep ==
  ASSUME UserInv, NEW c \in Operators,
         handleUserDisable(c) \/ handleUserSetRole(c) \/ handleProfileSetName(c)
  PROVE  UserInv'
  <1> DEFINE k == call[c]
  <1>1. k \in UserCall BY DEF UserInv, CommandInv, KnownCalls
  <1>2. /\ k.copy \in Account
        /\ [k.copy EXCEPT !.enabled = FALSE] \in Account
        /\ [k.copy EXCEPT !.role = k.role] \in Account
    BY <1>1 DEF UserCall, Account
  <1> HIDE DEF k
  <1>3. CASE handleUserDisable(c)
    BY <1>2, <1>3, ReadStep, WriteStep DEF handleUserDisable, k, Ops, ForAdmin
  <1>4. CASE handleUserSetRole(c)
    BY <1>2, <1>4, ReadStep, WriteStep DEF handleUserSetRole, k, Ops, ForAdmin
  <1>5. CASE handleProfileSetName(c)
    BY <1>2, <1>5, ReadStep, WriteStep DEF handleProfileSetName, k, Ops, ForAll
  <1> QED BY <1>3, <1>4, <1>5

LEMMA ProfileStep ==
  ASSUME UserInv, NEW c \in Operators, handleProfileSetPassword(c)
  PROVE  UserInv'
  <1> DEFINE u == call[c].user
  <1>1. call[c].op = "changePassword" /\ call[c] \in UserCall
    BY CallerIsKnown DEF handleProfileSetPassword, VerifyOld, SetNew, Serving, WorkingOn, UserInv
  <1>2. u \in UserNames
    BY <1>1, CallerIsKnown
    DEF handleProfileSetPassword, VerifyOld, SetNew, Serving, Allowed, WorkingOn, UserInv
  <1>3. UNCHANGED <<requests, serverStarts>>
    BY DEF handleProfileSetPassword, VerifyOld, SetNew, Serving, WorkingOn
  <1>4. CASE VerifyOld(c)
    <2>1. [call[c] EXCEPT !.phase = "read"] \in KnownCalls BY <1>1, <1>2 DEF KnownCalls, UserCall
    <2>2. call' = [call EXCEPT ![c] = [call[c] EXCEPT !.phase = "read"]] /\ UNCHANGED ctl
      BY <1>4 DEF VerifyOld, UserInv, CommandInv
    <2>3. CommandInv' BY <2>1, <2>2 DEF UserInv, CommandInv
    <2>4. Unchanged BY <1>4 DEF VerifyOld
    <2>5. ProviderInv' BY <2>4, UnchangedStep DEF UserInv
    <2>6. CountInv' BY <1>3, <2>4 DEF UserInv, CountInv, Unchanged
    <2> QED BY <2>3, <2>5, <2>6 DEF UserInv
  <1>5. CASE SetNew(c)
    <2>1. Unchanged \/ (SetPassword(u, call[c].new) /\ chosen' = chosen \cup {u})
      BY <1>5 DEF SetNew
    <2>2. call[c].new \in Passwords \cup {Nobody} BY <1>1 DEF UserCall
    <2>3. ProviderInv' BY <1>2, <2>1, <2>2, UnchangedStep, SetPasswordStep DEF UserInv
    <2>4. CountInv' BY <1>2, <1>3, <2>1 DEF UserInv, CountInv, Unchanged
    <2> DEFINE cred == IF ctl[c].fresh = NoToken \/ users[u] = NoUser THEN ctl[c].cred
                       ELSE ctl[c].fresh
    <2>5. ctl[c] \in [cred : KnownTokens, fresh : KnownTokens] BY DEF UserInv, CommandInv
    <2>6. cred \in KnownTokens BY <2>5
    <2>7. ctl' = [ctl EXCEPT ![c] = [ctl[c] EXCEPT !.fresh = NoToken, !.cred = cred]]
      BY <1>5 DEF SetNew, UserInv, CommandInv
    <2>8. call' = [call EXCEPT ![c] = NoCall] BY <1>5 DEF SetNew
    <2> HIDE DEF cred
    <2>9. [ctl[c] EXCEPT !.fresh = NoToken, !.cred = cred]
            \in [cred : KnownTokens, fresh : KnownTokens]
      BY <2>5, <2>6, NoneKnown
    <2>10. CommandInv' BY <2>7, <2>8, <2>9, NoneKnown DEF UserInv, CommandInv
    <2> QED BY <2>3, <2>4, <2>10 DEF UserInv
  <1> QED BY <1>4, <1>5 DEF handleProfileSetPassword

\* The process finds in the file what was in memory, unless a write has failed.
LEMMA ServerRestartStep ==
  ASSUME UserInv, ServerRestarts
  PROVE  UserInv' /\ (~unsaved => AllKept)
  <1> DEFINE found == IF userFile[Admin] = NoUser THEN [userFile EXCEPT ![Admin] = AdminAccount]
                      ELSE userFile
  <1>1. found \in [UserNames -> Account] /\ Admin \in UserNames
    BY NoneKnown, UserAssumption DEF UserInv, ProviderInv
  <1>2. users' = found /\ userFile' = found /\ unsaved' = FALSE /\ UNCHANGED <<failures, chosen>>
    BY DEF ServerRestarts
  <1>3. lastSet' = IF unsaved THEN [u \in UserNames |-> found[u].hash]
                   ELSE [lastSet EXCEPT ![Admin] =
                           IF userFile[Admin] = NoUser THEN AdminPassword ELSE @]
    BY DEF ServerRestarts
  <1>4. \A u \in UserNames : found[u].hash \in Passwords \cup {Nobody} BY <1>1 DEF Account
  <1>5. ~unsaved => /\ userFile = users
                    /\ \A u \in UserNames :
                          found[u] =
                            IF u = Admin /\ users[u] = NoUser THEN AdminAccount ELSE users[u]
    BY <1>1 DEF UserInv, ProviderInv
  <1>6. lastSet' \in [UserNames -> Passwords \cup {Nobody}]
    BY <1>1, <1>3, <1>4, UserAssumption DEF UserInv, ProviderInv
  <1>7. \A u \in UserNames : found[u].hash = lastSet'[u]
    <2>1. CASE unsaved BY <1>3, <2>1
    <2>2. CASE ~unsaved
      BY <1>1, <1>3, <1>5, <2>2 DEF UserInv, ProviderInv, PasswordIsLastSet, AdminAccount
    <2> QED BY <2>1, <2>2
  <1>8. ~unsaved => AllKept BY <1>1, <1>2, <1>5 DEF AllKept
  <1>9. CommandInv'
    <2>1. /\ call' = [c \in Operators |-> NoCall]
          /\ ctl' = [c \in Operators |-> [ctl[c] EXCEPT !.fresh = NoToken]]
      BY DEF ServerRestarts
    <2>2. \A c \in Operators : ctl[c] \in [cred : KnownTokens, fresh : KnownTokens]
      BY DEF UserInv, CommandInv
    <2> QED BY <2>1, <2>2, NoneKnown DEF CommandInv
  <1>10. CountInv' BY <1>2, UserBounds DEF ServerRestarts, UserInv, CountInv
  <1> HIDE DEF found
  <1>11. ProviderInv'
    BY <1>1, <1>2, <1>6, <1>7 DEF UserInv, ProviderInv, PasswordIsLastSet
  <1> QED BY <1>8, <1>9, <1>10, <1>11 DEF UserInv

LEMMA UserInitInv == UserInit => UserInv
  <1> SUFFICES ASSUME UserInit PROVE UserInv OBVIOUS
  <1>1. users \in [UserNames -> Account] BY NoneKnown DEF UserInit
  <1>2. lastSet \in [UserNames -> Passwords \cup {Nobody}] BY <1>1 DEF UserInit, Account
  <1>3. ProviderInv
    <2>1. failures \in 0 .. MaxFailures BY UserBounds DEF UserInit
    <2>2. userFile = users /\ unsaved = FALSE BY DEF UserInit
    <2>3. PasswordIsLastSet BY DEF UserInit, PasswordIsLastSet
    <2> QED BY <1>1, <1>2, <2>1, <2>2, <2>3 DEF ProviderInv
  <1>4. PICK signedIn \in Operators :
          ctl = [c \in Operators |->
                   [cred |-> IF c = signedIn THEN [sub |-> Admin, role |-> "admin"] ELSE NoToken,
                    fresh |-> NoToken]]
    BY DEF UserInit
  <1>5. [sub |-> Admin, role |-> "admin"] \in KnownTokens
    BY UserAssumption DEF KnownTokens, Token
  <1>6. CommandInv BY <1>4, <1>5, NoneKnown DEF UserInit, CommandInv
  <1>7. CountInv BY UserAssumption, UserBounds DEF UserInit, CountInv
  <1> QED BY <1>3, <1>6, <1>7 DEF UserInv

LEMMA UserNextInv == UserInv /\ [UserNext]_userVars => UserInv'
  <1> SUFFICES ASSUME UserInv, [UserNext]_userVars PROVE UserInv' OBVIOUS
  <1>1. ASSUME NEW c \in Operators,
               \/ UserCommand(c) \/ ProfileCommand(c) \/ LoginCommand(c)
               \/ handleLogin(c) \/ handleUserCreate(c) \/ handleUserRemove(c)
               \/ handleUserSetPassword(c) \/ handleUserDisable(c) \/ handleUserSetRole(c)
               \/ handleProfileSetName(c) \/ handleProfileSetPassword(c) \/ Refused(c)
        PROVE  UserInv'
    BY <1>1, CommandStep, LoginStep, AdminStep, ChangeStep, ProfileStep
  <1>2. CASE ServerRestarts BY <1>2, ServerRestartStep
  <1>3. CASE UNCHANGED userVars
    BY <1>3 DEF userVars, UserInv, ProviderInv, CommandInv, CountInv, PasswordIsLastSet
  <1> QED BY <1>1, <1>2, <1>3 DEF UserNext

LEMMA UserInvariance == UserSpec => []UserInv
  BY UserInitInv, UserNextInv, PTL DEF UserSpec

\* Only a restart of the server counts as one.
LEMMA OnlyRestartsCount ==
  ASSUME UserInv, UserNext, serverStarts' # serverStarts
  PROVE  ServerRestarts
  <1>1. ASSUME NEW c \in Operators, 
               ReadUser(c, "disable") \/ ReadUser(c, "setRole") \/ ReadUser(c, "setName")
        PROVE  FALSE
    BY <1>1 DEF ReadUser, Serving, WorkingOn
  <1> QED
    BY <1>1
    DEF UserNext, UserCommand, ProfileCommand, LoginCommand, Run, handleLogin,
      handleUserCreate, handleUserRemove, handleUserSetPassword, handleUserDisable,
      handleUserSetRole, handleProfileSetName, handleProfileSetPassword, VerifyOld, SetNew,
      Refused, WriteUser, Serving, WorkingOn

\* Every variable of the users keeps its type (Provider, handlers of server.go).
THEOREM UserTypesAreRespected == UserSpec => []UserTypeOK
  <1>1. UserInv => UserTypeOK
    BY DEF UserInv, ProviderInv, CommandInv, CountInv, UserTypeOK, KnownCalls, KnownTokens
  <1> QED BY <1>1, UserInvariance, PTL

\* A user's password is the one set last, and a restart brings back every user as the last
\* answered request left it: for any users, passwords and operators, and any number of
\* requests, failing writes and restarts (UpdateUser, persist, loadFromDisk).
THEOREM UsersStayKept == UserSpec => UsersAreKept
  <1>1. UserInv => \A u \in UserNames : users[u].hash = lastSet[u]
    BY DEF UserInv, ProviderInv, PasswordIsLastSet
  <1>2. UserInv /\ [UserNext]_userVars
          => [serverStarts' # serverStarts /\ ~unsaved => AllKept]_userVars
    BY OnlyRestartsCount, ServerRestartStep
  <1> QED BY <1>1, <1>2, UserInvariance, PTL DEF UserSpec, UsersAreKept

-----------------------------------------------------------------------------
(* The start of the process *)

TheKey == "buzz_private_key"
KeyOf(b) == [name |-> TheKey, bot |-> b]
Speaking == setup.team[pos].buzz

\* A key that a bot may have: its own or that of the environment, and no older than the start;
\* from the file only if the keystore has lacked it or has failed.
GoodKey(v, b) ==
  /\ v.bot = b \/ v.from = "env"
  /\ v.from = "keystore" => v.number >= atStart[KeyOf(b)]
  /\ v.from = "file" => KeyOf(b) \in absent \/ startFaults > 0

\* The numbers of the keystore grow, and what it lacks has been noted.
KeystoreInv ==
  \A r \in Refs :
     /\ keystore[r] <= edits + 1 /\ atStart[r] <= edits + 1
     /\ keystore[r] > 0 => keystore[r] >= atStart[r]
     /\ keystore[r] = 0 => r \in absent

\* The environment has no key but the one that the process was given.
EnvInv == env[TheKey] \in {NoValue, Held("env", NoBot, 0)}

\* What is resolved in each phase; a monitor's key is the first of its three secrets.
WantedInv ==
  /\ phase \notin {"globals", "slack", "monitor"} => wanted = <<>>
  /\ phase = "globals" => \A i \in DOMAIN wanted : wanted[i].name # TheKey
  /\ phase = "slack" => \A i \in DOMAIN wanted : wanted[i].name # TheKey
  /\ phase = "monitor" =>
       /\ pos <= Len(setup.team)
       /\ Speaking \in Bots \ used
       /\ Len(wanted) <= 3
       /\ \A i \in DOMAIN wanted :
             wanted[i].bot = Speaking /\ (wanted[i].name = TheKey <=> i = 1 /\ Len(wanted) = 3)
       /\ Len(wanted) < 3 => GoodKey(got[TheKey], Speaking)

\* A provider is asked for a secret; the file is asked last, when the keystore did not have it.
Lacking == Head(wanted) \in absent \/ startFaults > 0
AnswerInv ==
  /\ at <= Len(Chain)
  /\ answer # NotYet => wanted # <<>>
  /\ at = 4 /\ wanted # <<>> => Lacking
  /\ at = 3 /\ answer # NotYet /\ ~IsHit(answer) => Lacking
  /\ IsHit(answer) /\ Head(wanted).name = TheKey => GoodKey(answer, Head(wanted).bot)

\* Monitors that speak have bots of their own, and good keys.
MonitorsInv ==
  /\ \A m \in Buzz : m.bot \in used /\ GoodKey(m.key, m.bot)
  /\ \A m, n \in Buzz : m.bot = n.bot => m = n

QueueInv ==
  /\ phase \in {"off", "globals", "slack"} => queues = {}
  /\ PanicsOnlyWithoutBots

StartTypes == StartTypeOK /\ atStart \in [Refs -> Nat] /\ absent \subseteq Refs

StartInv ==
  StartTypes /\ KeystoreInv /\ EnvInv /\ WantedInv /\ AnswerInv /\ MonitorsInv /\ QueueInv
LEMMA StartBounds == MaxEdits \in Nat /\ MaxStartFaults \in Nat /\ MaxBoots \in Nat
  BY SetupAssumption

LEMMA SetupShape ==
  ASSUME StartTypes
  PROVE  /\ setup.team \in Seq(Persona) /\ Len(setup.team) \in Nat
         /\ DOMAIN setup.team = 1 .. Len(setup.team)
         /\ \A i \in 1 .. Len(setup.team) : setup.team[i] \in Persona
         /\ setup.slack \in Bots \cup {NoBot}
  <1>1. IsSetup(setup) BY SetupAssumption DEF StartTypes, StartTypeOK
  <1> QED BY <1>1 DEF IsSetup

LEMMA ChainShape ==
  /\ Len(Chain) \in 3 .. 4
  /\ Chain[1] = "env" /\ Chain[2] = "systemd" /\ Chain[3] = "keystore"
  /\ Len(Chain) = 4 => Chain[4] = "file"
  BY DEF Chain

LEMMA NamesAreSecrets ==
  /\ Globals \in [1 .. 2 -> SecretNames] /\ SlackTokens \in [1 .. 2 -> SecretNames]
  /\ BuzzSecrets \in [1 .. 3 -> SecretNames]
  /\ \A i \in 1 .. 2 : Globals[i] # TheKey /\ SlackTokens[i] # TheKey
  /\ \A i \in 1 .. 3 : BuzzSecrets[i] = TheKey <=> i = 1
  /\ TheKey \in SecretNames
  BY DEF Globals, SlackTokens, BuzzSecrets, SecretNames, TheKey

LEMMA GlobalRefs ==
  ASSUME NEW b \in Bots \cup {NoBot}
  PROVE  /\ RefsOf(Globals, b) \in Seq(Refs) /\ Len(RefsOf(Globals, b)) = 2
         /\ DOMAIN RefsOf(Globals, b) = 1 .. 2
         /\ \A i \in 1 .. 2 : /\ RefsOf(Globals, b)[i].name = Globals[i]
                              /\ RefsOf(Globals, b)[i].bot = b
  <1>1. RefsOf(Globals, b) = [i \in 1 .. 2 |-> [name |-> Globals[i], bot |-> b]]
    BY NamesAreSecrets DEF RefsOf
  <1>2. \A i \in 1 .. 2 : [name |-> Globals[i], bot |-> b] \in Refs
    BY NamesAreSecrets DEF Refs
  <1> QED BY <1>1, <1>2

LEMMA SlackRefs ==
  ASSUME NEW b \in Bots \cup {NoBot}
  PROVE  /\ RefsOf(SlackTokens, b) \in Seq(Refs) /\ Len(RefsOf(SlackTokens, b)) = 2
         /\ DOMAIN RefsOf(SlackTokens, b) = 1 .. 2
         /\ \A i \in 1 .. 2 : /\ RefsOf(SlackTokens, b)[i].name = SlackTokens[i]
                              /\ RefsOf(SlackTokens, b)[i].bot = b
  <1>1. RefsOf(SlackTokens, b) = [i \in 1 .. 2 |-> [name |-> SlackTokens[i], bot |-> b]]
    BY NamesAreSecrets DEF RefsOf
  <1>2. \A i \in 1 .. 2 : [name |-> SlackTokens[i], bot |-> b] \in Refs
    BY NamesAreSecrets DEF Refs
  <1> QED BY <1>1, <1>2

LEMMA BuzzRefs ==
  ASSUME NEW b \in Bots \cup {NoBot}
  PROVE  /\ RefsOf(BuzzSecrets, b) \in Seq(Refs) /\ Len(RefsOf(BuzzSecrets, b)) = 3
         /\ DOMAIN RefsOf(BuzzSecrets, b) = 1 .. 3
         /\ \A i \in 1 .. 3 : /\ RefsOf(BuzzSecrets, b)[i].name = BuzzSecrets[i]
                              /\ RefsOf(BuzzSecrets, b)[i].bot = b
  <1>1. RefsOf(BuzzSecrets, b) = [i \in 1 .. 3 |-> [name |-> BuzzSecrets[i], bot |-> b]]
    BY NamesAreSecrets DEF RefsOf
  <1>2. \A i \in 1 .. 3 : [name |-> BuzzSecrets[i], bot |-> b] \in Refs
    BY NamesAreSecrets DEF Refs
  <1> QED BY <1>1, <1>2

LEMMA TailShape ==
  ASSUME NEW s \in Seq(Refs), s # <<>>
  PROVE  /\ Tail(s) \in Seq(Refs) /\ Len(Tail(s)) = Len(s) - 1 /\ Len(s) > 0
         /\ Head(s) = s[1] /\ Head(s) \in Refs /\ 1 \in DOMAIN s
         /\ \A i \in DOMAIN Tail(s) :
               i \in Nat /\ i > 0 /\ i + 1 \in DOMAIN s /\ Tail(s)[i] = s[i + 1]
  OBVIOUS

LEMMA HitIsValue ==
  ASSUME StartTypes, IsHit(answer)
  PROVE  answer \in Value
  BY DEF StartTypes, StartTypeOK, IsHit, NoValue, Failed, NotYet

\* What is kept when the keystore, the environment and the monitors are left alone.
LEMMA KeptWhenLeft ==
  ASSUME StartInv, UNCHANGED <<keystore, atStart, absent, edits>>,
         startFaults > 0 => startFaults' > 0,
         monitors' = monitors, used' = used
  PROVE  KeystoreInv' /\ MonitorsInv'
  BY DEF StartInv, KeystoreInv, MonitorsInv, Buzz, GoodKey
\* The fault that is used up, or not.
Faulted == startFaults' = startFaults \/ OneFault

LEMMA FaultsGrow ==
  ASSUME StartTypes, Faulted
  PROVE  startFaults' \in 0 .. MaxStartFaults /\ (startFaults > 0 => startFaults' > 0)
  BY StartBounds DEF StartTypes, StartTypeOK, Faulted, OneFault

\* What a provider answers: a good key if it has one, and the keystore has not what it lacks.
LEMMA LookupAnswer ==
  ASSUME StartInv, callProvider
  PROVE  /\ answer' \in Value \cup {NoValue, Failed}
         /\ IsHit(answer') /\ Head(wanted).name = TheKey =>
              /\ answer'.bot = Head(wanted).bot \/ answer'.from = "env"
              /\ answer'.from = "keystore" => answer'.number >= atStart[KeyOf(Head(wanted).bot)]
              /\ answer'.from = "file" => KeyOf(Head(wanted).bot) \in absent \/ startFaults' > 0
         /\ at = 3 /\ ~IsHit(answer') => Head(wanted) \in absent \/ startFaults' > 0
  <1> USE DEF StartInv
  <1> DEFINE ref == Head(wanted)
  <1>0. wanted # <<>> /\ answer = NotYet BY DEF callProvider
  <1>1. ref \in Refs /\ wanted \in Seq(Refs) BY <1>0, TailShape DEF StartTypes, StartTypeOK
  <1>2. at \in 1 .. 4 /\ at <= Len(Chain) BY DEF StartTypes, StartTypeOK, AnswerInv
  <1>3. /\ ref.name \in SecretNames /\ ref.bot \in Bots \cup {NoBot}
        /\ ref.name = TheKey => ref = KeyOf(ref.bot)
    BY <1>1 DEF Refs, KeyOf
  <1>4. keystore \in [Refs -> Nat] BY DEF StartTypes, StartTypeOK
  <1> HIDE DEF ref
  <1>5. CASE answer' = Lookup(Chain[at], ref) /\ UNCHANGED startFaults
    <2>1. CASE at = 1
      <3>1. answer' = env[ref.name] BY <1>5, <2>1, ChainShape DEF Lookup, envLookup
      <3>2. answer' \in Value \cup {NoValue} BY <1>3, <3>1 DEF StartTypes, StartTypeOK
      <3>3. ref.name = TheKey => answer' = NoValue \/ answer'.from = "env"
        BY <3>1 DEF EnvInv, Held
      <3> QED BY <2>1, <3>2, <3>3 DEF IsHit, NoValue, ref
    <2>2. CASE at = 2
      <3>1. answer' \in {NoValue, Held("systemd", ref.bot, 0)}
        BY <1>5, <2>2, ChainShape DEF Lookup, systemdLookup
      <3> QED BY <1>3, <2>2, <3>1 DEF IsHit, NoValue, Held, Value, ref
    <2>3. CASE at = 3
      <3>1. answer' = keystoreLookup(ref) BY <1>5, <2>3, ChainShape DEF Lookup
      <3>2. CASE keystore[ref] > 0
        <4>1. answer' = Held("keystore", ref.bot, keystore[ref])
          BY <3>1, <3>2 DEF keystoreLookup
        <4>2. answer' \in Value BY <1>1, <1>3, <1>4, <4>1 DEF Held, Value, ref
        <4>3. keystore[ref] >= atStart[ref] BY <1>1, <3>2 DEF KeystoreInv, ref
        <4> QED BY <1>3, <4>1, <4>2, <4>3 DEF Held, IsHit, ref
      <3>3. CASE ~(keystore[ref] > 0)
        <4>1. keystore[ref] = 0 BY <1>1, <1>4, <3>3 DEF ref
        <4>2. answer' = NoValue BY <3>1, <3>3 DEF keystoreLookup
        <4> QED BY <1>1, <4>1, <4>2 DEF KeystoreInv, IsHit, NoValue, ref
      <3> QED BY <3>2, <3>3
    <2>4. CASE at = 4
      <3>1. answer' \in {NoValue, Failed, Held("file", ref.bot, 0)}
        BY <1>2, <1>5, <2>4, ChainShape DEF Lookup, fileLookup, parseINI
      <3>2. ref \in absent \/ startFaults > 0 BY <1>0, <2>4 DEF AnswerInv, Lacking, ref
      <3> QED BY <1>3, <1>5, <2>4, <3>1, <3>2 DEF IsHit, NoValue, Failed, Held, Value, ref
    <2> QED BY <1>2, <2>1, <2>2, <2>3, <2>4
  <1>6. CASE OneFault /\ answer' = Failed
    BY <1>6, StartBounds DEF StartTypes, StartTypeOK, OneFault, IsHit, Failed
  <1> QED BY <1>5, <1>6 DEF callProvider, ref

LEMMA LookupStep ==
  ASSUME StartInv, callProvider
  PROVE  StartInv'
  <1> USE DEF StartInv
  <1>0. /\ wanted # <<>> /\ answer = NotYet /\ Faulted
        /\ UNCHANGED <<setup, operator, env, phase, pos, wanted, at, got, queues, monitors, used,
                       boots, atStart>>
    BY DEF callProvider, Faulted
  <1>1. startFaults' \in 0 .. MaxStartFaults /\ (startFaults > 0 => startFaults' > 0)
    BY <1>0, FaultsGrow
  <1>2. StartTypes' BY <1>0, <1>1, LookupAnswer DEF StartTypes, StartTypeOK, operator
  <1>3. KeystoreInv' /\ MonitorsInv' BY <1>0, <1>1, KeptWhenLeft DEF operator
  <1>4. EnvInv' /\ QueueInv' BY <1>0 DEF EnvInv, QueueInv, PanicsOnlyWithoutBots, Enabled
  <1>5. WantedInv' BY <1>0, <1>1 DEF WantedInv, GoodKey, Speaking, operator
  <1>6. AnswerInv'
    <2>1. wanted' = wanted /\ at' = at /\ absent' = absent /\ atStart' = atStart
      BY <1>0 DEF operator
    <2>2. Len(Chain') = Len(Chain) BY <1>0 DEF Chain
    <2> QED BY <1>0, <1>1, <2>1, <2>2, LookupAnswer DEF AnswerInv, Lacking, GoodKey
  <1> QED BY <1>2, <1>3, <1>4, <1>5, <1>6

\* What a step of Get leaves alone.
GetLeaves ==
  /\ Faulted
  /\ UNCHANGED <<setup, operator, queues, monitors, used, boots, atStart>>

LEMMA NextAskStep ==
  ASSUME StartInv, GetLeaves, wanted # <<>>, at < Len(Chain), at' = at + 1, answer' = NotYet,
         at = 3 => (Head(wanted) \in absent \/ startFaults' > 0),
         UNCHANGED <<env, phase, pos, wanted, got>>
  PROVE  StartInv'
  <1> USE DEF StartInv, GetLeaves
  <1>1. startFaults' \in 0 .. MaxStartFaults /\ (startFaults > 0 => startFaults' > 0)
    BY FaultsGrow
  <1>0. at' \in 1 .. 4
    <2>1. at \in 1 .. 4 BY DEF StartTypes, StartTypeOK
    <2>2. at' = at + 1 /\ at < Len(Chain) /\ Len(Chain) \in 3 .. 4 BY ChainShape
    <2> QED BY <2>1, <2>2
  <1>2. StartTypes' BY <1>0, <1>1 DEF StartTypes, StartTypeOK, operator
  <1>3. KeystoreInv' /\ MonitorsInv' BY <1>1, KeptWhenLeft DEF operator
  <1>4. EnvInv' /\ QueueInv' BY DEF EnvInv, QueueInv, PanicsOnlyWithoutBots, Enabled
  <1>5. WantedInv' BY <1>1 DEF WantedInv, GoodKey, Speaking, operator
  <1>6. AnswerInv'
    <2>1. Len(Chain') = Len(Chain) BY DEF Chain
    <2>2. at \in 1 .. 4 BY DEF StartTypes, StartTypeOK
    <2>3. ~IsHit(answer') BY DEF IsHit, NotYet
    <2> QED BY <1>1, <2>1, <2>2, <2>3, ChainShape DEF AnswerInv, Lacking, operator
  <1> QED BY <1>2, <1>3, <1>4, <1>5, <1>6

LEMMA ResolvedStep ==
  ASSUME StartInv, GetLeaves, wanted # <<>>, NEW v \in Value \cup {NoValue},
         IsHit(v) => v = answer, Resolved(v)
  PROVE  StartInv'
  <1> USE DEF StartInv, GetLeaves
  <1> DEFINE ref == Head(wanted)
  <1>1. startFaults' \in 0 .. MaxStartFaults /\ (startFaults > 0 => startFaults' > 0)
    BY FaultsGrow
  <1>2. /\ wanted \in Seq(Refs) /\ Tail(wanted) \in Seq(Refs) /\ Len(Tail(wanted)) = Len(wanted) - 1
        /\ Len(wanted) > 0 /\ ref = wanted[1] /\ 1 \in DOMAIN wanted
        /\ \A i \in DOMAIN Tail(wanted) :
              i \in Nat /\ i > 0 /\ i + 1 \in DOMAIN wanted /\ Tail(wanted)[i] = wanted[i + 1]
    BY TailShape DEF StartTypes, StartTypeOK
  <1>3. ref \in Refs /\ ref.name \in SecretNames /\ ref.bot \in Bots \cup {NoBot}
    BY TailShape, <1>2 DEF Refs
  <1>4. at' = 1 /\ answer' = NotYet BY DEF Resolved
  <1>5. KeystoreInv' /\ MonitorsInv' BY <1>1, KeptWhenLeft DEF operator
  <1>6. AnswerInv' BY <1>4, ChainShape DEF AnswerInv, Chain, IsHit, NotYet
  <1>7. CASE /\ phase = "globals"
             /\ env' = IF v = NoValue THEN env ELSE [env EXCEPT ![ref.name] = v]
             /\ wanted' = Tail(wanted)
             /\ UNCHANGED <<phase, pos, got>>
    <2>1. ref.name # TheKey BY <1>2, <1>7 DEF WantedInv
    <2>2. env' \in [SecretNames -> Value \cup {NoValue}]
      BY <1>3, <1>7 DEF StartTypes, StartTypeOK
    <2>3. env'[TheKey] = env[TheKey] BY <2>1, <1>7 DEF StartTypes, StartTypeOK
    <2>4. WantedInv' BY <1>2, <1>7 DEF WantedInv
    <2>5. EnvInv' /\ QueueInv' BY <1>7, <2>3 DEF EnvInv, QueueInv, PanicsOnlyWithoutBots, Enabled
    <2>6. StartTypes' BY <1>1, <1>2, <1>4, <1>7, <2>2 DEF StartTypes, StartTypeOK, operator
    <2> QED BY <1>5, <1>6, <2>4, <2>5, <2>6
  <1>8. CASE /\ phase = "slack"
             /\ got' = [got EXCEPT ![ref.name] = v]
             /\ wanted' = Tail(wanted)
             /\ UNCHANGED <<env, phase, pos>>
    <2>1. got' \in [SecretNames -> Value \cup {NoValue}]
      BY <1>3, <1>8 DEF StartTypes, StartTypeOK
    <2>2. WantedInv' BY <1>2, <1>8 DEF WantedInv
    <2>3. EnvInv' /\ QueueInv' BY <1>8 DEF EnvInv, QueueInv, PanicsOnlyWithoutBots, Enabled
    <2>4. StartTypes' BY <1>1, <1>2, <1>4, <1>8, <2>1 DEF StartTypes, StartTypeOK, operator
    <2> QED BY <1>5, <1>6, <2>2, <2>3, <2>4
  <1>9. CASE /\ phase = "monitor"
             /\ ref.name = TheKey => v # NoValue
             /\ got' = [got EXCEPT ![ref.name] = v]
             /\ wanted' = Tail(wanted)
             /\ UNCHANGED <<env, phase, pos>>
    <2>1. got' \in [SecretNames -> Value \cup {NoValue}]
      BY <1>3, <1>9 DEF StartTypes, StartTypeOK
    <2>2. /\ pos <= Len(setup.team) /\ Speaking \in Bots \ used /\ Len(wanted) <= 3
          /\ ref.bot = Speaking /\ (ref.name = TheKey <=> Len(wanted) = 3)
      BY <1>2, <1>9 DEF WantedInv
    <2>3. GoodKey(got[TheKey], Speaking)'
      <3>1. CASE ref.name = TheKey
        <4>1. IsHit(v) BY <1>9, <3>1 DEF IsHit, Value
        <4>2. GoodKey(answer, Speaking) BY <2>2, <3>1, <4>1 DEF AnswerInv
        <4>3. got'[TheKey] = answer BY <1>3, <1>9, <3>1, <4>1 DEF StartTypes, StartTypeOK
        <4> QED BY <1>1, <1>9, <4>2, <4>3 DEF GoodKey, Speaking, operator
      <3>2. CASE ref.name # TheKey
        <4>1. GoodKey(got[TheKey], Speaking) BY <1>2, <1>9, <2>2, <3>2 DEF WantedInv
        <4>2. got'[TheKey] = got[TheKey]
          BY <1>9, <3>2, NamesAreSecrets DEF StartTypes, StartTypeOK
        <4> QED BY <1>1, <1>9, <4>1, <4>2 DEF GoodKey, Speaking, operator
      <3> QED BY <3>1, <3>2
    <2>4. \A i \in DOMAIN wanted' :
             wanted'[i].bot = Speaking /\ (wanted'[i].name = TheKey <=> i = 1 /\ Len(wanted') = 3)
      BY <1>2, <1>9, <2>2 DEF WantedInv
    <2>5. WantedInv' BY <1>2, <1>9, <2>2, <2>3, <2>4 DEF WantedInv, Speaking
    <2>6. EnvInv' /\ QueueInv' BY <1>9 DEF EnvInv, QueueInv, PanicsOnlyWithoutBots, Enabled
    <2>7. StartTypes' BY <1>1, <1>2, <1>4, <1>9, <2>1 DEF StartTypes, StartTypeOK, operator
    <2> QED BY <1>5, <1>6, <2>5, <2>6, <2>7
  <1>10. CASE phase = "monitor" /\ wanted' = <<>> /\ phase' = "personas" /\ pos' = pos + 1
              /\ UNCHANGED <<env, got>>
    <2>1. pos \in Nat /\ pos > 0 /\ pos <= Len(setup.team) /\ Len(setup.team) \in Nat
      BY <1>10, SetupShape DEF WantedInv, StartTypes, StartTypeOK
    <2>2. pos' \in 1 .. Len(setup'.team) + 1 BY <1>10, <2>1
    <2>3. StartTypes' BY <1>1, <1>4, <1>10, <2>2 DEF StartTypes, StartTypeOK, operator, Phases
    <2>4. WantedInv' BY <1>10 DEF WantedInv
    <2>5. EnvInv' /\ QueueInv' BY <1>10 DEF EnvInv, QueueInv, PanicsOnlyWithoutBots
    <2> QED BY <1>5, <1>6, <2>3, <2>4, <2>5
  <1> QED BY <1>7, <1>8, <1>9, <1>10 DEF Resolved, TheKey

LEMMA GetStep ==
  ASSUME StartInv, GetAnswer \/ GetTimeout \/ Malformed
  PROVE  StartInv'
  <1>1. NoValue \in Value \cup {NoValue} /\ ~IsHit(NoValue) BY DEF NoValue, IsHit
  <1>2. GetLeaves BY DEF GetAnswer, GetTimeout, Malformed, GetLeaves, Faulted
  <1>3. wanted # <<>>
    BY DEF StartInv, AnswerInv, GetAnswer, GetTimeout, Malformed, IsHit, NotYet
  <1>4. CASE IsHit(answer) /\ Resolved(answer)
    BY <1>2, <1>3, <1>4, HitIsValue, ResolvedStep DEF StartInv
  <1>5. CASE Resolved(NoValue) BY <1>1, <1>2, <1>3, <1>5, ResolvedStep
  <1>6. CASE NextProvider /\ ((answer # NotYet /\ ~IsHit(answer)) \/ OneFault)
    <2>1. at = 3 => Head(wanted) \in absent \/ startFaults' > 0
      <3>1. CASE OneFault BY <3>1 DEF OneFault, StartInv, StartTypes, StartTypeOK
      <3>2. CASE answer # NotYet /\ ~IsHit(answer)
        BY <1>2, <3>2, FaultsGrow DEF StartInv, AnswerInv, Lacking, GetLeaves
      <3> QED BY <1>6, <3>1, <3>2
    <2> QED BY <1>2, <1>3, <1>5, <1>6, <2>1, NextAskStep DEF NextProvider
  <1> QED BY <1>4, <1>5, <1>6 DEF GetAnswer, GetTimeout, Malformed
LEMMA KeystoreLeft ==
  ASSUME StartInv, UNCHANGED <<keystore, atStart, absent, edits>>
  PROVE  KeystoreInv'
  BY DEF StartInv, KeystoreInv

\* A step of run asks no provider.
LEMMA RunLeaves ==
  ASSUME StartInv, NEW from, Step(from), Faulted
  PROVE  /\ phase = from /\ wanted = <<>> /\ answer' = NotYet /\ at' = 1
         /\ startFaults' \in 0 .. MaxStartFaults /\ (startFaults > 0 => startFaults' > 0)
         /\ UNCHANGED <<setup, keystore, readable, edits, absent, boots, atStart>>
         /\ KeystoreInv' /\ AnswerInv'
  <1>1. /\ phase = from /\ wanted = <<>> /\ answer' = NotYet /\ at' = 1
        /\ UNCHANGED <<setup, keystore, readable, edits, absent, boots, atStart>>
    BY DEF Step, operator
  <1>2. startFaults' \in 0 .. MaxStartFaults /\ (startFaults > 0 => startFaults' > 0)
    BY FaultsGrow DEF StartInv
  <1>3. KeystoreInv' BY <1>1, KeystoreLeft
  <1>4. AnswerInv' BY <1>1, ChainShape DEF AnswerInv, Chain, IsHit, NotYet
  <1> QED BY <1>1, <1>2, <1>3, <1>4

\* The first steps, before there are monitors.
LEMMA SecretsStep ==
  ASSUME StartInv, buildSecretProviders \/ ResolveSecrets
  PROVE  StartInv'
  <1> USE DEF StartInv
  <1>0. PICK f \in {"off", "globals"} : Step(f) BY DEF buildSecretProviders, ResolveSecrets
  <1>1. Faulted BY DEF buildSecretProviders, ResolveSecrets, Faulted
  <1>2. UNCHANGED <<env, pos, got, queues, monitors, used>>
    BY DEF buildSecretProviders, ResolveSecrets
  <1>3. /\ phase \in {"off", "globals"} /\ wanted = <<>> /\ answer' = NotYet /\ at' = 1
        /\ startFaults' \in 0 .. MaxStartFaults
        /\ UNCHANGED <<setup, keystore, readable, edits, absent, boots, atStart>>
        /\ KeystoreInv' /\ AnswerInv' /\ MonitorsInv'
    BY <1>0, <1>1, <1>2, RunLeaves, KeptWhenLeft
  <1>4. /\ phase' \in {"refused", "globals", "slack"}
        /\ wanted' \in Seq(Refs)
        /\ phase' = "refused" => wanted' = <<>>
        /\ \A i \in DOMAIN wanted' : wanted'[i].name # TheKey
    <2>1. /\ RefsOf(Globals, NoBot) \in Seq(Refs) /\ DOMAIN RefsOf(Globals, NoBot) = 1 .. 2
          /\ \A i \in 1 .. 2 : RefsOf(Globals, NoBot)[i].name = Globals[i]
      BY GlobalRefs
    <2>2. /\ RefsOf(SlackTokens, setup.slack) \in Seq(Refs)
          /\ DOMAIN RefsOf(SlackTokens, setup.slack) = 1 .. 2
          /\ \A i \in 1 .. 2 : RefsOf(SlackTokens, setup.slack)[i].name = SlackTokens[i]
      BY SetupShape, SlackRefs
    <2>3. <<>> \in Seq(Refs) /\ DOMAIN <<>> = {} OBVIOUS
    <2>4. CASE buildSecretProviders
      <3>1. \/ phase' = "refused" /\ wanted' = <<>>
            \/ phase' = "globals" /\ wanted' = RefsOf(Globals, NoBot)
        BY <1>3, <2>4 DEF buildSecretProviders
      <3>2. CASE wanted' = RefsOf(Globals, NoBot) BY <2>1, <3>1, <3>2, NamesAreSecrets
      <3>3. CASE phase' = "refused" /\ wanted' = <<>> BY <2>3, <3>3
      <3> QED BY <3>1, <3>2, <3>3
    <2>5. CASE ResolveSecrets
      <3>1. phase' = "slack" /\ wanted' \in {<<>>, RefsOf(SlackTokens, setup.slack)}
        BY <2>5 DEF ResolveSecrets
      <3>2. CASE wanted' = <<>> BY <2>3, <3>1, <3>2
      <3>3. CASE wanted' = RefsOf(SlackTokens, setup.slack)
        BY <2>2, <3>1, <3>3, NamesAreSecrets
      <3> QED BY <3>1, <3>2, <3>3
    <2> QED BY <2>4, <2>5
  <1>5. StartTypes' BY <1>2, <1>3, <1>4 DEF StartTypes, StartTypeOK, Phases
  <1>6. WantedInv' BY <1>4 DEF WantedInv
  <1>7. EnvInv' /\ QueueInv' BY <1>2, <1>3, <1>4 DEF EnvInv, QueueInv, PanicsOnlyWithoutBots
  <1> QED BY <1>3, <1>5, <1>6, <1>7

LEMMA NothingResolved == Nothing \in [SecretNames -> Value \cup {NoValue}]
  BY DEF Nothing

\* Slack's bot and the team get their queues: a queue is registered only where there is none.
LEMMA QueuesStep ==
  ASSUME StartInv, WireSlack \/ RunTeam
  PROVE  StartInv'
  <1> USE DEF StartInv
  <1>1. CASE WireSlack
    <2>1. Step("slack") /\ Faulted BY <1>1 DEF WireSlack, Faulted
    <2>2. UNCHANGED <<env, pos, wanted, used, startFaults>> /\ got' = Nothing BY <1>1 DEF WireSlack
    <2>3. queues = {} BY <2>1, RunLeaves DEF QueueInv
    <2>4. /\ phase' = "team"
          /\ queues' \subseteq Bots
          /\ \A m \in monitors' : m \in monitors \/ m.kind = "slack"
          /\ monitors \subseteq monitors'
      <3>1. CASE setup.slack # NoBot /\ \A i \in 1 .. 2 : got[SlackTokens[i]] # NoValue
        <4>1. RegisterQueues({setup.slack}, "team")
              /\ monitors' = monitors \cup
                               {[kind |-> "slack", bot |-> setup.slack, key |-> NoValue]}
          BY <1>1, <3>1 DEF WireSlack
        <4>2. setup.slack \in Bots BY <3>1, SetupShape
        <4> QED BY <2>3, <4>1, <4>2 DEF RegisterQueues
      <3>2. CASE ~(setup.slack # NoBot /\ \A i \in 1 .. 2 : got[SlackTokens[i]] # NoValue)
        <4>1. phase' = "team" /\ UNCHANGED <<queues, monitors>> BY <1>1, <3>2 DEF WireSlack
        <4> QED BY <4>1 DEF StartTypes, StartTypeOK
      <3> QED BY <3>1, <3>2
    <2>5. MonitorsInv'
      <3>1. Buzz' = Buzz BY <2>4 DEF Buzz
      <3> QED BY <2>1, <2>2, <3>1, RunLeaves DEF MonitorsInv, GoodKey
    <2>6. StartTypes'
      BY <2>1, <2>2, <2>4, RunLeaves, NothingResolved DEF StartTypes, StartTypeOK, Phases
    <2>7. WantedInv' BY <2>1, <2>2, <2>4, RunLeaves DEF WantedInv
    <2>8. EnvInv' /\ QueueInv' BY <2>2, <2>4 DEF EnvInv, QueueInv, PanicsOnlyWithoutBots
    <2> QED BY <2>1, <2>5, <2>6, <2>7, <2>8, RunLeaves
  <1>2. CASE RunTeam
    <2>1. Step("team") /\ Faulted BY <1>2 DEF RunTeam, Faulted
    <2>2. UNCHANGED <<env, pos, wanted, got, monitors, used>> BY <1>2 DEF RunTeam
    <2>3. Enabled \subseteq Bots
      <3>1. \A i \in DOMAIN setup.team : setup.team[i].name \in Bots BY SetupShape DEF Persona
      <3> QED BY <3>1 DEF Enabled
    <2>4. /\ phase' \in {"refused", "panicked", "personas"}
          /\ phase' = "panicked" => Enabled = {}
          /\ queues' \subseteq Bots
      BY <1>2, <2>3 DEF RunTeam, RegisterQueues, Unregistered, StartTypes, StartTypeOK
    <2>5. MonitorsInv' BY <2>1, <2>2, RunLeaves, KeptWhenLeft
    <2>6. StartTypes' BY <2>1, <2>2, <2>4, RunLeaves DEF StartTypes, StartTypeOK, Phases
    <2>7. WantedInv' BY <2>1, <2>2, <2>4, RunLeaves DEF WantedInv
    <2>8. EnvInv' /\ QueueInv'
      BY <2>1, <2>2, <2>4, RunLeaves DEF EnvInv, QueueInv, PanicsOnlyWithoutBots, Enabled
    <2> QED BY <2>1, <2>5, <2>6, <2>7, <2>8, RunLeaves
  <1> QED BY <1>1, <1>2
\* A persona is left out or gets its secrets looked up, or there are no more of them.
LEMMA PersonaStep ==
  ASSUME StartInv, SkipPersona \/ StartPersona \/ StartBots
  PROVE  StartInv'
  <1> USE DEF StartInv
  <1>0. Step("personas") /\ Faulted BY DEF SkipPersona, StartPersona, StartBots, Faulted
  <1>1. UNCHANGED <<env, got, queues, monitors, used>> BY DEF SkipPersona, StartPersona, StartBots
  <1>2. /\ phase = "personas" /\ wanted = <<>> /\ answer' = NotYet /\ at' = 1
        /\ startFaults' \in 0 .. MaxStartFaults
        /\ UNCHANGED <<setup, keystore, readable, edits, absent, boots, atStart>>
        /\ KeystoreInv' /\ AnswerInv' /\ MonitorsInv'
    BY <1>0, <1>1, RunLeaves, KeptWhenLeft
  <1>3. pos \in 1 .. Len(setup.team) + 1 /\ Len(setup.team) \in Nat
    BY SetupShape DEF StartTypes, StartTypeOK
  <1>4. CASE /\ phase' \in {"personas", "running"} /\ wanted' = wanted
             /\ pos' \in 1 .. Len(setup.team) + 1
    <2>1. StartTypes' BY <1>1, <1>2, <1>4 DEF StartTypes, StartTypeOK, Phases
    <2>2. WantedInv' BY <1>2, <1>4 DEF WantedInv
    <2>3. EnvInv' /\ QueueInv' BY <1>1, <1>4 DEF EnvInv, QueueInv, PanicsOnlyWithoutBots
    <2> QED BY <1>2, <2>1, <2>2, <2>3
  <1>5. CASE StartPersona
    <2>1. /\ phase' = "monitor" /\ UNCHANGED pos /\ pos <= Len(setup.team)
          /\ Speaking \notin {NoBot} \cup used /\ wanted' = RefsOf(BuzzSecrets, Speaking)
      BY <1>5 DEF StartPersona, Speaking
    <2>2. Speaking \in Bots
      <3>1. setup.team[pos] \in Persona BY <1>3, <2>1, SetupShape
      <3> QED BY <2>1, <3>1 DEF Persona, Speaking
    <2>3. /\ wanted' \in Seq(Refs) /\ Len(wanted') = 3 /\ DOMAIN wanted' = 1 .. 3
          /\ \A i \in 1 .. 3 : wanted'[i].name = BuzzSecrets[i] /\ wanted'[i].bot = Speaking
      BY <2>1, <2>2, BuzzRefs
    <2>4. StartTypes' BY <1>1, <1>2, <2>1, <2>3 DEF StartTypes, StartTypeOK, Phases
    <2>5. Speaking' = Speaking /\ used' = used /\ pos' <= Len(setup'.team)
      BY <1>1, <1>2, <2>1 DEF Speaking
    <2>6. WantedInv' BY <2>1, <2>2, <2>3, <2>5, NamesAreSecrets DEF WantedInv
    <2>7. EnvInv' /\ QueueInv' BY <1>1, <2>1 DEF EnvInv, QueueInv, PanicsOnlyWithoutBots
    <2> QED BY <1>2, <2>4, <2>6, <2>7
  <1>6. CASE SkipPersona \/ StartBots
    BY <1>2, <1>3, <1>4, <1>6 DEF SkipPersona, StartBots
  <1> QED BY <1>5, <1>6

\* The monitor has the key that has been resolved for it, and its bot no monitor yet.
LEMMA MonitorStep ==
  ASSUME StartInv, buildBuzzMonitor
  PROVE  StartInv'
  <1> USE DEF StartInv
  <1> DEFINE new == [kind |-> "buzz", bot |-> Speaking, key |-> got[TheKey]]
  <1>0. Step("monitor") /\ Faulted BY DEF buildBuzzMonitor, Faulted
  <1>1. /\ pos' = pos + 1 /\ got' = Nothing /\ UNCHANGED <<env, wanted>>
        /\ RegisterQueues(Unregistered({Speaking}), "personas")
        /\ \/ monitors' = monitors \cup {new} /\ used' = used \cup {Speaking}
           \/ UNCHANGED <<monitors, used>>
    BY DEF buildBuzzMonitor, Speaking, TheKey
  <1>2. /\ phase = "monitor" /\ wanted = <<>> /\ answer' = NotYet /\ at' = 1
        /\ startFaults' \in 0 .. MaxStartFaults /\ (startFaults > 0 => startFaults' > 0)
        /\ UNCHANGED <<setup, keystore, readable, edits, absent, boots, atStart>>
        /\ KeystoreInv' /\ AnswerInv'
    BY <1>0, RunLeaves
  <1>3. /\ pos <= Len(setup.team) /\ Speaking \in Bots \ used /\ GoodKey(got[TheKey], Speaking)
    BY <1>2 DEF WantedInv
  <1>4. phase' = "personas" /\ queues' \subseteq Bots
    BY <1>1, <1>3 DEF RegisterQueues, Unregistered, StartTypes, StartTypeOK
  <1>5. MonitorsInv' BY <1>1, <1>2, <1>3 DEF MonitorsInv, Buzz, GoodKey
  <1>6. StartTypes'
    <2>1. pos' \in 1 .. Len(setup'.team) + 1
      BY <1>1, <1>2, <1>3, SetupShape DEF StartTypes, StartTypeOK
    <2> QED BY <1>1, <1>2, <1>3, <1>4, <2>1, NothingResolved DEF StartTypes, StartTypeOK, Phases
  <1>7. WantedInv' BY <1>1, <1>2, <1>4 DEF WantedInv
  <1>8. EnvInv' /\ QueueInv' BY <1>1, <1>4 DEF EnvInv, QueueInv, PanicsOnlyWithoutBots
  <1> QED BY <1>2, <1>5, <1>6, <1>7, <1>8

\* A secret that is set has the largest number so far, one that is deleted is noted.
LEMMA EditStep ==
  ASSUME StartInv, SecretSet \/ SecretDelete \/ ChangeMode
  PROVE  StartInv'
  <1> USE DEF StartInv
  <1>1. /\ edits' = edits + 1 /\ edits' \in 0 .. MaxEdits
        /\ UNCHANGED <<setup, env, phase, pos, wanted, at, answer, got, queues, monitors, used,
                       startFaults, boots, atStart>>
    BY StartBounds DEF SecretSet, SecretDelete, ChangeMode, Edit, process, StartTypes, StartTypeOK
  <1>2. /\ keystore' \in [Refs -> Nat] /\ absent \subseteq absent' /\ absent' \subseteq Refs
        /\ readable' \in BOOLEAN
        /\ \A r \in Refs : \/ keystore'[r] = keystore[r]
                           \/ keystore'[r] = edits + 2
                           \/ keystore'[r] = 0 /\ r \in absent'
    <2>0. /\ keystore \in [Refs -> Nat] /\ readable \in BOOLEAN /\ absent \subseteq Refs
          /\ edits \in Nat
      BY DEF StartTypes, StartTypeOK
    <2>1. CASE SecretSet BY <2>0, <2>1 DEF SecretSet, Managed
    <2>2. CASE SecretDelete BY <2>0, <2>2 DEF SecretDelete, Managed
    <2>3. CASE ChangeMode BY <2>0, <2>3 DEF ChangeMode
    <2> QED BY <2>1, <2>2, <2>3
  <1>3. StartTypes' BY <1>1, <1>2 DEF StartTypes, StartTypeOK
  <1>4. KeystoreInv'
    <2>1. edits \in Nat /\ atStart \in [Refs -> Nat] /\ keystore \in [Refs -> Nat]
      BY DEF StartTypes, StartTypeOK
    <2> QED BY <1>1, <1>2, <2>1 DEF KeystoreInv
  <1>5. MonitorsInv' BY <1>1, <1>2 DEF MonitorsInv, Buzz, GoodKey
  <1>6. WantedInv' BY <1>1, <1>2 DEF WantedInv, GoodKey, Speaking
  <1>7. AnswerInv' BY <1>1, <1>2 DEF AnswerInv, Lacking, GoodKey, Chain
  <1>8. EnvInv' /\ QueueInv' BY <1>1 DEF EnvInv, QueueInv, PanicsOnlyWithoutBots, Enabled
  <1> QED BY <1>3, <1>4, <1>5, <1>6, <1>7, <1>8

LEMMA GivenKey ==
  ASSUME NEW s
  PROVE  /\ GivenEnv(s) \in [SecretNames -> Value \cup {NoValue}]
         /\ GivenEnv(s)[TheKey] \in {NoValue, Held("env", NoBot, 0)}
  BY NamesAreSecrets DEF GivenEnv, Held, Value

\* The process is started with nothing, but for its environment.
LEMMA AtRestInv ==
  ASSUME StartTypes, KeystoreInv, env = GivenEnv(setup), wanted = <<>>, at = 1, answer = NotYet,
         phase = "off", queues = {}, monitors = {}
  PROVE  StartInv
  <1>1. EnvInv BY GivenKey DEF EnvInv
  <1>2. WantedInv BY DEF WantedInv
  <1>3. AnswerInv BY ChainShape DEF AnswerInv, IsHit, NotYet
  <1>4. MonitorsInv BY DEF MonitorsInv, Buzz
  <1>5. QueueInv BY DEF QueueInv, PanicsOnlyWithoutBots
  <1> QED BY <1>1, <1>2, <1>3, <1>4, <1>5 DEF StartInv

LEMMA StartAgainStep ==
  ASSUME StartInv, StartAgain
  PROVE  StartInv'
  <1> USE DEF StartInv
  <1>1. /\ env' = GivenEnv(setup) /\ phase' = "off" /\ pos' = 1 /\ wanted' = <<>> /\ at' = 1
        /\ answer' = NotYet /\ got' = Nothing /\ queues' = {} /\ monitors' = {} /\ used' = {}
        /\ atStart' = keystore /\ absent' = {r \in Refs : keystore[r] = 0}
        /\ UNCHANGED <<setup, keystore, readable, edits, startFaults>>
        /\ boots' = boots + 1 /\ boots < MaxBoots
    BY DEF StartAgain
  <1>2. StartTypes'
    <2>1. boots' \in 0 .. MaxBoots BY <1>1, StartBounds DEF StartTypes, StartTypeOK
    <2>2. pos' \in 1 .. Len(setup'.team) + 1 BY <1>1, SetupShape
    <2>3. wanted' \in Seq(Refs) BY <1>1
    <2>4. env' \in [SecretNames -> Value \cup {NoValue}] BY <1>1, GivenKey
    <2> QED BY <1>1, <2>1, <2>2, <2>3, <2>4, NothingResolved DEF StartTypes, StartTypeOK, Phases
  <1>3. KeystoreInv' BY <1>1 DEF KeystoreInv, StartTypes, StartTypeOK
  <1>4. EnvInv' BY <1>1, GivenKey DEF EnvInv
  <1>5. WantedInv' BY <1>1 DEF WantedInv
  <1>6. AnswerInv' BY <1>1, ChainShape DEF AnswerInv, Chain, IsHit, NotYet
  <1>7. MonitorsInv' BY <1>1 DEF MonitorsInv, Buzz
  <1>8. QueueInv' BY <1>1 DEF QueueInv, PanicsOnlyWithoutBots
  <1> QED BY <1>2, <1>3, <1>4, <1>5, <1>6, <1>7, <1>8

LEMMA StartInitInv == StartInit => StartInv
  <1> SUFFICES ASSUME StartInit PROVE StartInv OBVIOUS
  <1>1. StartTypes
    <2>1. IsSetup(setup) BY SetupAssumption DEF StartInit
    <2>2. pos \in 1 .. Len(setup.team) + 1 BY <2>1 DEF IsSetup, StartInit
    <2>3. keystore \in [Refs -> Nat] BY DEF StartInit
    <2>4. /\ edits \in 0 .. MaxEdits /\ startFaults \in 0 .. MaxStartFaults
          /\ boots \in 0 .. MaxBoots
      BY StartBounds DEF StartInit
    <2>5. wanted \in Seq(Refs) BY DEF StartInit
    <2>6. env \in [SecretNames -> Value \cup {NoValue}] BY GivenKey DEF StartInit
    <2>7. got \in [SecretNames -> Value \cup {NoValue}] BY NothingResolved DEF StartInit
    <2>8. atStart \in [Refs -> Nat] /\ absent \subseteq Refs BY <2>3 DEF StartInit
    <2>9. /\ setup \in Setups /\ readable \in BOOLEAN
          /\ answer = NotYet /\ queues \subseteq Bots /\ used \subseteq Bots
      BY DEF StartInit
    <2>10. phase \in Phases BY DEF StartInit, Phases
    <2>11. at \in 1 .. 4 BY DEF StartInit
    <2> QED BY <2>2, <2>3, <2>4, <2>5, <2>6, <2>7, <2>8, <2>9, <2>10, <2>11
            DEF StartTypes, StartTypeOK
  <1>2. KeystoreInv BY DEF StartInit, KeystoreInv
  <1> QED BY <1>1, <1>2, AtRestInv DEF StartInit

LEMMA StartNextInv == StartInv /\ [StartNext]_startVars => StartInv'
  <1> SUFFICES ASSUME StartInv, [StartNext]_startVars PROVE StartInv' OBVIOUS
  <1>1. CASE UNCHANGED startVars
    <2> USE <1>1 DEF startVars, StartInv
    <2>1. StartTypes' BY DEF StartTypes, StartTypeOK
    <2>2. KeystoreInv' /\ EnvInv' BY DEF KeystoreInv, EnvInv
    <2>3. WantedInv' /\ MonitorsInv' BY DEF WantedInv, MonitorsInv, Buzz, GoodKey, Speaking
    <2>4. AnswerInv' BY DEF AnswerInv, Lacking, GoodKey, Chain
    <2>5. QueueInv' BY DEF QueueInv, PanicsOnlyWithoutBots, Enabled
    <2> QED BY <2>1, <2>2, <2>3, <2>4, <2>5
  <1>2. CASE StartNext
    BY <1>2, LookupStep, GetStep, SecretsStep, QueuesStep, PersonaStep, MonitorStep, EditStep,
      StartAgainStep DEF StartNext
  <1> QED BY <1>1, <1>2

LEMMA StartInvariance == StartSpec => []StartInv
  BY StartInitInv, StartNextInv, PTL DEF StartSpec

\* Every variable of the start keeps its type (run, Chain.Get, buildBuzzMonitor).
THEOREM StartTypesAreRespected == StartSpec => []StartTypeOK
  <1>1. StartInv => StartTypeOK BY DEF StartInv, StartTypes
  <1> QED BY <1>1, StartInvariance, PTL

\* A bot appears on the relay once and with a key of its own, the key is the one in use, and
\* the process panics only for want of a bot: for any setup of bots, personas and secrets, and
\* any number of changes of the keystore, timeouts, failures and restarts (Chain.Get,
\* fileLookup, buildBuzzMonitor, Register).
THEOREM IdentitiesAreOwn == StartSpec => []IdentityIsOwn
  <1>1. StartInv => IdentityIsOwn
    BY DEF StartInv, MonitorsInv, QueueInv, GoodKey, KeyOf, TheKey, IdentityIsOwn, OwnIdentity,
      KeyIsCurrent
  <1> QED BY <1>1, StartInvariance, PTL
=============================================================================
