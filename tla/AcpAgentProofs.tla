--------------------------- MODULE AcpAgentProofs ---------------------------
(***************************************************************************)
(* What holds of the ACP agent for any sessions, prompts and bounds.       *)
(*                                                                         *)
(* The three properties are about different stages of one turn.  What      *)
(* joins them is that turnMu is held by the prompt that is between Lock    *)
(* and Unlock, and by no other (TurnIsHeld): then nobody else sets or      *)
(* clears a cancel function, and what the records of a prompt may be can   *)
(* be read off the step that it is at.                                     *)
(***************************************************************************)
EXTENDS AcpAgent, TLAPS, FiniteSetTheorems, SequenceTheorems

\* The map of sessions and the order of eviction name the same sessions, each once.
Listed == ToSet(order) = live /\ IsInjective(order) /\ Len(order) <= MaxSessions

InTurn(p) == Cancellable(p) \/ pc[p] \in {"locked", "unlocking"}

\* turnMu is held by the one prompt that is in its turn.
TurnIsHeld == \A p \in Prompts : turn = p <=> InTurn(p)

\* Nothing is known of a prompt before its turn has come to StartDirectTask.
Fresh(p) ==
  pc[p] \in {"unsent", "queued", "locked", "checking", "starting"} =>
    outcome[p] = "none" /\ answer[p] = "none" /\ task[p] = "none" /\ item[p] = "none"

\* While the worker has the prompt its item is in progress only if its task is known.
Worked(p) ==
  pc[p] \in {"working", "ending", "settling"} =>
    /\ answer[p] = "none"
    /\ task[p] \in {"none", "running"} /\ item[p] \in {"none", "progress"}
    /\ item[p] = "progress" => task[p] = "running"
    /\ pc[p] # "working" => outcome[p] \in {"ok", "failed"}

\* What is recorded of the turn is what the worker returned, unless a store has failed.
Recorded(p) ==
  pc[p] \in {"moving", "deciding"} =>
    /\ answer[p] = "none" /\ outcome[p] \in {"ok", "failed"}
    /\ task[p] = "running" => failures > 0
    /\ task[p] = "succeeded" => outcome[p] = "ok"
    /\ task[p] = "failed" => outcome[p] = "failed"
    /\ pc[p] = "moving" => task[p] # "none" /\ item[p] \in {"none", "progress"}
    /\ item[p] = "progress" /\ pc[p] = "deciding" => failures > 0
    /\ item[p] = "done" => outcome[p] = "ok"
    /\ item[p] = "errored" => outcome[p] = "failed"

\* From the answer on the records agree with it, whatever becomes of outcome.
Agreed(p) ==
  pc[p] \in {"clearing", "unlocking", "answered"} =>
    /\ (task[p] = "running" \/ item[p] = "progress") => failures > 0
    /\ task[p] = "succeeded" => answer[p] \in {"end", "cancelled"} /\ item[p] # "errored"
    /\ task[p] = "failed" => answer[p] \in {"refusal", "cancelled"} /\ item[p] # "done"

\* The keep-alive goroutine lives from StartDirectTask to keepAliveWG.Wait.
Beating(p) == beat[p] = "on" => pc[p] \in {"working", "ending"}

Stages(p) == Fresh(p) /\ Worked(p) /\ Recorded(p) /\ Agreed(p) /\ Beating(p)

IInv == TypeOK /\ TurnIsHeld /\ CancelIsCurrent /\ \A p \in Prompts : Stages(p)

LEMMA InitInv == Init => IInv
  <1> SUFFICES ASSUME Init PROVE IInv OBVIOUS
  <1> USE AcpAssumption DEF Init
  <1>1. TypeOK
    <2>1. ToSet(<<>>) = {} /\ IsInjective(<<>>) /\ Len(<<>>) = 0 /\ <<>> \in Seq(Sessions)
      BY DEF ToSet, IsInjective
    <2> QED BY <2>1 DEF TypeOK
  <1>2. TurnIsHeld BY DEF TurnIsHeld, InTurn, Cancellable
  <1>3. CancelIsCurrent BY DEF CancelIsCurrent, Cancellable
  <1>4. ASSUME NEW p \in Prompts PROVE Stages(p)
    BY DEF Stages, Fresh, Worked, Recorded, Agreed, Beating
  <1> QED BY <1>1, <1>2, <1>3, <1>4 DEF IInv

-----------------------------------------------------------------------------
(* The order of the sessions *)

\* The table of sessions as a type: what Listed says, for sessions that were opened.
TableOK ==
  /\ live \subseteq opened /\ opened \subseteq Sessions
  /\ order \in Seq(Sessions) /\ Listed

\* Of the sessions with the new one at the end, the oldest one goes when there are too many.
LEMMA Eviction ==
  ASSUME NEW all \in Seq(Sessions), Len(all) <= MaxSessions + 1,
         NEW gone, gone = {i \in DOMAIN all : i + MaxSessions <= Len(all)}
  PROVE  \/ Len(all) <= MaxSessions /\ gone = {} /\ Cardinality(gone) = 0
         \/ Len(all) = MaxSessions + 1 /\ gone = {1} /\ Cardinality(gone) = 1
  <1> USE AcpAssumption
  <1>1. Len(all) \in Nat /\ DOMAIN all = 1 .. Len(all) OBVIOUS
  <1>2. CASE Len(all) <= MaxSessions
    <2>1. gone = {} BY <1>1, <1>2
    <2> QED BY <1>2, <2>1, FS_EmptySet
  <1>3. CASE Len(all) = MaxSessions + 1
    <2>1. gone = {1} BY <1>1, <1>3
    <2> QED BY <1>3, <2>1, FS_Singleton
  <1>4. MaxSessions \in Nat /\ Len(all) <= MaxSessions + 1 OBVIOUS
  <1>5. \A l, m \in Nat : l <= m + 1 => l <= m \/ l = m + 1 OBVIOUS
  <1> QED BY <1>1, <1>2, <1>3, <1>4, <1>5

\* A session that is opened is listed last, and the one that is evicted leaves the map.
LEMMA NewSessionTable ==
  ASSUME TableOK, NEW s \in Sessions, NewSession(s)
  PROVE  TableOK'
  <1> USE AcpAssumption DEF TableOK, Listed, ToSet
  <1> DEFINE all == Append(order, s)
             gone == {i \in DOMAIN all : i + MaxSessions <= Len(all)}
  <1>1. s \notin opened /\ opened' = opened \cup {s} BY DEF NewSession
  <1>2. /\ order' = SubSeq(all, Cardinality(gone) + 1, Len(all))
        /\ live' = (live \cup {s}) \ {all[i] : i \in gone}
    BY DEF NewSession
  <1>3. /\ all \in Seq(Sessions) /\ Len(all) = Len(order) + 1 /\ Len(order) \in Nat
        /\ \A i \in 1 .. Len(order) : all[i] = order[i]
        /\ all[Len(order) + 1] = s
    OBVIOUS
  <1>4. \A i \in 1 .. Len(order) : order[i] \in live OBVIOUS
  <1>5. \A i, j \in 1 .. Len(all) : all[i] = all[j] => i = j
    BY <1>1, <1>3, <1>4 DEF IsInjective
  <1>6. {all[i] : i \in 1 .. Len(all)} = live \cup {s} BY <1>3
  <1> HIDE DEF all
  <1>7. CASE Len(all) <= MaxSessions /\ gone = {} /\ Cardinality(gone) = 0
    <2>1. order' = all
      <3>1. Cardinality(gone) + 1 = 1 BY <1>7
      <3> QED BY <1>2, <1>3, <3>1, SubSeqFull
    <2>2. live' = live \cup {s} BY <1>2, <1>7
    <2>3. IsInjective(all) BY <1>3, <1>5 DEF IsInjective
    <2>4. DOMAIN all = 1 .. Len(all) BY <1>3
    <2>5. ToSet(order') = live' BY <1>6, <2>1, <2>2, <2>4
    <2> QED BY <1>1, <1>3, <1>7, <2>1, <2>2, <2>3, <2>5
  <1>8. CASE Len(all) = MaxSessions + 1 /\ gone = {1} /\ Cardinality(gone) = 1
    <2>1. order' = SubSeq(all, 2, Len(all))
      <3>1. Cardinality(gone) + 1 = 2 BY <1>8
      <3> QED BY <1>2, <3>1
    <2>2. live' = (live \cup {s}) \ {all[1]} BY <1>2, <1>8
    <2>3. /\ order' \in Seq(Sessions) /\ Len(order') = MaxSessions
          /\ \A i \in 1 .. MaxSessions : order'[i] = all[i + 1]
          /\ DOMAIN order' = 1 .. MaxSessions
      BY <1>3, <1>8, <2>1, SubSeqProperties
    <2>4. IsInjective(order') BY <1>5, <1>8, <2>3 DEF IsInjective
    <2>5. ToSet(order') = live'
      <3>1. ASSUME NEW x \in ToSet(order') PROVE x \in live'
        <4>1. PICK i \in 1 .. MaxSessions : x = all[i + 1] BY <2>3
        <4>2. i + 1 \in 1 .. Len(all) /\ i + 1 # 1 BY <1>8
        <4>3. x # all[1] BY <1>5, <1>8, <4>1, <4>2
        <4> QED BY <1>6, <2>2, <4>1, <4>2, <4>3
      <3>2. ASSUME NEW x \in live' PROVE x \in ToSet(order')
        <4>1. PICK i \in 1 .. Len(all) : x = all[i] BY <1>6, <2>2, <3>2
        <4>2. i # 1 BY <2>2, <3>2, <4>1
        <4>3. i - 1 \in 1 .. MaxSessions /\ (i - 1) + 1 = i BY <1>8, <4>1, <4>2
        <4>4. order'[i - 1] = x BY <2>3, <4>1, <4>3
        <4> QED BY <2>3, <4>3, <4>4
      <3> QED BY <3>1, <3>2
    <2> QED BY <1>1, <1>8, <2>2, <2>3, <2>4, <2>5
  <1>9. Len(all) <= MaxSessions + 1 BY <1>3
  <1> QED BY <1>3, <1>7, <1>8, <1>9, Eviction

\* What is left of a sequence when one place is taken out of it.
LEMMA RemovedPlace ==
  ASSUME NEW S, NEW q \in Seq(S), NEW k \in 1 .. Len(q)
  PROVE  /\ RemoveAt(q, k) \in Seq(S) /\ Len(RemoveAt(q, k)) = Len(q) - 1
         /\ \A i \in 1 .. Len(q) - 1 :
              RemoveAt(q, k)[i] = IF i < k THEN q[i] ELSE q[i + 1]
  <1> DEFINE n == Len(q)
             front == SubSeq(q, 1, k - 1)
             back == SubSeq(q, k + 1, n)
  <1>1. n \in Nat /\ k \in 1 .. n OBVIOUS
  <1>2. front \in Seq(S) /\ Len(front) = k - 1 /\ \A i \in 1 .. k - 1 : front[i] = q[i]
    BY <1>1, SubSeqProperties
  <1>3. /\ back \in Seq(S) /\ Len(back) = n - k
        /\ \A i \in 1 .. n - k : back[i] = q[k + i]
    BY <1>1, SubSeqProperties
  <1>4. RemoveAt(q, k) = front \o back BY DEF RemoveAt
  <1> HIDE DEF front, back
  <1>5. RemoveAt(q, k) \in Seq(S) BY <1>2, <1>3, <1>4
  <1>6. Len(RemoveAt(q, k)) = n - 1
    <2>1. Len(front \o back) = Len(front) + Len(back) BY <1>2, <1>3, ConcatProperties
    <2> QED BY <1>1, <1>2, <1>3, <1>4, <2>1
  <1>7. ASSUME NEW i \in 1 .. n - 1, i < k PROVE RemoveAt(q, k)[i] = q[i]
    BY <1>1, <1>2, <1>3, <1>4, <1>7
  <1>8. ASSUME NEW i \in 1 .. n - 1, ~(i < k) PROVE RemoveAt(q, k)[i] = q[i + 1]
    <2>1. i - (k - 1) \in 1 .. n - k /\ k + (i - (k - 1)) = i + 1 BY <1>1, <1>8
    <2>2. i \in 1 .. Len(front) + Len(back) /\ ~(i <= Len(front))
      BY <1>1, <1>2, <1>3, <1>8
    <2>3. (front \o back)[i] = back[i - Len(front)] BY <1>2, <1>3, <2>2
    <2> QED BY <1>2, <1>3, <1>4, <2>1, <2>3
  <1> QED BY <1>5, <1>6, <1>7, <1>8

\* Of a sequence without repetitions that place takes the element with it.
LEMMA RemovedElement ==
  ASSUME NEW S, NEW q \in Seq(S), NEW k \in 1 .. Len(q), IsInjective(q)
  PROVE  IsInjective(RemoveAt(q, k)) /\ ToSet(RemoveAt(q, k)) = ToSet(q) \ {q[k]}
  <1> DEFINE n == Len(q)
             r == RemoveAt(q, k)
  <1>1. n \in Nat /\ k \in 1 .. n /\ DOMAIN q = 1 .. n OBVIOUS
  <1>2. /\ r \in Seq(S) /\ Len(r) = n - 1 /\ DOMAIN r = 1 .. n - 1
        /\ \A i \in 1 .. n - 1 : r[i] = IF i < k THEN q[i] ELSE q[i + 1]
    BY RemovedPlace
  <1>3. \A i, j \in 1 .. n : q[i] = q[j] => i = j BY <1>1 DEF IsInjective
  <1> HIDE DEF n, r
  <1>4. IsInjective(r) BY <1>1, <1>2, <1>3 DEF IsInjective
  <1>5. ASSUME NEW i \in 1 .. n - 1 PROVE r[i] \in ToSet(q) \ {q[k]}
    <2>1. CASE i < k BY <1>1, <1>2, <1>3, <2>1 DEF ToSet
    <2>2. CASE ~(i < k)
      <3>1. i + 1 \in 1 .. n /\ i + 1 # k /\ r[i] = q[i + 1] BY <1>1, <1>2, <2>2
      <3> QED BY <1>1, <1>3, <3>1 DEF ToSet
    <2> QED BY <2>1, <2>2
  <1>6. ASSUME NEW x \in ToSet(q) \ {q[k]} PROVE x \in ToSet(r)
    <2>1. PICK i \in 1 .. n : x = q[i] /\ i # k BY <1>1 DEF ToSet
    <2>2. CASE i < k
      <3>1. i \in 1 .. n - 1 BY <1>1, <2>2
      <3> QED BY <1>2, <2>1, <2>2, <3>1 DEF ToSet
    <2>3. CASE i > k
      <3>1. i - 1 \in 1 .. n - 1 /\ ~(i - 1 < k) /\ (i - 1) + 1 = i BY <1>1, <2>3
      <3>2. r[i - 1] = q[i] BY <1>2, <3>1
      <3> QED BY <1>2, <2>1, <3>1, <3>2 DEF ToSet
    <2> QED BY <1>1, <2>1, <2>2, <2>3
  <1>7. ToSet(r) = {r[i] : i \in 1 .. n - 1} BY <1>2 DEF ToSet
  <1> QED BY <1>4, <1>5, <1>6, <1>7 DEF r

\* The session that is closed leaves the map and its one place in the order.
LEMMA CloseSessionTable ==
  ASSUME TableOK, NEW s \in Sessions, CloseSession(s)
  PROVE  TableOK'
  <1>1. PICK k \in DOMAIN order : order[k] = s /\ order' = RemoveAt(order, k)
    BY DEF CloseSession
  <1>2. live' = live \ {s} /\ opened' = opened BY DEF CloseSession
  <1>3. order \in Seq(Sessions) /\ k \in 1 .. Len(order) BY DEF TableOK
  <1>4. order' \in Seq(Sessions) /\ Len(order') = Len(order) - 1 BY <1>1, <1>3, RemovedPlace
  <1>5. IsInjective(order') /\ ToSet(order') = ToSet(order) \ {s}
    BY <1>1, <1>3, RemovedElement DEF TableOK, Listed
  <1>6. Len(order') <= MaxSessions BY <1>3, <1>4, AcpAssumption DEF TableOK, Listed
  <1> QED BY <1>2, <1>4, <1>5, <1>6 DEF TableOK, Listed

-----------------------------------------------------------------------------
(* Types *)

\* A step that is no handler of a session leaves the table or empties its map.
LEMMA TableStep == TableOK /\ [Next]_vars => TableOK'
  <1> SUFFICES ASSUME TableOK, [Next]_vars PROVE TableOK' OBVIOUS
  <1>1. ASSUME NEW s \in Sessions, NewSession(s) PROVE TableOK' BY <1>1, NewSessionTable
  <1>2. ASSUME NEW s \in Sessions, CloseSession(s) PROVE TableOK' BY <1>2, CloseSessionTable
  <1>3. CASE UNCHANGED table BY <1>3 DEF table, TableOK, Listed
  <1>4. CASE Crash
    <2>1. ToSet(<<>>) = {} /\ IsInjective(<<>>) /\ Len(<<>>) = 0 /\ <<>> \in Seq(Sessions)
      BY DEF ToSet, IsInjective
    <2> QED BY <1>4, <2>1, AcpAssumption DEF Crash, TableOK, Listed
  <1>5. ASSUME NEW p \in Prompts, Arrive(p) \/ Prompt(p) \/ Think(p) \/ StopThinking(p) \/ Fire(p)
        PROVE UNCHANGED table
    BY <1>5 DEF Arrive, Prompt, Think, StopThinking, Fire, Lock, SetCancel, CheckSchedule,
      StartDirectTask, EndWork, Join, FinishDirectTask, FinishBoardItem, Decide, ClearCancel,
      Unlock
  <1>6. ASSUME NEW s \in Sessions, Cancel(s) PROVE UNCHANGED table BY <1>6 DEF Cancel
  <1> QED BY <1>1, <1>2, <1>3, <1>4, <1>5, <1>6 DEF Next, vars

\* What TypeOK says of the other variables.
TurnsOK ==
  /\ cancel \in [Sessions -> Prompts \cup {NoPrompt}]
  /\ firing \subseteq Prompts /\ cancelled \subseteq Prompts
  /\ turn \in Prompts \cup {NoPrompt}
  /\ pc \in [Prompts -> {"unsent", "queued", "locked", "checking", "starting", "working",
                         "ending", "settling", "moving", "deciding", "clearing",
                         "unlocking", "answered", "lost"}]
  /\ outcome \in [Prompts -> {"none", "ok", "failed"}]
  /\ answer \in [Prompts -> {"none", "end", "refusal", "cancelled", "unknown"}]
  /\ task \in [Prompts -> {"none", "scheduled", "running", "succeeded", "failed"}]
  /\ item \in [Prompts -> {"none", "backlog", "progress", "done", "errored"}]
  /\ beat \in [Prompts -> {"off", "on"}]
  /\ thoughts \in [Prompts -> 0 .. MaxThoughts]
  /\ failures \in 0 .. MaxFailures /\ crashes \in 0 .. MaxCrashes

LEMMA TypeSplit == TypeOK <=> TableOK /\ TurnsOK
  BY DEF TypeOK, TableOK, Listed, TurnsOK

LEMMA TurnsStep == TypeOK /\ [Next]_vars => TurnsOK'
  <1> SUFFICES ASSUME TurnsOK, TableOK, [Next]_vars PROVE TurnsOK' BY TypeSplit
  <1> USE AcpAssumption DEF TurnsOK, Step, Fail, turnState, records, table
  <1>1. ASSUME NEW s \in Sessions, NewSession(s) PROVE TurnsOK'
    <2>1. \A r \in Sessions : Registered(r) \subseteq Prompts BY DEF Registered
    <2>2. \A i \in DOMAIN Append(order, s) : Append(order, s)[i] \in Sessions BY DEF TableOK
    <2>3. firing' \subseteq Prompts BY <1>1, <2>1, <2>2 DEF NewSession
    <2> QED BY <1>1, <2>3 DEF NewSession
  <1>2. ASSUME NEW s \in Sessions, Cancel(s) PROVE TurnsOK' BY <1>2 DEF Cancel, Registered
  <1>3. ASSUME NEW s \in Sessions, CloseSession(s) PROVE TurnsOK'
    BY <1>3 DEF CloseSession, Registered
  <1>4. ASSUME NEW p \in Prompts, Arrive(p) PROVE TurnsOK' BY <1>4 DEF Arrive
  <1>5. ASSUME NEW p \in Prompts, Lock(p) PROVE TurnsOK' BY <1>5 DEF Lock
  <1>6. ASSUME NEW p \in Prompts, SetCancel(p) PROVE TurnsOK' BY <1>6 DEF SetCancel
  <1>7. ASSUME NEW p \in Prompts, CheckSchedule(p) PROVE TurnsOK'
    BY <1>7 DEF CheckSchedule, RecordScheduled
  <1>8. ASSUME NEW p \in Prompts, StartDirectTask(p) PROVE TurnsOK' BY <1>8 DEF StartDirectTask
  <1>9. ASSUME NEW p \in Prompts, EndWork(p) PROVE TurnsOK' BY <1>9 DEF EndWork
  <1>10. ASSUME NEW p \in Prompts, Join(p) PROVE TurnsOK' BY <1>10 DEF Join
  <1>11. ASSUME NEW p \in Prompts, FinishDirectTask(p) PROVE TurnsOK'
    BY <1>11 DEF FinishDirectTask
  <1>12. ASSUME NEW p \in Prompts, FinishBoardItem(p) PROVE TurnsOK' BY <1>12 DEF FinishBoardItem
  <1>13. ASSUME NEW p \in Prompts, Decide(p) PROVE TurnsOK' BY <1>13 DEF Decide
  <1>14. ASSUME NEW p \in Prompts, ClearCancel(p) PROVE TurnsOK' BY <1>14 DEF ClearCancel
  <1>15. ASSUME NEW p \in Prompts, Unlock(p) PROVE TurnsOK' BY <1>15 DEF Unlock
  <1>16. ASSUME NEW p \in Prompts, Think(p) PROVE TurnsOK' BY <1>16 DEF Think
  <1>17. ASSUME NEW p \in Prompts, StopThinking(p) PROVE TurnsOK' BY <1>17 DEF StopThinking
  <1>18. ASSUME NEW p \in Prompts, Fire(p) PROVE TurnsOK' BY <1>18 DEF Fire
  <1>19. CASE Crash BY <1>19 DEF Crash
  <1>20. CASE UNCHANGED vars BY <1>20 DEF vars
  <1> QED BY <1>1, <1>2, <1>3, <1>4, <1>5, <1>6, <1>7, <1>8, <1>9, <1>10, <1>11, <1>12, <1>13,
    <1>14, <1>15, <1>16, <1>17, <1>18, <1>19, <1>20 DEF Next, Prompt

LEMMA TypeStep == TypeOK /\ [Next]_vars => TypeOK'
  <1>1. TypeOK' <=> TableOK' /\ TurnsOK'
    BY DEF TypeOK, TableOK, Listed, TurnsOK
  <1> QED BY <1>1, TypeSplit, TableStep, TurnsStep

-----------------------------------------------------------------------------
(* Turns, cancel functions and records *)

\* turnMu is taken and given back by the turn that it is held for.
LEMMA TurnStep == IInv /\ [Next]_vars => TurnIsHeld'
  <1> SUFFICES ASSUME IInv, [Next]_vars PROVE TurnIsHeld' OBVIOUS
  <1> USE AcpAssumption DEF IInv, TypeOK, TurnIsHeld, InTurn, Cancellable, Step, turnState
  <1>1. ASSUME NEW s \in Sessions, NewSession(s) \/ Cancel(s) \/ CloseSession(s) PROVE TurnIsHeld'
    BY <1>1 DEF NewSession, Cancel, CloseSession
  <1>2. ASSUME NEW p \in Prompts, Arrive(p) PROVE TurnIsHeld'
    <2>1. pc[p] = "unsent" /\ pc'[p] \in {"queued", "answered"} BY <1>2 DEF Arrive
    <2>2. \A q \in Prompts \ {p} : pc'[q] = pc[q] BY <1>2 DEF Arrive
    <2>3. turn' = turn BY <1>2 DEF Arrive
    <2> QED BY <2>1, <2>2, <2>3
  <1>3. ASSUME NEW p \in Prompts, Lock(p) PROVE TurnIsHeld' BY <1>3 DEF Lock
  <1>4. ASSUME NEW p \in Prompts, SetCancel(p) PROVE TurnIsHeld' BY <1>4 DEF SetCancel
  <1>5. ASSUME NEW p \in Prompts, CheckSchedule(p) PROVE TurnIsHeld' BY <1>5 DEF CheckSchedule
  <1>6. ASSUME NEW p \in Prompts, StartDirectTask(p) \/ EndWork(p) \/ Join(p) PROVE TurnIsHeld'
    BY <1>6 DEF StartDirectTask, EndWork, Join
  <1>7. ASSUME NEW p \in Prompts, FinishDirectTask(p) \/ FinishBoardItem(p) PROVE TurnIsHeld'
    BY <1>7 DEF FinishDirectTask, FinishBoardItem
  <1>8. ASSUME NEW p \in Prompts, Decide(p) \/ ClearCancel(p) PROVE TurnIsHeld'
    BY <1>8 DEF Decide, ClearCancel
  <1>9. ASSUME NEW p \in Prompts, Unlock(p) PROVE TurnIsHeld' BY <1>9 DEF Unlock
  <1>10. ASSUME NEW p \in Prompts, Think(p) \/ StopThinking(p) \/ Fire(p) PROVE TurnIsHeld'
    BY <1>10 DEF Think, StopThinking, Fire
  <1>11. CASE Crash BY <1>11 DEF Crash
  <1>12. CASE UNCHANGED vars BY <1>12 DEF vars
  <1> QED BY <1>1, <1>2, <1>3, <1>4, <1>5, <1>6, <1>7, <1>8, <1>9, <1>10, <1>11, <1>12
    DEF Next, Prompt

\* Only the holder of turnMu writes a cancel function, and while it does no other prompt has
\* one to lose.
LEMMA CancelStep == IInv /\ [Next]_vars => CancelIsCurrent'
  <1> SUFFICES ASSUME IInv, [Next]_vars PROVE CancelIsCurrent' OBVIOUS
  <1> USE AcpAssumption DEF IInv, TypeOK, CancelIsCurrent, Cancellable, Step, turnState
  <1>1. ASSUME NEW s \in Sessions, NewSession(s) \/ Cancel(s) \/ CloseSession(s)
        PROVE CancelIsCurrent'
    BY <1>1 DEF NewSession, Cancel, CloseSession
  <1>2. ASSUME NEW p \in Prompts, Arrive(p) \/ Lock(p) \/ Unlock(p) PROVE CancelIsCurrent'
    BY <1>2 DEF Arrive, Lock, Unlock
  <1>3. ASSUME NEW p \in Prompts, SetCancel(p) PROVE CancelIsCurrent'
    <2>1. \A q \in Prompts \ {p} : ~Cancellable(q) /\ pc'[q] = pc[q]
      BY <1>3 DEF SetCancel, TurnIsHeld, InTurn
    <2>2. cancel' = [cancel EXCEPT ![SessionOf[p]] = p] /\ pc'[p] = "checking"
      BY <1>3 DEF SetCancel
    <2> QED BY <2>1, <2>2
  <1>4. ASSUME NEW p \in Prompts, Cancellable(p), Cancellable(p)', UNCHANGED cancel,
               \A q \in Prompts \ {p} : pc'[q] = pc[q]
        PROVE  CancelIsCurrent'
    BY <1>4
  <1>5. ASSUME NEW p \in Prompts, CheckSchedule(p) \/ StartDirectTask(p) \/ EndWork(p) \/ Join(p)
        PROVE  CancelIsCurrent'
    <2>1. Cancellable(p) /\ Cancellable(p)' /\ UNCHANGED cancel
      BY <1>5 DEF CheckSchedule, StartDirectTask, EndWork, Join
    <2>2. \A q \in Prompts \ {p} : pc'[q] = pc[q]
      BY <1>5 DEF CheckSchedule, StartDirectTask, EndWork, Join
    <2> QED BY <1>4, <2>1, <2>2
  <1>6. ASSUME NEW p \in Prompts, FinishDirectTask(p) \/ FinishBoardItem(p) \/ Decide(p)
        PROVE  CancelIsCurrent'
    <2>1. Cancellable(p) /\ Cancellable(p)' /\ UNCHANGED cancel
      BY <1>6 DEF FinishDirectTask, FinishBoardItem, Decide
    <2>2. \A q \in Prompts \ {p} : pc'[q] = pc[q]
      BY <1>6 DEF FinishDirectTask, FinishBoardItem, Decide
    <2> QED BY <1>4, <2>1, <2>2
  <1>7. ASSUME NEW p \in Prompts, ClearCancel(p) PROVE CancelIsCurrent'
    <2>1. \A q \in Prompts \ {p} : ~Cancellable(q) /\ pc'[q] = pc[q]
      BY <1>7 DEF ClearCancel, TurnIsHeld, InTurn
    <2>2. cancel' = [cancel EXCEPT ![SessionOf[p]] = NoPrompt] /\ pc'[p] = "unlocking"
      BY <1>7 DEF ClearCancel
    <2> QED BY <2>1, <2>2
  <1>8. ASSUME NEW p \in Prompts, Think(p) \/ StopThinking(p) \/ Fire(p) PROVE CancelIsCurrent'
    BY <1>8 DEF Think, StopThinking, Fire
  <1>9. CASE Crash BY <1>9 DEF Crash
  <1>10. CASE UNCHANGED vars BY <1>10 DEF vars
  <1> QED BY <1>1, <1>2, <1>3, <1>5, <1>6, <1>7, <1>8, <1>9, <1>10 DEF Next, Prompt

\* A step of a prompt leaves it where it belongs.
LEMMA OwnStages ==
  ASSUME TypeOK, NEW q \in Prompts, Stages(q), Prompt(q)
  PROVE  Stages(q)'
  <1> USE AcpAssumption DEF TypeOK, Stages, Fresh, Worked, Recorded, Agreed, Beating, Step, Fail,
    records
  <1>1. CASE Lock(q) BY <1>1 DEF Lock
  <1>2. CASE SetCancel(q) BY <1>2 DEF SetCancel
  <1>3. CASE CheckSchedule(q) BY <1>3 DEF CheckSchedule, RecordScheduled
  <1>4. CASE StartDirectTask(q) BY <1>4 DEF StartDirectTask
  <1>5. CASE EndWork(q) BY <1>5 DEF EndWork
  <1>6. CASE Join(q) BY <1>6 DEF Join
  <1>7. CASE FinishDirectTask(q)
    <2>1. CASE task' = task BY <1>7, <2>1 DEF FinishDirectTask
    <2>2. CASE task' # task
      <3>1. /\ pc[q] = "settling" /\ pc' = [pc EXCEPT ![q] = "moving"] /\ task[q] # "none"
            /\ task' = [task EXCEPT ![q] = IF Succeeded(q) THEN "succeeded" ELSE "failed"]
            /\ UNCHANGED <<item, failures, outcome, answer, beat>>
        BY <1>7, <2>2 DEF FinishDirectTask
      <3> QED BY <3>1 DEF Succeeded
    <2> QED BY <2>1, <2>2
  <1>8. CASE FinishBoardItem(q) BY <1>8 DEF FinishBoardItem, Succeeded
  <1>9. CASE Decide(q) BY <1>9 DEF Decide, Succeeded
  <1>10. CASE ClearCancel(q) BY <1>10 DEF ClearCancel
  <1>11. CASE Unlock(q) BY <1>11 DEF Unlock
  <1> QED BY <1>1, <1>2, <1>3, <1>4, <1>5, <1>6, <1>7, <1>8, <1>9, <1>10, <1>11 DEF Prompt

\* A prompt is where its own steps have left it, and no failure is forgotten.
LEMMA StagesStep == IInv /\ [Next]_vars => (\A p \in Prompts : Stages(p))'
  <1> SUFFICES ASSUME IInv, [Next]_vars, NEW q \in Prompts PROVE Stages(q)' OBVIOUS
  <1> USE AcpAssumption DEF IInv, TypeOK, Step, Fail, turnState, records
  <1> DEFINE Untouched == /\ pc'[q] = pc[q] /\ outcome'[q] = outcome[q] /\ answer'[q] = answer[q]
                          /\ task'[q] = task[q] /\ item'[q] = item[q] /\ beat'[q] = beat[q]
                          /\ failures' \in {failures, failures + 1}
  <1>1. ASSUME Untouched PROVE Stages(q)'
    BY <1>1 DEF Stages, Fresh, Worked, Recorded, Agreed, Beating
  <1>2. ASSUME NEW s \in Sessions, NewSession(s) \/ Cancel(s) \/ CloseSession(s) PROVE Stages(q)'
    BY <1>1, <1>2 DEF NewSession, Cancel, CloseSession
  <1>3. CASE UNCHANGED vars BY <1>1, <1>3 DEF vars
  <1>4. CASE Prompt(q) BY ONLY IInv, <1>4, OwnStages DEF IInv
  <1>5. ASSUME NEW p \in Prompts \ {q}, Prompt(p) PROVE Stages(q)'
    <2>1. CASE Lock(p) \/ SetCancel(p) BY <1>1, <2>1 DEF Lock, SetCancel
    <2>2. CASE CheckSchedule(p) BY <1>1, <2>2 DEF CheckSchedule, RecordScheduled
    <2>3. CASE StartDirectTask(p) BY <1>1, <2>3 DEF StartDirectTask
    <2>4. CASE EndWork(p) \/ Join(p) BY <1>1, <2>4 DEF EndWork, Join
    <2>5. CASE FinishDirectTask(p) BY <1>1, <2>5 DEF FinishDirectTask
    <2>6. CASE FinishBoardItem(p) BY <1>1, <2>6 DEF FinishBoardItem
    <2>7. CASE Decide(p) \/ ClearCancel(p) \/ Unlock(p)
      BY <1>1, <2>7 DEF Decide, ClearCancel, Unlock
    <2> QED BY <1>5, <2>1, <2>2, <2>3, <2>4, <2>5, <2>6, <2>7 DEF Prompt
  <1>6. ASSUME NEW p \in Prompts \ {q}, Arrive(p) \/ Think(p) \/ StopThinking(p) \/ Fire(p)
        PROVE  Stages(q)'
    BY <1>1, <1>6 DEF Arrive, Think, StopThinking, Fire
  <1> USE DEF Stages, Fresh, Worked, Recorded, Agreed, Beating
  <1>7. CASE Arrive(q) BY <1>7 DEF Arrive
  <1>8. CASE Think(q) \/ StopThinking(q) \/ Fire(q) BY <1>8 DEF Think, StopThinking, Fire
  <1>9. CASE Crash BY <1>9 DEF Crash
  <1>10. ASSUME NEW p \in Prompts,
                Arrive(p) \/ Prompt(p) \/ Think(p) \/ StopThinking(p) \/ Fire(p)
         PROVE  Stages(q)'
    <2>1. CASE p = q BY ONLY <1>4, <1>7, <1>8, <1>10, <2>1
    <2>2. CASE p # q BY ONLY <1>5, <1>6, <1>10, <2>2
    <2> QED BY ONLY <2>1, <2>2
  <1> QED BY ONLY <1>2, <1>3, <1>9, <1>10, [Next]_vars DEF Next

LEMMA InvStep == IInv /\ [Next]_vars => IInv'
  BY TypeStep, TurnStep, CancelStep, StagesStep DEF IInv

-----------------------------------------------------------------------------
(* Theorems *)

\* Every variable keeps its type; in particular the map of sessions and the order of eviction
\* name the same sessions, each once, and there are no more of them than the limit
\* (NewSession, CloseSession).
THEOREM TypesAreRespected == Spec => []TypeOK
  <1>1. IInv => TypeOK BY DEF IInv
  <1> QED BY <1>1, InitInv, InvStep, PTL DEF Spec

\* The cancel function of a session is that of the turn that runs for it: no turn of another
\* prompt overwrites or clears it (Agent.turnMu, Prompt).
THEOREM CancelsAreCurrent == Spec => []CancelIsCurrent
  <1>1. IInv => CancelIsCurrent BY DEF IInv
  <1> QED BY <1>1, InitInv, InvStep, PTL DEF Spec

\* When a prompt is answered, its task and its item agree with each other and with the
\* answer, unless a store has failed (finishDirectTask, finishBoardItem, Prompt).
THEOREM AnswersMatchRecords == Spec => []RecordsAgree
  <1>1. IInv => RecordsAgree BY DEF IInv, Stages, Agreed, RecordsAgree
  <1> QED BY <1>1, InitInv, InvStep, PTL DEF Spec

\* No keep-alive update is sent for a prompt that has its answer (keepAliveWG.Wait).
THEOREM AnswersAreLast == Spec => QuietAfterAnswer
  <1>1. IInv /\ [Next]_vars =>
          [\A p \in Prompts : thoughts'[p] > thoughts[p] => answer[p] = "none"]_vars
    <2> SUFFICES ASSUME IInv, Next, NEW p \in Prompts, thoughts'[p] > thoughts[p]
                 PROVE  answer[p] = "none"
      OBVIOUS
    <2> USE DEF IInv, TypeOK
    <2>1. thoughts[p] \in Nat BY AcpAssumption
    <2>2. ASSUME NEW q \in Prompts, Think(q) PROVE answer[p] = "none"
      <3>1. p = q BY <2>1, <2>2 DEF Think
      <3>2. pc[p] \in {"working", "ending"} BY <2>2, <3>1 DEF Think, Stages, Beating
      <3> QED BY <3>2 DEF Stages, Worked
    <2>3. ASSUME NEW q \in Prompts, ClearCancel(q) PROVE FALSE BY <2>1, <2>3 DEF ClearCancel
    <2>4. CASE Crash BY <2>1, <2>4 DEF Crash
    <2>5. CASE UNCHANGED thoughts BY <2>1, <2>5
    <2> QED BY <2>2, <2>3, <2>4, <2>5 DEF Next, Prompt, NewSession, Cancel, CloseSession, Arrive,
      StopThinking, Fire, Lock, SetCancel, CheckSchedule, StartDirectTask, EndWork, Join,
      FinishDirectTask, FinishBoardItem, Decide, Unlock, turnState
  <1> QED BY <1>1, InitInv, InvStep, PTL DEF Spec, QuietAfterAnswer
=============================================================================
