------------------------- MODULE MissionThreadsProofs -------------------------
(***************************************************************************)
(* Proofs about the life of a thread's row and checkpoints, for any number *)
(* of requests, workers and failures and any bound on the child ids.       *)
(*                                                                         *)
(* The argument: a purge holds the row's lock from its claim to its commit *)
(* (LockInv), so while it deletes nothing but a run that began under the   *)
(* row before can add a checkpoint, and the members it has still to visit  *)
(* cover whatever checkpoints are left (DeleteInv). A child that a replan  *)
(* is about to run on is within the count of the row it began under        *)
(* (ChildInv), so what it writes stays within reach of the next purge.     *)
(***************************************************************************)
EXTENDS MissionThreads, TLAPS

LockInv ==
    /\ \A w \in Workers : pc[w] = "delete" <=> rowLock = w
    /\ \A a \in Acks : rowLock = a => pc[a] \in {"read", "resume", "sign"}
    /\ rowLock # None => row # None

CountInv ==
    /\ PurgedOnce
    /\ \A q \in Requests : began[q] <= planned

\* The child of a replan whose row is still the one it began under.
ChildInv ==
    \A r \in Replans :
        pc[r] = "run" /\ row # None /\ began[r] = planned =>
            /\ child[r] \notin ownRows
            /\ ~overtaken => child[r] <= row.replan_count

DeleteInv ==
    \A w \in Workers :
        pc[w] = "delete" /\ ~late /\ ~overtaken => store \ ownRows \subseteq todo[w]

IInv ==
    /\ TypeOK
    /\ LockInv
    /\ CountInv
    /\ ChildInv
    /\ DeleteInv
    /\ NoOrphanedCheckpoint
    /\ SignedThreadIsThere
    /\ OwnThreadsUntouched

\* A row's fields, and what an assignment to one of them leaves of the row.
LEMMA RowFields ==
    ASSUME TypeOK, row # None
    PROVE  /\ row.replan_count \in Family
           /\ \A n \in Family :
                  LET new == [row EXCEPT !.replan_count = n]
                  IN  new \in Rows /\ new # None /\ new.replan_count = n
           /\ LET new == [row EXCEPT !.expired = TRUE]
              IN  new \in Rows /\ new # None /\ new.replan_count = row.replan_count
<1>1. row \in Rows
  BY DEF TypeOK
<1>2. /\ row.replan_count \in Family
      /\ \A n \in Family : [row EXCEPT !.replan_count = n] \in Rows
      /\ \A n \in Family : [row EXCEPT !.replan_count = n].replan_count = n
      /\ [row EXCEPT !.expired = TRUE] \in Rows
      /\ [row EXCEPT !.expired = TRUE].replan_count = row.replan_count
  BY <1>1 DEF Rows
<1> QED
  BY <1>2, NoneIsNoRow

\* The row that record_thread inserts.
LEMMA NewRow ==
    LET new == [replan_count |-> 0, expired |-> FALSE]
    IN  new \in Rows /\ new # None /\ new.replan_count = 0
<1>1. [replan_count |-> 0, expired |-> FALSE] \in Rows
  BY ThreadsAssumption DEF Rows, Family
<1> QED
  BY <1>1, NoneIsNoRow

LEMMA InitIInv == Init => IInv
<1> SUFFICES ASSUME Init PROVE IInv
  OBVIOUS
<1> USE ThreadsAssumption, NoneIsNoRow DEF Init
<1>1. TypeOK
  <2>1. store \subseteq Family /\ ownRows \subseteq OwnThreads
    BY DEF Family, Children
  <2>2. child \in [Replans -> Family]
    BY DEF Family
  <2>3. pc \in [Processes -> PCs]
    BY DEF PCs
  <2>4. failures \in 0 .. MaxFailures
    OBVIOUS
  <2> QED
    BY <2>1, <2>2, <2>3, <2>4 DEF TypeOK
<1>2. LockInv /\ CountInv /\ ChildInv /\ DeleteInv
  BY DEF LockInv, CountInv, PurgedOnce, ChildInv, DeleteInv, Processes, Requests
<1>3. NoOrphanedCheckpoint /\ SignedThreadIsThere /\ OwnThreadsUntouched
  BY DEF NoOrphanedCheckpoint, SignedThreadIsThere, OwnThreadsUntouched
<1> QED
  BY <1>1, <1>2, <1>3 DEF IInv

LEMMA TypeStep == TypeOK /\ [Next]_vars => TypeOK'
<1> SUFFICES ASSUME TypeOK, [Next]_vars PROVE TypeOK'
  OBVIOUS
<1> USE ThreadsAssumption, NoneIsNoRow DEF TypeOK, Rows, Family, Children, Processes, Requests, PCs
<1>1. ASSUME NEW p \in Plans, PlanRecord(p) PROVE TypeOK'
  BY <1>1 DEF PlanRecord, Goto, Begin
<1>2. ASSUME NEW p \in Plans, PlanRun(p) PROVE TypeOK'
  BY <1>2, RowFields DEF PlanRun, Goto, WriteCheckpoints, RowGone
<1>3. ASSUME NEW a \in Acks, AckLock(a) PROVE TypeOK'
  BY <1>3 DEF AckLock, Goto, Begin
<1>4. ASSUME NEW a \in Acks, AckRefuse(a) PROVE TypeOK'
  BY <1>4 DEF AckRefuse, Goto
<1>5. ASSUME NEW a \in Acks, AckAccept(a) PROVE TypeOK'
  BY <1>5 DEF AckAccept, Goto
<1>6. ASSUME NEW a \in Acks, AckResume(a) PROVE TypeOK'
  BY <1>6, RowFields DEF AckResume, Goto, WriteCheckpoints, RowGone
<1>7. ASSUME NEW a \in Acks, AckSign(a) PROVE TypeOK'
  BY <1>7 DEF AckSign, Goto
<1>8. ASSUME NEW r \in Replans, ReplanRead(r) PROVE TypeOK'
  BY <1>8 DEF ReplanRead, Goto, Begin
<1>9. ASSUME NEW r \in Replans, ReplanReserve(r) PROVE TypeOK'
  BY <1>9 DEF ReplanReserve, Goto
<1>10. ASSUME NEW r \in Replans, ReplanUpdate(r) PROVE TypeOK'
  BY <1>10, RowFields DEF ReplanUpdate, Goto
<1>11. ASSUME NEW r \in Replans, ReplanRun(r) PROVE TypeOK'
  BY <1>11, RowFields DEF ReplanRun, Goto, WriteCheckpoints, RowGone
<1>12. ASSUME NEW w \in Workers, PurgeList(w) PROVE TypeOK'
  BY <1>12 DEF PurgeList, Goto
<1>13. ASSUME NEW w \in Workers, PurgeClaim(w) PROVE TypeOK'
  <2>1. todo' \in [Workers -> SUBSET Family]
    BY <1>13, RowFields DEF PurgeClaim
  <2>2. pc' \in [Processes -> PCs]
    BY <1>13 DEF PurgeClaim, Goto
  <2>3. rowLock' \in Acks \cup Workers \cup {None}
    BY <1>13 DEF PurgeClaim
  <2> QED
    BY <1>13, <2>1, <2>2, <2>3 DEF PurgeClaim
<1>14. ASSUME NEW w \in Workers, PurgeDelete(w) PROVE TypeOK'
  BY <1>14 DEF PurgeDelete, Spared
<1>15. ASSUME NEW w \in Workers, PurgeCommit(w) PROVE TypeOK'
  BY <1>15 DEF PurgeCommit, Goto
<1>16. ASSUME NEW w \in Workers, PurgeFail(w) PROVE TypeOK'
  BY <1>16 DEF PurgeFail, Goto
<1>17. ASSUME NEW n \in OwnThreads, OwnThreadPurged(n) PROVE TypeOK'
  BY <1>17 DEF OwnThreadPurged
<1>18. ASSUME NEW p \in Plans, PlanInsert(p) PROVE TypeOK'
  <2>1. row' \in Rows \cup {None} /\ planned' \in Nat /\ began' \in [Requests -> Nat]
    <3>1. CASE row = None
      <4>1. /\ row' = [replan_count |-> 0, expired |-> FALSE]
            /\ planned' = planned + 1 /\ began' = [began EXCEPT ![p] = planned + 1]
        BY <1>18, <3>1 DEF PlanInsert, Begin
      <4>2. row' \in Rows
        BY <4>1, NewRow
      <4> QED
        BY <4>1, <4>2
    <3>2. CASE row # None
      BY <1>18, <3>2 DEF PlanInsert
    <3> QED
      BY <3>1, <3>2
  <2>2. pc' \in [Processes -> PCs]
    BY <1>18 DEF PlanInsert, Goto
  <2> QED
    BY <1>18, <2>1, <2>2 DEF PlanInsert
<1>19. CASE Expire
  BY <1>19, RowFields DEF Expire
<1>20. CASE UNCHANGED vars
  BY <1>20 DEF vars
<1> QED
  BY <1>1, <1>2, <1>3, <1>4, <1>5, <1>6, <1>7, <1>8, <1>9, <1>10, <1>11, <1>12, <1>13, <1>14, <1>15, <1>16, <1>17, <1>18, <1>19, <1>20 DEF Next, AckStep, ReplanStep, PurgeStep, Terminated

LEMMA LockStep == TypeOK /\ LockInv /\ [Next]_vars => LockInv'
<1> SUFFICES ASSUME TypeOK, LockInv, [Next]_vars PROVE LockInv'
  OBVIOUS
<1> USE ThreadsAssumption, NoneIsNoRow DEF TypeOK, Processes, Requests
<1>1. ASSUME NEW p \in Plans, PlanRecord(p) PROVE LockInv'
  BY <1>1, NewRow DEF PlanRecord, Goto, Begin, LockInv
<1>2. ASSUME NEW p \in Plans, PlanRun(p) PROVE LockInv'
  BY <1>2, RowFields DEF PlanRun, Goto, WriteCheckpoints, RowGone, LockInv
<1>3. ASSUME NEW a \in Acks, AckLock(a) PROVE LockInv'
  BY <1>3 DEF AckLock, Goto, Begin, LockInv
<1>4. ASSUME NEW a \in Acks, AckRefuse(a) PROVE LockInv'
  BY <1>4 DEF AckRefuse, Goto, LockInv
<1>5. ASSUME NEW a \in Acks, AckAccept(a) PROVE LockInv'
  BY <1>5 DEF AckAccept, Goto, LockInv
<1>6. ASSUME NEW a \in Acks, AckResume(a) PROVE LockInv'
  BY <1>6, RowFields DEF AckResume, Goto, WriteCheckpoints, RowGone, LockInv
<1>7. ASSUME NEW a \in Acks, AckSign(a) PROVE LockInv'
  BY <1>7 DEF AckSign, Goto, LockInv
<1>8. ASSUME NEW r \in Replans, ReplanRead(r) PROVE LockInv'
  BY <1>8 DEF ReplanRead, Goto, Begin, LockInv
<1>9. ASSUME NEW r \in Replans, ReplanReserve(r) PROVE LockInv'
  BY <1>9 DEF ReplanReserve, Goto, LockInv
<1>10. ASSUME NEW r \in Replans, ReplanUpdate(r) PROVE LockInv'
  BY <1>10, RowFields DEF ReplanUpdate, Goto, LockInv
<1>11. ASSUME NEW r \in Replans, ReplanRun(r) PROVE LockInv'
  BY <1>11, RowFields DEF ReplanRun, Goto, WriteCheckpoints, RowGone, LockInv
<1>12. ASSUME NEW w \in Workers, PurgeList(w) PROVE LockInv'
  BY <1>12 DEF PurgeList, Goto, LockInv
<1>13. ASSUME NEW w \in Workers, PurgeClaim(w) PROVE LockInv'
  BY <1>13, RowFields DEF PurgeClaim, Goto, LockInv
<1>14. ASSUME NEW w \in Workers, PurgeDelete(w) PROVE LockInv'
  BY <1>14 DEF PurgeDelete, Spared, LockInv
<1>15. ASSUME NEW w \in Workers, PurgeCommit(w) PROVE LockInv'
  BY <1>15 DEF PurgeCommit, Goto, LockInv
<1>16. ASSUME NEW w \in Workers, PurgeFail(w) PROVE LockInv'
  BY <1>16 DEF PurgeFail, Goto, LockInv
<1>17. ASSUME NEW n \in OwnThreads, OwnThreadPurged(n) PROVE LockInv'
  BY <1>17 DEF OwnThreadPurged, LockInv
<1>18. ASSUME NEW p \in Plans, PlanInsert(p) PROVE LockInv'
  BY <1>18, NewRow DEF PlanInsert, Goto, Begin, LockInv
<1>19. CASE Expire
  BY <1>19, RowFields DEF Expire, LockInv
<1>20. CASE UNCHANGED vars
  BY <1>20 DEF vars, LockInv
<1> QED
  BY <1>1, <1>2, <1>3, <1>4, <1>5, <1>6, <1>7, <1>8, <1>9, <1>10, <1>11, <1>12, <1>13, <1>14, <1>15, <1>16, <1>17, <1>18, <1>19, <1>20 DEF Next, AckStep, ReplanStep, PurgeStep, Terminated

LEMMA CountStep == TypeOK /\ LockInv /\ CountInv /\ [Next]_vars => CountInv'
<1> SUFFICES ASSUME TypeOK, LockInv, CountInv, [Next]_vars PROVE CountInv'
  OBVIOUS
<1> USE ThreadsAssumption, NoneIsNoRow DEF TypeOK, Processes, Requests
<1>1. ASSUME NEW p \in Plans, PlanRecord(p) PROVE CountInv'
  BY <1>1, NewRow DEF PlanRecord, Goto, Begin, LockInv, CountInv, PurgedOnce
<1>2. ASSUME NEW p \in Plans, PlanRun(p) PROVE CountInv'
  BY <1>2, RowFields DEF PlanRun, Goto, WriteCheckpoints, RowGone, LockInv, CountInv, PurgedOnce
<1>3. ASSUME NEW a \in Acks, AckLock(a) PROVE CountInv'
  BY <1>3 DEF AckLock, Goto, Begin, LockInv, CountInv, PurgedOnce
<1>4. ASSUME NEW a \in Acks, AckRefuse(a) PROVE CountInv'
  BY <1>4 DEF AckRefuse, Goto, LockInv, CountInv, PurgedOnce
<1>5. ASSUME NEW a \in Acks, AckAccept(a) PROVE CountInv'
  BY <1>5 DEF AckAccept, Goto, LockInv, CountInv, PurgedOnce
<1>6. ASSUME NEW a \in Acks, AckResume(a) PROVE CountInv'
  BY <1>6, RowFields DEF AckResume, Goto, WriteCheckpoints, RowGone, LockInv, CountInv, PurgedOnce
<1>7. ASSUME NEW a \in Acks, AckSign(a) PROVE CountInv'
  BY <1>7 DEF AckSign, Goto, LockInv, CountInv, PurgedOnce
<1>8. ASSUME NEW r \in Replans, ReplanRead(r) PROVE CountInv'
  BY <1>8 DEF ReplanRead, Goto, Begin, LockInv, CountInv, PurgedOnce
<1>9. ASSUME NEW r \in Replans, ReplanReserve(r) PROVE CountInv'
  BY <1>9 DEF ReplanReserve, Goto, LockInv, CountInv, PurgedOnce
<1>10. ASSUME NEW r \in Replans, ReplanUpdate(r) PROVE CountInv'
  <2>1. (row' = None <=> row = None) /\ planned' = planned /\ purged' = purged /\ began' = began
    BY <1>10, RowFields DEF ReplanUpdate, Family, Children
  <2> QED
    BY <2>1 DEF CountInv, PurgedOnce
<1>11. ASSUME NEW r \in Replans, ReplanRun(r) PROVE CountInv'
  BY <1>11, RowFields DEF ReplanRun, Goto, WriteCheckpoints, RowGone, LockInv, CountInv, PurgedOnce
<1>12. ASSUME NEW w \in Workers, PurgeList(w) PROVE CountInv'
  BY <1>12 DEF PurgeList, Goto, LockInv, CountInv, PurgedOnce
<1>13. ASSUME NEW w \in Workers, PurgeClaim(w) PROVE CountInv'
  BY <1>13, RowFields DEF PurgeClaim, Goto, LockInv, CountInv, PurgedOnce
<1>14. ASSUME NEW w \in Workers, PurgeDelete(w) PROVE CountInv'
  BY <1>14 DEF PurgeDelete, Spared, LockInv, CountInv, PurgedOnce
<1>15. ASSUME NEW w \in Workers, PurgeCommit(w) PROVE CountInv'
  BY <1>15 DEF PurgeCommit, Goto, LockInv, CountInv, PurgedOnce
<1>16. ASSUME NEW w \in Workers, PurgeFail(w) PROVE CountInv'
  BY <1>16 DEF PurgeFail, Goto, LockInv, CountInv, PurgedOnce
<1>17. ASSUME NEW n \in OwnThreads, OwnThreadPurged(n) PROVE CountInv'
  BY <1>17 DEF OwnThreadPurged, LockInv, CountInv, PurgedOnce
<1>18. ASSUME NEW p \in Plans, PlanInsert(p) PROVE CountInv'
  BY <1>18, NewRow DEF PlanInsert, Goto, Begin, LockInv, CountInv, PurgedOnce
<1>19. CASE Expire
  BY <1>19, RowFields DEF Expire, LockInv, CountInv, PurgedOnce
<1>20. CASE UNCHANGED vars
  BY <1>20 DEF vars, LockInv, CountInv, PurgedOnce
<1> QED
  BY <1>1, <1>2, <1>3, <1>4, <1>5, <1>6, <1>7, <1>8, <1>9, <1>10, <1>11, <1>12, <1>13, <1>14, <1>15, <1>16, <1>17, <1>18, <1>19, <1>20 DEF Next, AckStep, ReplanStep, PurgeStep, Terminated

LEMMA ChildStep == TypeOK /\ CountInv /\ LockInv /\ ChildInv /\ [Next]_vars => ChildInv'
<1> SUFFICES ASSUME TypeOK, CountInv, LockInv, ChildInv, [Next]_vars PROVE ChildInv'
  OBVIOUS
<1> USE ThreadsAssumption, NoneIsNoRow DEF TypeOK, Processes, Requests, Rows, Family, Children
<1>1. ASSUME NEW p \in Plans, PlanRecord(p) PROVE ChildInv'
  BY <1>1, NewRow DEF PlanRecord, Goto, Begin, CountInv, LockInv, ChildInv, NextChild
<1>2. ASSUME NEW p \in Plans, PlanRun(p) PROVE ChildInv'
  BY <1>2, RowFields DEF PlanRun, Goto, WriteCheckpoints, RowGone, CountInv, LockInv, ChildInv, NextChild
<1>3. ASSUME NEW a \in Acks, AckLock(a) PROVE ChildInv'
  BY <1>3 DEF AckLock, Goto, Begin, CountInv, LockInv, ChildInv, NextChild
<1>4. ASSUME NEW a \in Acks, AckRefuse(a) PROVE ChildInv'
  BY <1>4 DEF AckRefuse, Goto, CountInv, LockInv, ChildInv, NextChild
<1>5. ASSUME NEW a \in Acks, AckAccept(a) PROVE ChildInv'
  BY <1>5 DEF AckAccept, Goto, CountInv, LockInv, ChildInv, NextChild
<1>6. ASSUME NEW a \in Acks, AckResume(a) PROVE ChildInv'
  BY <1>6, RowFields DEF AckResume, Goto, WriteCheckpoints, RowGone, CountInv, LockInv, ChildInv, NextChild
<1>7. ASSUME NEW a \in Acks, AckSign(a) PROVE ChildInv'
  BY <1>7 DEF AckSign, Goto, CountInv, LockInv, ChildInv, NextChild
<1>8. ASSUME NEW r \in Replans, ReplanRead(r) PROVE ChildInv'
  BY <1>8 DEF ReplanRead, Goto, Begin, CountInv, LockInv, ChildInv, NextChild
<1>9. ASSUME NEW r \in Replans, ReplanReserve(r) PROVE ChildInv'
  BY <1>9 DEF ReplanReserve, Goto, CountInv, LockInv, ChildInv, NextChild
<1>10. ASSUME NEW r \in Replans, ReplanUpdate(r) PROVE ChildInv'
  BY <1>10, RowFields DEF ReplanUpdate, Goto, CountInv, LockInv, ChildInv, NextChild
<1>11. ASSUME NEW r \in Replans, ReplanRun(r) PROVE ChildInv'
  BY <1>11, RowFields DEF ReplanRun, Goto, WriteCheckpoints, RowGone, CountInv, LockInv, ChildInv, NextChild
<1>12. ASSUME NEW w \in Workers, PurgeList(w) PROVE ChildInv'
  BY <1>12 DEF PurgeList, Goto, CountInv, LockInv, ChildInv, NextChild
<1>13. ASSUME NEW w \in Workers, PurgeClaim(w) PROVE ChildInv'
  BY <1>13, RowFields DEF PurgeClaim, Goto, CountInv, LockInv, ChildInv, NextChild
<1>14. ASSUME NEW w \in Workers, PurgeDelete(w) PROVE ChildInv'
  BY <1>14 DEF PurgeDelete, Spared, CountInv, LockInv, ChildInv, NextChild
<1>15. ASSUME NEW w \in Workers, PurgeCommit(w) PROVE ChildInv'
  BY <1>15 DEF PurgeCommit, Goto, CountInv, LockInv, ChildInv, NextChild
<1>16. ASSUME NEW w \in Workers, PurgeFail(w) PROVE ChildInv'
  BY <1>16 DEF PurgeFail, Goto, CountInv, LockInv, ChildInv, NextChild
<1>17. ASSUME NEW n \in OwnThreads, OwnThreadPurged(n) PROVE ChildInv'
  BY <1>17 DEF OwnThreadPurged, CountInv, LockInv, ChildInv, NextChild
<1>18. ASSUME NEW p \in Plans, PlanInsert(p) PROVE ChildInv'
  BY <1>18, NewRow DEF PlanInsert, Goto, Begin, CountInv, LockInv, ChildInv, NextChild
<1>19. CASE Expire
  BY <1>19, RowFields DEF Expire, CountInv, LockInv, ChildInv, NextChild
<1>20. CASE UNCHANGED vars
  BY <1>20 DEF vars, CountInv, LockInv, ChildInv, NextChild
<1> QED
  BY <1>1, <1>2, <1>3, <1>4, <1>5, <1>6, <1>7, <1>8, <1>9, <1>10, <1>11, <1>12, <1>13, <1>14, <1>15, <1>16, <1>17, <1>18, <1>19, <1>20 DEF Next, AckStep, ReplanStep, PurgeStep, Terminated

LEMMA DeleteStep == TypeOK /\ LockInv /\ NoOrphanedCheckpoint /\ DeleteInv /\ [Next]_vars => DeleteInv'
<1> SUFFICES ASSUME TypeOK, LockInv, NoOrphanedCheckpoint, DeleteInv, [Next]_vars PROVE DeleteInv'
  OBVIOUS
<1> USE ThreadsAssumption, NoneIsNoRow DEF TypeOK, Processes, Requests, Rows, Family
<1>1. ASSUME NEW p \in Plans, PlanRecord(p) PROVE DeleteInv'
  BY <1>1, NewRow DEF PlanRecord, Goto, Begin, LockInv, DeleteInv, NoOrphanedCheckpoint
<1>2. ASSUME NEW p \in Plans, PlanRun(p) PROVE DeleteInv'
  BY <1>2, RowFields DEF PlanRun, Goto, WriteCheckpoints, RowGone, LockInv, DeleteInv, NoOrphanedCheckpoint
<1>3. ASSUME NEW a \in Acks, AckLock(a) PROVE DeleteInv'
  BY <1>3 DEF AckLock, Goto, Begin, LockInv, DeleteInv, NoOrphanedCheckpoint
<1>4. ASSUME NEW a \in Acks, AckRefuse(a) PROVE DeleteInv'
  BY <1>4 DEF AckRefuse, Goto, LockInv, DeleteInv, NoOrphanedCheckpoint
<1>5. ASSUME NEW a \in Acks, AckAccept(a) PROVE DeleteInv'
  BY <1>5 DEF AckAccept, Goto, LockInv, DeleteInv, NoOrphanedCheckpoint
<1>6. ASSUME NEW a \in Acks, AckResume(a) PROVE DeleteInv'
  BY <1>6, RowFields DEF AckResume, Goto, WriteCheckpoints, RowGone, LockInv, DeleteInv, NoOrphanedCheckpoint
<1>7. ASSUME NEW a \in Acks, AckSign(a) PROVE DeleteInv'
  BY <1>7 DEF AckSign, Goto, LockInv, DeleteInv, NoOrphanedCheckpoint
<1>8. ASSUME NEW r \in Replans, ReplanRead(r) PROVE DeleteInv'
  BY <1>8 DEF ReplanRead, Goto, Begin, LockInv, DeleteInv, NoOrphanedCheckpoint
<1>9. ASSUME NEW r \in Replans, ReplanReserve(r) PROVE DeleteInv'
  BY <1>9 DEF ReplanReserve, Goto, LockInv, DeleteInv, NoOrphanedCheckpoint
<1>10. ASSUME NEW r \in Replans, ReplanUpdate(r) PROVE DeleteInv'
  BY <1>10, RowFields DEF ReplanUpdate, Goto, LockInv, DeleteInv, NoOrphanedCheckpoint
<1>11. ASSUME NEW r \in Replans, ReplanRun(r) PROVE DeleteInv'
  BY <1>11, RowFields DEF ReplanRun, Goto, WriteCheckpoints, RowGone, LockInv, DeleteInv, NoOrphanedCheckpoint
<1>12. ASSUME NEW w \in Workers, PurgeList(w) PROVE DeleteInv'
  BY <1>12 DEF PurgeList, Goto, LockInv, DeleteInv, NoOrphanedCheckpoint
<1>13. ASSUME NEW w \in Workers, PurgeClaim(w) PROVE DeleteInv'
  BY <1>13, RowFields DEF PurgeClaim, Goto, LockInv, DeleteInv, NoOrphanedCheckpoint
<1>14. ASSUME NEW w \in Workers, PurgeDelete(w) PROVE DeleteInv'
  BY <1>14 DEF PurgeDelete, Spared, LockInv, DeleteInv, NoOrphanedCheckpoint
<1>15. ASSUME NEW w \in Workers, PurgeCommit(w) PROVE DeleteInv'
  BY <1>15 DEF PurgeCommit, Goto, LockInv, DeleteInv, NoOrphanedCheckpoint
<1>16. ASSUME NEW w \in Workers, PurgeFail(w) PROVE DeleteInv'
  BY <1>16 DEF PurgeFail, Goto, LockInv, DeleteInv, NoOrphanedCheckpoint
<1>17. ASSUME NEW n \in OwnThreads, OwnThreadPurged(n) PROVE DeleteInv'
  BY <1>17 DEF OwnThreadPurged, LockInv, DeleteInv, NoOrphanedCheckpoint
<1>18. ASSUME NEW p \in Plans, PlanInsert(p) PROVE DeleteInv'
  BY <1>18, NewRow DEF PlanInsert, Goto, Begin, LockInv, DeleteInv, NoOrphanedCheckpoint
<1>19. CASE Expire
  BY <1>19, RowFields DEF Expire, LockInv, DeleteInv, NoOrphanedCheckpoint
<1>20. CASE UNCHANGED vars
  BY <1>20 DEF vars, LockInv, DeleteInv, NoOrphanedCheckpoint
<1> QED
  BY <1>1, <1>2, <1>3, <1>4, <1>5, <1>6, <1>7, <1>8, <1>9, <1>10, <1>11, <1>12, <1>13, <1>14, <1>15, <1>16, <1>17, <1>18, <1>19, <1>20 DEF Next, AckStep, ReplanStep, PurgeStep, Terminated

LEMMA ReachStep == TypeOK /\ LockInv /\ ChildInv /\ DeleteInv /\ NoOrphanedCheckpoint /\ [Next]_vars => NoOrphanedCheckpoint'
<1> SUFFICES ASSUME TypeOK, LockInv, ChildInv, DeleteInv, NoOrphanedCheckpoint, [Next]_vars PROVE NoOrphanedCheckpoint'
  OBVIOUS
<1> USE ThreadsAssumption, NoneIsNoRow DEF TypeOK, Processes, Requests, Rows, Family, Children
<1>1. ASSUME NEW p \in Plans, PlanRecord(p) PROVE NoOrphanedCheckpoint'
  BY <1>1, NewRow DEF PlanRecord, Goto, Begin, LockInv, ChildInv, DeleteInv, NoOrphanedCheckpoint, NextChild
<1>2. ASSUME NEW p \in Plans, PlanRun(p) PROVE NoOrphanedCheckpoint'
  <2> SUFFICES ASSUME ~late', ~overtaken', NEW member \in store' \ ownRows'
               PROVE  row' # None /\ member <= row'.replan_count
    BY DEF NoOrphanedCheckpoint
  <2>1. /\ row' = row /\ row # None /\ began[p] = planned /\ pc[p] = "run"
        /\ ~late /\ ~overtaken /\ ownRows' = ownRows /\ store' = store \cup {0}
    BY <1>2 DEF PlanRun, WriteCheckpoints, RowGone
  <2>2. CASE member \in store
    BY <2>1, <2>2 DEF NoOrphanedCheckpoint
  <2>3. CASE member = 0
    BY <2>1, <2>3, RowFields DEF Family
  <2> QED
    BY <2>1, <2>2, <2>3
<1>3. ASSUME NEW a \in Acks, AckLock(a) PROVE NoOrphanedCheckpoint'
  BY <1>3 DEF AckLock, Goto, Begin, LockInv, ChildInv, DeleteInv, NoOrphanedCheckpoint, NextChild
<1>4. ASSUME NEW a \in Acks, AckRefuse(a) PROVE NoOrphanedCheckpoint'
  BY <1>4 DEF AckRefuse, Goto, LockInv, ChildInv, DeleteInv, NoOrphanedCheckpoint, NextChild
<1>5. ASSUME NEW a \in Acks, AckAccept(a) PROVE NoOrphanedCheckpoint'
  BY <1>5 DEF AckAccept, Goto, LockInv, ChildInv, DeleteInv, NoOrphanedCheckpoint, NextChild
<1>6. ASSUME NEW a \in Acks, AckResume(a) PROVE NoOrphanedCheckpoint'
  <2> SUFFICES ASSUME ~late', ~overtaken', NEW member \in store' \ ownRows'
               PROVE  row' # None /\ member <= row'.replan_count
    BY DEF NoOrphanedCheckpoint
  <2>1. /\ row' = row /\ row # None /\ began[a] = planned /\ pc[a] = "resume"
        /\ ~late /\ ~overtaken /\ ownRows' = ownRows /\ store' = store \cup {0}
    BY <1>6 DEF AckResume, WriteCheckpoints, RowGone
  <2>2. CASE member \in store
    BY <2>1, <2>2 DEF NoOrphanedCheckpoint
  <2>3. CASE member = 0
    BY <2>1, <2>3, RowFields DEF Family
  <2> QED
    BY <2>1, <2>2, <2>3
<1>7. ASSUME NEW a \in Acks, AckSign(a) PROVE NoOrphanedCheckpoint'
  BY <1>7 DEF AckSign, Goto, LockInv, ChildInv, DeleteInv, NoOrphanedCheckpoint, NextChild
<1>8. ASSUME NEW r \in Replans, ReplanRead(r) PROVE NoOrphanedCheckpoint'
  BY <1>8 DEF ReplanRead, Goto, Begin, LockInv, ChildInv, DeleteInv, NoOrphanedCheckpoint, NextChild
<1>9. ASSUME NEW r \in Replans, ReplanReserve(r) PROVE NoOrphanedCheckpoint'
  BY <1>9 DEF ReplanReserve, Goto, LockInv, ChildInv, DeleteInv, NoOrphanedCheckpoint, NextChild
<1>10. ASSUME NEW r \in Replans, ReplanUpdate(r) PROVE NoOrphanedCheckpoint'
  BY <1>10, RowFields DEF ReplanUpdate, Goto, LockInv, ChildInv, DeleteInv, NoOrphanedCheckpoint, NextChild
<1>11. ASSUME NEW r \in Replans, ReplanRun(r) PROVE NoOrphanedCheckpoint'
  <2> SUFFICES ASSUME ~late', ~overtaken', NEW member \in store' \ ownRows'
               PROVE  row' # None /\ member <= row'.replan_count
    BY DEF NoOrphanedCheckpoint
  <2>1. /\ row' = row /\ row # None /\ began[r] = planned /\ pc[r] = "run"
        /\ ~late /\ ~overtaken /\ ownRows' = ownRows /\ store' = store \cup {child[r]}
    BY <1>11 DEF ReplanRun, WriteCheckpoints, RowGone
  <2>2. CASE member \in store
    BY <2>1, <2>2 DEF NoOrphanedCheckpoint
  <2>3. CASE member = child[r]
    BY <2>1, <2>3, RowFields DEF Family, ChildInv
  <2> QED
    BY <2>1, <2>2, <2>3
<1>12. ASSUME NEW w \in Workers, PurgeList(w) PROVE NoOrphanedCheckpoint'
  BY <1>12 DEF PurgeList, Goto, LockInv, ChildInv, DeleteInv, NoOrphanedCheckpoint, NextChild
<1>13. ASSUME NEW w \in Workers, PurgeClaim(w) PROVE NoOrphanedCheckpoint'
  BY <1>13, RowFields DEF PurgeClaim, Goto, LockInv, ChildInv, DeleteInv, NoOrphanedCheckpoint, NextChild
<1>14. ASSUME NEW w \in Workers, PurgeDelete(w) PROVE NoOrphanedCheckpoint'
  BY <1>14 DEF PurgeDelete, Spared, LockInv, ChildInv, DeleteInv, NoOrphanedCheckpoint, NextChild
<1>15. ASSUME NEW w \in Workers, PurgeCommit(w) PROVE NoOrphanedCheckpoint'
  BY <1>15 DEF PurgeCommit, Goto, LockInv, ChildInv, DeleteInv, NoOrphanedCheckpoint, NextChild
<1>16. ASSUME NEW w \in Workers, PurgeFail(w) PROVE NoOrphanedCheckpoint'
  BY <1>16 DEF PurgeFail, Goto, LockInv, ChildInv, DeleteInv, NoOrphanedCheckpoint, NextChild
<1>17. ASSUME NEW n \in OwnThreads, OwnThreadPurged(n) PROVE NoOrphanedCheckpoint'
  BY <1>17 DEF OwnThreadPurged, LockInv, ChildInv, DeleteInv, NoOrphanedCheckpoint, NextChild
<1>18. ASSUME NEW p \in Plans, PlanInsert(p) PROVE NoOrphanedCheckpoint'
  BY <1>18, NewRow DEF PlanInsert, Goto, Begin, LockInv, ChildInv, DeleteInv, NoOrphanedCheckpoint, NextChild
<1>19. CASE Expire
  BY <1>19, RowFields DEF Expire, LockInv, ChildInv, DeleteInv, NoOrphanedCheckpoint, NextChild
<1>20. CASE UNCHANGED vars
  BY <1>20 DEF vars, LockInv, ChildInv, DeleteInv, NoOrphanedCheckpoint, NextChild
<1> QED
  BY <1>1, <1>2, <1>3, <1>4, <1>5, <1>6, <1>7, <1>8, <1>9, <1>10, <1>11, <1>12, <1>13, <1>14, <1>15, <1>16, <1>17, <1>18, <1>19, <1>20 DEF Next, AckStep, ReplanStep, PurgeStep, Terminated

LEMMA SignStep == TypeOK /\ LockInv /\ SignedThreadIsThere /\ [Next]_vars => SignedThreadIsThere'
<1> SUFFICES ASSUME TypeOK, LockInv, SignedThreadIsThere, [Next]_vars PROVE SignedThreadIsThere'
  OBVIOUS
<1> USE ThreadsAssumption, NoneIsNoRow DEF TypeOK, Processes, Requests
<1>1. ASSUME NEW p \in Plans, PlanRecord(p) PROVE SignedThreadIsThere'
  BY <1>1, NewRow DEF PlanRecord, Goto, Begin, LockInv, SignedThreadIsThere
<1>2. ASSUME NEW p \in Plans, PlanRun(p) PROVE SignedThreadIsThere'
  BY <1>2, RowFields DEF PlanRun, Goto, WriteCheckpoints, RowGone, LockInv, SignedThreadIsThere
<1>3. ASSUME NEW a \in Acks, AckLock(a) PROVE SignedThreadIsThere'
  BY <1>3 DEF AckLock, Goto, Begin, LockInv, SignedThreadIsThere
<1>4. ASSUME NEW a \in Acks, AckRefuse(a) PROVE SignedThreadIsThere'
  BY <1>4 DEF AckRefuse, Goto, LockInv, SignedThreadIsThere
<1>5. ASSUME NEW a \in Acks, AckAccept(a) PROVE SignedThreadIsThere'
  BY <1>5 DEF AckAccept, Goto, LockInv, SignedThreadIsThere
<1>6. ASSUME NEW a \in Acks, AckResume(a) PROVE SignedThreadIsThere'
  BY <1>6, RowFields DEF AckResume, Goto, WriteCheckpoints, RowGone, LockInv, SignedThreadIsThere
<1>7. ASSUME NEW a \in Acks, AckSign(a) PROVE SignedThreadIsThere'
  BY <1>7 DEF AckSign, Goto, LockInv, SignedThreadIsThere
<1>8. ASSUME NEW r \in Replans, ReplanRead(r) PROVE SignedThreadIsThere'
  BY <1>8 DEF ReplanRead, Goto, Begin, LockInv, SignedThreadIsThere
<1>9. ASSUME NEW r \in Replans, ReplanReserve(r) PROVE SignedThreadIsThere'
  BY <1>9 DEF ReplanReserve, Goto, LockInv, SignedThreadIsThere
<1>10. ASSUME NEW r \in Replans, ReplanUpdate(r) PROVE SignedThreadIsThere'
  BY <1>10, RowFields DEF ReplanUpdate, Goto, LockInv, SignedThreadIsThere
<1>11. ASSUME NEW r \in Replans, ReplanRun(r) PROVE SignedThreadIsThere'
  BY <1>11, RowFields DEF ReplanRun, Goto, WriteCheckpoints, RowGone, LockInv, SignedThreadIsThere
<1>12. ASSUME NEW w \in Workers, PurgeList(w) PROVE SignedThreadIsThere'
  BY <1>12 DEF PurgeList, Goto, LockInv, SignedThreadIsThere
<1>13. ASSUME NEW w \in Workers, PurgeClaim(w) PROVE SignedThreadIsThere'
  BY <1>13, RowFields DEF PurgeClaim, Goto, LockInv, SignedThreadIsThere
<1>14. ASSUME NEW w \in Workers, PurgeDelete(w) PROVE SignedThreadIsThere'
  BY <1>14 DEF PurgeDelete, Spared, LockInv, SignedThreadIsThere
<1>15. ASSUME NEW w \in Workers, PurgeCommit(w) PROVE SignedThreadIsThere'
  BY <1>15 DEF PurgeCommit, Goto, LockInv, SignedThreadIsThere
<1>16. ASSUME NEW w \in Workers, PurgeFail(w) PROVE SignedThreadIsThere'
  BY <1>16 DEF PurgeFail, Goto, LockInv, SignedThreadIsThere
<1>17. ASSUME NEW n \in OwnThreads, OwnThreadPurged(n) PROVE SignedThreadIsThere'
  BY <1>17 DEF OwnThreadPurged, LockInv, SignedThreadIsThere
<1>18. ASSUME NEW p \in Plans, PlanInsert(p) PROVE SignedThreadIsThere'
  BY <1>18, NewRow DEF PlanInsert, Goto, Begin, LockInv, SignedThreadIsThere
<1>19. CASE Expire
  BY <1>19, RowFields DEF Expire, LockInv, SignedThreadIsThere
<1>20. CASE UNCHANGED vars
  BY <1>20 DEF vars, LockInv, SignedThreadIsThere
<1> QED
  BY <1>1, <1>2, <1>3, <1>4, <1>5, <1>6, <1>7, <1>8, <1>9, <1>10, <1>11, <1>12, <1>13, <1>14, <1>15, <1>16, <1>17, <1>18, <1>19, <1>20 DEF Next, AckStep, ReplanStep, PurgeStep, Terminated

LEMMA OwnStep == TypeOK /\ CountInv /\ ChildInv /\ OwnThreadsUntouched /\ [Next]_vars => OwnThreadsUntouched'
<1> SUFFICES ASSUME TypeOK, CountInv, ChildInv, OwnThreadsUntouched, [Next]_vars PROVE OwnThreadsUntouched'
  OBVIOUS
<1> USE ThreadsAssumption, NoneIsNoRow DEF TypeOK, Processes, Requests, Family, Children
<1>1. ASSUME NEW p \in Plans, PlanRecord(p) PROVE OwnThreadsUntouched'
  BY <1>1, NewRow DEF PlanRecord, Goto, Begin, CountInv, ChildInv, OwnThreadsUntouched
<1>2. ASSUME NEW p \in Plans, PlanRun(p) PROVE OwnThreadsUntouched'
  BY <1>2, RowFields DEF PlanRun, Goto, WriteCheckpoints, RowGone, CountInv, ChildInv, OwnThreadsUntouched
<1>3. ASSUME NEW a \in Acks, AckLock(a) PROVE OwnThreadsUntouched'
  BY <1>3 DEF AckLock, Goto, Begin, CountInv, ChildInv, OwnThreadsUntouched
<1>4. ASSUME NEW a \in Acks, AckRefuse(a) PROVE OwnThreadsUntouched'
  BY <1>4 DEF AckRefuse, Goto, CountInv, ChildInv, OwnThreadsUntouched
<1>5. ASSUME NEW a \in Acks, AckAccept(a) PROVE OwnThreadsUntouched'
  BY <1>5 DEF AckAccept, Goto, CountInv, ChildInv, OwnThreadsUntouched
<1>6. ASSUME NEW a \in Acks, AckResume(a) PROVE OwnThreadsUntouched'
  BY <1>6, RowFields DEF AckResume, Goto, WriteCheckpoints, RowGone, CountInv, ChildInv, OwnThreadsUntouched
<1>7. ASSUME NEW a \in Acks, AckSign(a) PROVE OwnThreadsUntouched'
  BY <1>7 DEF AckSign, Goto, CountInv, ChildInv, OwnThreadsUntouched
<1>8. ASSUME NEW r \in Replans, ReplanRead(r) PROVE OwnThreadsUntouched'
  BY <1>8 DEF ReplanRead, Goto, Begin, CountInv, ChildInv, OwnThreadsUntouched
<1>9. ASSUME NEW r \in Replans, ReplanReserve(r) PROVE OwnThreadsUntouched'
  BY <1>9 DEF ReplanReserve, Goto, CountInv, ChildInv, OwnThreadsUntouched
<1>10. ASSUME NEW r \in Replans, ReplanUpdate(r) PROVE OwnThreadsUntouched'
  BY <1>10, RowFields DEF ReplanUpdate, Goto, CountInv, ChildInv, OwnThreadsUntouched
<1>11. ASSUME NEW r \in Replans, ReplanRun(r) PROVE OwnThreadsUntouched'
  BY <1>11, RowFields DEF ReplanRun, Goto, WriteCheckpoints, RowGone, CountInv, ChildInv, OwnThreadsUntouched
<1>12. ASSUME NEW w \in Workers, PurgeList(w) PROVE OwnThreadsUntouched'
  BY <1>12 DEF PurgeList, Goto, CountInv, ChildInv, OwnThreadsUntouched
<1>13. ASSUME NEW w \in Workers, PurgeClaim(w) PROVE OwnThreadsUntouched'
  BY <1>13, RowFields DEF PurgeClaim, Goto, CountInv, ChildInv, OwnThreadsUntouched
<1>14. ASSUME NEW w \in Workers, PurgeDelete(w) PROVE OwnThreadsUntouched'
  BY <1>14 DEF PurgeDelete, Spared, CountInv, ChildInv, OwnThreadsUntouched
<1>15. ASSUME NEW w \in Workers, PurgeCommit(w) PROVE OwnThreadsUntouched'
  BY <1>15 DEF PurgeCommit, Goto, CountInv, ChildInv, OwnThreadsUntouched
<1>16. ASSUME NEW w \in Workers, PurgeFail(w) PROVE OwnThreadsUntouched'
  BY <1>16 DEF PurgeFail, Goto, CountInv, ChildInv, OwnThreadsUntouched
<1>17. ASSUME NEW n \in OwnThreads, OwnThreadPurged(n) PROVE OwnThreadsUntouched'
  BY <1>17 DEF OwnThreadPurged, CountInv, ChildInv, OwnThreadsUntouched
<1>18. ASSUME NEW p \in Plans, PlanInsert(p) PROVE OwnThreadsUntouched'
  BY <1>18, NewRow DEF PlanInsert, Goto, Begin, CountInv, ChildInv, OwnThreadsUntouched
<1>19. CASE Expire
  BY <1>19, RowFields DEF Expire, CountInv, ChildInv, OwnThreadsUntouched
<1>20. CASE UNCHANGED vars
  BY <1>20 DEF vars, CountInv, ChildInv, OwnThreadsUntouched
<1> QED
  BY <1>1, <1>2, <1>3, <1>4, <1>5, <1>6, <1>7, <1>8, <1>9, <1>10, <1>11, <1>12, <1>13, <1>14, <1>15, <1>16, <1>17, <1>18, <1>19, <1>20 DEF Next, AckStep, ReplanStep, PurgeStep, Terminated

LEMMA StepIInv == IInv /\ [Next]_vars => IInv'
BY TypeStep, LockStep, CountStep, ChildStep, DeleteStep, ReachStep, SignStep, OwnStep DEF IInv

\* The conjunction above holds in every reachable state: it is the inductive
\* invariant that the theorems below are read off from.
THEOREM InductiveInvariant == Spec => []IInv
BY InitIInv, StepIInv, PTL DEF Spec

\* Every variable of the row, the checkpoints and the requests keeps its type.
THEOREM TypeCorrect == Spec => []TypeOK
BY InductiveInvariant, PTL DEF IInv

\* _purge_thread, "each thread is purged once however many workers run the pass":
\* every row ever inserted is in the table or was purged, and was purged once.
THEOREM EachRowIsPurgedOnce == Spec => []PurgedOnce
BY InductiveInvariant, PTL DEF IInv, CountInv

\* _purge_thread, a failed pass "retries instead of orphaning a checkpoint": unless
\* a run outlived its row or two reservations overtook each other, every checkpoint
\* of the family is within reach of a purge, at every point of every purge.
THEOREM NothingIsOrphaned == Spec => []NoOrphanedCheckpoint
BY InductiveInvariant, PTL DEF IInv

\* lock_thread_for_update: no purge takes the row or the checkpoints of a thread
\* from under the acknowledgement that holds its lock.
THEOREM SigningIsNotPurged == Spec => []SignedThreadIsThere
BY InductiveInvariant, PTL DEF IInv

\* _has_own_row: neither a replan of the parent nor its purge touches a child id
\* that is a thread of its own, unless a run outlived the row it began under.
THEOREM OwnThreadsAreSafe == Spec => []OwnThreadsUntouched
BY InductiveInvariant, PTL DEF IInv
=============================================================================
