----------------------------- MODULE SpoolProofs -----------------------------
(***************************************************************************)
(* For any set of messages, any spool size and any number of faults: an    *)
(* accepted message is never lost, the spool implements Handoff, and       *)
(* messages are captured in the order they were accepted.                  *)
(***************************************************************************)
EXTENDS Spool, FiniteSetTheorems, TLAPS

(* The state a crash cannot take from a message. *)
Safe(m) == m \in log \/ m \in OnDisk

(* The entry a handler is writing is its own, and once renamed it is in    *)
(* the directory unless the drainer has already moved it to the log.       *)
HandlerInv ==
    \A m \in Messages :
        /\ hpc[m] # "idle" => partner[m] = "sent"
        /\ hpc[m] \in Writing => ent[m] \in Entry /\ ent[m].msg = m
        /\ hpc[m] = "renamed" => ent[m] \in pending \/ m \in log
        /\ hpc[m] \in {"synced", "reply"} => Safe(m)

(* The drainer removes an entry only after its capture. *)
DrainInv ==
    /\ dpc \in {"ingest", "done", "count"} => cur \in Entry
    /\ dpc \in {"done", "count"} => cur.msg \in log

FiniteInv == IsFiniteSet(pending) /\ IsFiniteSet(synced)

IInv == TypeOK /\ FiniteInv /\ HandlerInv /\ DrainInv /\ AcceptedSafe

(* A step that keeps the log and drops no safe entry keeps every message   *)
(* safe that was.                                                          *)
LEMMA SafeMonotone ==
    ASSUME log \subseteq log', \A e \in pending \cap synced : e.msg \in log' \/ e \in pending' \cap synced'
    PROVE  \A m \in Messages : Safe(m) => Safe(m)'
  BY DEF Safe, OnDisk

(* The initial states, with nothing offered and an empty directory, satisfy *)
(* IInv.                                                                   *)
LEMMA InitInv == Init => IInv
  <1> SUFFICES ASSUME Init PROVE IInv
    OBVIOUS
  <1> USE IdsAssumption, BoundsAssumption DEF Init
  <1>1. TypeOK
    <2>1. faults \in 0..MaxFaults /\ count \in Nat
      OBVIOUS
    <2> QED
      BY <2>1, Zenon DEF TypeOK
  <1>2. FiniteInv
    BY FS_EmptySet DEF FiniteInv
  <1>3. HandlerInv
    BY DEF HandlerInv, Writing
  <1>4. DrainInv
    BY DEF DrainInv
  <1>5. AcceptedSafe
    BY DEF AcceptedSafe, Accepted
  <1> QED
    BY <1>1, <1>2, <1>3, <1>4, <1>5 DEF IInv

(* Every action keeps the variables in their types. *)
LEMMA TypeStep == IInv /\ [Next]_vars => TypeOK'
  <1> SUFFICES ASSUME IInv, [Next]_vars PROVE TypeOK'
    OBVIOUS
  <1> USE IdsAssumption, BoundsAssumption DEF TypeOK, IInv
  <1>1. ASSUME NEW m \in Messages, Offer(m) PROVE TypeOK'
    BY <1>1 DEF Offer, Accepted, diskVars, drainVars, envVars
  <1>2. ASSUME NEW m \in Messages, PutFull(m) PROVE TypeOK'
    BY <1>2 DEF PutFull, Refuse, diskVars, drainVars, envVars, history
  <1>3. ASSUME NEW m \in Messages, PutTmp(m) PROVE TypeOK'
    BY <1>3 DEF PutTmp, Above, Entry, drainVars, envVars, history
  <1>27. ASSUME NEW m \in Messages, PutTmpRedrawn(m) PROVE TypeOK'
    BY <1>27 DEF PutTmpRedrawn, Fault, Entry, drainVars
  <1>4. ASSUME NEW m \in Messages, PutTmpFails(m) PROVE TypeOK'
    BY <1>4 DEF PutTmpFails, Fault, Refuse, drainVars, history
  <1>5. ASSUME NEW m \in Messages, PutRename(m) PROVE TypeOK'
    BY <1>5 DEF PutRename, HandlerInv, Writing, drainVars, envVars, history
  <1>6. ASSUME NEW m \in Messages, PutSync(m) PROVE TypeOK'
    BY <1>6 DEF PutSync, drainVars, envVars, history
  <1>7. ASSUME NEW m \in Messages, PutSyncFails(m) PROVE TypeOK'
    BY <1>7 DEF PutSyncFails, Fault, Refuse, diskVars, drainVars, history
  <1>8. ASSUME NEW m \in Messages, PutCount(m) PROVE TypeOK'
    BY <1>8 DEF PutCount, diskVars, drainVars, envVars, history
  <1>9. ASSUME NEW m \in Messages, Ack(m) PROVE TypeOK'
    BY <1>9 DEF Ack, diskVars, drainVars, envVars, history
  <1>10. ASSUME NEW m \in Messages, AckLost(m) PROVE TypeOK'
    BY <1>10 DEF AckLost, Fault, Refuse, diskVars, drainVars, history
  <1>11. CASE DrainList
    BY <1>11 DEF DrainList, diskVars, envVars, history
  <1>12. CASE DrainListFails
    <2>1. faults' \in 0..MaxFaults
      BY <1>12 DEF DrainListFails, Fault
    <2> QED
      BY <1>12, <2>1, Zenon DEF DrainListFails, diskVars, history
  <1>13. CASE DrainGet
    BY <1>13 DEF DrainGet, diskVars, envVars, history
  <1>14. CASE DrainGetFails
    BY <1>14 DEF DrainGetFails, Fault, Entry, diskVars
  <1>15. CASE DrainIngest
    BY <1>15 DEF DrainIngest, DrainInv, Entry, diskVars, envVars
  <1>16. CASE DrainBreak
    BY <1>16 DEF DrainBreak, diskVars, envVars, history
  <1>17. CASE DrainDone
    BY <1>17 DEF DrainDone, envVars, history
  <1>18. CASE DrainDoneFails
    BY <1>18 DEF DrainDoneFails, Fault, diskVars, history
  <1>19. CASE DrainCount
    BY <1>19 DEF DrainCount, diskVars, envVars, history
  <1>20. CASE DrainAgain
    BY <1>20 DEF DrainAgain, diskVars, envVars, history
  <1>21. CASE DrainTick
    BY <1>21 DEF DrainTick, diskVars, envVars, history
  <1>22. CASE StoreFails
    <2>1. faults' \in 0..MaxFaults
      BY <1>22 DEF StoreFails, Fault
    <2> QED
      BY <1>22, <2>1, Zenon DEF StoreFails, diskVars, drainVars, history
  <1>23. CASE StoreRecovers
    BY <1>23 DEF StoreRecovers, diskVars, drainVars, history
  <1>24. CASE Crash
    <2>1. faults' \in 0..MaxFaults
      BY <1>24 DEF Crash, Fault
    <2> QED
      BY <1>24, <2>1, Zenon DEF Crash, history
  <1>25. CASE Open
    BY <1>25, FS_CardinalityType DEF Open, FiniteInv, drainVars, history
  <1>26. CASE UNCHANGED vars
    BY <1>26 DEF vars, diskVars, drainVars, envVars, history
  <1> QED
    BY <1>1, <1>2, <1>3, <1>4, <1>5, <1>6, <1>7, <1>8, <1>9, <1>10, <1>11, <1>12, <1>13,
       <1>14, <1>15, <1>16, <1>17, <1>18, <1>19, <1>20, <1>21, <1>22, <1>23, <1>24, <1>25,
       <1>26, <1>27 DEF Next, Put, Drain, IOError

(* The directory stays finite: Put adds one entry at a time. *)
LEMMA FiniteStep == IInv /\ [Next]_vars => FiniteInv'
  <1> SUFFICES ASSUME IInv, [Next]_vars PROVE FiniteInv'
    OBVIOUS
  <1> USE DEF IInv, FiniteInv
  <1>1. ASSUME NEW n \in Messages, Offer(n) PROVE FiniteInv'
    BY <1>1 DEF Offer, diskVars, drainVars, envVars, history
  <1>2. ASSUME NEW n \in Messages, PutFull(n) PROVE FiniteInv'
    BY <1>2 DEF PutFull, Refuse, diskVars, drainVars, envVars, history
  <1>3. ASSUME NEW n \in Messages, PutTmp(n) PROVE FiniteInv'
    BY <1>3 DEF PutTmp, diskVars, drainVars, envVars, history
  <1>27. ASSUME NEW n \in Messages, PutTmpRedrawn(n) PROVE FiniteInv'
    BY <1>27 DEF PutTmpRedrawn, diskVars, drainVars, envVars, history
  <1>4. ASSUME NEW n \in Messages, PutTmpFails(n) PROVE FiniteInv'
    BY <1>4 DEF PutTmpFails, Refuse, diskVars, drainVars, envVars, history
  <1>5. ASSUME NEW n \in Messages, PutRename(n) PROVE FiniteInv'
    BY <1>5, FS_AddElement DEF PutRename, diskVars, drainVars, envVars, history
  <1>6. ASSUME NEW n \in Messages, PutSync(n) PROVE FiniteInv'
    BY <1>6 DEF PutSync, diskVars, drainVars, envVars, history
  <1>7. ASSUME NEW n \in Messages, PutSyncFails(n) PROVE FiniteInv'
    BY <1>7 DEF PutSyncFails, Refuse, diskVars, drainVars, envVars, history
  <1>8. ASSUME NEW n \in Messages, PutCount(n) PROVE FiniteInv'
    BY <1>8 DEF PutCount, diskVars, drainVars, envVars, history
  <1>9. ASSUME NEW n \in Messages, Ack(n) PROVE FiniteInv'
    BY <1>9 DEF Ack, diskVars, drainVars, envVars, history
  <1>10. ASSUME NEW n \in Messages, AckLost(n) PROVE FiniteInv'
    BY <1>10 DEF AckLost, diskVars, drainVars, envVars, history
  <1>11. CASE DrainList
    BY <1>11 DEF DrainList, diskVars, drainVars, envVars, history
  <1>12. CASE DrainListFails
    BY <1>12 DEF DrainListFails, diskVars, drainVars, envVars, history
  <1>13. CASE DrainGet
    BY <1>13 DEF DrainGet, diskVars, drainVars, envVars, history
  <1>14. CASE DrainGetFails
    BY <1>14 DEF DrainGetFails, diskVars, drainVars, envVars, history
  <1>15. CASE DrainIngest
    BY <1>15 DEF DrainIngest, diskVars, drainVars, envVars, history
  <1>16. CASE DrainBreak
    BY <1>16 DEF DrainBreak, diskVars, drainVars, envVars, history
  <1>17. CASE DrainDone
    BY <1>17, FS_RemoveElement DEF DrainDone, diskVars, drainVars, envVars, history
  <1>18. CASE DrainDoneFails
    BY <1>18 DEF DrainDoneFails, diskVars, drainVars, envVars, history
  <1>19. CASE DrainCount
    BY <1>19 DEF DrainCount, diskVars, drainVars, envVars, history
  <1>20. CASE DrainAgain
    BY <1>20 DEF DrainAgain, diskVars, drainVars, envVars, history
  <1>21. CASE DrainTick
    BY <1>21 DEF DrainTick, diskVars, drainVars, envVars, history
  <1>22. CASE StoreFails
    BY <1>22 DEF StoreFails, diskVars, drainVars, envVars, history
  <1>23. CASE StoreRecovers
    BY <1>23 DEF StoreRecovers, diskVars, drainVars, envVars, history
  <1>24. CASE Crash
    <2>1. IsFiniteSet(pending \cup synced)
      BY FS_Union
    <2> QED
      BY <1>24, <2>1, FS_Subset DEF Crash
  <1>25. CASE Open
    BY <1>25 DEF Open, diskVars, drainVars, envVars, history
  <1>26. CASE UNCHANGED vars
    BY <1>26 DEF vars, diskVars, drainVars, envVars, history
  <1> QED
    BY <1>1, <1>2, <1>3, <1>4, <1>5, <1>6, <1>7, <1>8, <1>9, <1>10, <1>11, <1>12, <1>13,
       <1>14, <1>15, <1>16, <1>17, <1>18, <1>19, <1>20, <1>21, <1>22, <1>23, <1>24, <1>25,
       <1>26, <1>27
       DEF Next, Put, Drain, IOError

(* No step drops the entry of a message the log does not have. *)
LEMMA NothingLost ==
    IInv /\ [Next]_vars =>
        /\ log \subseteq log'
        /\ \A e \in pending \cap synced : e.msg \in log' \/ e \in pending' \cap synced'
  <1> DEFINE G == /\ log \subseteq log'
                  /\ \A e \in pending \cap synced : e.msg \in log' \/ e \in pending' \cap synced'
  <1> SUFFICES ASSUME IInv, [Next]_vars PROVE G
    OBVIOUS
  <1> USE DEF IInv, DrainInv
  <1>1. ASSUME NEW n \in Messages, Offer(n) PROVE G
    BY <1>1 DEF Offer, diskVars, drainVars, envVars, history
  <1>2. ASSUME NEW n \in Messages, PutFull(n) PROVE G
    BY <1>2 DEF PutFull, Refuse, diskVars, drainVars, envVars, history
  <1>3. ASSUME NEW n \in Messages, PutTmp(n) PROVE G
    BY <1>3 DEF PutTmp, diskVars, drainVars, envVars, history
  <1>27. ASSUME NEW n \in Messages, PutTmpRedrawn(n) PROVE G
    BY <1>27 DEF PutTmpRedrawn, diskVars, drainVars, envVars, history
  <1>4. ASSUME NEW n \in Messages, PutTmpFails(n) PROVE G
    BY <1>4 DEF PutTmpFails, Refuse, diskVars, drainVars, envVars, history
  <1>5. ASSUME NEW n \in Messages, PutRename(n) PROVE G
    BY <1>5 DEF PutRename, diskVars, drainVars, envVars, history
  <1>6. ASSUME NEW n \in Messages, PutSync(n) PROVE G
    BY <1>6 DEF PutSync, diskVars, drainVars, envVars, history
  <1>7. ASSUME NEW n \in Messages, PutSyncFails(n) PROVE G
    BY <1>7 DEF PutSyncFails, Refuse, diskVars, drainVars, envVars, history
  <1>8. ASSUME NEW n \in Messages, PutCount(n) PROVE G
    BY <1>8 DEF PutCount, diskVars, drainVars, envVars, history
  <1>9. ASSUME NEW n \in Messages, Ack(n) PROVE G
    BY <1>9 DEF Ack, diskVars, drainVars, envVars, history
  <1>10. ASSUME NEW n \in Messages, AckLost(n) PROVE G
    BY <1>10 DEF AckLost, diskVars, drainVars, envVars, history
  <1>11. CASE DrainList
    BY <1>11 DEF DrainList, diskVars, drainVars, envVars, history
  <1>12. CASE DrainListFails
    BY <1>12 DEF DrainListFails, diskVars, drainVars, envVars, history
  <1>13. CASE DrainGet
    BY <1>13 DEF DrainGet, diskVars, drainVars, envVars, history
  <1>14. CASE DrainGetFails
    BY <1>14 DEF DrainGetFails, diskVars, drainVars, envVars, history
  <1>15. CASE DrainIngest
    BY <1>15 DEF DrainIngest, diskVars, drainVars, envVars, history
  <1>16. CASE DrainBreak
    BY <1>16 DEF DrainBreak, diskVars, drainVars, envVars, history
  <1>17. CASE DrainDone
    BY <1>17 DEF DrainDone, diskVars, drainVars, envVars, history
  <1>18. CASE DrainDoneFails
    BY <1>18 DEF DrainDoneFails, diskVars, drainVars, envVars, history
  <1>19. CASE DrainCount
    BY <1>19 DEF DrainCount, diskVars, drainVars, envVars, history
  <1>20. CASE DrainAgain
    BY <1>20 DEF DrainAgain, diskVars, drainVars, envVars, history
  <1>21. CASE DrainTick
    BY <1>21 DEF DrainTick, diskVars, drainVars, envVars, history
  <1>22. CASE StoreFails
    BY <1>22 DEF StoreFails, diskVars, drainVars, envVars, history
  <1>23. CASE StoreRecovers
    BY <1>23 DEF StoreRecovers, diskVars, drainVars, envVars, history
  <1>24. CASE Crash
    BY <1>24 DEF Crash, diskVars, drainVars, envVars, history
  <1>25. CASE Open
    BY <1>25 DEF Open, diskVars, drainVars, envVars, history
  <1>26. CASE UNCHANGED vars
    BY <1>26 DEF vars, diskVars, drainVars, envVars, history
  <1> QED
    BY <1>1, <1>2, <1>3, <1>4, <1>5, <1>6, <1>7, <1>8, <1>9, <1>10, <1>11, <1>12, <1>13,
       <1>14, <1>15, <1>16, <1>17, <1>18, <1>19, <1>20, <1>21, <1>22, <1>23, <1>24, <1>25,
       <1>26, <1>27
       DEF Next, Put, Drain, IOError

(* What the drainer is about to remove is in the log: drainSpool calls Done *)
(* only after the capture.                                                 *)
LEMMA DrainStep == IInv /\ [Next]_vars => DrainInv'
  <1> SUFFICES ASSUME IInv, [Next]_vars PROVE DrainInv'
    OBVIOUS
  <1> USE DEF IInv, DrainInv, TypeOK
  <1>1. ASSUME NEW n \in Messages, Offer(n) PROVE DrainInv'
    BY <1>1 DEF Offer, diskVars, drainVars, envVars, history
  <1>2. ASSUME NEW n \in Messages, PutFull(n) PROVE DrainInv'
    BY <1>2 DEF PutFull, Refuse, diskVars, drainVars, envVars, history
  <1>3. ASSUME NEW n \in Messages, PutTmp(n) PROVE DrainInv'
    BY <1>3 DEF PutTmp, diskVars, drainVars, envVars, history
  <1>27. ASSUME NEW n \in Messages, PutTmpRedrawn(n) PROVE DrainInv'
    BY <1>27 DEF PutTmpRedrawn, diskVars, drainVars, envVars, history
  <1>4. ASSUME NEW n \in Messages, PutTmpFails(n) PROVE DrainInv'
    BY <1>4 DEF PutTmpFails, Refuse, diskVars, drainVars, envVars, history
  <1>5. ASSUME NEW n \in Messages, PutRename(n) PROVE DrainInv'
    BY <1>5 DEF PutRename, diskVars, drainVars, envVars, history
  <1>6. ASSUME NEW n \in Messages, PutSync(n) PROVE DrainInv'
    BY <1>6 DEF PutSync, diskVars, drainVars, envVars, history
  <1>7. ASSUME NEW n \in Messages, PutSyncFails(n) PROVE DrainInv'
    BY <1>7 DEF PutSyncFails, Refuse, diskVars, drainVars, envVars, history
  <1>8. ASSUME NEW n \in Messages, PutCount(n) PROVE DrainInv'
    BY <1>8 DEF PutCount, diskVars, drainVars, envVars, history
  <1>9. ASSUME NEW n \in Messages, Ack(n) PROVE DrainInv'
    BY <1>9 DEF Ack, diskVars, drainVars, envVars, history
  <1>10. ASSUME NEW n \in Messages, AckLost(n) PROVE DrainInv'
    BY <1>10 DEF AckLost, diskVars, drainVars, envVars, history
  <1>11. CASE DrainList
    BY <1>11 DEF DrainList, diskVars, drainVars, envVars, history
  <1>12. CASE DrainListFails
    BY <1>12 DEF DrainListFails, diskVars, drainVars, envVars, history
  <1>13. CASE DrainGet
    BY <1>13 DEF DrainGet, diskVars, drainVars, envVars, history
  <1>14. CASE DrainGetFails
    BY <1>14 DEF DrainGetFails, diskVars, drainVars, envVars, history
  <1>15. CASE DrainIngest
    BY <1>15 DEF DrainIngest, diskVars, drainVars, envVars, history
  <1>16. CASE DrainBreak
    BY <1>16 DEF DrainBreak, diskVars, drainVars, envVars, history
  <1>17. CASE DrainDone
    BY <1>17 DEF DrainDone, diskVars, drainVars, envVars, history
  <1>18. CASE DrainDoneFails
    BY <1>18 DEF DrainDoneFails, diskVars, drainVars, envVars, history
  <1>19. CASE DrainCount
    BY <1>19 DEF DrainCount, diskVars, drainVars, envVars, history
  <1>20. CASE DrainAgain
    BY <1>20 DEF DrainAgain, diskVars, drainVars, envVars, history
  <1>21. CASE DrainTick
    BY <1>21 DEF DrainTick, diskVars, drainVars, envVars, history
  <1>22. CASE StoreFails
    BY <1>22 DEF StoreFails, diskVars, drainVars, envVars, history
  <1>23. CASE StoreRecovers
    BY <1>23 DEF StoreRecovers, diskVars, drainVars, envVars, history
  <1>24. CASE Crash
    BY <1>24 DEF Crash, diskVars, drainVars, envVars, history
  <1>25. CASE Open
    BY <1>25 DEF Open, diskVars, drainVars, envVars, history
  <1>26. CASE UNCHANGED vars
    BY <1>26 DEF vars, diskVars, drainVars, envVars, history
  <1> QED
    BY <1>1, <1>2, <1>3, <1>4, <1>5, <1>6, <1>7, <1>8, <1>9, <1>10, <1>11, <1>12, <1>13,
       <1>14, <1>15, <1>16, <1>17, <1>18, <1>19, <1>20, <1>21, <1>22, <1>23, <1>24, <1>25,
       <1>26, <1>27
       DEF Next, Put, Drain, IOError

(* A Put that has synced the directory has made its message safe, and it   *)
(* stays safe until the answer is sent.                                    *)
LEMMA HandlerStep == IInv /\ [Next]_vars => HandlerInv'
  <1> SUFFICES ASSUME IInv, [Next]_vars PROVE HandlerInv'
    OBVIOUS
  <1>0. \A m \in Messages : Safe(m) => Safe(m)'
    BY NothingLost, SafeMonotone
  <1> USE <1>0 DEF IInv, HandlerInv, TypeOK, Writing
  <1>1. ASSUME NEW n \in Messages, Offer(n) PROVE HandlerInv'
    BY <1>1 DEF Offer, diskVars, drainVars, envVars, history
  <1>2. ASSUME NEW n \in Messages, PutFull(n) PROVE HandlerInv'
    BY <1>2 DEF PutFull, Refuse, diskVars, drainVars, envVars, history
  <1>3. ASSUME NEW n \in Messages, PutTmp(n) PROVE HandlerInv'
    BY <1>3 DEF PutTmp, Above, Entry, diskVars, drainVars, envVars, history
  <1>27. ASSUME NEW n \in Messages, PutTmpRedrawn(n) PROVE HandlerInv'
    BY <1>27 DEF PutTmpRedrawn, Entry, diskVars, drainVars, envVars, history
  <1>4. ASSUME NEW n \in Messages, PutTmpFails(n) PROVE HandlerInv'
    BY <1>4 DEF PutTmpFails, Refuse, diskVars, drainVars, envVars, history
  <1>5. ASSUME NEW n \in Messages, PutRename(n) PROVE HandlerInv'
    BY <1>5 DEF PutRename, diskVars, drainVars, envVars, history
  <1>6. ASSUME NEW n \in Messages, PutSync(n) PROVE HandlerInv'
    <2>1. Safe(n)'
      BY <1>6 DEF PutSync, Safe, OnDisk
    <2> QED
      BY <1>6, <2>1 DEF PutSync
  <1>7. ASSUME NEW n \in Messages, PutSyncFails(n) PROVE HandlerInv'
    BY <1>7 DEF PutSyncFails, Refuse, diskVars, drainVars, envVars, history
  <1>8. ASSUME NEW n \in Messages, PutCount(n) PROVE HandlerInv'
    BY <1>8 DEF PutCount, diskVars, drainVars, envVars, history
  <1>9. ASSUME NEW n \in Messages, Ack(n) PROVE HandlerInv'
    BY <1>9 DEF Ack, diskVars, drainVars, envVars, history
  <1>10. ASSUME NEW n \in Messages, AckLost(n) PROVE HandlerInv'
    BY <1>10 DEF AckLost, diskVars, drainVars, envVars, history
  <1>11. CASE DrainList
    BY <1>11 DEF DrainList, diskVars, drainVars, envVars, history
  <1>12. CASE DrainListFails
    BY <1>12 DEF DrainListFails, diskVars, drainVars, envVars, history
  <1>13. CASE DrainGet
    BY <1>13 DEF DrainGet, diskVars, drainVars, envVars, history
  <1>14. CASE DrainGetFails
    BY <1>14 DEF DrainGetFails, diskVars, drainVars, envVars, history
  <1>15. CASE DrainIngest
    BY <1>15 DEF DrainIngest, diskVars, drainVars, envVars, history
  <1>16. CASE DrainBreak
    BY <1>16 DEF DrainBreak, diskVars, drainVars, envVars, history
  <1>17. CASE DrainDone
    BY <1>17 DEF DrainDone, DrainInv, diskVars, drainVars, envVars, history
  <1>18. CASE DrainDoneFails
    BY <1>18 DEF DrainDoneFails, diskVars, drainVars, envVars, history
  <1>19. CASE DrainCount
    BY <1>19 DEF DrainCount, diskVars, drainVars, envVars, history
  <1>20. CASE DrainAgain
    BY <1>20 DEF DrainAgain, diskVars, drainVars, envVars, history
  <1>21. CASE DrainTick
    BY <1>21 DEF DrainTick, diskVars, drainVars, envVars, history
  <1>22. CASE StoreFails
    BY <1>22 DEF StoreFails, diskVars, drainVars, envVars, history
  <1>23. CASE StoreRecovers
    BY <1>23 DEF StoreRecovers, diskVars, drainVars, envVars, history
  <1>24. CASE Crash
    BY <1>24 DEF Crash, diskVars, drainVars, envVars, history
  <1>25. CASE Open
    BY <1>25 DEF Open, diskVars, drainVars, envVars, history
  <1>26. CASE UNCHANGED vars
    BY <1>26 DEF vars, diskVars, drainVars, envVars, history
  <1> QED
    BY <1>1, <1>2, <1>3, <1>4, <1>5, <1>6, <1>7, <1>8, <1>9, <1>10, <1>11, <1>12, <1>13,
       <1>14, <1>15, <1>16, <1>17, <1>18, <1>19, <1>20, <1>21, <1>22, <1>23, <1>24, <1>25,
       <1>26, <1>27
       DEF Next, Put, Drain, IOError

(* An acknowledgement is only of a safe message, and no step makes an      *)
(* accepted one unsafe.                                                    *)
LEMMA AcceptedStep == IInv /\ [Next]_vars => AcceptedSafe'
  <1> SUFFICES ASSUME IInv, [Next]_vars PROVE AcceptedSafe'
    OBVIOUS
  <1>0. \A m \in Messages : Safe(m) => Safe(m)'
    BY NothingLost, SafeMonotone
  <1>a. AcceptedSafe <=> \A m \in Messages \ Dialled : partner[m] = "acked" => Safe(m)
    BY DEF AcceptedSafe, Accepted, Safe
  <1>b. AcceptedSafe' <=> \A m \in Messages \ Dialled : partner'[m] = "acked" => Safe(m)'
    BY DEF AcceptedSafe, Accepted, Safe
  <1> USE <1>0, <1>a, <1>b DEF IInv, HandlerInv, TypeOK
  <1>1. ASSUME NEW n \in Messages, Offer(n) PROVE AcceptedSafe'
    BY <1>1 DEF Offer, diskVars, drainVars, envVars, history
  <1>2. ASSUME NEW n \in Messages, PutFull(n) PROVE AcceptedSafe'
    BY <1>2 DEF PutFull, Refuse, diskVars, drainVars, envVars, history
  <1>3. ASSUME NEW n \in Messages, PutTmp(n) PROVE AcceptedSafe'
    BY <1>3 DEF PutTmp, diskVars, drainVars, envVars, history
  <1>27. ASSUME NEW n \in Messages, PutTmpRedrawn(n) PROVE AcceptedSafe'
    BY <1>27 DEF PutTmpRedrawn, diskVars, drainVars, envVars, history
  <1>4. ASSUME NEW n \in Messages, PutTmpFails(n) PROVE AcceptedSafe'
    BY <1>4 DEF PutTmpFails, Refuse, diskVars, drainVars, envVars, history
  <1>5. ASSUME NEW n \in Messages, PutRename(n) PROVE AcceptedSafe'
    BY <1>5 DEF PutRename, diskVars, drainVars, envVars, history
  <1>6. ASSUME NEW n \in Messages, PutSync(n) PROVE AcceptedSafe'
    BY <1>6 DEF PutSync, diskVars, drainVars, envVars, history
  <1>7. ASSUME NEW n \in Messages, PutSyncFails(n) PROVE AcceptedSafe'
    BY <1>7 DEF PutSyncFails, Refuse, diskVars, drainVars, envVars, history
  <1>8. ASSUME NEW n \in Messages, PutCount(n) PROVE AcceptedSafe'
    BY <1>8 DEF PutCount, diskVars, drainVars, envVars, history
  <1>9. ASSUME NEW n \in Messages, Ack(n) PROVE AcceptedSafe'
    BY <1>9 DEF Ack, diskVars, drainVars, envVars, history
  <1>10. ASSUME NEW n \in Messages, AckLost(n) PROVE AcceptedSafe'
    BY <1>10 DEF AckLost, diskVars, drainVars, envVars, history
  <1>11. CASE DrainList
    BY <1>11 DEF DrainList, diskVars, drainVars, envVars, history
  <1>12. CASE DrainListFails
    BY <1>12 DEF DrainListFails, diskVars, drainVars, envVars, history
  <1>13. CASE DrainGet
    BY <1>13 DEF DrainGet, diskVars, drainVars, envVars, history
  <1>14. CASE DrainGetFails
    BY <1>14 DEF DrainGetFails, diskVars, drainVars, envVars, history
  <1>15. CASE DrainIngest
    BY <1>15 DEF DrainIngest, diskVars, drainVars, envVars, history
  <1>16. CASE DrainBreak
    BY <1>16 DEF DrainBreak, diskVars, drainVars, envVars, history
  <1>17. CASE DrainDone
    BY <1>17 DEF DrainDone, diskVars, drainVars, envVars, history
  <1>18. CASE DrainDoneFails
    BY <1>18 DEF DrainDoneFails, diskVars, drainVars, envVars, history
  <1>19. CASE DrainCount
    BY <1>19 DEF DrainCount, diskVars, drainVars, envVars, history
  <1>20. CASE DrainAgain
    BY <1>20 DEF DrainAgain, diskVars, drainVars, envVars, history
  <1>21. CASE DrainTick
    BY <1>21 DEF DrainTick, diskVars, drainVars, envVars, history
  <1>22. CASE StoreFails
    BY <1>22 DEF StoreFails, diskVars, drainVars, envVars, history
  <1>23. CASE StoreRecovers
    BY <1>23 DEF StoreRecovers, diskVars, drainVars, envVars, history
  <1>24. CASE Crash
    BY <1>24 DEF Crash, diskVars, drainVars, envVars, history
  <1>25. CASE Open
    BY <1>25 DEF Open, diskVars, drainVars, envVars, history
  <1>26. CASE UNCHANGED vars
    BY <1>26 DEF vars, diskVars, drainVars, envVars, history
  <1> QED
    BY <1>1, <1>2, <1>3, <1>4, <1>5, <1>6, <1>7, <1>8, <1>9, <1>10, <1>11, <1>12, <1>13,
       <1>14, <1>15, <1>16, <1>17, <1>18, <1>19, <1>20, <1>21, <1>22, <1>23, <1>24, <1>25,
       <1>26, <1>27
       DEF Next, Put, Drain, IOError

(* IInv is inductive. *)
LEMMA StepInv == IInv /\ [Next]_vars => IInv'
  BY TypeStep, FiniteStep, HandlerStep, DrainStep, AcceptedStep DEF IInv

(* IInv is an invariant of the specification. *)
LEMMA SpecInv == Spec => []IInv
  BY InitInv, StepInv, PTL DEF Spec

(* The spool's variables keep their types, whatever the number of          *)
(* messages, entries and faults (spool.go, wiring.go).                     *)
THEOREM TypeCorrect == Spec => []TypeOK
  <1>1. IInv => TypeOK
    BY DEF IInv
  <1> QED
    BY <1>1, SpecInv, PTL

(* An accepted message is in the log, or in an entry no crash can take:    *)
(* Put's order of rename, directory fsync and answer, and the drainer's    *)
(* order of capture and removal, are enough for any fault pattern.         *)
THEOREM NoAcceptedLoss == Spec => []AcceptedSafe
  <1>1. IInv => AcceptedSafe
    BY DEF IInv
  <1> QED
    BY <1>1, SpecInv, PTL

(* The initial states are initial states of Handoff. *)
LEMMA InitAbs == Init => Promise!AbsInit
  BY DEF Init, Promise!AbsInit, Accepted, OnDisk

(* The abstract step of each concrete one: an answer accepts, a capture    *)
(* keeps, everything else at most changes the local copies.                *)
LEMMA StepAbs == IInv /\ [Next]_vars => [Promise!AbsNext]_(Promise!absVars)
  <1> SUFFICES ASSUME IInv, [Next]_vars PROVE [Promise!AbsNext]_(Promise!absVars)
    OBVIOUS
  <1> DEFINE Local == Accepted' = Accepted /\ log' = log
  <1>0. OnDisk' \in SUBSET Messages
    BY TypeStep DEF TypeOK, OnDisk, Entry
  <1>d. OnDisk \ OnDisk' \subseteq log'
    BY NothingLost DEF OnDisk
  <1>e. Local => [Promise!AbsNext]_(Promise!absVars)
    BY <1>0, <1>d DEF Promise!AbsNext, Promise!AbsDisk
  <1> USE DEF IInv, TypeOK, Accepted
  <1>1. ASSUME NEW n \in Messages, Offer(n) PROVE [Promise!AbsNext]_(Promise!absVars)
    BY <1>1, <1>e DEF Offer
  <1>2. ASSUME NEW n \in Messages, PutFull(n) PROVE [Promise!AbsNext]_(Promise!absVars)
    <2>1. partner[n] # "acked"
      BY <1>2 DEF PutFull, HandlerInv
    <2> QED
      BY <1>2, <1>e, <2>1 DEF PutFull, Refuse
  <1>3. ASSUME NEW n \in Messages, PutTmp(n) PROVE [Promise!AbsNext]_(Promise!absVars)
    BY <1>3, <1>e DEF PutTmp
  <1>27. ASSUME NEW n \in Messages, PutTmpRedrawn(n) PROVE [Promise!AbsNext]_(Promise!absVars)
    BY <1>27, <1>e DEF PutTmpRedrawn
  <1>4. ASSUME NEW n \in Messages, PutTmpFails(n) PROVE [Promise!AbsNext]_(Promise!absVars)
    <2>1. partner[n] # "acked"
      BY <1>4 DEF PutTmpFails, HandlerInv
    <2> QED
      BY <1>4, <1>e, <2>1 DEF PutTmpFails, Refuse
  <1>5. ASSUME NEW n \in Messages, PutRename(n) PROVE [Promise!AbsNext]_(Promise!absVars)
    BY <1>5, <1>e DEF PutRename
  <1>6. ASSUME NEW n \in Messages, PutSync(n) PROVE [Promise!AbsNext]_(Promise!absVars)
    BY <1>6, <1>e DEF PutSync
  <1>7. ASSUME NEW n \in Messages, PutSyncFails(n) PROVE [Promise!AbsNext]_(Promise!absVars)
    <2>1. partner[n] # "acked"
      BY <1>7 DEF PutSyncFails, HandlerInv
    <2> QED
      BY <1>7, <1>e, <2>1 DEF PutSyncFails, Refuse
  <1>8. ASSUME NEW n \in Messages, PutCount(n) PROVE [Promise!AbsNext]_(Promise!absVars)
    BY <1>8, <1>e DEF PutCount
  <1>9. ASSUME NEW n \in Messages, Ack(n) PROVE [Promise!AbsNext]_(Promise!absVars)
    <2>1. n \in OnDisk \cup log
      BY <1>9 DEF Ack, HandlerInv, Safe
    <2>2. Accepted' = IF n \in Dialled THEN Accepted ELSE Accepted \cup {n}
      BY <1>9 DEF Ack
    <2>3. OnDisk' = OnDisk /\ log' = log
      BY <1>9 DEF Ack, OnDisk, diskVars
    <2> QED
      BY <2>1, <2>2, <2>3 DEF Promise!AbsNext, Promise!absVars, Promise!AbsAccept
  <1>10. ASSUME NEW n \in Messages, AckLost(n) PROVE [Promise!AbsNext]_(Promise!absVars)
    <2>1. partner[n] # "acked"
      BY <1>10 DEF AckLost, HandlerInv
    <2> QED
      BY <1>10, <1>e, <2>1 DEF AckLost
  <1>11. CASE DrainList
    BY <1>11, <1>e DEF DrainList
  <1>12. CASE DrainListFails
    BY <1>12, <1>e DEF DrainListFails
  <1>13. CASE DrainGet
    BY <1>13, <1>e DEF DrainGet
  <1>14. CASE DrainGetFails
    BY <1>14, <1>e DEF DrainGetFails
  <1>15. CASE DrainIngest
    <2>1. cur.msg \in Messages /\ log' = log \cup {cur.msg}
      BY <1>15 DEF DrainIngest, DrainInv, Entry
    <2>2. Accepted' = Accepted /\ OnDisk' = OnDisk
      BY <1>15 DEF DrainIngest, OnDisk, diskVars
    <2> QED
      BY <2>1, <2>2 DEF Promise!AbsNext, Promise!AbsKeep
  <1>16. CASE DrainBreak
    BY <1>16, <1>e DEF DrainBreak
  <1>17. CASE DrainDone
    BY <1>17, <1>e DEF DrainDone
  <1>18. CASE DrainDoneFails
    BY <1>18, <1>e DEF DrainDoneFails
  <1>19. CASE DrainCount
    BY <1>19, <1>e DEF DrainCount
  <1>20. CASE DrainAgain
    BY <1>20, <1>e DEF DrainAgain
  <1>21. CASE DrainTick
    BY <1>21, <1>e DEF DrainTick
  <1>22. CASE StoreFails
    BY <1>22, <1>e DEF StoreFails
  <1>23. CASE StoreRecovers
    BY <1>23, <1>e DEF StoreRecovers
  <1>24. CASE Crash
    BY <1>24, <1>e DEF Crash
  <1>25. CASE Open
    BY <1>25, <1>e DEF Open
  <1>26. CASE UNCHANGED vars
    BY <1>26, <1>e DEF vars
  <1> QED
    BY <1>1, <1>2, <1>3, <1>4, <1>5, <1>6, <1>7, <1>8, <1>9, <1>10, <1>11, <1>12, <1>13,
       <1>14, <1>15, <1>16, <1>17, <1>18, <1>19, <1>20, <1>21, <1>22, <1>23, <1>24, <1>25,
       <1>26, <1>27
       DEF Next, Put, Drain, IOError

(* The spool implements the promise of an acceptance: every step is one    *)
(* that Handoff allows.                                                    *)
THEOREM SpoolImplementsHandoff == Spec => Promise!AbsSafety
  BY InitAbs, StepAbs, SpecInv, PTL DEF Spec, Promise!AbsSafety

---------------------------------------------------------------------------
(* The order of captures.  What must be remembered of a message is who was *)
(* accepted before it was first offered; InOrder is then a matter of ids.  *)

(* The entries that are, or may yet come, in the directory. *)
Entries == pending \cup synced \cup {ent[m] : m \in {n \in Messages : hpc[n] = "tmp"}}

(* The entries of the drainer's pass. *)
OnPass == todo \cup (IF dpc \in {"ingest", "done", "count"} THEN {cur} ELSE {})

(* Those accepted before m was offered that are still to be captured. *)
Ahead(m) == before[m] \ (log \cup skipped)

(* What is remembered stays true, and is remembered of every entry. *)
BeforeInv ==
    /\ \A m \in Messages : before[m] # None => before[m] \subseteq Accepted
    /\ \A m \in Messages : hpc[m] # "idle" => before[m] # None
    /\ \A e \in Entries \cup OnPass : before[e.msg] # None

(* Whoever is ahead of an entry is safely on disk under a smaller id, and  *)
(* if the entry is on the drainer's pass, so is theirs.                    *)
AheadOnDisk == \A e \in Entries : e.msg \notin skipped => \A p \in Ahead(e.msg) :
    \E f \in pending \cap synced : f.msg = p /\ f.id < e.id
AheadOnPass == \A e \in todo : e.msg \notin skipped => \A p \in Ahead(e.msg) :
    \E f \in OnPass : f.msg = p /\ f.id < e.id

(* So when an entry's turn comes nobody is ahead of it. *)
TurnInv == dpc = "ingest" => cur.msg \in skipped \/ Ahead(cur.msg) = {}

OrderInv == BeforeInv /\ AheadOnDisk /\ AheadOnPass /\ TurnInv /\ InOrder

(* What nearly every step does: captures and exceptions grow, nothing new  *)
(* is remembered and no entry comes about.                                 *)
Calm ==
    /\ log \subseteq log' /\ skipped \subseteq skipped' /\ UNCHANGED before
    /\ Accepted \subseteq Accepted'
    /\ \A m \in Messages : hpc'[m] # "idle" => hpc[m] # "idle"
    /\ Entries' \subseteq Entries

(* All but an offer and the creation of a file are such steps. *)
LEMMA CalmStep ==
    ASSUME IInv, [Next]_vars
    PROVE  Calm \/ \E m \in Messages : Offer(m) \/ PutTmp(m) \/ PutTmpRedrawn(m)
  <1> USE DEF IInv, TypeOK, Calm, Accepted, Entries
  <1>2. ASSUME NEW n \in Messages, PutFull(n) PROVE Calm
    BY <1>2 DEF PutFull, Refuse, HandlerInv, diskVars, drainVars, history
  <1>4. ASSUME NEW n \in Messages, PutTmpFails(n) PROVE Calm
    BY <1>4 DEF PutTmpFails, Refuse, HandlerInv, drainVars, history
  <1>5. ASSUME NEW n \in Messages, PutRename(n) PROVE Calm
    BY <1>5 DEF PutRename, drainVars, history
  <1>6. ASSUME NEW n \in Messages, PutSync(n) PROVE Calm
    BY <1>6 DEF PutSync, drainVars, history
  <1>7. ASSUME NEW n \in Messages, PutSyncFails(n) PROVE Calm
    BY <1>7 DEF PutSyncFails, Refuse, HandlerInv, diskVars, drainVars, history
  <1>8. ASSUME NEW n \in Messages, PutCount(n) PROVE Calm
    BY <1>8 DEF PutCount, diskVars, drainVars, history
  <1>9. ASSUME NEW n \in Messages, Ack(n) PROVE Calm
    BY <1>9 DEF Ack, diskVars, drainVars, history
  <1>10. ASSUME NEW n \in Messages, AckLost(n) PROVE Calm
    BY <1>10 DEF AckLost, HandlerInv, diskVars, drainVars, history
  <1>11. CASE DrainList \/ DrainListFails \/ DrainGet \/ DrainBreak \/ DrainDoneFails \/ DrainCount
              \/ DrainAgain \/ DrainTick \/ StoreFails \/ StoreRecovers \/ UNCHANGED vars
    BY <1>11 DEF DrainList, DrainListFails, DrainGet, DrainBreak, DrainDoneFails, DrainCount,
                 DrainAgain, DrainTick, StoreFails, StoreRecovers, vars, diskVars, history
  <1>12. CASE DrainGetFails \/ DrainIngest
    BY <1>12 DEF DrainGetFails, DrainIngest, diskVars
  <1>13. CASE DrainDone
    BY <1>13 DEF DrainDone, history
  <1>14. CASE Crash
    BY <1>14 DEF Crash, history
  <1>15. CASE Open
    BY <1>15 DEF Open, history
  <1> QED
    BY <1>2, <1>4, <1>5, <1>6, <1>7, <1>8, <1>9, <1>10, <1>11, <1>12, <1>13, <1>14, <1>15
       DEF Next, Put, Drain, IOError

(* Who is ahead can only become fewer. *)
LEMMA AheadShrinks ==
    ASSUME log \subseteq log', skipped \subseteq skipped', NEW m, before'[m] = before[m]
    PROVE  Ahead(m)' \subseteq Ahead(m)
  BY DEF Ahead

(* A safe entry of somebody not captured stays. *)
LEMMA DiskKept ==
    ASSUME IInv, AheadOnDisk, [Next]_vars, log \subseteq log', skipped \subseteq skipped',
           NEW e, e \in Entries, e.msg \notin skipped', before'[e.msg] = before[e.msg],
           NEW p, p \in Ahead(e.msg)'
    PROVE  \E f \in (pending \cap synced)' : f.msg = p /\ f.id < e.id
  <1>1. p \in Ahead(e.msg) /\ e.msg \notin skipped
    BY AheadShrinks
  <1>2. PICK f \in pending \cap synced : f.msg = p /\ f.id < e.id
    BY <1>1 DEF AheadOnDisk
  <1>3. f.msg \notin log'
    BY <1>2 DEF Ahead
  <1>4. f \in (pending \cap synced)'
    BY <1>2, <1>3, NothingLost
  <1> QED
    BY <1>2, <1>4

(* The same of the drainer's pass. *)
LEMMA PassKept ==
    ASSUME AheadOnPass, log \subseteq log', skipped \subseteq skipped',
           \A e \in todo : before'[e.msg] = before[e.msg],
           todo' \subseteq todo, \A f \in OnPass : f \in OnPass' \/ f.msg \in log' \cup skipped'
    PROVE  AheadOnPass'
  <1> SUFFICES ASSUME NEW e \in todo', e.msg \notin skipped', NEW p \in Ahead(e.msg)'
               PROVE  \E f \in OnPass' : f.msg = p /\ f.id < e.id
    BY DEF AheadOnPass
  <1>1. e \in todo /\ e.msg \notin skipped /\ p \in Ahead(e.msg)
    BY AheadShrinks
  <1>2. PICK f \in OnPass : f.msg = p /\ f.id < e.id
    BY <1>1 DEF AheadOnPass
  <1>3. f.msg \notin log' \cup skipped'
    BY <1>2 DEF Ahead
  <1> QED
    BY <1>2, <1>3

(* And of the entry whose turn it is. *)
LEMMA TurnKept ==
    ASSUME TurnInv, log \subseteq log', skipped \subseteq skipped', UNCHANGED <<dpc, cur>>,
           dpc = "ingest" => before'[cur.msg] = before[cur.msg]
    PROVE  TurnInv'
  BY AheadShrinks DEF TurnInv

(* A first offer remembers who was accepted by then. *)
LEMMA OfferOrder ==
    ASSUME IInv, OrderInv, NEW n \in Messages, Offer(n)
    PROVE  OrderInv'
  <1>1. /\ UNCHANGED <<ent, pending, synced, dpc, todo, cur, log, skipped, early>>
        /\ before' = [before EXCEPT ![n] = IF before[n] = None THEN Accepted ELSE before[n]]
        /\ hpc' = [hpc EXCEPT ![n] = "lock"] /\ hpc[n] = "idle"
        /\ partner' = [partner EXCEPT ![n] = "sent"] /\ partner[n] = "unsent"
    BY DEF Offer, diskVars, drainVars
  <1>2. Entries' = Entries /\ OnPass' = OnPass
    BY <1>1 DEF Entries, OnPass, IInv, TypeOK
  <1>3. Accepted' = Accepted
    BY <1>1 DEF Accepted, IInv, TypeOK
  <1>4. Accepted # None
    BY IdsAssumption DEF Accepted
  <1>5. \A m \in Messages : before[m] # None => before'[m] = before[m]
    BY <1>1 DEF IInv, TypeOK
  <1>6. \A e \in Entries \cup OnPass : e.msg \in Messages /\ before'[e.msg] = before[e.msg]
    <2>1. Entries \cup OnPass \subseteq Entry
      BY DEF Entries, OnPass, IInv, TypeOK, HandlerInv, DrainInv, Writing
    <2>2. \A e \in Entry : e.msg \in Messages
      BY DEF Entry
    <2> QED
      BY <1>5, <2>1, <2>2 DEF OrderInv, BeforeInv
  <1>7. BeforeInv'
    <2>1. \A m \in Messages : before'[m] # None => before'[m] \subseteq Accepted'
      BY <1>1, <1>3 DEF OrderInv, BeforeInv, IInv, TypeOK
    <2>2. \A m \in Messages : hpc'[m] # "idle" => before'[m] # None
      BY <1>1, <1>4, <1>5 DEF OrderInv, BeforeInv, IInv, TypeOK
    <2>3. \A e \in (Entries \cup OnPass)' : before'[e.msg] # None
      BY <1>2, <1>6 DEF OrderInv, BeforeInv
    <2> QED
      BY <2>1, <2>2, <2>3 DEF BeforeInv
  <1>8. AheadOnDisk'
    BY <1>1, <1>2, <1>6 DEF AheadOnDisk, Ahead, OrderInv
  <1>9. AheadOnPass'
    BY <1>1, <1>2, <1>6 DEF AheadOnPass, Ahead, OrderInv, OnPass
  <1>10. TurnInv'
    BY <1>1, <1>6, TurnKept DEF OrderInv, OnPass
  <1> QED
    BY <1>1, <1>7, <1>8, <1>9, <1>10 DEF OrderInv, InOrder

(* The drainer takes the entries of a pass in the order of their ids, and  *)
(* puts a pass aside at the first it cannot capture.                       *)
LEMMA PassStep ==
    ASSUME IInv, OrderInv, [Next]_vars, UNCHANGED before,
           log \subseteq log', skipped \subseteq skipped'
    PROVE  AheadOnPass' /\ TurnInv' /\ InOrder' /\ OnPass' \subseteq OnPass \cup pending
  <1>0. AheadOnPass /\ TurnInv /\ InOrder /\ AheadOnDisk
    BY DEF OrderInv
  <1>1. CASE UNCHANGED <<dpc, todo, cur, early>>
    <2>1. OnPass' = OnPass
      BY <1>1 DEF OnPass
    <2>2. AheadOnPass'
      BY <1>0, <1>1, <2>1, PassKept
    <2>3. TurnInv'
      BY <1>0, <1>1, TurnKept
    <2> QED
      BY <1>0, <1>1, <2>1, <2>2, <2>3 DEF InOrder
  <1>2. CASE DrainList
    <2>1. todo' = pending /\ dpc' = "next" /\ early' = early /\ pending' = pending
      BY <1>2 DEF DrainList, diskVars, history
    <2>2. OnPass' = pending
      BY <2>1 DEF OnPass
    <2>3. ASSUME NEW e \in todo', e.msg \notin skipped', NEW p \in Ahead(e.msg)'
          PROVE  \E f \in OnPass' : f.msg = p /\ f.id < e.id
      <3>1. e \in Entries
        BY <2>1, <2>3 DEF Entries
      <3>2. PICK f \in (pending \cap synced)' : f.msg = p /\ f.id < e.id
        BY <1>0, <2>3, <3>1, DiskKept
      <3> QED
        BY <2>1, <2>2, <3>2
    <2>4. AheadOnPass'
      BY <2>3 DEF AheadOnPass
    <2> QED
      BY <1>0, <2>1, <2>2, <2>4 DEF InOrder, TurnInv
  <1>3. CASE DrainListFails \/ DrainBreak \/ Crash
    <2>1. todo' = {} /\ dpc' \in {"next", "list"} /\ early' = early
      BY <1>3 DEF DrainListFails, DrainBreak, Crash, history
    <2> QED
      BY <1>0, <2>1 DEF InOrder, TurnInv, AheadOnPass, OnPass
  <1>4. CASE DrainGet
    <2>1. PICK e \in todo : Oldest(e, todo) /\ cur' = e /\ todo' = todo \ {e}
      BY <1>4 DEF DrainGet
    <2>2. dpc = "next" /\ dpc' = "ingest" /\ UNCHANGED <<early, log, skipped>>
      BY <1>4 DEF DrainGet, history
    <2>3. OnPass = todo /\ OnPass' = todo
      BY <2>1, <2>2 DEF OnPass
    <2>4. AheadOnPass'
      BY <1>0, <2>1, <2>3, PassKept
    <2>5. ASSUME e.msg \notin skipped PROVE Ahead(e.msg) = {}
      <3> SUFFICES ASSUME NEW p \in Ahead(e.msg) PROVE FALSE
        OBVIOUS
      <3>1. PICK f \in todo : f.msg = p /\ f.id < e.id
        BY <1>0, <2>3, <2>5 DEF AheadOnPass
      <3>2. e.id <= f.id
        BY <2>1, <3>1 DEF Oldest
      <3>3. e.id \in Nat /\ f.id \in Nat
        BY <2>1, <3>1, IdsAssumption DEF IInv, TypeOK, Entry
      <3> QED
        BY <3>1, <3>2, <3>3
    <2>6. TurnInv'
      BY <2>1, <2>2, <2>5 DEF TurnInv, Ahead
    <2> QED
      BY <1>0, <2>2, <2>3, <2>4, <2>6 DEF InOrder
  <1>5. CASE DrainGetFails
    <2>1. PICK e \in todo : todo' = todo \ {e} /\ skipped' = skipped \cup {e.msg}
      BY <1>5 DEF DrainGetFails
    <2>2. dpc = "next" /\ UNCHANGED <<dpc, early>>
      BY <1>5 DEF DrainGetFails
    <2>3. OnPass = todo /\ OnPass' = todo'
      BY <2>2 DEF OnPass
    <2>4. \A f \in OnPass : f \in OnPass' \/ f.msg \in log' \cup skipped'
      BY <2>1, <2>3
    <2>5. AheadOnPass'
      BY <1>0, <2>1, <2>4, PassKept
    <2> QED
      BY <1>0, <2>1, <2>2, <2>3, <2>5 DEF InOrder, TurnInv
  <1>6. CASE DrainIngest
    <2>1. dpc = "ingest" /\ dpc' = "done" /\ UNCHANGED <<todo, cur>>
      BY <1>6 DEF DrainIngest
    <2>2. early' = early
      BY <1>0, <1>6, <2>1 DEF DrainIngest, TurnInv, Ahead
    <2>3. OnPass' = OnPass
      BY <2>1 DEF OnPass
    <2>4. AheadOnPass'
      BY <1>0, <2>1, <2>3, PassKept
    <2> QED
      BY <1>0, <2>1, <2>2, <2>3, <2>4 DEF InOrder, TurnInv
  <1>7. CASE DrainDone
    <2>1. dpc = "done" /\ dpc' = "count" /\ UNCHANGED <<todo, cur, early>>
      BY <1>7 DEF DrainDone, history
    <2>2. OnPass' = OnPass
      BY <2>1 DEF OnPass
    <2>3. AheadOnPass'
      BY <1>0, <2>1, <2>2, PassKept
    <2> QED
      BY <1>0, <2>1, <2>2, <2>3 DEF InOrder, TurnInv
  <1>8. CASE DrainDoneFails \/ DrainCount
    <2>1. dpc \in {"done", "count"} /\ dpc' = "next" /\ UNCHANGED <<todo, early>>
      BY <1>8 DEF DrainDoneFails, DrainCount, history
    <2>2. OnPass = todo \cup {cur} /\ OnPass' = todo
      BY <2>1 DEF OnPass
    <2>3. cur.msg \in log
      BY <2>1 DEF IInv, DrainInv
    <2>4. AheadOnPass'
      BY <1>0, <2>1, <2>2, <2>3, PassKept
    <2> QED
      BY <1>0, <2>1, <2>2, <2>4 DEF InOrder, TurnInv
  <1>9. CASE DrainAgain \/ DrainTick
    <2>1. /\ dpc \in {"next", "sleep"} /\ dpc' \in {"list", "sleep"}
          /\ UNCHANGED <<todo, early>>
      BY <1>9 DEF DrainAgain, DrainTick, history
    <2>2. OnPass = todo /\ OnPass' = todo
      BY <2>1 DEF OnPass
    <2>3. AheadOnPass'
      BY <1>0, <2>1, <2>2, PassKept
    <2> QED
      BY <1>0, <2>1, <2>2, <2>3 DEF InOrder, TurnInv
  <1>10. CASE (\E m \in Messages : Offer(m) \/ Put(m) \/ PutTmpRedrawn(m) \/ PutTmpFails(m)
                                     \/ PutSyncFails(m) \/ AckLost(m))
              \/ StoreFails \/ StoreRecovers \/ Open \/ UNCHANGED vars
    <2>1. UNCHANGED <<dpc, todo, cur, early>>
      BY <1>10 DEF Offer, Put, PutFull, PutTmp, PutRename, PutSync, PutCount, Ack, PutTmpRedrawn,
                   PutTmpFails, PutSyncFails, AckLost, StoreFails, StoreRecovers, Open, vars,
                   drainVars, history
    <2> QED
      BY <1>1, <2>1
  <1> QED
    BY <1>2, <1>3, <1>4, <1>5, <1>6, <1>7, <1>8, <1>9, <1>10, Zenon
       DEF Next, Drain, IOError

(* A step without a new entry. *)
LEMMA CalmOrder ==
    ASSUME IInv, OrderInv, [Next]_vars, Calm
    PROVE  OrderInv'
  <1>1. AheadOnPass' /\ TurnInv' /\ InOrder' /\ OnPass' \subseteq OnPass \cup pending
    BY PassStep DEF Calm
  <1>2. BeforeInv'
    <2>1. Entries' \cup OnPass' \subseteq Entries \cup OnPass
      BY <1>1 DEF Calm, Entries
    <2>2. \A m \in Messages : before'[m] # None => before'[m] \subseteq Accepted'
      BY DEF Calm, OrderInv, BeforeInv
    <2>3. \A m \in Messages : hpc'[m] # "idle" => before'[m] # None
      BY DEF Calm, OrderInv, BeforeInv
    <2>4. \A e \in (Entries \cup OnPass)' : before'[e.msg] # None
      BY <2>1 DEF Calm, OrderInv, BeforeInv
    <2> QED
      BY <2>2, <2>3, <2>4 DEF BeforeInv
  <1>3. AheadOnDisk'
    <2> SUFFICES ASSUME NEW e \in Entries', e.msg \notin skipped', NEW p \in Ahead(e.msg)'
                 PROVE  \E f \in (pending \cap synced)' : f.msg = p /\ f.id < e.id
      BY DEF AheadOnDisk
    <2> QED
      BY DiskKept DEF Calm, OrderInv
  <1> QED
    BY <1>1, <1>2, <1>3 DEF OrderInv

(* A new entry: under an id above all those in use, or of a message that   *)
(* is counted as out of order.                                             *)
LEMMA PutTmpOrder ==
    ASSUME IInv, OrderInv, [Next]_vars, NEW n \in Messages, PutTmp(n) \/ PutTmpRedrawn(n)
    PROVE  OrderInv'
  <1>1. PICK i \in Ids : /\ ent' = [ent EXCEPT ![n] = [id |-> i, msg |-> n]]
                         /\ PutTmp(n) => i \in Above(InUse)
    BY DEF PutTmp, PutTmpRedrawn, Above
  <1>2. /\ UNCHANGED <<partner, pending, synced, log, before>>
        /\ hpc' = [hpc EXCEPT ![n] = "tmp"] /\ hpc[n] = "lock"
        /\ skipped \subseteq skipped' /\ (PutTmpRedrawn(n) => n \in skipped')
    BY DEF PutTmp, PutTmpRedrawn, history
  <1> DEFINE new == [id |-> i, msg |-> n]
  <1>3. Entries' \subseteq Entries \cup {new} /\ new.msg = n /\ new.id = i
    BY <1>1, <1>2 DEF Entries, IInv, TypeOK
  <1>4. AheadOnPass' /\ TurnInv' /\ InOrder' /\ OnPass' \subseteq OnPass \cup pending
    BY <1>2, PassStep
  <1>5. before[n] # None
    BY <1>2 DEF OrderInv, BeforeInv
  <1>6. BeforeInv'
    <2>1. Entries' \cup OnPass' \subseteq Entries \cup OnPass \cup {new}
      BY <1>3, <1>4 DEF Entries
    <2>2. Accepted' = Accepted
      BY <1>2 DEF Accepted
    <2>3. \A m \in Messages : before'[m] # None => before'[m] \subseteq Accepted'
      BY <1>2, <2>2 DEF OrderInv, BeforeInv
    <2>4. \A m \in Messages : hpc'[m] # "idle" => before'[m] # None
      BY <1>2, <1>5 DEF OrderInv, BeforeInv, IInv, TypeOK
    <2>5. \A e \in (Entries \cup OnPass)' : before'[e.msg] # None
      BY <1>2, <1>3, <1>5, <2>1 DEF OrderInv, BeforeInv
    <2> QED
      BY <2>3, <2>4, <2>5 DEF BeforeInv
  <1>7. AheadOnDisk'
    <2> SUFFICES ASSUME NEW e \in Entries', e.msg \notin skipped', NEW p \in Ahead(e.msg)'
                 PROVE  \E f \in (pending \cap synced)' : f.msg = p /\ f.id < e.id
      BY DEF AheadOnDisk
    <2>1. CASE e \in Entries
      BY <1>2, <2>1, DiskKept DEF OrderInv
    <2>2. CASE e = new
      <3>1. PutTmp(n) /\ e.msg = n /\ e.id = i
        BY <1>2, <1>3, <2>2
      <3>2. p \in before[n] /\ p \notin log
        BY <1>2, <3>1 DEF Ahead
      <3>3. p \in OnDisk
        BY <1>5, <3>2 DEF OrderInv, BeforeInv, IInv, AcceptedSafe
      <3>4. PICK f \in pending \cap synced : f.msg = p
        BY <3>3 DEF OnDisk
      <3>5. f.id \in InUse
        BY <3>4 DEF InUse
      <3>6. f.id < i
        BY <1>1, <3>1, <3>5 DEF Above
      <3> QED
        BY <1>2, <3>1, <3>4, <3>6
    <2> QED
      BY <1>3, <2>1, <2>2
  <1> QED
    BY <1>4, <1>6, <1>7 DEF OrderInv

(* OrderInv is inductive, given IInv. *)
LEMMA OrderStep == IInv /\ OrderInv /\ [Next]_vars => OrderInv'
  BY CalmStep, CalmOrder, OfferOrder, PutTmpOrder

(* At the start nothing was offered. *)
LEMMA OrderInit == Init => OrderInv
  BY DEF Init, OrderInv, BeforeInv, AheadOnDisk, AheadOnPass, TurnInv, InOrder, Entries, OnPass

(* Captures follow acceptance: a message first offered after another was   *)
(* acknowledged is captured after it, whatever outages and crashes fall in *)
(* between; only an unreadable entry or a redrawn id is out of its turn    *)
(* (drainSpool, Spool.List).                                               *)
THEOREM CapturedInOrder == Spec => []InOrder
  <1>1. OrderInv => InOrder
    BY DEF OrderInv
  <1> QED
    BY <1>1, OrderInit, OrderStep, SpecInv, PTL DEF Spec
=============================================================================
