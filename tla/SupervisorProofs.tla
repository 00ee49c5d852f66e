-------------------------- MODULE SupervisorProofs --------------------------
(* Exclusion between this process and one that shares a lock file with it, for *)
(* every set of services and every sequence of failures, hangs, signals, drains *)
(* and kills.                                                                   *)
EXTENDS Supervisor, TLAPS

Owned == {"starting", "serving", "draining", "stopping"}

\* Ownership: the process holds both locks for as long as its storage may be
\* open, and a rival that serves holds one of them.
Ownership ==
    /\ phase \in Owned \cup {"off", "locking"}
    /\ held \in [Lock -> {"none", "self", "rival"}]
    /\ rival \in [st : {"off", "locking", "serving"}, wants : SUBSET Lock]
    /\ phase \in Owned => \A l \in Lock : held[l] = "self"
    /\ rival.st = "serving" \/ (rival.st = "locking" /\ rival.wants = {})
          => \E l \in Lock : held[l] = "rival"
    /\ phase \notin Owned => storage = "closed"
    /\ phase \in {"off", "locking", "starting", "stopping"} =>
          \A s \in Services : task[s] = "done"
    /\ task \in [Services -> Exited \cup Live \cup {"done"}]

\* The locks decide: while a rival serves, this process is off or locking.
LEMMA OwnershipExcludes == Ownership => LaneExclusive
  BY DEF Ownership, LaneExclusive, Owned, Lock

LEMMA OwnershipInit == Init => Ownership
  BY DEF Init, Ownership, Owned, Lock

\* Each step keeps the ownership: the locks are taken one by one before the
\* storage is opened, and dropped only with it.
LEMMA OwnershipStep == Ownership /\ [Next]_vars => Ownership'
<1> SUFFICES ASSUME Ownership, [Next]_vars PROVE Ownership'
  OBVIOUS
<1> USE DEF Ownership
<1>1. CASE RivalLocks
  <2> USE DEF Lock, Owned
  <2>1. CASE /\ rival.st = "off" /\ UNCHANGED held
             /\ \E w \in Rivals : rival' = [st |-> "locking", wants |-> w]
    <3>1. PICK w \in Rivals : rival' = [st |-> "locking", wants |-> w]
      BY <2>1
    <3>2. w \in SUBSET {"chain", "signer"} /\ w # {}
      BY SupervisorAssumption
    <3> QED
      BY <1>1, <2>1, <3>1, <3>2 DEF RivalLocks
  <2>2. CASE /\ rival.st = "locking" /\ rival.wants # {}
             /\ held[NextLock(rival.wants)] = "none"
             /\ held' = [held EXCEPT ![NextLock(rival.wants)] = "rival"]
             /\ rival' = [rival EXCEPT !.wants = @ \ {NextLock(rival.wants)}]
    BY <1>1, <2>2 DEF RivalLocks, NextLock
  <2>3. CASE held' = Released("rival") /\ rival' = [st |-> "off", wants |-> {}]
    BY <1>1, <2>3 DEF RivalLocks, Released
  <2>4. CASE /\ rival.st = "locking" /\ rival.wants = {}
             /\ rival' = [rival EXCEPT !.st = "serving"] /\ UNCHANGED held
    BY <1>1, <2>4 DEF RivalLocks
  <2> QED
    BY <1>1, <2>1, <2>2, <2>3, <2>4 DEF RivalLocks
<1>2. CASE Launch
  BY <1>2 DEF Launch, Owned
<1>3. CASE Acquire
  <2>1. CASE held' = Released("self") /\ phase' = "off"
    BY <1>3, <2>1 DEF Acquire, Released, Owned, Lock
  <2>2. CASE \E l \in Lock : held[l] = "none" /\ held' = [held EXCEPT ![l] = "self"] /\ UNCHANGED phase
    BY <1>3, <2>2 DEF Acquire, Owned, Lock
  <2> QED
    BY <1>3, <2>1, <2>2 DEF Acquire, NextLock, Lock
<1>4. CASE OpenStorage
  BY <1>4 DEF OpenStorage, Owned
<1>5. CASE SpawnServices
  BY <1>5 DEF SpawnServices, Owned, Live
<1>6. CASE StartupFails
  BY <1>6 DEF StartupFails, Owned
<1>7. CASE SupervisorBeat \/ StorageStops \/ Signal \/ WatchdogInterval
  BY <1>7 DEF SupervisorBeat, StorageStops, Signal, WatchdogInterval, Serving, Owned
<1>8. CASE SeeCancelled
  BY <1>8 DEF SeeCancelled, Break, Owned
<1>9. CASE Drained \/ DrainTimeout
  BY <1>9 DEF Drained, DrainTimeout, Owned
<1>10. CASE Leave
  BY <1>10 DEF Leave, Released, Owned, Lock
<1>11. CASE StorageMonitor
  BY Zenon, <1>11 DEF StorageMonitor, Serving, Owned, Exited
<1>12. CASE WatchdogKill
  BY <1>12 DEF WatchdogKill, Released, Owned, Lock
<1>13. ASSUME NEW s \in Services, Join(s) PROVE Ownership'
  BY <1>13 DEF Join, Break, AfterRestart, Owned, Live
<1>14. ASSUME NEW s \in Services, Worker(s) PROVE Ownership'
  <2>1. task' \in [Services -> Exited \cup Live \cup {"done"}]
    BY <1>14 DEF Worker, Fail, Hang, Beat, Return, Resume, Exited, Live
  <2> QED
    BY <1>14, <2>1 DEF Worker, Serving, Owned
<1>15. CASE UNCHANGED vars
  BY <1>15 DEF vars, Owned
<1> QED
  BY <1>1, <1>2, <1>3, <1>4, <1>5, <1>6, <1>7, <1>8, <1>9, <1>10, <1>11, <1>12, <1>13,
     <1>14, <1>15 DEF Next, Process

\* "RAII owner for one chain lane and every configured signer lane"
\* (process_guard.rs): a process that wants any of this one's lock files never
\* serves while this one has an open store or a task, whatever fails, hangs, is
\* aborted or is killed in either's life.
THEOREM LanesExclude == Spec => []LaneExclusive
<1>1. Init => Ownership
  BY OwnershipInit
<1>2. Ownership /\ [Next]_vars => Ownership'
  BY OwnershipStep
<1>3. Ownership => LaneExclusive
  BY OwnershipExcludes
<1> QED
  BY <1>1, <1>2, <1>3, PTL DEF Spec
=============================================================================
