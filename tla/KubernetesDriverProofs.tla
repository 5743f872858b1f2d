------------------------ MODULE KubernetesDriverProofs ------------------------
(***************************************************************************)
(* Proofs about the managers of a namespace, for any number of managers,   *)
(* names and run ids.  Every invariant rests on who a name in the          *)
(* namespace belongs to: what exists under a key was made by a manager     *)
(* whose run id the key carries.                                           *)
(***************************************************************************)
EXTENDS KubernetesDriver, TLAPS

-----------------------------------------------------------------------------
(* The inductive invariant.                                                *)

(* An object has a maker, whose run id is in its name.                     *)
Owned(k, object) ==
    IF Exists(object) THEN object.by \in Managers /\ k[2] = runId[object.by] ELSE object.by = NoOne

NamesAreOwned == \A k \in Keys : Owned(k, pods[k]) /\ Owned(k, services[k])

(* A clean-up with a run id has listed none but its own names.             *)
ListedAreOwn ==
    \A m \in Managers : runId[m] # NoId => \A k \in main[m].todo : k[2] = runId[m]

IInv == TypeOK /\ NamesAreOwned /\ ListedAreOwn /\ RunsKeepApart

(* No other manager uses the names of this one.                            *)
OwnNames == \A m, o \in Managers : runId[m] = runId[o] => m = o

(* The steps of a stop: the pod is gone when the service is asked for.     *)
GoneWhenAsked ==
    \A m \in Managers, n \in Names :
        thread[m][n].at = "serviceGone" => ~Exists(pods[ResourceName(m, n)])

StopInv == GoneWhenAsked /\ StopFreesName

(* A clean-up which no thread of the pool outlives: what has been listed   *)
(* covers what is there and was not refused.                               *)
Quiet(m) == \A n \in Names : ~Busy(thread[m][n]) /\ ~Stopping(thread[m][n])
Spared(m, object, k) == <<object, k>> \in main[m].spared
PodsListed(m) == \A k \in Keys : pods[k].by = m =>
                    k \in main[m].todo \/ pods[k].state = "leaving" \/ Spared(m, "pod", k)
PodsLeave(m) == \A k \in Keys : pods[k].by = m => pods[k].state = "leaving" \/ Spared(m, "pod", k)
ServicesListed(m) == \A k \in Keys : services[k].by = m => k \in main[m].todo \/ Spared(m, "service", k)
ServicesGone(m) == \A k \in Keys : services[k].by = m => Spared(m, "service", k)
AllSpared(m) == Pods \union Services \subseteq main[m].spared

CleanupCovers(m) ==
    /\ main[m].hurried => AllSpared(m)
    /\ main[m].at # "engine" => Quiet(m) \/ AllSpared(m)
    /\ main[m].at = "deletePods" => PodsListed(m)
    /\ main[m].at = "deleteServices" => PodsLeave(m) /\ ServicesListed(m)
    /\ main[m].at = "ended" => PodsLeave(m) /\ ServicesGone(m)

CleanupInv == \A m \in Managers : CleanupCovers(m)

-----------------------------------------------------------------------------
(* Types.                                                                  *)

ThreadRecords == [at : Places, then : {"none", "create", "stopped"}, stripped : BOOLEAN]
PodObjects == [state : PodStates, by : Managers \union {NoOne}]
ServiceObjects == [state : {"none", "ready"}, by : Managers \union {NoOne}]
Mains == [at : MainPlaces, todo : SUBSET Keys, spared : SUBSET (Pods \union Services), hurried : BOOLEAN]

(* A key is a name with a run id, or without one: resource_name.           *)
LEMMA KeyOf ==
    ASSUME TypeOK, NEW m \in Managers, NEW n \in Names
    PROVE  /\ ResourceName(m, n) \in Keys
           /\ ResourceName(m, n)[1] = n /\ ResourceName(m, n)[2] = runId[m]
BY RunIdsAssumption, SMT DEF TypeOK, ResourceName, Keys

(* What Move does to the threads: the others stay as they are.             *)
LEMMA MoveEffect ==
    ASSUME TypeOK, NEW m \in Managers, NEW n \in Names, NEW t \in ThreadRecords, Move(m, n, t)
    PROVE  /\ thread' \in [Managers -> [Names -> ThreadRecords]]
           /\ thread'[m][n] = t
           /\ \A o \in Managers, x \in Names : o # m \/ x # n => thread'[o][x] = thread[o][x]
BY DEF TypeOK, Move, ThreadRecords

(* A thread that goes on to another call keeps its caller and its          *)
(* manifest.                                                               *)
LEMMA GotoRecord ==
    ASSUME NEW t \in ThreadRecords, NEW p \in Places
    PROVE  /\ [t EXCEPT !.at = p] \in ThreadRecords
           /\ [t EXCEPT !.at = p].at = p
           /\ [t EXCEPT !.at = p].then = t.then
           /\ [t EXCEPT !.at = p].stripped = t.stripped
BY DEF ThreadRecords

-----------------------------------------------------------------------------
(* What the steps do.                                                      *)

(* A thread waits for the service only once the pod is gone, and has       *)
(* stopped only once the service is, too: _wait_until_gone.                *)
NextPlace(m, n, t) ==
    /\ t \in ThreadRecords
    /\ t.at \in Deleting => t.then # "none"
    /\ t.at = "serviceGone" => /\ thread[m][n].at = "podGone"
                               /\ ~Exists(pods[ResourceName(m, n)])
    /\ t.at = "stopped" => /\ thread[m][n].at = "serviceGone"
                           /\ ~Exists(services[ResourceName(m, n)])
    /\ Busy(t) \/ Stopping(t) =>
         \/ Busy(thread[m][n]) \/ Stopping(thread[m][n])
         \/ main[m].at = "engine"
         \/ main[m].hurried

PodEffect(m, n) ==
    LET k == ResourceName(m, n)
    IN \/ pods' = pods
       \/ At(m, n) = "create" /\ pods' = [pods EXCEPT ![k] = Made(m, "pending")]
       \/ Exists(pods[k]) /\ Leave(k)

ServiceEffect(m, n) ==
    LET k == ResourceName(m, n)
    IN \/ services' = services
       \/ At(m, n) = "service" /\ services' = [services EXCEPT ![k] = Made(m, "ready")]
       \/ services' = [services EXCEPT ![k] = Absent]

Meets(m, k) == touched' = touched \/ Meet(m, pods[k]) \/ Meet(m, services[k])

ThreadEffect(m, n) ==
    /\ \E t \in ThreadRecords : NextPlace(m, n, t) /\ Move(m, n, t)
    /\ PodEffect(m, n)
    /\ ServiceEffect(m, n)
    /\ Meets(m, ResourceName(m, n))
    /\ UNCHANGED <<runId, main>>

(* An exception leaves a thread at rest.                                   *)
LEMMA RaiseEffect ==
    ASSUME TypeOK, NEW m \in Managers, NEW n \in Names, Raise(m, n)
    PROVE  \E t \in ThreadRecords : NextPlace(m, n, t) /\ Move(m, n, t)
<1> DEFINE p == IF Stopping(thread[m][n]) THEN "unstopped" ELSE "failed"
           t == [NoThread EXCEPT !.at = p]
<1>1. NoThread \in ThreadRecords /\ p \in {"unstopped", "failed"} /\ p \in Places
  BY DEF NoThread, ThreadRecords, Places
<1>2. t \in ThreadRecords /\ t.at = p
  BY <1>1, GotoRecord
<1>3. NextPlace(m, n, t)
  BY <1>1, <1>2 DEF NextPlace, Deleting, Busy, Stopping, Starting
<1> QED BY <1>2, <1>3 DEF Raise

(* The other moves: to a place of Deleting with the caller kept, ...       *)
LEMMA GotoEffect ==
    ASSUME TypeOK, NEW m \in Managers, NEW n \in Names, NEW p \in Places, Goto(m, n, p),
           NextPlace(m, n, [thread[m][n] EXCEPT !.at = p])
    PROVE  \E t \in ThreadRecords : NextPlace(m, n, t) /\ Move(m, n, t)
BY DEF Goto, NextPlace

(* The record of a thread; a deletion knows what follows it.               *)
LEMMA ThreadRecord ==
    ASSUME TypeOK, NEW m \in Managers, NEW n \in Names
    PROVE  thread[m][n] \in ThreadRecords /\ (At(m, n) \in Deleting => thread[m][n].then # "none")
BY DEF TypeOK, ThreadRecords, At

(* The wait for a deleted pod and its service ends where its caller goes   *)
(* on: a stop only when both are gone.                                     *)
LEMMA DeletedEffect ==
    ASSUME TypeOK, NEW m \in Managers, NEW n \in Names, Deleted(m, n),
           At(m, n) \in {"podGone", "serviceGone"},
           Stopping(thread[m][n]) => /\ At(m, n) = "serviceGone"
                                     /\ ~Exists(services[ResourceName(m, n)])
    PROVE  \E t \in ThreadRecords : NextPlace(m, n, t) /\ Move(m, n, t)
<1> DEFINE r == thread[m][n]
           t == [r EXCEPT !.at = r.then, !.then = "none"]
<1>1. r \in ThreadRecords /\ r.then \in {"create", "stopped"} /\ r.at \in Deleting
  BY ThreadRecord DEF At, ThreadRecords, Deleting
<1>2. r.then \in Places /\ "none" \in {"none", "create", "stopped"}
  BY <1>1 DEF Places, Starting
<1>3. t \in ThreadRecords /\ t.at = r.then /\ t.then = "none"
  BY <1>1, <1>2 DEF ThreadRecords
<1>4. NextPlace(m, n, t)
  BY <1>1, <1>3 DEF NextPlace, Deleting, Busy, Stopping, Starting, At
<1> QED BY <1>3, <1>4 DEF Deleted

(* One step of a thread, by what it calls.                                 *)
LEMMA ThreadSteps ==
    ASSUME TypeOK, NEW m \in Managers, NEW n \in Names, Thread(m, n)
    PROVE  ThreadEffect(m, n)
<1> DEFINE r == thread[m][n]
           Moves == \E t \in ThreadRecords : NextPlace(m, n, t) /\ Move(m, n, t)
<1> USE DEF KeepCluster, KeepRest, apiVars
<1>a. r \in ThreadRecords /\ (At(m, n) \in Deleting => r.then # "none") /\ At(m, n) = r.at
  BY ThreadRecord DEF At
<1>b. \A p \in Places : /\ [r EXCEPT !.at = p] \in ThreadRecords
                        /\ [r EXCEPT !.at = p].at = p
                        /\ [r EXCEPT !.at = p].then = r.then
  BY <1>a, GotoRecord
<1>c. \A p \in Places : Goto(m, n, p) /\ NextPlace(m, n, [r EXCEPT !.at = p]) => Moves
  BY GotoEffect
<1>d. Raise(m, n) => Moves
  BY RaiseEffect
<1>e. ResourceName(m, n) \in Keys
  BY KeyOf
<1> USE DEF ThreadEffect
<1>1. CASE Run(m, n)
  <2>1. "create" \in Places
    BY DEF Places, Deleting, Starting
  <2>2. NextPlace(m, n, [r EXCEPT !.at = "create"])
    BY <1>a, <1>b, <1>1, <2>1 DEF Run, NextPlace, Places, Deleting, Starting, Busy, Stopping, At
  <2> QED BY <1>c, <1>1, <2>1, <2>2 DEF Run, PodEffect, ServiceEffect, Meets
<1>2. CASE Stop(m, n)
  <2> DEFINE t == [r EXCEPT !.at = "deletePod", !.then = "stopped"]
  <2>1. t \in ThreadRecords /\ t.at = "deletePod" /\ t.then = "stopped"
    BY <1>a DEF ThreadRecords, Places, Deleting
  <2>2. NextPlace(m, n, t)
    BY <1>2, <2>1 DEF Stop, NextPlace
  <2> QED BY <1>2, <2>1, <2>2 DEF Stop, PodEffect, ServiceEffect, Meets
<1>3. CASE CreatePod(m, n)
  <2>1. "wait" \in Places
    BY DEF Places, Starting
  <2>2. NextPlace(m, n, [r EXCEPT !.at = "wait"])
    BY <1>a, <1>b, <1>3, <2>1 DEF CreatePod, NextPlace, Places, Deleting, Starting, Busy, Stopping, At
  <2>3. Moves
    BY <1>c, <1>d, <1>3, <2>1, <2>2 DEF CreatePod
  <2> QED BY <1>3, <2>3 DEF CreatePod, PodEffect, ServiceEffect, Meets
<1>4. CASE CreateRefused(m, n)
  BY <1>d, <1>4 DEF CreateRefused, PodEffect, ServiceEffect, Meets
<1>5. CASE SysctlRefused(m, n)
  <2> DEFINE t == [r EXCEPT !.stripped = TRUE]
  <2>1. t \in ThreadRecords /\ t.at = r.at /\ t.then = r.then
    BY <1>a DEF ThreadRecords
  <2>2. NextPlace(m, n, t)
    BY <1>a, <1>5, <2>1 DEF SysctlRefused, NextPlace, Places, Deleting, Starting, Busy, Stopping, At
  <2> QED BY <1>5, <2>1, <2>2 DEF SysctlRefused, PodEffect, ServiceEffect, Meets
<1>6. CASE PodHasIp(m, n)
  <2>1. "service" \in Places
    BY DEF Places, Deleting, Starting
  <2>2. NextPlace(m, n, [r EXCEPT !.at = "service"])
    BY <1>a, <1>b, <1>6, <2>1 DEF PodHasIp, NextPlace, Places, Deleting, Starting, Busy, Stopping, At
  <2> QED BY <1>c, <1>6, <2>1, <2>2 DEF PodHasIp, PodEffect, ServiceEffect, Meets
<1>7. CASE WaitFails(m, n)
  BY <1>d, <1>7 DEF WaitFails, PodEffect, ServiceEffect, Meets
<1>8. CASE SysctlForbidden(m, n)
  <2> DEFINE t == [r EXCEPT !.at = "deletePod", !.then = "create", !.stripped = TRUE]
  <2>1. t \in ThreadRecords /\ t.at = "deletePod" /\ t.then = "create"
    BY <1>a DEF ThreadRecords, Places, Deleting
  <2>2. NextPlace(m, n, t)
    BY <1>a, <1>8, <2>1 DEF SysctlForbidden, NextPlace, Places, Deleting, Starting, Busy, Stopping, At
  <2> QED BY <1>8, <2>1, <2>2 DEF SysctlForbidden, PodEffect, ServiceEffect, Meets
<1>9. CASE CreateService(m, n)
  <2> DEFINE t == [NoThread EXCEPT !.at = "up"]
  <2>1. t \in ThreadRecords /\ t.at = "up"
    BY DEF NoThread, ThreadRecords, Places
  <2>2. NextPlace(m, n, t)
    BY <2>1 DEF NextPlace, Deleting, Busy, Stopping, Starting
  <2>3. Moves
    BY <1>d, <1>9, <2>1, <2>2 DEF CreateService
  <2> QED BY <1>9, <2>3 DEF CreateService, PodEffect, ServiceEffect, Meets
<1>10. CASE DeletePod(m, n)
  <2>1. {"deleteService", "podGone"} \subseteq Places
    BY DEF Places, Deleting
  <2>2. \A p \in {"deleteService", "podGone"} : NextPlace(m, n, [r EXCEPT !.at = p])
    BY <1>a, <1>b, <1>10, <2>1 DEF DeletePod, NextPlace, Places, Deleting, Starting, Busy, Stopping, At
  <2>3. Moves
    BY <1>c, <1>10, <2>1, <2>2 DEF DeletePod
  <2> QED BY <1>10, <2>3 DEF DeletePod, PodEffect, ServiceEffect, Meets
<1>11. CASE DeleteService(m, n)
  <2>1. {"podGone"} \subseteq Places
    BY DEF Places, Deleting
  <2>2. \A p \in {"podGone"} : NextPlace(m, n, [r EXCEPT !.at = p])
    BY <1>a, <1>b, <1>11, <2>1 DEF DeleteService, NextPlace, Places, Deleting, Starting, Busy, Stopping, At
  <2>3. Moves
    BY <1>c, <1>11, <2>1, <2>2 DEF DeleteService
  <2> QED BY <1>11, <2>3 DEF DeleteService, PodEffect, ServiceEffect, Meets
<1>12. CASE DeleteRefused(m, n)
  <2>1. {"podGone"} \subseteq Places
    BY DEF Places, Deleting
  <2>2. \A p \in {"podGone"} : NextPlace(m, n, [r EXCEPT !.at = p])
    BY <1>a, <1>b, <1>12, <2>1 DEF DeleteRefused, NextPlace, Places, Deleting, Starting, Busy, Stopping, At
  <2>3. Moves
    BY <1>c, <1>12, <2>1, <2>2 DEF DeleteRefused
  <2> QED BY <1>12, <2>3 DEF DeleteRefused, PodEffect, ServiceEffect, Meets
<1>13. CASE PodIsGone(m, n)
  <2>1. "serviceGone" \in Places
    BY DEF Places, Deleting, Starting
  <2>2. NextPlace(m, n, [r EXCEPT !.at = "serviceGone"])
    BY <1>a, <1>b, <1>13, <2>1 DEF PodIsGone, NextPlace, Places, Deleting, Starting, Busy, Stopping, At
  <2> QED BY <1>c, <1>13, <2>1, <2>2 DEF PodIsGone, PodEffect, ServiceEffect, Meets
<1>14. CASE ServiceIsGone(m, n)
  <2>1. "podGone" \in Places /\ NextPlace(m, n, [r EXCEPT !.at = "podGone"])
    BY <1>a, <1>b, <1>14 DEF ServiceIsGone, NextPlace, Places, Deleting, Starting, Busy, Stopping, At
  <2>2. ~Exists(services[ResourceName(m, n)]) /\ Deleted(m, n) => Moves
    BY <1>14, DeletedEffect DEF ServiceIsGone
  <2>3. Moves
    BY <1>c, <1>14, <2>1, <2>2 DEF ServiceIsGone
  <2> QED BY <1>14, <2>3 DEF ServiceIsGone, PodEffect, ServiceEffect, Meets
<1>15. CASE StillTerminating(m, n)
  <2>1. ~Stopping(r) /\ Deleted(m, n) => Moves
    BY <1>15, DeletedEffect DEF StillTerminating
  <2>2. Moves
    BY <1>d, <1>15, <2>1 DEF StillTerminating
  <2> QED BY <1>15, <2>2 DEF StillTerminating, PodEffect, ServiceEffect, Meets
<1>16. CASE ReadFails(m, n)
  BY <1>d, <1>16 DEF ReadFails, PodEffect, ServiceEffect, Meets
<1> QED BY <1>1, <1>2, <1>3, <1>4, <1>5, <1>6, <1>7, <1>8, <1>9, <1>10, <1>11, <1>12, <1>13, <1>14, <1>15, <1>16 DEF Thread

(* The same of a step of the clean-up: it lists, marks, and removes.       *)
CleanupEffect(m) ==
    /\ \E record \in Mains :
         /\ Main(m, record)
         /\ \A k \in record.todo \ main[m].todo : Selected(m, pods[k]) \/ Selected(m, services[k])
    /\ thread' \in [Managers -> [Names -> ThreadRecords]]
    /\ \A o \in Managers, n \in Names :
         \/ thread'[o][n] = thread[o][n]
         \/ o = m /\ thread'[o][n].at \in {"idle", "unstopped"}
    /\ \/ pods' = pods
       \/ \E k \in main[m].todo : Exists(pods[k]) /\ Leave(k)
    /\ \/ services' = services
       \/ \E k \in main[m].todo : services' = [services EXCEPT ![k] = Absent]
    /\ touched' = touched \/ \E k \in main[m].todo : Meets(m, k)
    /\ UNCHANGED runId

(* The record of a clean-up.                                               *)
LEMMA MainRecord ==
    ASSUME TypeOK, NEW m \in Managers
    PROVE  main[m] \in Mains
BY DEF TypeOK, Mains

(* One step of a clean-up, by the call it makes: cleanup.                  *)
LEMMA CleanupSteps ==
    ASSUME TypeOK, NEW m \in Managers, Cleanup(m)
    PROVE  CleanupEffect(m)
<1> DEFINE r == main[m]
           Threads == /\ thread' \in [Managers -> [Names -> ThreadRecords]]
                      /\ \A o \in Managers, n \in Names :
                           \/ thread'[o][n] = thread[o][n]
                           \/ o = m /\ thread'[o][n].at \in {"idle", "unstopped"}
<1> USE DEF CleanupEffect, KeepCluster, apiVars
<1>a. r \in Mains
  BY MainRecord
<1>b. {} \in SUBSET Keys /\ {"listPods", "deletePods", "deleteServices", "ended"} \subseteq MainPlaces
  BY DEF MainPlaces
<1>c. UNCHANGED thread => Threads
  BY DEF TypeOK, ThreadRecords
<1>1. CASE BeginCleanup(m)
  <2> DEFINE After(n) == IF Stopping(thread[m][n])
                         THEN [thread[m][n] EXCEPT !.at = "unstopped", !.then = "none"] ELSE thread[m][n]
  <2>1. \A n \in Names : /\ After(n) \in ThreadRecords
                         /\ After(n) = thread[m][n] \/ After(n).at = "unstopped"
    BY ThreadRecord DEF ThreadRecords, Places
  <2>2. thread' = [thread EXCEPT ![m] = [n \in Names |-> After(n)]]
    BY <1>1 DEF BeginCleanup, TypeOK
  <2> HIDE DEF After
  <2>3. Threads
    BY <2>1, <2>2, ThreadRecord DEF TypeOK, ThreadRecords
  <2> DEFINE busy == \E n \in Names : Busy(thread[m][n])
             record == [NoMain EXCEPT !.at = "listPods", !.hurried = busy,
                                      !.spared = IF busy THEN Pods \union Services ELSE {}]
  <2>4. record \in Mains /\ record.todo = {}
    BY <1>b DEF NoMain, Mains
  <2> QED BY <1>1, <2>3, <2>4 DEF BeginCleanup, Meets
<1>2. CASE ListPods(m)
  <2> DEFINE S == {k \in Keys : Selected(m, pods[k])}
             record == [r EXCEPT !.at = "deletePods", !.todo = S]
  <2>1. record \in Mains /\ record.todo = S
    BY <1>a, <1>b DEF Mains
  <2>2. Main(m, record)
    BY <1>2 DEF ListPods
  <2>3. \A k \in record.todo : Selected(m, pods[k])
    BY <2>1
  <2> HIDE DEF record
  <2> QED BY <1>2, <1>c, <2>1, <2>2, <2>3 DEF ListPods
<1>3. CASE ListServices(m)
  <2> DEFINE S == {k \in Keys : Selected(m, services[k])}
             record == [r EXCEPT !.at = "deleteServices", !.todo = S]
  <2>1. record \in Mains /\ record.todo = S
    BY <1>a, <1>b DEF Mains
  <2>2. Main(m, record)
    BY <1>3 DEF ListServices
  <2>3. \A k \in record.todo : Selected(m, services[k])
    BY <2>1
  <2> HIDE DEF record
  <2> QED BY <1>3, <1>c, <2>1, <2>2, <2>3 DEF ListServices
<1>d. ASSUME NEW b \in SUBSET (Pods \union Services), End(m, b), KeepCluster, UNCHANGED runId
      PROVE  CleanupEffect(m)
  <2>1. NoThread \in ThreadRecords /\ NoThread.at = "idle"
    BY DEF NoThread, ThreadRecords, Places
  <2>2. Threads
    BY <1>d, <2>1, ThreadRecord DEF End, TypeOK, ThreadRecords
  <2> DEFINE record == [r EXCEPT !.at = "ended", !.todo = {}, !.spared = @ \union b]
  <2>3. record \in Mains /\ record.todo = {}
    BY <1>a, <1>b DEF Mains
  <2>4. Main(m, record)
    BY <1>d DEF End
  <2> HIDE DEF record
  <2> QED BY <1>d, <2>2, <2>3, <2>4
<1>4. CASE ListFails(m)
  BY <1>4, <1>d DEF ListFails
<1>5. CASE CleanupPod(m)
  <2>1. PICK k \in r.todo : /\ Main(m, [r EXCEPT !.todo = @ \ {k}])
                           /\ Meet(m, pods[k])
                           /\ IF Exists(pods[k]) THEN Leave(k) ELSE UNCHANGED pods
    BY <1>5 DEF CleanupPod
  <2> DEFINE record == [r EXCEPT !.todo = @ \ {k}]
  <2>2. record \in Mains /\ record.todo = r.todo \ {k}
    BY <1>a DEF Mains
  <2>3. Main(m, record)
    BY <2>1
  <2> HIDE DEF record
  <2> QED BY <1>5, <1>c, <2>1, <2>2, <2>3 DEF CleanupPod, Meets
<1>6. CASE CleanupService(m)
  <2>1. PICK k \in r.todo : /\ Main(m, [r EXCEPT !.todo = @ \ {k}])
                           /\ Meet(m, services[k])
                           /\ services' = [services EXCEPT ![k] = Absent]
    BY <1>6 DEF CleanupService
  <2> DEFINE record == [r EXCEPT !.todo = @ \ {k}]
  <2>2. record \in Mains /\ record.todo = r.todo \ {k}
    BY <1>a DEF Mains
  <2>3. Main(m, record)
    BY <2>1
  <2> HIDE DEF record
  <2> QED BY <1>6, <1>c, <2>1, <2>2, <2>3 DEF CleanupService, Meets
<1>7. CASE CleanupRefused(m)
  <2> DEFINE object == IF r.at = "deletePods" THEN "pod" ELSE "service"
  <2>1. PICK k \in r.todo : /\ Main(m, [r EXCEPT !.todo = @ \ {k}, !.spared = @ \union {<<object, k>>}])
    BY <1>7 DEF CleanupRefused
  <2> DEFINE record == [r EXCEPT !.todo = @ \ {k}, !.spared = @ \union {<<object, k>>}]
  <2>0. <<object, k>> \in Pods \union Services
    BY <1>a DEF Mains, Pods, Services
  <2> HIDE DEF object
  <2>2. record \in Mains /\ record.todo = r.todo \ {k}
    BY <1>a, <2>0 DEF Mains
  <2>3. Main(m, record)
    BY <2>1
  <2> HIDE DEF record
  <2> QED BY <1>7, <1>c, <2>1, <2>2, <2>3 DEF CleanupRefused, Meets
<1>8. CASE CleanupEnds(m)
  BY <1>8, <1>d DEF CleanupEnds
<1> QED BY <1>1, <1>2, <1>3, <1>4, <1>5, <1>6, <1>7, <1>8 DEF Cleanup

(* The cluster moves a pod on, and removes it at the end.                  *)
LEMMA ClusterSteps ==
    ASSUME TypeOK, NEW k \in Keys, Cluster(k)
    PROVE  /\ \E object \in PodObjects :
                /\ Exists(pods[k])
                /\ pods' = [pods EXCEPT ![k] = object]
                /\ \/ object = Absent
                   \/ Exists(object) /\ object.by = pods[k].by /\ pods[k].state # "leaving"
           /\ UNCHANGED <<runId, services, touched, thread, main>>
<1> DEFINE Moved(state) == [pods[k] EXCEPT !.state = state]
<1>1. pods[k] \in PodObjects /\ Absent \in PodObjects
  BY DEF TypeOK, PodObjects, PodStates, Absent
<1>2. \A state \in PodStates : /\ Moved(state) \in PodObjects
                               /\ Moved(state).state = state /\ Moved(state).by = pods[k].by
  BY <1>1 DEF PodObjects
<1> QED BY <1>1, <1>2 DEF Cluster, PodStarts, PodEnds, PodEvicted, PodRemoved, ClusterStep, PodStates, Exists

(* What becomes of the pod of a name in a step: it stays, it moves on and  *)
(* never back from "leaving", it is gone, or its owner makes it.           *)
PodChange(k) ==
    \/ pods'[k] = pods[k]
    \/ pods'[k] = Absent
    \/ /\ Exists(pods[k]) /\ Exists(pods'[k]) /\ pods'[k].by = pods[k].by
       /\ pods[k].state = "leaving" => pods'[k].state = "leaving"
    \/ \E m \in Managers, n \in Names :
         /\ k = ResourceName(m, n) /\ thread[m][n].at = "create"
         /\ pods'[k] = Made(m, "pending")

ServiceChange(k) ==
    \/ services'[k] = services[k]
    \/ services'[k] = Absent
    \/ \E m \in Managers, n \in Names :
         /\ k = ResourceName(m, n) /\ thread[m][n].at = "service"
         /\ services'[k] = Made(m, "ready")

ThreadChange(m, n) ==
    \/ thread'[m][n] = thread[m][n]
    \/ thread'[m][n].at \in {"idle", "unstopped"}
    \/ NextPlace(m, n, thread'[m][n])

(* A deletion the API server takes marks the pod, and keeps its maker.     *)
LEMMA LeaveChange ==
    ASSUME TypeOK, NEW k \in Keys, Exists(pods[k]), Leave(k)
    PROVE  /\ pods' \in [Keys -> PodObjects]
           /\ \A j \in Keys : PodChange(j)
<1> DEFINE object == [pods[k] EXCEPT !.state = "leaving"]
<1>1. /\ pods[k] \in PodObjects /\ object \in PodObjects
      /\ object.state = "leaving" /\ object.by = pods[k].by
  BY DEF TypeOK, PodObjects, PodStates
<1>2. pods' = [pods EXCEPT ![k] = object]
  BY DEF Leave
<1>3. Exists(object)
  BY <1>1 DEF Exists
<1> HIDE DEF object
<1> QED BY <1>1, <1>2, <1>3 DEF TypeOK, PodObjects, PodChange

(* A thread's call changes the pod and the service of its own name alone.  *)
LEMMA MadeChange ==
    ASSUME TypeOK, NEW m \in Managers, NEW n \in Names
    PROVE  /\ PodEffect(m, n) => pods' \in [Keys -> PodObjects] /\ \A j \in Keys : PodChange(j)
           /\ ServiceEffect(m, n) => /\ services' \in [Keys -> ServiceObjects]
                                     /\ \A j \in Keys : ServiceChange(j)
<1>1. ResourceName(m, n) \in Keys
  BY KeyOf
<1>2. Made(m, "pending") \in PodObjects /\ Made(m, "ready") \in ServiceObjects /\ Absent \in ServiceObjects
  BY DEF Made, PodObjects, ServiceObjects, PodStates, Absent
<1>3. PodEffect(m, n) => pods' \in [Keys -> PodObjects] /\ \A j \in Keys : PodChange(j)
  <2>1. CASE pods' = pods
    BY <2>1 DEF TypeOK, PodObjects, PodChange
  <2>2. CASE At(m, n) = "create" /\ pods' = [pods EXCEPT ![ResourceName(m, n)] = Made(m, "pending")]
    BY <1>1, <1>2, <2>2 DEF TypeOK, PodObjects, PodChange, At
  <2>3. CASE Exists(pods[ResourceName(m, n)]) /\ Leave(ResourceName(m, n))
    BY <1>1, <2>3, LeaveChange
  <2> QED BY <2>1, <2>2, <2>3 DEF PodEffect
<1>4. ServiceEffect(m, n) => services' \in [Keys -> ServiceObjects] /\ \A j \in Keys : ServiceChange(j)
  <2>1. CASE services' = services
    BY <2>1 DEF TypeOK, ServiceObjects, ServiceChange
  <2>2. CASE At(m, n) = "service" /\ services' = [services EXCEPT ![ResourceName(m, n)] = Made(m, "ready")]
    BY <1>1, <1>2, <2>2 DEF TypeOK, ServiceObjects, ServiceChange, At
  <2>3. CASE services' = [services EXCEPT ![ResourceName(m, n)] = Absent]
    BY <1>1, <1>2, <2>3 DEF TypeOK, ServiceObjects, ServiceChange
  <2> QED BY <2>1, <2>2, <2>3 DEF ServiceEffect
<1> QED BY <1>3, <1>4

(* Of every step: the types it keeps and the changes it can make.          *)
LEMMA StepChanges ==
    ASSUME TypeOK, Next
    PROVE  /\ UNCHANGED runId
           /\ pods' \in [Keys -> PodObjects] /\ services' \in [Keys -> ServiceObjects]
           /\ thread' \in [Managers -> [Names -> ThreadRecords]]
           /\ main' \in [Managers -> Mains]
           /\ \A k \in Keys : PodChange(k) /\ ServiceChange(k)
           /\ \A m \in Managers, n \in Names : ThreadChange(m, n)
<1>0. /\ pods \in [Keys -> PodObjects] /\ services \in [Keys -> ServiceObjects]
      /\ thread \in [Managers -> [Names -> ThreadRecords]] /\ main \in [Managers -> Mains]
  BY DEF TypeOK, PodObjects, ServiceObjects, ThreadRecords, Mains
<1>1. ASSUME NEW m \in Managers, NEW n \in Names, Thread(m, n)
      PROVE  /\ UNCHANGED <<runId, main>>
             /\ pods' \in [Keys -> PodObjects] /\ services' \in [Keys -> ServiceObjects]
             /\ thread' \in [Managers -> [Names -> ThreadRecords]]
             /\ \A k \in Keys : PodChange(k) /\ ServiceChange(k)
             /\ \A o \in Managers, x \in Names : ThreadChange(o, x)
  <2>1. ThreadEffect(m, n)
    BY <1>1, ThreadSteps
  <2>2. PICK t \in ThreadRecords : NextPlace(m, n, t) /\ Move(m, n, t)
    BY <2>1 DEF ThreadEffect
  <2>3. /\ thread' \in [Managers -> [Names -> ThreadRecords]]
        /\ thread'[m][n] = t
        /\ \A o \in Managers, x \in Names : o # m \/ x # n => thread'[o][x] = thread[o][x]
    BY <2>2, MoveEffect
  <2>4. \A o \in Managers, x \in Names : ThreadChange(o, x)
    BY <2>2, <2>3 DEF ThreadChange
  <2> QED BY <2>1, <2>3, <2>4, MadeChange DEF ThreadEffect
<1>2. ASSUME NEW m \in Managers, Cleanup(m)
      PROVE  /\ UNCHANGED runId
             /\ pods' \in [Keys -> PodObjects] /\ services' \in [Keys -> ServiceObjects]
             /\ thread' \in [Managers -> [Names -> ThreadRecords]] /\ main' \in [Managers -> Mains]
             /\ \A k \in Keys : PodChange(k) /\ ServiceChange(k)
             /\ \A o \in Managers, x \in Names : ThreadChange(o, x)
  <2>1. CleanupEffect(m)
    BY <1>2, CleanupSteps
  <2>2. main[m].todo \subseteq Keys
    BY MainRecord DEF Mains
  <2>3. pods' \in [Keys -> PodObjects] /\ \A k \in Keys : PodChange(k)
    BY <1>0, <2>1, <2>2, LeaveChange DEF CleanupEffect, PodChange
  <2>4. Absent \in ServiceObjects
    BY DEF Absent, ServiceObjects
  <2>5. services' \in [Keys -> ServiceObjects] /\ \A k \in Keys : ServiceChange(k)
    BY <1>0, <2>1, <2>2, <2>4 DEF CleanupEffect, ServiceChange
  <2>6. main' \in [Managers -> Mains]
    BY <1>0, <2>1 DEF CleanupEffect, Main
  <2>7. \A o \in Managers, x \in Names : ThreadChange(o, x)
    BY <2>1 DEF CleanupEffect, ThreadChange
  <2> QED BY <2>1, <2>3, <2>5, <2>6, <2>7 DEF CleanupEffect
<1>3. ASSUME NEW k \in Keys, Cluster(k)
      PROVE  /\ UNCHANGED <<runId, services, thread, main>>
             /\ pods' \in [Keys -> PodObjects]
             /\ \A j \in Keys : PodChange(j)
  BY <1>0, <1>3, ClusterSteps DEF PodChange
<1> QED BY <1>0, <1>1, <1>2, <1>3 DEF Next, ServiceChange, ThreadChange

-----------------------------------------------------------------------------
(* Who the names belong to.                                                *)

(* No step gives a name to a run whose id it does not carry.               *)
LEMMA OwnedStep ==
    ASSUME TypeOK, NamesAreOwned, Next
    PROVE  NamesAreOwned'
<1> SUFFICES ASSUME NEW k \in Keys
             PROVE  Owned(k, pods[k])' /\ Owned(k, services[k])'
  BY DEF NamesAreOwned
<1>1. PodChange(k) /\ ServiceChange(k) /\ UNCHANGED runId
  BY StepChanges
<1>2. Owned(k, pods[k]) /\ Owned(k, services[k])
  BY DEF NamesAreOwned
<1>3. ~Exists(Absent) /\ Absent.by = NoOne
  BY DEF Exists, Absent
<1>4. \A m \in Managers : /\ Made(m, "pending").by = m /\ Made(m, "ready").by = m
                          /\ Exists(Made(m, "pending")) /\ Exists(Made(m, "ready"))
  BY DEF Exists, Made
<1>5. \A m \in Managers, n \in Names : ResourceName(m, n)[2] = runId[m]
  BY KeyOf
<1>6. Owned(k, pods[k])'
  BY <1>1, <1>2, <1>3, <1>4, <1>5 DEF Owned, PodChange, Exists
<1>7. Owned(k, services[k])'
  BY <1>1, <1>2, <1>3, <1>4, <1>5 DEF Owned, ServiceChange, Exists
<1> QED BY <1>6, <1>7

(* A call on an own name meets only what a manager with the same id made.  *)
LEMMA MeetOwn ==
    ASSUME TypeOK, NamesAreOwned, RunsKeepApart, NEW m \in Managers, NEW k \in Keys,
           runId[m] # NoId => k[2] = runId[m], Meets(m, k), UNCHANGED runId
    PROVE  RunsKeepApart' /\ touched' \subseteq Managers \X Managers
<1>1. ASSUME NEW object, Owned(k, object), Exists(object), object.by # m
      PROVE  runId[m] = NoId /\ object.by \in Managers
  BY <1>1, RunIdsAssumption DEF TypeOK, Owned
<1>2. Owned(k, pods[k]) /\ Owned(k, services[k])
  BY DEF NamesAreOwned
<1>3. \A meeting \in touched' : \/ meeting \in touched
                                \/ \E o \in Managers : meeting = <<m, o>> /\ runId[m] = NoId
  BY <1>1, <1>2 DEF Meets, Meet
<1> QED BY <1>3 DEF RunsKeepApart, TypeOK

(* No step lists, or meets, what another run made: cleanup_selector.       *)
LEMMA OwnStep ==
    ASSUME IInv, Next
    PROVE  ListedAreOwn' /\ RunsKeepApart' /\ touched' \subseteq Managers \X Managers
<1> USE DEF IInv
<1>0. UNCHANGED runId
  BY StepChanges
<1>1. ASSUME NEW m \in Managers, NEW n \in Names, Thread(m, n)
      PROVE  ListedAreOwn' /\ RunsKeepApart' /\ touched' \subseteq Managers \X Managers
  <2>1. ThreadEffect(m, n)
    BY <1>1, ThreadSteps
  <2>2. ResourceName(m, n) \in Keys /\ ResourceName(m, n)[2] = runId[m]
    BY KeyOf
  <2> QED BY <1>0, <2>1, <2>2, MeetOwn DEF ThreadEffect, ListedAreOwn
<1>2. ASSUME NEW m \in Managers, Cleanup(m)
      PROVE  ListedAreOwn' /\ RunsKeepApart' /\ touched' \subseteq Managers \X Managers
  <2>1. CleanupEffect(m)
    BY <1>2, CleanupSteps
  <2>2. main[m].todo \subseteq Keys
    BY MainRecord DEF Mains
  <2>3. runId[m] # NoId => \A k \in main[m].todo : k[2] = runId[m]
    BY DEF ListedAreOwn
  <2>4. RunsKeepApart' /\ touched' \subseteq Managers \X Managers
    <3>1. CASE touched' = touched
      BY <1>0, <3>1 DEF RunsKeepApart, TypeOK
    <3>2. CASE \E k \in main[m].todo : Meets(m, k)
      BY <1>0, <2>2, <2>3, <3>2, MeetOwn
    <3> QED BY <2>1, <3>1, <3>2 DEF CleanupEffect
  <2>5. PICK record \in Mains :
          /\ Main(m, record)
          /\ \A k \in record.todo \ main[m].todo : Selected(m, pods[k]) \/ Selected(m, services[k])
    BY <2>1 DEF CleanupEffect
  <2>6. ASSUME NEW k \in Keys, NEW object, Owned(k, object), Selected(m, object), runId[m] # NoId
        PROVE  k[2] = runId[m]
    BY <2>6 DEF Owned, Selected
  <2>7. runId[m] # NoId => \A k \in record.todo : k[2] = runId[m]
    BY <2>3, <2>5, <2>6 DEF NamesAreOwned, Mains
  <2>8. \A o \in Managers : main'[o] = IF o = m THEN record ELSE main[o]
    BY <2>5 DEF Main, TypeOK
  <2>9. ListedAreOwn'
    BY <1>0, <2>7, <2>8 DEF ListedAreOwn
  <2> QED BY <2>4, <2>9
<1>3. ASSUME NEW k \in Keys, Cluster(k)
      PROVE  ListedAreOwn' /\ RunsKeepApart' /\ touched' \subseteq Managers \X Managers
  BY <1>0, <1>3, ClusterSteps DEF ListedAreOwn, RunsKeepApart, TypeOK
<1> QED BY <1>1, <1>2, <1>3 DEF Next

(* An empty namespace: KubernetesDriver.__init__.                          *)
LEMMA InitIInv == Init => IInv
<1> SUFFICES ASSUME Init PROVE IInv
  OBVIOUS
<1>1. Absent \in PodObjects /\ Absent \in ServiceObjects /\ ~Exists(Absent) /\ Absent.by = NoOne
  BY DEF Absent, PodObjects, ServiceObjects, PodStates, Exists
<1>2. NoThread \in ThreadRecords /\ NoThread.at = "idle"
  BY DEF NoThread, ThreadRecords, Places
<1>3. NoMain \in Mains /\ NoMain.todo = {}
  BY DEF NoMain, Mains, MainPlaces
<1>4. TypeOK
  BY <1>1, <1>2, <1>3 DEF Init, TypeOK, PodObjects, ServiceObjects, ThreadRecords, Mains, Deleting
<1>5. NamesAreOwned
  BY <1>1 DEF Init, NamesAreOwned, Owned
<1>6. ListedAreOwn /\ RunsKeepApart
  BY <1>3 DEF Init, ListedAreOwn, RunsKeepApart
<1> QED BY <1>4, <1>5, <1>6 DEF IInv

(* Every step keeps the invariant.                                         *)
LEMMA StepIInv == IInv /\ [Next]_vars => IInv'
<1> SUFFICES ASSUME IInv, [Next]_vars PROVE IInv'
  OBVIOUS
<1>1. CASE Next
  <2>1. TypeOK'
    <3>1. \A m \in Managers, n \in Names : thread'[m][n].at \in Deleting => thread'[m][n].then # "none"
      <4> TAKE m \in Managers, n \in Names
      <4>1. ThreadChange(m, n)
        BY <1>1, StepChanges DEF IInv
      <4>2. thread[m][n].at \in Deleting => thread[m][n].then # "none"
        BY DEF IInv, TypeOK
      <4> QED BY <4>1, <4>2 DEF ThreadChange, NextPlace, Deleting
    <3> QED BY <1>1, <3>1, StepChanges, OwnStep
            DEF IInv, TypeOK, PodObjects, ServiceObjects, ThreadRecords, Mains
  <2> QED BY <1>1, <2>1, OwnedStep, OwnStep DEF IInv
<1>2. CASE UNCHANGED vars
  BY <1>2 DEF IInv, vars, apiVars, TypeOK, NamesAreOwned, Owned, ListedAreOwn, RunsKeepApart
<1> QED BY <1>1, <1>2

(* Two runs with ids in a namespace never delete or run into each other's  *)
(* pods and services, whatever the cluster does: resource_name and         *)
(* cleanup_selector.                                                       *)
THEOREM RunsApart == Spec => []RunsKeepApart
<1>1. IInv => RunsKeepApart
  BY DEF IInv
<1> QED BY InitIInv, StepIInv, <1>1, PTL DEF Spec

-----------------------------------------------------------------------------
(* A stop frees the name.                                                  *)

(* What is not there is made only by the thread the name is for.           *)
LEMMA MadeByOwner ==
    ASSUME TypeOK, OwnNames, Next, NEW m \in Managers, NEW n \in Names
    PROVE  /\ ~Exists(pods[ResourceName(m, n)]) /\ thread[m][n].at # "create"
                => ~Exists(pods'[ResourceName(m, n)])
           /\ ~Exists(services[ResourceName(m, n)]) /\ thread[m][n].at # "service"
                => ~Exists(services'[ResourceName(m, n)])
<1>1. /\ ResourceName(m, n) \in Keys
      /\ \A o \in Managers, x \in Names : ResourceName(o, x) = ResourceName(m, n) => o = m /\ x = n
  BY KeyOf DEF OwnNames
<1>2. PodChange(ResourceName(m, n)) /\ ServiceChange(ResourceName(m, n))
  BY <1>1, StepChanges
<1>3. ~Exists(Absent)
  BY DEF Exists, Absent
<1> QED BY <1>1, <1>2, <1>3 DEF PodChange, ServiceChange

(* No step makes the pod or the service of a name that is being stopped,   *)
(* or that has been: _wait_until_gone.                                     *)
LEMMA StopStep ==
    ASSUME TypeOK, OwnNames, StopInv, Next
    PROVE  StopInv'
<1> SUFFICES ASSUME NEW m \in Managers, NEW n \in Names
             PROVE  /\ thread'[m][n].at = "serviceGone" => ~Exists(pods'[ResourceName(m, n)])
                    /\ thread'[m][n].at = "stopped" => /\ ~Exists(pods'[ResourceName(m, n)])
                                                       /\ ~Exists(services'[ResourceName(m, n)])
  <2>1. UNCHANGED runId
    BY StepChanges
  <2> QED BY <2>1 DEF StopInv, GoneWhenAsked, StopFreesName, ResourceName, Exists
<1>1. ThreadChange(m, n)
  BY StepChanges
<1>2. /\ thread[m][n].at = "serviceGone" => ~Exists(pods[ResourceName(m, n)])
      /\ thread[m][n].at = "stopped" => /\ ~Exists(pods[ResourceName(m, n)])
                                        /\ ~Exists(services[ResourceName(m, n)])
  BY DEF StopInv, GoneWhenAsked, StopFreesName
<1> QED BY <1>1, <1>2, MadeByOwner DEF ThreadChange, NextPlace

(* The run ids do not change.                                              *)
LEMMA OwnNamesStep == OwnNames /\ IInv /\ [Next]_vars => OwnNames'
BY StepChanges DEF OwnNames, IInv, vars

(* When at most one manager of the namespace is without a run id, a name   *)
(* whose stop came back without a warning has neither a pod nor a service: *)
(* _delete and _wait_until_gone.  (Two without an id share their names.)   *)
THEOREM StopFrees ==
    ASSUME \A ids \in RunIds, m, o \in Managers : ids[m] = ids[o] => m = o
    PROVE  Spec => []StopFreesName
<1>1. Init => OwnNames /\ StopInv
  <2> SUFFICES ASSUME Init PROVE OwnNames /\ StopInv
    OBVIOUS
  <2>1. NoThread.at = "idle"
    BY DEF NoThread
  <2> QED BY <2>1 DEF Init, OwnNames, StopInv, GoneWhenAsked, StopFreesName
<1>2. IInv /\ OwnNames /\ StopInv /\ [Next]_vars => StopInv'
  <2>1. CASE Next
    BY <2>1, StopStep DEF IInv
  <2>2. CASE UNCHANGED vars
    BY <2>2 DEF vars, apiVars, StopInv, GoneWhenAsked, StopFreesName, ResourceName, Exists
  <2> QED BY <2>1, <2>2
<1>3. StopInv => StopFreesName
  BY DEF StopInv
<1> QED BY InitIInv, StepIInv, OwnNamesStep, <1>1, <1>2, <1>3, PTL DEF Spec

-----------------------------------------------------------------------------
(* A clean-up is complete.                                                 *)

(* What has been covered stays so while no thread of the manager is busy.  *)
LEMMA CoverKept ==
    ASSUME TypeOK, NEW m \in Managers, Quiet(m), Next,
           main'[m].todo = main[m].todo, main'[m].spared = main[m].spared
    PROVE  /\ PodsListed(m) => PodsListed(m)'
           /\ PodsLeave(m) => PodsLeave(m)'
           /\ ServicesListed(m) => ServicesListed(m)'
           /\ ServicesGone(m) => ServicesGone(m)'
<1>1. \A n \in Names : thread[m][n].at \notin {"create", "service"}
  BY DEF Quiet, Busy, Starting
<1>2. \A k \in Keys : PodChange(k) /\ ServiceChange(k)
  BY StepChanges
<1>3. Absent.by \notin Managers
  BY NoOneAssumption DEF Absent
<1>4. \A o \in Managers : Made(o, "pending").by = o /\ Made(o, "ready").by = o
  BY DEF Made
<1>5. \A k \in Keys : pods'[k].by = m =>
         /\ pods[k].by = m
         /\ pods[k].state = "leaving" => pods'[k].state = "leaving"
  BY <1>1, <1>2, <1>3, <1>4 DEF PodChange
<1>6. \A k \in Keys : services'[k].by = m => services[k].by = m
  BY <1>1, <1>2, <1>3, <1>4 DEF ServiceChange
<1> QED BY <1>5, <1>6 DEF PodsListed, PodsLeave, ServicesListed, ServicesGone, Spared

(* What is not a step of a manager's own clean-up does not undo it.        *)
LEMMA QuietThread ==
    ASSUME TypeOK, NEW m \in Managers, Next, main'[m] = main[m], CleanupCovers(m),
           \A n \in Names : \/ thread'[m][n] = thread[m][n]
                            \/ NextPlace(m, n, thread'[m][n])
    PROVE  CleanupCovers(m)'
<1>1. CASE main[m].at # "engine" /\ ~AllSpared(m)
  <2>1. Quiet(m) /\ ~main[m].hurried
    BY <1>1 DEF CleanupCovers
  <2>2. Quiet(m)'
    BY <1>1, <2>1 DEF Quiet, NextPlace, Busy, Stopping
  <2> QED BY <1>1, <2>1, <2>2, CoverKept DEF CleanupCovers
<1>2. CASE AllSpared(m)
  <2>1. AllSpared(m)'
    BY <1>2 DEF AllSpared
  <2>2. (PodsListed(m) /\ PodsLeave(m) /\ ServicesListed(m) /\ ServicesGone(m))'
    BY <2>1 DEF AllSpared, Spared, Pods, Services, PodsListed, PodsLeave, ServicesListed, ServicesGone
  <2> QED BY <2>1, <2>2 DEF CleanupCovers
<1>3. CASE main[m].at = "engine" /\ ~AllSpared(m)
  BY <1>3 DEF CleanupCovers
<1> QED BY <1>1, <1>2, <1>3

(* The steps of a clean-up itself.                                         *)
LEMMA CleanupStep ==
    ASSUME TypeOK, NamesAreOwned, NEW m \in Managers, CleanupCovers(m), Next, Cleanup(m)
    PROVE  CleanupCovers(m)'
<1> USE DEF KeepCluster, apiVars
<1>a. main[m] \in Mains
  BY MainRecord
<1>b. ASSUME NEW record, Main(m, record) PROVE main'[m] = record
  BY <1>b DEF Main, TypeOK
<1>c. \A k \in Keys : /\ pods[k].by = m => Exists(pods[k])
                      /\ services[k].by = m => Exists(services[k])
  BY NoOneAssumption DEF NamesAreOwned, Owned
<1>d. \A object : object.by = m /\ Exists(object) => Selected(m, object)
  BY DEF Selected
<1>1. CASE BeginCleanup(m)
  <2> DEFINE busy == \E n \in Names : Busy(thread[m][n])
             all == Pods \union Services
             record == [NoMain EXCEPT !.at = "listPods", !.hurried = busy, !.spared = IF busy THEN all ELSE {}]
  <2>1. main'[m] = record
    BY <1>1, <1>b DEF BeginCleanup
  <2>2. record.at = "listPods" /\ record.hurried = busy /\ (busy => record.spared = all)
    BY DEF NoMain
  <2>3. ~busy => Quiet(m)'
    <3> SUFFICES ASSUME ~busy, NEW n \in Names PROVE ~Busy(thread'[m][n]) /\ ~Stopping(thread'[m][n])
      BY DEF Quiet, Busy, Stopping
    <3> DEFINE after == [thread[m][n] EXCEPT !.at = "unstopped", !.then = "none"]
    <3>1. thread'[m][n] = IF Stopping(thread[m][n]) THEN after ELSE thread[m][n]
      BY <1>1 DEF BeginCleanup, TypeOK
    <3>2. after.at = "unstopped"
      BY ThreadRecord DEF ThreadRecords
    <3> HIDE DEF after
    <3> QED BY <3>1, <3>2 DEF Busy, Stopping, Starting, Deleting
  <2>4. busy => AllSpared(m)'
    BY <2>1, <2>2 DEF AllSpared
  <2> HIDE DEF record
  <2> QED BY <2>1, <2>2, <2>3, <2>4 DEF CleanupCovers
<1>e. ASSUME main[m].at # "engine", UNCHANGED thread, main'[m].hurried = main[m].hurried,
             main'[m].at # "engine", main[m].spared \subseteq main'[m].spared,
             main'[m].at = "deletePods" => PodsListed(m)',
             main'[m].at = "deleteServices" => PodsLeave(m)' /\ ServicesListed(m)',
             main'[m].at = "ended" => PodsLeave(m)' /\ ServicesGone(m)'
      PROVE  CleanupCovers(m)'
  BY <1>e DEF CleanupCovers, AllSpared, Quiet, Busy, Stopping
<1>2. CASE ListPods(m)
  <2> DEFINE S == {k \in Keys : Selected(m, pods[k])}
             record == [main[m] EXCEPT !.at = "deletePods", !.todo = S]
  <2>1. main'[m] = record
    BY <1>2, <1>b DEF ListPods
  <2>2. /\ record.at = "deletePods" /\ record.todo = S
        /\ record.spared = main[m].spared /\ record.hurried = main[m].hurried
    BY <1>a DEF Mains
  <2>3. PodsListed(m)'
    BY <1>2, <1>c, <1>d, <2>1, <2>2 DEF ListPods, PodsListed
  <2> HIDE DEF record
  <2> QED BY <1>2, <1>e, <2>1, <2>2, <2>3 DEF ListPods
<1>3. CASE ListServices(m)
  <2> DEFINE S == {k \in Keys : Selected(m, services[k])}
             record == [main[m] EXCEPT !.at = "deleteServices", !.todo = S]
  <2>1. main'[m] = record
    BY <1>3, <1>b DEF ListServices
  <2>2. /\ record.at = "deleteServices" /\ record.todo = S
        /\ record.spared = main[m].spared /\ record.hurried = main[m].hurried
    BY <1>a DEF Mains
  <2>3. ServicesListed(m)'
    BY <1>3, <1>c, <1>d, <2>1, <2>2 DEF ListServices, ServicesListed
  <2>4. PodsLeave(m)'
    BY <1>3, <2>1, <2>2 DEF ListServices, CleanupCovers, PodsListed, PodsLeave, Spared
  <2> HIDE DEF record
  <2> QED BY <1>3, <1>e, <2>1, <2>2, <2>3, <2>4 DEF ListServices
<1>f. ASSUME NEW b, End(m, b)
      PROVE  /\ main'[m].at = "ended" /\ main'[m].spared = main[m].spared \union b
             /\ Quiet(m)'
  <2> DEFINE record == [main[m] EXCEPT !.at = "ended", !.todo = {}, !.spared = @ \union b]
  <2>1. main'[m] = record
    BY <1>b, <1>f DEF End
  <2>2. record.at = "ended" /\ record.spared = main[m].spared \union b
    BY <1>a DEF Mains
  <2>3. \A n \in Names : thread'[m][n] = NoThread
    BY <1>f DEF End, TypeOK
  <2> HIDE DEF record
  <2> QED BY <2>1, <2>2, <2>3 DEF Quiet, Busy, Stopping, NoThread, Starting, Deleting
<1>g. ASSUME NEW b, End(m, b), KeepCluster, PodsLeave(m)', ServicesGone(m)'
      PROVE  CleanupCovers(m)'
  <2>1. main'[m].hurried = main[m].hurried
    BY <1>a, <1>b, <1>g DEF End, Mains
  <2> QED BY <1>f, <1>g, <2>1 DEF CleanupCovers, AllSpared
<1>4. CASE ListFails(m)
  <2>1. CASE End(m, Pods \union Services)
    <3>1. (PodsLeave(m) /\ ServicesGone(m))'
      BY <1>f, <2>1 DEF Spared, Pods, Services, PodsLeave, ServicesGone
    <3> QED BY <1>4, <1>g, <2>1, <3>1 DEF ListFails
  <2>2. CASE main[m].at = "deletePods" /\ main[m].todo = {} /\ End(m, Services)
    <3>1. PodsListed(m) /\ UNCHANGED pods
      BY <1>4, <2>2 DEF ListFails, CleanupCovers
    <3>2. main'[m].spared = main[m].spared \union Services
      BY <1>f, <2>2
    <3>3. PodsLeave(m)'
      BY <2>2, <3>1, <3>2 DEF PodsListed, PodsLeave, Spared
    <3>4. ServicesGone(m)'
      BY <3>2 DEF Spared, Services, ServicesGone
    <3> QED BY <1>4, <1>g, <2>2, <3>3, <3>4 DEF ListFails
  <2> QED BY <1>4, <2>1, <2>2 DEF ListFails
<1>5. CASE CleanupPod(m)
  <2>1. PICK k \in main[m].todo : /\ Main(m, [main[m] EXCEPT !.todo = @ \ {k}])
                                  /\ IF Exists(pods[k]) THEN Leave(k) ELSE UNCHANGED pods
    BY <1>5 DEF CleanupPod
  <2> DEFINE record == [main[m] EXCEPT !.todo = @ \ {k}]
  <2>2. main'[m] = record
    BY <1>b, <2>1
  <2>3. /\ record.at = main[m].at /\ record.todo = main[m].todo \ {k}
        /\ record.spared = main[m].spared /\ record.hurried = main[m].hurried
    BY <1>a DEF Mains
  <2>4. k \in Keys /\ Exists(pods[k]) => pods'[k].state = "leaving"
    BY <2>1 DEF Leave, TypeOK
  <2>5. \A j \in Keys : j # k => pods'[j] = pods[j]
    BY <2>1 DEF Leave, TypeOK
  <2>6. ~Exists(pods[k]) => pods' = pods
    BY <2>1
  <2>7. PodsListed(m) => PodsListed(m)'
    BY <1>c, <2>2, <2>3, <2>4, <2>5, <2>6 DEF PodsListed, Spared
  <2> HIDE DEF record
  <2> QED BY <1>5, <1>e, <2>2, <2>3, <2>7 DEF CleanupPod, CleanupCovers
<1>6. CASE CleanupService(m)
  <2>1. PICK k \in main[m].todo : /\ Main(m, [main[m] EXCEPT !.todo = @ \ {k}])
                                  /\ services' = [services EXCEPT ![k] = Absent]
    BY <1>6 DEF CleanupService
  <2> DEFINE record == [main[m] EXCEPT !.todo = @ \ {k}]
  <2>2. main'[m] = record
    BY <1>b, <2>1
  <2>3. /\ record.at = main[m].at /\ record.todo = main[m].todo \ {k}
        /\ record.spared = main[m].spared /\ record.hurried = main[m].hurried
    BY <1>a DEF Mains
  <2>4. Absent.by # m
    BY NoOneAssumption DEF Absent
  <2>5. ServicesListed(m) => ServicesListed(m)'
    BY <2>1, <2>2, <2>3, <2>4 DEF ServicesListed, Spared, TypeOK
  <2>6. PodsLeave(m) => PodsLeave(m)'
    BY <1>6, <2>2, <2>3 DEF CleanupService, PodsLeave, Spared
  <2> HIDE DEF record
  <2> QED BY <1>6, <1>e, <2>2, <2>3, <2>5, <2>6 DEF CleanupService, CleanupCovers
<1>7. CASE CleanupRefused(m)
  <2> DEFINE object == IF main[m].at = "deletePods" THEN "pod" ELSE "service"
  <2>1. PICK k \in main[m].todo :
           Main(m, [main[m] EXCEPT !.todo = @ \ {k}, !.spared = @ \union {<<object, k>>}])
    BY <1>7 DEF CleanupRefused
  <2> DEFINE record == [main[m] EXCEPT !.todo = @ \ {k}, !.spared = @ \union {<<object, k>>}]
  <2>2. main'[m] = record
    BY <1>b, <2>1
  <2>3. /\ record.at = main[m].at /\ record.todo = main[m].todo \ {k}
        /\ record.spared = main[m].spared \union {<<object, k>>} /\ record.hurried = main[m].hurried
    BY <1>a DEF Mains
  <2> HIDE DEF record
  <2>4. UNCHANGED <<pods, services, thread>> /\ main[m].at \in {"deletePods", "deleteServices"}
    BY <1>7 DEF CleanupRefused
  <2>5. CASE main[m].at = "deletePods"
    <3>1. PodsListed(m) /\ Spared(m, "pod", k)'
      BY <2>2, <2>3, <2>5 DEF CleanupCovers, Spared
    <3>2. PodsListed(m)'
      BY <2>2, <2>3, <2>4, <3>1 DEF PodsListed, Spared
    <3> QED BY <1>e, <2>2, <2>3, <2>4, <2>5, <3>2
  <2>6. CASE main[m].at = "deleteServices"
    <3>1. PodsLeave(m) /\ ServicesListed(m) /\ Spared(m, "service", k)'
      BY <2>2, <2>3, <2>6 DEF CleanupCovers, Spared
    <3>2. PodsLeave(m)' /\ ServicesListed(m)'
      BY <2>2, <2>3, <2>4, <3>1 DEF PodsLeave, ServicesListed, Spared
    <3> QED BY <1>e, <2>2, <2>3, <2>4, <2>6, <3>2
  <2> QED BY <2>4, <2>5, <2>6
<1>8. CASE CleanupEnds(m)
  <2>1. main'[m].spared = main[m].spared
    BY <1>8, <1>f DEF CleanupEnds
  <2>2. PodsLeave(m)' /\ ServicesGone(m)'
    BY <1>8, <2>1 DEF CleanupEnds, CleanupCovers, PodsLeave, ServicesListed, ServicesGone, Spared
  <2> QED BY <1>8, <1>g, <2>2 DEF CleanupEnds
<1> QED BY <1>1, <1>2, <1>3, <1>4, <1>5, <1>6, <1>7, <1>8 DEF Cleanup

(* A clean-up leaves nothing of its run but pods on their way out and what *)
(* was refused, whatever else was refused before it: cleanup.              *)
THEOREM CleanupCompletes == Spec => []CleanupIsComplete
<1>1. Init => CleanupInv
  <2>1. NoMain.at = "engine" /\ ~NoMain.hurried
    BY DEF NoMain
  <2> QED BY <2>1 DEF Init, CleanupInv, CleanupCovers
<1>2. IInv /\ CleanupInv /\ [Next]_vars => CleanupInv'
  <2> SUFFICES ASSUME IInv, CleanupInv, [Next]_vars, NEW m \in Managers PROVE CleanupCovers(m)'
    BY DEF CleanupInv
  <2>1. CleanupCovers(m) /\ TypeOK /\ NamesAreOwned
    BY DEF CleanupInv, IInv
  <2>2. ASSUME NEW o \in Managers, NEW n \in Names, Thread(o, n) PROVE CleanupCovers(m)'
    <3>1. ThreadEffect(o, n)
      BY <2>1, <2>2, ThreadSteps
    <3>2. \A x \in Names : thread'[m][x] = thread[m][x] \/ NextPlace(m, x, thread'[m][x])
      BY <2>1, <3>1, MoveEffect DEF ThreadEffect
    <3> QED BY <2>1, <2>2, <3>1, <3>2, QuietThread DEF ThreadEffect, Next
  <2>3. ASSUME NEW o \in Managers, Cleanup(o) PROVE CleanupCovers(m)'
    <3>1. CASE o = m
      BY <2>1, <2>3, <3>1, CleanupStep DEF Next
    <3>2. CASE o # m
      <4>1. main'[m] = main[m] /\ \A n \in Names : thread'[m][n] = thread[m][n]
        BY <2>1, <2>3, <3>2, CleanupSteps DEF CleanupEffect, Main, TypeOK
      <4> QED BY <2>1, <2>3, <4>1, QuietThread DEF Next
    <3> QED BY <3>1, <3>2
  <2>4. ASSUME NEW k \in Keys, Cluster(k) PROVE CleanupCovers(m)'
    BY <2>1, <2>4, ClusterSteps, QuietThread DEF Next
  <2>5. CASE UNCHANGED vars
    BY <2>1, <2>5 DEF vars, apiVars, CleanupCovers, AllSpared, Spared, Quiet, Busy, Stopping, PodsListed,
                      PodsLeave, ServicesListed, ServicesGone
  <2> QED BY <2>2, <2>3, <2>4, <2>5 DEF Next
<1>3. CleanupInv => CleanupIsComplete
  BY DEF CleanupInv, CleanupCovers, CleanupIsComplete, PodsLeave, ServicesGone, Spared
<1> QED BY InitIInv, StepIInv, <1>1, <1>2, <1>3, PTL DEF Spec
===============================================================================
