--------------------------- MODULE KubernetesDriver ---------------------------
(***************************************************************************)
(* Managers whose KubernetesDrivers share a namespace (--reuse-namespace), *)
(* each with a run id or without one.  A name of the engine is a pod and a *)
(* service in the namespace.  A manager starts its clients in the threads  *)
(* of a pool, stops the ones that failed and starts them again, and at its *)
(* end cleans up.  A signal takes it to the clean-up while threads of the  *)
(* pool are still at work: leaving the pool does not wait for them.        *)
(*                                                                         *)
(* A call of the API server may be refused, or carried out with its answer *)
(* lost.  A deleted pod stays until its containers have ended.             *)
(*                                                                         *)
(* Left out: a namespace of the manager's own, exec, uploads, downloads.   *)
(***************************************************************************)

CONSTANTS
    Managers, NoOne,
    Names,          \* what the engine calls its containers
    Ids, NoId,      \* run ids
    RunIds          \* which manager has which id, the cases considered

ASSUME NoOneAssumption == NoOne \notin Managers
ASSUME NoIdAssumption == NoId \notin Ids
(* An id is given to one run.                                              *)
ASSUME RunIdsAssumption ==
    /\ RunIds \subseteq [Managers -> Ids \union {NoId}]
    /\ \A ids \in RunIds, m, o \in Managers : ids[m] = ids[o] => m = o \/ ids[m] = NoId

VARIABLES
    runId,          \* run_id of each manager
    pods, services, \* in the namespace: by resource name, state and maker
    thread,         \* of each manager and name: the call under way
    main,           \* of each manager: its clean-up
    touched         \* who deleted or ran into whose resources, a history

apiVars == <<pods, services, touched>>
vars == <<runId, apiVars, thread, main>>

Keys == Names \X (Ids \union {NoId})
Absent == [state |-> "none", by |-> NoOne]
PodStates == {"none", "pending", "ready", "terminal", "leaving"}

Deleting == {"deletePod", "deleteService", "podGone", "serviceGone"}
Starting == {"create", "wait", "service"}
Places == Deleting \union Starting \union {"idle", "up", "failed", "stopped", "unstopped"}
MainPlaces == {"engine", "listPods", "deletePods", "deleteServices", "ended"}
Busy(t) == t.at \in Starting \/ (t.at \in Deleting /\ t.then = "create")
Stopping(t) == t.at \in Deleting /\ t.then = "stopped"
NoThread == [at |-> "idle", then |-> "none", stripped |-> FALSE]
(* spared: what the clean-up was refused, a history.                       *)
Pods == {"pod"} \X Keys
Services == {"service"} \X Keys
NoMain == [at |-> "engine", todo |-> {}, spared |-> {}, hurried |-> FALSE]

TypeOK ==
    /\ runId \in RunIds
    /\ pods \in [Keys -> [state : PodStates, by : Managers \union {NoOne}]]
    /\ services \in [Keys -> [state : {"none", "ready"}, by : Managers \union {NoOne}]]
    /\ thread \in [Managers -> [Names -> [at : Places, then : {"none", "create", "stopped"},
                                         stripped : BOOLEAN]]]
    /\ \A m \in Managers, n \in Names : thread[m][n].at \in Deleting => thread[m][n].then # "none"
    /\ main \in [Managers -> [at : MainPlaces, todo : SUBSET Keys, spared : SUBSET (Pods \union Services),
                           hurried : BOOLEAN]]
    /\ touched \subseteq Managers \X Managers

Init ==
    /\ runId \in RunIds
    /\ pods = [k \in Keys |-> Absent]
    /\ services = [k \in Keys |-> Absent]
    /\ thread = [m \in Managers |-> [n \in Names |-> NoThread]]
    /\ main = [m \in Managers |-> NoMain]
    /\ touched = {}

(* Wrong variant: the name without the run's suffix.                       *)
PlainName(m, n) == <<n, NoId>>

(* The name of a pod and its service carries the run id.                   *)
ResourceName(m, n) == <<n, runId[m]>>

Exists(object) == object.state # "none"
Made(m, state) == [state |-> state, by |-> m]
Meet(m, object) ==
    touched' = IF Exists(object) /\ object.by # m THEN touched \union {<<m, object.by>>} ELSE touched

-----------------------------------------------------------------------------
(* The threads: what a manager calls for a name.                           *)

At(m, n) == thread[m][n].at
Move(m, n, t) == thread' = [thread EXCEPT ![m][n] = t]
Goto(m, n, place) == Move(m, n, [thread[m][n] EXCEPT !.at = place])
KeepCluster == UNCHANGED apiVars
KeepRest == UNCHANGED <<runId, main>>

(* What follows an exception: a start has failed, a stop has not stopped.  *)
Raise(m, n) ==
    Move(m, n, [NoThread EXCEPT !.at = IF Stopping(thread[m][n]) THEN "unstopped" ELSE "failed"])

(* run, for a first start or after a stop.  A thread of a pool the manager *)
(* has left may still begin the starts it was dealt.                       *)
Run(m, n) ==
    /\ At(m, n) \in {"idle", "stopped", "unstopped"}
    /\ main[m].at = "engine" \/ (main[m].hurried /\ main[m].at # "ended")
    /\ \A other \in Names : ~Stopping(thread[m][other])
    /\ Goto(m, n, "create")
    /\ KeepCluster /\ KeepRest

(* stop, once the pool is done with its starts.                            *)
Stop(m, n) ==
    /\ At(m, n) \in {"up", "failed"}
    /\ main[m].at = "engine"
    /\ \A other \in Names : ~Busy(thread[m][other]) /\ ~Stopping(thread[m][other])
    /\ Move(m, n, [thread[m][n] EXCEPT !.at = "deletePod", !.then = "stopped"])
    /\ KeepCluster /\ KeepRest

CreatePod(m, n) ==
    LET k == ResourceName(m, n)
    IN /\ At(m, n) = "create"
       /\ IF Exists(pods[k])
          THEN Raise(m, n) /\ Meet(m, pods[k]) /\ UNCHANGED pods
          ELSE /\ pods' = [pods EXCEPT ![k] = Made(m, "pending")]
               /\ (Goto(m, n, "wait") \/ Raise(m, n))
               /\ UNCHANGED touched
       /\ UNCHANGED services /\ KeepRest

(* Over the quota, or any other refusal.                                   *)
CreateRefused(m, n) ==
    /\ At(m, n) \in {"create", "service"}
    /\ Raise(m, n)
    /\ KeepCluster /\ KeepRest

(* A refusal of the sysctl is answered by a manifest without it.           *)
SysctlRefused(m, n) ==
    /\ At(m, n) = "create" /\ ~thread[m][n].stripped
    /\ Move(m, n, [thread[m][n] EXCEPT !.stripped = TRUE])
    /\ KeepCluster /\ KeepRest

(* The pod's address is waited for; a pod without one ends the start.      *)
PodHasIp(m, n) ==
    /\ At(m, n) = "wait"
    /\ pods[ResourceName(m, n)].state \in {"ready", "leaving"}
    /\ Goto(m, n, "service")
    /\ KeepCluster /\ KeepRest

WaitFails(m, n) ==
    /\ At(m, n) = "wait"
    /\ Raise(m, n)
    /\ KeepCluster /\ KeepRest

(* A pod the kubelet ended for the sysctl is made again without it.        *)
SysctlForbidden(m, n) ==
    /\ At(m, n) = "wait" /\ ~thread[m][n].stripped
    /\ pods[ResourceName(m, n)].state = "terminal"
    /\ Move(m, n, [thread[m][n] EXCEPT !.at = "deletePod", !.then = "create", !.stripped = TRUE])
    /\ KeepCluster /\ KeepRest

CreateService(m, n) ==
    LET k == ResourceName(m, n)
    IN /\ At(m, n) = "service"
       /\ IF Exists(services[k])
          THEN Raise(m, n) /\ Meet(m, services[k]) /\ UNCHANGED services
          ELSE /\ services' = [services EXCEPT ![k] = Made(m, "ready")]
               /\ (Move(m, n, [NoThread EXCEPT !.at = "up"]) \/ Raise(m, n))
               /\ UNCHANGED touched
       /\ UNCHANGED pods /\ KeepRest

-----------------------------------------------------------------------------
(* _delete: the pod, then the service in the same "try", so that a pod     *)
(* that cannot be deleted keeps its service.                               *)

Leave(k) == pods' = [pods EXCEPT ![k].state = "leaving"]

DeletePod(m, n) ==
    LET k == ResourceName(m, n)
    IN /\ At(m, n) = "deletePod"
       /\ Meet(m, pods[k])
       /\ IF Exists(pods[k])
          THEN Leave(k) /\ (Goto(m, n, "deleteService") \/ Goto(m, n, "podGone"))
          ELSE UNCHANGED pods /\ Goto(m, n, "podGone")
       /\ UNCHANGED services /\ KeepRest

DeleteService(m, n) ==
    LET k == ResourceName(m, n)
    IN /\ At(m, n) = "deleteService"
       /\ Meet(m, services[k])
       /\ services' = [services EXCEPT ![k] = Absent]
       /\ Goto(m, n, "podGone")
       /\ UNCHANGED pods /\ KeepRest

DeleteRefused(m, n) ==
    /\ At(m, n) \in {"deletePod", "deleteService"}
    /\ Goto(m, n, "podGone")
    /\ KeepCluster /\ KeepRest

Deleted(m, n) == Move(m, n, [thread[m][n] EXCEPT !.at = thread[m][n].then, !.then = "none"])

(* Wrong variant: only the pod is waited for.                              *)
PodIsGoneOnly(m, n) ==
    /\ At(m, n) = "podGone"
    /\ ~Exists(pods[ResourceName(m, n)])
    /\ Deleted(m, n)
    /\ KeepCluster /\ KeepRest

(* _wait_until_gone: the pod is asked for, and then the service.           *)
PodIsGone(m, n) ==
    /\ At(m, n) = "podGone"
    /\ ~Exists(pods[ResourceName(m, n)])
    /\ Goto(m, n, "serviceGone")
    /\ KeepCluster /\ KeepRest

ServiceIsGone(m, n) ==
    /\ At(m, n) = "serviceGone"
    /\ IF Exists(services[ResourceName(m, n)]) THEN Goto(m, n, "podGone") ELSE Deleted(m, n)
    /\ KeepCluster /\ KeepRest

(* The deadline passes: a warning, and the caller goes on.                 *)
StillTerminating(m, n) ==
    /\ At(m, n) \in {"podGone", "serviceGone"}
    /\ IF Stopping(thread[m][n]) THEN Raise(m, n) ELSE Deleted(m, n)
    /\ KeepCluster /\ KeepRest

ReadFails(m, n) ==
    /\ At(m, n) \in {"podGone", "serviceGone"}
    /\ Raise(m, n)
    /\ KeepCluster /\ KeepRest

-----------------------------------------------------------------------------
(* The clean-up: of a run at its end, after a signal, or "manager.py clean"*)

Main(m, record) == main' = [main EXCEPT ![m] = record]

(* The stop a signal interrupts is given up, the starts are not.           *)
BeginCleanup(m) ==
    /\ main[m].at = "engine"
    /\ LET busy == \E n \in Names : Busy(thread[m][n])
       IN Main(m, [NoMain EXCEPT !.at = "listPods", !.hurried = busy,
                                 !.spared = IF busy THEN Pods \union Services ELSE {}])
    /\ thread' = [thread EXCEPT ![m] = [n \in Names |->
                    IF Stopping(@[n]) THEN [@[n] EXCEPT !.at = "unstopped", !.then = "none"] ELSE @[n]]]
    /\ KeepCluster /\ UNCHANGED runId

(* cleanup_selector: what carries the run's id, or, without one, all.      *)
Selected(m, object) ==
    Exists(object) /\ (runId[m] = NoId \/ runId[object.by] = runId[m])

ListPods(m) ==
    /\ main[m].at = "listPods"
    /\ Main(m, [main[m] EXCEPT !.at = "deletePods", !.todo = {k \in Keys : Selected(m, pods[k])}])
    /\ KeepCluster /\ UNCHANGED <<runId, thread>>

(* Wrong variant: the services of the pods that are there.                 *)
ListServicesOfPods(m) ==
    /\ main[m].at = "deletePods" /\ main[m].todo = {}
    /\ Main(m, [main[m] EXCEPT !.at = "deleteServices",
                               !.todo = {k \in Keys : Selected(m, services[k]) /\ Exists(pods[k])}])
    /\ KeepCluster /\ UNCHANGED <<runId, thread>>

ListServices(m) ==
    /\ main[m].at = "deletePods" /\ main[m].todo = {}
    /\ Main(m, [main[m] EXCEPT !.at = "deleteServices", !.todo = {k \in Keys : Selected(m, services[k])}])
    /\ KeepCluster /\ UNCHANGED <<runId, thread>>

(* The manager exits, and its threads with it.                             *)
End(m, spared) ==
    /\ Main(m, [main[m] EXCEPT !.at = "ended", !.todo = {}, !.spared = @ \union spared])
    /\ thread' = [thread EXCEPT ![m] = [n \in Names |-> NoThread]]

(* A list that fails ends the clean-up: of pods with a message and of      *)
(* services with an exception.                                             *)
ListFails(m) ==
    /\ \/ main[m].at = "listPods" /\ End(m, Pods \union Services)
       \/ main[m].at = "deletePods" /\ main[m].todo = {} /\ End(m, Services)
    /\ KeepCluster /\ UNCHANGED runId

(* One of the listed; a delete that is refused is passed over.             *)
CleanupPod(m) ==
    /\ main[m].at = "deletePods"
    /\ \E k \in main[m].todo :
         /\ Main(m, [main[m] EXCEPT !.todo = @ \ {k}])
         /\ Meet(m, pods[k])
         /\ IF Exists(pods[k]) THEN Leave(k) ELSE UNCHANGED pods
    /\ UNCHANGED <<runId, thread, services>>

CleanupService(m) ==
    /\ main[m].at = "deleteServices"
    /\ \E k \in main[m].todo :
         /\ Main(m, [main[m] EXCEPT !.todo = @ \ {k}])
         /\ Meet(m, services[k])
         /\ services' = [services EXCEPT ![k] = Absent]
    /\ UNCHANGED <<runId, thread, pods>>

CleanupRefused(m) ==
    /\ main[m].at \in {"deletePods", "deleteServices"}
    /\ LET object == IF main[m].at = "deletePods" THEN "pod" ELSE "service"
       IN \E k \in main[m].todo :
            Main(m, [main[m] EXCEPT !.todo = @ \ {k}, !.spared = @ \union {<<object, k>>}])
    /\ KeepCluster /\ UNCHANGED <<runId, thread>>

CleanupEnds(m) ==
    /\ main[m].at = "deleteServices" /\ main[m].todo = {}
    /\ End(m, {})
    /\ KeepCluster /\ UNCHANGED runId

-----------------------------------------------------------------------------
(* External: the cluster schedules, ends, evicts and removes pods.         *)

ClusterStep(k, from, to) ==
    /\ pods[k].state \in from
    /\ pods' = [pods EXCEPT ![k] = to]
    /\ UNCHANGED <<runId, services, touched, thread, main>>

PodStarts(k) == ClusterStep(k, {"pending"}, [pods[k] EXCEPT !.state = "ready"])
PodEnds(k) == ClusterStep(k, {"pending", "ready"}, [pods[k] EXCEPT !.state = "terminal"])
PodEvicted(k) == ClusterStep(k, {"pending", "ready", "terminal"}, [pods[k] EXCEPT !.state = "leaving"])
PodRemoved(k) == ClusterStep(k, {"leaving"}, Absent)

Thread(m, n) ==
    \/ Run(m, n) \/ Stop(m, n)
    \/ CreatePod(m, n) \/ CreateRefused(m, n) \/ SysctlRefused(m, n)
    \/ PodHasIp(m, n) \/ WaitFails(m, n) \/ SysctlForbidden(m, n)
    \/ CreateService(m, n)
    \/ DeletePod(m, n) \/ DeleteService(m, n) \/ DeleteRefused(m, n)
    \/ PodIsGone(m, n) \/ ServiceIsGone(m, n)
    \/ StillTerminating(m, n) \/ ReadFails(m, n)

Cleanup(m) ==
    \/ BeginCleanup(m)
    \/ ListPods(m) \/ ListServices(m) \/ ListFails(m)
    \/ CleanupPod(m) \/ CleanupService(m) \/ CleanupRefused(m)
    \/ CleanupEnds(m)

Cluster(k) == PodStarts(k) \/ PodEnds(k) \/ PodEvicted(k) \/ PodRemoved(k)

Next ==
    \/ \E m \in Managers : Cleanup(m) \/ \E n \in Names : Thread(m, n)
    \/ \E k \in Keys : Cluster(k)

Spec == Init /\ [][Next]_vars

-----------------------------------------------------------------------------
(* Of two managers in a namespace, one with a run id neither deletes nor   *)
(* runs into what the other made, resource_name: "keeps runs that start at *)
(* the same time from creating, reading or deleting each other's pods".    *)
RunsKeepApart ==
    \A meeting \in touched : runId[meeting[1]] = NoId

(* A stop that returns without a warning has freed the name, whatever of   *)
(* the start before it there was: the next start of it is not refused for  *)
(* a pod or a service that is still there, _delete.                        *)
StopFreesName ==
    \A m \in Managers, n \in Names :
        thread[m][n].at = "stopped" =>
            ~Exists(pods[ResourceName(m, n)]) /\ ~Exists(services[ResourceName(m, n)])

(* A clean-up leaves nothing of its run but pods that are going and what   *)
(* it was refused: that is the pods or services themselves, or all of them *)
(* when their list fails or threads of the pool still make some.  Neither  *)
(* a delete that fails nor a pod without a service, or a service whose pod *)
(* is gone, keeps it from the rest, cleanup.                               *)
CleanupIsComplete ==
    \A m \in Managers : main[m].at = "ended" =>
        \A k \in Keys :
            /\ pods[k].by = m /\ pods[k].state # "leaving" => <<"pod", k>> \in main[m].spared
            /\ services[k].by = m => <<"service", k>> \in main[m].spared
================================================================================
