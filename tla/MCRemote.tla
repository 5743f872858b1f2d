------------------------------- MODULE MCRemote -------------------------------
(* Two runs, which differ in nothing before they are given a kind, and the *)
(* downloads.  RemoteRun and RemoteLogs share no variable and each         *)
(* property speaks of one of them, so it is enough that either goes        *)
(* through all its states while the other is where it starts.              *)
EXTENDS RemoteRun, RemoteLogs, TLC

RemoteInit == Init /\ LogsInit
RemoteNext ==
    \/ LogsInit /\ Next /\ UNCHANGED logsVars
    \/ Init /\ LogsNext /\ UNCHANGED vars
RemoteSpec == RemoteInit /\ [][RemoteNext]_<<vars, logsVars>>

(* The saved ids only say which run a verb without --id is about, and a     *)
(* verb can be about any run that was given: they tell no states apart.    *)
Seen == <<command, startVars, processVars, collects, replaced, adrift, signalled, logsVars>>

SymIds == Permutations(Ids)
=============================================================================
