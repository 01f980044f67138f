---- MODULE MCRemoteTask ----
(* Two tasks of bdRemoteTaskManager::startTask and one of startLSGTask. *)
EXTENDS RemoteTaskManager
CONSTANTS t1, t2, t3
MCTasks == {t1, t2, t3}
MCRaw == {t3}
====
