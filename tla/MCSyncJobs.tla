----------------------------- MODULE MCSyncJobs -----------------------------
(* A small deployment for TLC: the API process with request threads, the   *)
(* worker process with one scheduler thread.                               *)
EXTENDS SyncJobs

CONSTANTS rebuild, fresh,    \* job types
          api, worker,       \* processes
          web, web2, sched   \* slots

MCProcOf == [s \in Slots |-> IF s = sched THEN worker ELSE api]

\* The worker starts rebuilds ...
RebuildFromScheduler == {<<sched, rebuild>>}

\* ... and so may any request thread of the API.
RebuildFromApi == {<<web, rebuild>>}

\* The API starts the refresh that never polls.
FreshFromApi == {<<web, fresh>>}
=============================================================================
