--------------------------- MODULE ServerProcess ---------------------------
(***************************************************************************)
(* The process of the service (main.go): start-up that fails fast, one     *)
(* goroutine for the HTTP server, one for the manager with its caches,     *)
(* reconciler and collector, and a main goroutine that waits for the       *)
(* context they share, shuts the server down and joins both.               *)
(***************************************************************************)
EXTENDS Naturals

CONSTANT MaxStops   \* bound: failed starts, failures, signals and kills

ASSUME MaxStopsAssumption == MaxStops \in Nat

VARIABLES
  main,      \* "starting", "waiting", "draining", "joining", "exited"
  http,      \* ListenAndServe: "serving" or "stopped"
  manager,   \* mgr.Start: "syncing" (caches not filled), "running" or "stopped"
  cancelled, \* the shared context is done
  stops

procVars == <<main, http, manager, cancelled, stops>>

ProcTypeOK ==
  /\ main \in {"starting", "waiting", "draining", "joining", "exited"}
  /\ http \in {"serving", "stopped"} /\ manager \in {"syncing", "running", "stopped"}
  /\ cancelled \in BOOLEAN /\ stops \in 0..MaxStops
  /\ main \in {"starting", "exited"} => http = "stopped" /\ manager = "stopped"

ProcInit ==
  /\ main = "starting" /\ http = "stopped" /\ manager = "stopped"
  /\ cancelled = FALSE /\ stops = 0

Stop == stops < MaxStops /\ stops' = stops + 1

\* Configuration, manager, OIDC provider, clients and routes are set up; both
\* goroutines start.
Start ==
  /\ main = "starting"
  /\ main' = "waiting" /\ http' = "serving" /\ manager' = "syncing"
  /\ UNCHANGED <<cancelled, stops>>

\* log.Fatalf or os.Exit(1) on any error before the goroutines start.
StartFails ==
  /\ main = "starting" /\ Stop
  /\ main' = "exited" /\ UNCHANGED <<http, manager, cancelled>>

CachesFill ==
  /\ manager = "syncing" /\ ~cancelled
  /\ manager' = "running" /\ UNCHANGED <<main, http, cancelled, stops>>

\* Mutant: the HTTP goroutine logs its error and ends.
ListenFailsQuietly ==
  /\ http = "serving" /\ Stop
  /\ http' = "stopped" /\ UNCHANGED <<main, manager, cancelled>>

\* ListenAndServe returns an error other than ErrServerClosed.
ListenFails ==
  /\ http = "serving" /\ Stop
  /\ http' = "stopped" /\ cancelled' = TRUE /\ UNCHANGED <<main, manager>>

\* mgr.Start returns an error: a cache that never fills, a runnable that fails.
ManagerFails ==
  /\ manager # "stopped" /\ Stop
  /\ manager' = "stopped" /\ cancelled' = TRUE /\ UNCHANGED <<main, http>>

\* SIGINT or SIGTERM.
Signal ==
  /\ main = "waiting" /\ ~cancelled /\ Stop
  /\ cancelled' = TRUE /\ UNCHANGED <<main, http, manager>>

\* mgr.Start returns because its context is done; the workers have ended.
ManagerStops ==
  /\ manager # "stopped" /\ cancelled
  /\ manager' = "stopped" /\ UNCHANGED <<main, http, cancelled, stops>>

\* srv.Shutdown closes the listener, and ListenAndServe returns ErrServerClosed.
Shutdown ==
  /\ main = "waiting" /\ cancelled
  /\ main' = "draining" /\ http' = "stopped" /\ UNCHANGED <<manager, cancelled, stops>>

\* Shutdown returns: connections are idle, or 15 seconds have passed (an event
\* stream never becomes idle by itself).
Drained ==
  /\ main = "draining"
  /\ main' = "joining" /\ UNCHANGED <<http, manager, cancelled, stops>>

\* wg.Wait returns when both goroutines have.
Exit ==
  /\ main = "joining" /\ http = "stopped" /\ manager = "stopped"
  /\ main' = "exited" /\ UNCHANGED <<http, manager, cancelled, stops>>

\* The process is killed.
Kill ==
  /\ main \notin {"starting", "exited"} /\ Stop
  /\ main' = "exited" /\ http' = "stopped" /\ manager' = "stopped" /\ UNCHANGED cancelled

\* The kubelet starts the container again.
Restart ==
  /\ main = "exited"
  /\ main' = "starting" /\ cancelled' = FALSE /\ UNCHANGED <<http, manager, stops>>

ProcProgress ==
  Start \/ CachesFill \/ ManagerStops \/ Shutdown \/ Drained \/ Exit \/ Restart

ProcNext == ProcProgress \/ StartFails \/ ListenFails \/ ManagerFails \/ Signal \/ Kill

\* A process that is up gets on with its work; goroutines are scheduled.
ProcFairness ==
  /\ WF_procVars(Start \/ Restart) /\ WF_procVars(CachesFill) /\ WF_procVars(ManagerStops)
  /\ WF_procVars(Shutdown \/ Drained \/ Exit)

\* The service never limps: when its HTTP server or its manager has stopped, or a
\* signal came, the process ends as a whole and the next one serves requests and
\* reconciles (main: every way out of a goroutine cancels the shared context).
ServiceResumes == []<>(http = "serving" /\ manager = "running" /\ ~cancelled)
=============================================================================
