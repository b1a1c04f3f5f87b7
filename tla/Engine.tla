------------------------------- MODULE Engine -------------------------------
(***************************************************************************)
(* The lifecycle of the managed kernel: manis-engine's EngineManager, the  *)
(* operating-system processes it spawns, the ways a manager goes away, and *)
(* the window's live session, which alone asks after the kernel's health.  *)
(*                                                                         *)
(* A manager's methods take &mut self behind one mutex, so calls do not    *)
(* interleave with each other; they interleave with the processes, which   *)
(* bind the controller endpoint and exit whenever they like.  One step of  *)
(* the module is one system call of a method and the code around it.       *)
(***************************************************************************)
EXTENDS Naturals, FiniteSets

CONSTANTS
  Pid,       \* process identifiers the operating system hands out
  NoPid,     \* stands for Option::None in EngineManager.child
  Attempts   \* ReadinessPolicy.attempts

ASSUME NoPidAssumption == NoPid \notin Pid
ASSUME AttemptsAssumption == Attempts \in Nat \ {0}

VARIABLES
  state,     \* EngineManager.state, without the payloads
  child,     \* EngineManager.child
  pc,        \* where the running method stands; "free" when none runs
  attempt,   \* loop counter of start
  alive,     \* processes that have not exited
  bound,     \* the process that answers on the controller endpoint
  leaked,    \* live processes that no manager owns any more
  window     \* "live": connected and polling; "connecting"; else "away"

vars == <<state, child, pc, attempt, alive, bound, leaked, window>>
managerVars == <<state, child, pc, attempt>>
processVars == <<alive, bound, leaked>>

EngineState == {"Idle", "Preparing", "Validating", "Starting", "Ready",
                "Stopping", "Stopped", "Failed"}
Stage == {"free", "prepare", "validate", "spawn", "poll", "probe", "cleanup",
          "terminate"}

Owned == child # NoPid
Fail == /\ state' = "Failed"
        /\ pc' = "free"

Init ==
  /\ state = "Idle"
  /\ child = NoPid
  /\ pc = "free"
  /\ attempt = 0
  /\ alive = {}
  /\ bound = NoPid
  /\ leaked = {}
  /\ window = "away"

-----------------------------------------------------------------------------
(* Processes.                                                              *)

\* Processes in gone exit.
Vanish(gone) ==
  /\ alive' = alive \ gone
  /\ bound' = IF bound \in gone THEN NoPid ELSE bound

\* The kernel opens its controller.  A second kernel on a Unix socket takes
\* the socket file over from the first; on a TCP port it cannot (no step).
ProcessBind(p) ==
  /\ p \in alive
  /\ bound # p
  /\ bound' = p
  /\ UNCHANGED <<managerVars, alive, leaked, window>>

\* The kernel crashes or is killed from outside.
ProcessExit(p) ==
  /\ p \in alive
  /\ Vanish({p})
  /\ leaked' = leaked \ {p}
  /\ UNCHANGED <<managerVars, window>>

\* ManagedChild::terminate on the owned child succeeds: killed and reaped.
TerminateOk ==
  /\ Vanish({child})
  /\ UNCHANGED <<leaked, window>>

\* It fails: the kill was refused, or the process died and the wait failed.
TerminateErr ==
  /\ Vanish({}) \/ Vanish({child})
  /\ UNCHANGED <<leaked, window>>

-----------------------------------------------------------------------------
(* EngineManager::start.                                                   *)

StartWhileOwned ==
  /\ pc = "free"
  /\ Owned
  /\ Fail
  /\ UNCHANGED <<child, attempt, processVars, window>>

StartBegin ==
  /\ pc = "free"
  /\ ~Owned
  /\ state' = "Preparing"
  /\ pc' = "prepare"
  /\ UNCHANGED <<child, attempt, processVars, window>>

\* The configuration or the data directory is refused, or both are fine.
StartPrepare ==
  /\ pc = "prepare"
  /\ \/ Fail
     \/ /\ state' = "Validating"
        /\ pc' = "validate"
  /\ UNCHANGED <<child, attempt, processVars, window>>

\* The validation process fails, times out or rejects, or accepts.
StartValidate ==
  /\ pc = "validate"
  /\ \/ Fail
     \/ /\ state' = "Starting"
        /\ pc' = "spawn"
  /\ UNCHANGED <<child, attempt, processVars, window>>

StartSpawn ==
  /\ pc = "spawn"
  /\ \/ /\ Fail
        /\ UNCHANGED <<child, attempt, alive>>
     \/ \E p \in Pid \ alive :
          /\ child' = p
          /\ alive' = alive \union {p}
          /\ attempt' = 0
          /\ pc' = "poll"
          /\ UNCHANGED state
  /\ UNCHANGED <<bound, leaked, window>>

\* try_wait reports an exit, reports a running child, or fails.
StartPoll ==
  /\ pc = "poll"
  /\ \/ /\ child \notin alive
        /\ child' = NoPid
        /\ Fail
     \/ /\ child \in alive
        /\ pc' = "probe"
        /\ UNCHANGED <<state, child>>
     \/ /\ pc' = "cleanup"
        /\ UNCHANGED <<state, child>>
  /\ UNCHANGED <<attempt, processVars, window>>

\* Whoever serves the controller endpoint answers the probe.
StartProbeReady ==
  /\ pc = "probe"
  /\ bound # NoPid
  /\ state' = "Ready"
  /\ pc' = "free"
  /\ UNCHANGED <<child, attempt, processVars, window>>

StartProbePending ==
  /\ pc = "probe"
  /\ IF attempt + 1 < Attempts
       THEN /\ attempt' = attempt + 1
            /\ pc' = "poll"
       ELSE /\ pc' = "cleanup"
            /\ UNCHANGED attempt
  /\ UNCHANGED <<state, child, processVars, window>>

\* fail_after_cleanup: a child that cannot be terminated stays owned.
StartCleanup ==
  /\ pc = "cleanup"
  /\ \/ /\ TerminateOk
        /\ child' = NoPid
     \/ /\ TerminateErr
        /\ UNCHANGED child
  /\ Fail
  /\ UNCHANGED attempt

-----------------------------------------------------------------------------
(* EngineManager::stop and running_endpoint.                               *)

StopBegin ==
  /\ pc = "free"
  /\ IF Owned
       THEN /\ state' = "Stopping"
            /\ pc' = "terminate"
       ELSE /\ state' = "Stopped"
            /\ UNCHANGED pc
  /\ UNCHANGED <<child, attempt, processVars, window>>

\* Mutant: stop takes the child and does not put it back after a failure.
StopTerminateForgets ==
  /\ pc = "terminate"
  /\ TerminateOk \/ TerminateErr
  /\ child' = NoPid
  /\ state' = "Stopped"
  /\ pc' = "free"
  /\ UNCHANGED attempt

StopTerminate ==
  /\ pc = "terminate"
  /\ \/ /\ TerminateOk
        /\ child' = NoPid
        /\ state' = "Stopped"
        /\ pc' = "free"
     \/ /\ TerminateErr
        /\ UNCHANGED child
        /\ Fail
  /\ UNCHANGED attempt

\* running_endpoint, called by a connect or a change of the configuration,
\* finds that the child has exited and reaps it.  Its other outcomes (no
\* child, a running child, a failing query) change nothing.
ReapExited ==
  /\ pc = "free"
  /\ Owned
  /\ child \notin alive
  /\ child' = NoPid
  /\ Fail
  /\ window' \in {window, IF window = "connecting" THEN "away" ELSE window}
  /\ UNCHANGED <<attempt, processVars>>

-----------------------------------------------------------------------------
(* The window's live session.                                              *)

\* connect_mihomo ends the session before it asks the manager.
WindowConnects ==
  /\ window # "connecting"
  /\ window' = "connecting"
  /\ UNCHANGED <<managerVars, processVars>>

\* The manager is ready and the controller has answered with a snapshot, or
\* the connect has failed.
WindowConnected ==
  /\ window = "connecting"
  /\ \/ /\ state = "Ready"
        /\ bound # NoPid
        /\ window' = "live"
     \/ window' = "away"
  /\ UNCHANGED <<managerVars, processVars>>

\* An update of the kernel, a replaced configuration that failed, or live
\* streams that could not be started.
WindowLeaves ==
  /\ window = "live"
  /\ window' = "away"
  /\ UNCHANGED <<managerVars, processVars>>

\* Mutant: the poll answers from the recorded state and never asks the child.
HealthPollOfState ==
  /\ window = "live"
  /\ pc = "free"
  /\ state # "Ready"
  /\ window' = "away"
  /\ UNCHANGED <<managerVars, processVars>>

\* The poll of the live session finds the child gone, or no child, or one
\* that is not ready: fail_safe_stopped_managed_kernel ends the session.
HealthPoll ==
  /\ window = "live"
  /\ pc = "free"
  /\ IF Owned /\ child \notin alive
       THEN child' = NoPid /\ Fail
       ELSE state # "Ready" /\ UNCHANGED <<state, child, pc>>
  /\ window' = "away"
  /\ UNCHANGED <<attempt, processVars>>

\* The child cannot be queried: the session ends and the manager stays as it
\* was, whether the child runs or not.
HealthPollFails ==
  /\ window = "live"
  /\ pc = "free"
  /\ Owned
  /\ window' = "away"
  /\ UNCHANGED <<managerVars, processVars>>

-----------------------------------------------------------------------------
(* A manager goes away and another one takes its place.                    *)

\* The old child, when it is still alive, has no owner from here on.
Abandon ==
  leaked' = leaked \union ({child} \intersect alive')

FreshManager ==
  /\ state' = "Idle"
  /\ child' = NoPid
  /\ pc' = "free"
  /\ attempt' = 0

\* Drop for EngineManager terminates the child and ignores the outcome.  It
\* runs when the application quits and whenever *manager is reassigned.
DropManager ==
  /\ pc = "free"
  /\ Vanish({}) \/ Vanish({child})
  /\ Abandon
  /\ FreshManager
  /\ window' \in {window, "away"}

\* The application is killed: no destructor runs, and the next launch builds
\* a manager that knows nothing of the old process.
AppCrash ==
  /\ Vanish({})
  /\ Abandon
  /\ FreshManager
  /\ window' = "away"

-----------------------------------------------------------------------------
StartSteps ==
  \/ StartPrepare \/ StartValidate \/ StartSpawn \/ StartPoll
  \/ StartProbeReady \/ StartProbePending \/ StartCleanup

Next ==
  \/ StartWhileOwned \/ StartBegin \/ StartSteps
  \/ StopBegin \/ StopTerminate \/ ReapExited
  \/ WindowConnects \/ WindowConnected \/ WindowLeaves
  \/ HealthPoll \/ HealthPollFails
  \/ DropManager \/ AppCrash
  \/ \E p \in Pid : ProcessBind(p) \/ ProcessExit(p)

\* A method that runs takes its next step.  A live session polls again and
\* again.  The poll waits for the manager's mutex in the window's own thread,
\* where every other call begins, so nothing new is begun before it.
Fairness ==
  /\ WF_vars(StartSteps)
  /\ WF_vars(StopTerminate)
  /\ SF_vars(HealthPoll)

Spec == Init /\ [][Next]_vars /\ Fairness

-----------------------------------------------------------------------------
\* Every variable has its type.
TypeOK ==
  /\ state \in EngineState
  /\ child \in Pid \union {NoPid}
  /\ pc \in Stage
  /\ attempt \in 0 .. Attempts - 1
  /\ alive \subseteq Pid
  /\ bound \in alive \union {NoPid}
  /\ leaked \subseteq alive
  /\ window \in {"away", "connecting", "live"}

\* A kernel that runs is either the manager's own child or was abandoned by
\* a manager that is gone: no failing start, stop or poll forgets a process.
OwnedOrLeaked == alive \subseteq {child} \union leaked

\* A failed stop or cleanup never loses the child it could not terminate:
\* ownership ends only with the process, or with the manager.
OwnershipEndsWithProcess ==
  [][Owned /\ child' # child => child \notin alive' \/ child \in leaked']_vars

\* While the window is connected, a kernel that dies does not go unnoticed:
\* whoever reaps it, and whatever start or stop runs at the same time, either
\* the connection ends or another kernel is started.  Without a live session
\* nobody polls, and nothing is promised.
CrashIsNoticed ==
  (window = "live" /\ child \notin alive) ~> (window # "live" \/ child \in alive)
=============================================================================
