------------------------------- MODULE Helper -------------------------------
(* Who owns the kernel on macOS. The kernel runs as an ordinary child of the *)
(* application until TUN needs it to be root's; from then on a launch daemon *)
(* starts and stops it on request, and the application only holds its pid.   *)
(* Both kinds of kernel listen on the same socket, at which the last to bind *)
(* answers. Requests may be given up by the client and handled later, the    *)
(* daemon may be missing, outdated or restarted, and the application may be  *)
(* killed and launched again while its kernels run on.                       *)
EXTENDS Integers, FiniteSets

CONSTANTS Pids,     \* process identifiers, used again once nobody refers to them
          None,     \* no process
          MaxOps    \* bound on what the user and the world do between two idle states
ASSUME NoProcessAssumption == None \notin Pids

VARIABLES
  alive,       \* the kernel processes: "none", "ordinary" or "root"
  bound,       \* those that have bound the controller socket
  socket,      \* the last of them to bind, if it still runs
  helper,      \* the launch daemon: "absent", "outdated" or "current"
  child,       \* HelperCore.child
  late,        \* requests whose client has given up: a start, and stops by pid
  manager,     \* the EngineManager: which spawner it has, its child, state Ready
  privileged,  \* the flag of ControllerRuntime::Managed
  task,         \* the caller that holds the manager's lock, and where it stands
  tun,         \* where set_tun_enabled(true) stands
  tunAt,       \* the kernel that accepted the last TUN configuration
  marks,       \* what has happened that the properties except
  ops          \* bounds MaxOps

system == <<alive, bound, socket>>
daemon == <<helper, child, late>>
helperVars == <<alive, bound, socket, helper, child, late, manager, privileged, task, tun,
          tunAt, marks, ops>>

Alive == {p \in Pids : alive[p] # "none"}
Ordinary == [kind |-> "ordinary", child |-> None, ready |-> FALSE]
Root == [kind |-> "root", child |-> None, ready |-> FALSE]
Free == [of |-> "none", at |-> "free", running |-> FALSE]
At(at) == [task EXCEPT !.at = at]

\* Identifiers that no process, manager, daemon or request refers to.
Unused == Pids \ (Alive \cup {child, manager.child, tunAt} \cup late.stops)

HelperInit ==
  /\ alive = [p \in Pids |-> "none"] /\ bound = {} /\ socket = None
  /\ helper \in {"absent", "outdated", "current"} /\ child = None
  /\ late = [start |-> FALSE, stops |-> {}]
  /\ manager = Ordinary /\ privileged = FALSE /\ task = Free
  /\ tun = "idle" /\ tunAt = None /\ marks = {} /\ ops = 0

Act == ops < MaxOps /\ ops' = ops + 1

---------------------------------------------------------------------------
(* Processes and the socket                                                 *)

KernelEnds(gone) ==
  /\ alive' = [p \in Pids |-> IF p \in gone THEN "none" ELSE alive[p]]
  /\ bound' = bound \ gone
  /\ socket' = IF socket \in gone THEN None ELSE socket

Begins(p, kind) == alive' = [alive EXCEPT ![p] = kind] /\ UNCHANGED <<bound, socket>>

Bind(p) ==
  /\ p \in Alive \ bound
  /\ bound' = bound \cup {p} /\ socket' = p
  /\ UNCHANGED <<alive, daemon, manager, privileged, task, tun, tunAt, marks, ops>>

Exit(p) ==
  /\ p \in Alive /\ Act /\ KernelEnds({p})
  /\ UNCHANGED <<daemon, manager, privileged, task, tun, tunAt, marks>>

---------------------------------------------------------------------------
(* The daemon                                                               *)

ChildRuns == child \in Alive
Stops(p) == IF ChildRuns /\ child = p THEN {p} ELSE {}

\* Mutant: the pid of the request is not compared.
MayStopAny(p) == p \in Pids

MayStop(p) == ChildRuns => child = p

\* A request to stop p as its client sees it: handled, refused because
\* another kernel runs, not delivered, or given up and handled later.
RequestStop(p, ok) ==
  \/ /\ ok /\ helper = "current" /\ MayStop(p)
     /\ KernelEnds(Stops(p)) /\ child' = None /\ UNCHANGED <<helper, late>>
  \/ /\ ~ok /\ UNCHANGED <<system, daemon>>
  \/ /\ ~ok /\ helper = "current" /\ late' = [late EXCEPT !.stops = @ \cup {p}]
     /\ UNCHANGED <<system, helper, child>>

HandleLateStop(p) ==
  /\ p \in late.stops
  /\ late' = [late EXCEPT !.stops = @ \ {p}]
  /\ IF MayStop(p) THEN KernelEnds(Stops(p)) /\ child' = None
                   ELSE UNCHANGED <<system, child>>
  /\ UNCHANGED <<helper, manager, privileged, task, tun, tunAt, marks, ops>>

\* start: a kernel that runs is reported as the one that was started.
Starts(p) ==
  IF ChildRuns THEN p = child /\ UNCHANGED <<system, child>>
               ELSE p \in Unused /\ Begins(p, "root") /\ child' = p

\* What runs no kernel: files that cannot be copied for root, or a
\* configuration that its own kernel rejects.
Rejects == ~ChildRuns /\ child' = None /\ UNCHANGED system

HandleLateStart ==
  /\ late.start /\ late' = [late EXCEPT !.start = FALSE]
  /\ \/ \E p \in Pids : Starts(p)
     \/ Rejects
  /\ UNCHANGED <<helper, manager, privileged, task, tun, tunAt, marks, ops>>

\* launchd ends the daemon: requests in flight are lost, the child is
\* forgotten and usually, but not surely, ends as well.
DaemonForgets(becomes) ==
  /\ helper' = becomes /\ child' = None /\ late' = [start |-> FALSE, stops |-> {}]
  /\ \/ KernelEnds({child} \cap Pids) /\ UNCHANGED marks
     \/ /\ ChildRuns /\ UNCHANGED system
        /\ marks' = marks \cup {"forgotten"}

\* stage-core is refused beside a kernel that runs.
StageCore == helper = "current" /\ ~ChildRuns /\ child' = None /\ UNCHANGED <<system, helper, late>>

\* The installer replaces the daemon, or fails after it has removed it.
Reinstall == \E becomes \in {"absent", "current"} : DaemonForgets(becomes)

DaemonRestarts ==
  /\ helper = "current" /\ Act /\ DaemonForgets("current")
  /\ UNCHANGED <<manager, privileged, task, tun, tunAt>>

---------------------------------------------------------------------------
(* The manager's methods over its two spawners                              *)

\* terminate, for the child of either spawner.
Terminate(ok) ==
  \/ /\ manager.kind = "ordinary" /\ UNCHANGED daemon
     /\ IF ok THEN KernelEnds({manager.child}) ELSE UNCHANGED system
  \/ manager.kind = "root" /\ RequestStop(manager.child, ok)

\* try_wait, as far as the daemon answers: the child has exited, or it runs.
\* That another kernel runs in its place is an error like no answer at all.
ChildExited == IF manager.kind = "ordinary" THEN manager.child \notin Alive
               ELSE helper = "current" /\ ~ChildRuns
ChildGoesOn == IF manager.kind = "ordinary" THEN manager.child \in Alive
               ELSE helper = "current" /\ ChildRuns /\ child = manager.child

\* running_endpoint: the answer and the manager afterwards. An exit is an
\* error the first time and leaves no child; an unready child is no endpoint.
Poll(answer) ==
  \/ answer = "none" /\ manager.child = None /\ UNCHANGED manager
  \/ /\ manager.child # None /\ manager.kind = "root"
     /\ answer = "error" /\ UNCHANGED manager       \* status not answered
  \/ /\ manager.child # None /\ ChildExited /\ answer = "error"
     /\ manager' = [manager EXCEPT !.child = None, !.ready = FALSE]
  \/ /\ manager.child # None /\ ChildGoesOn
     /\ answer = (IF manager.ready THEN "running" ELSE "none")
     /\ UNCHANGED manager

\* The spawner replaced: the old manager terminates what it still owns and
\* ignores the outcome.
Replace(new) ==
  /\ manager' = new
  /\ IF manager.child = None THEN UNCHANGED <<system, daemon, marks>>
     ELSE \E ok \in BOOLEAN :
            /\ Terminate(ok)
            /\ marks' = marks \cup (IF manager.child \in {p \in Pids : alive'[p] # "none"}
                                    THEN {"kept"} ELSE {})

\* What happens next, for each caller of start that failed or succeeded.
Failed == /\ tun' = IF task.of \in {"promote", "fallback"} THEN "idle" ELSE tun
          /\ task' = IF task.of = "promote" THEN At("demote") ELSE Free

Spawn ==
  /\ task.at = "start"
  /\ \/ /\ manager.child # None                     \* AlreadyRunning
        /\ manager' = [manager EXCEPT !.ready = FALSE] /\ Failed
        /\ UNCHANGED <<system, daemon, marks>>
     \/ /\ manager.child = None                     \* not validated, or not spawned
        /\ Failed /\ UNCHANGED <<system, daemon, manager, marks>>
     \/ /\ manager.child = None
        /\ task' = At("probe") /\ UNCHANGED <<helper, late, tun, marks>>
        /\ \E p \in Pids :
             /\ manager' = [manager EXCEPT !.child = p]
             /\ \/ /\ manager.kind = "ordinary" /\ p \in Unused
                   /\ Begins(p, "ordinary") /\ UNCHANGED child
                \/ manager.kind = "root" /\ helper = "current" /\ Starts(p)
     \/ /\ manager.child = None /\ manager.kind = "root" /\ helper = "current"
        /\ Failed /\ late' = [late EXCEPT !.start = TRUE]      \* given up
        /\ marks' = marks \cup {"late"}
        /\ UNCHANGED <<system, helper, child, manager>>
  /\ UNCHANGED <<privileged, tunAt, ops>>

\* The readiness loop: the child has to run and somebody has to answer.
Ready ==
  /\ task.at = "probe" /\ socket # None
  /\ ChildGoesOn
  /\ manager' = [manager EXCEPT !.ready = TRUE]
  /\ task' = IF task.of = "connect" THEN At("snapshot") ELSE Free
  /\ tun' = CASE task.of = "promote" -> "put" [] task.of = "fallback" -> "idle" [] OTHER -> tun
  /\ privileged' = (privileged \/ task.of = "promote")
  /\ UNCHANGED <<system, daemon, tunAt, marks, ops>>

\* It ends without Ready: the child has exited, or cannot be asked, or never
\* answers, and in the latter two cases is terminated.
NotReady ==
  /\ task.at = "probe" /\ Failed
  /\ \/ /\ Poll("error") /\ manager'.child = None
        /\ UNCHANGED <<system, daemon>>
     \/ \E ok \in BOOLEAN :
          /\ Terminate(ok)
          /\ manager' = IF ok THEN [manager EXCEPT !.child = None] ELSE manager
  /\ UNCHANGED <<privileged, tunAt, marks, ops>>

---------------------------------------------------------------------------
(* ControllerRuntime::connect, stop_managed and restarts                    *)

Connect ==
  /\ task = Free /\ Act
  /\ \E answer \in {"running", "none", "error"} :
       /\ Poll(answer)
       /\ task' = CASE answer = "running" -> [Free EXCEPT !.of = "connect", !.at = "snapshot"]
                   [] answer = "none" -> [Free EXCEPT !.of = "connect",
                                          !.at = IF privileged THEN "start" ELSE "recover"]
                   [] answer = "error" -> Free
  /\ UNCHANGED <<system, daemon, privileged, tun, tunAt, marks>>

\* recover_if_available: without an answer of a current helper an ordinary
\* kernel is started, whatever still runs.
RecoverIfAvailable ==
  /\ task.at = "recover"
  /\ \/ /\ task' = At("start")
        /\ marks' = marks \cup (IF Alive # {} THEN {"unreached"} ELSE {})
        /\ UNCHANGED <<system, daemon>>
     \/ /\ helper = "current" /\ ~ChildRuns /\ child' = None
        /\ task' = At("reclaim") /\ UNCHANGED <<system, helper, late, marks>>
     \/ /\ helper = "current" /\ ChildRuns
        /\ \E ok \in BOOLEAN :
             /\ RequestStop(child, ok)
             /\ task' = IF ok THEN At("reclaim") ELSE Free
        /\ UNCHANGED marks
  /\ UNCHANGED <<manager, privileged, tun, tunAt, ops>>

\* Mutant: a process that does not stop in time is left running.
ReclaimPatiently(ok) ==
  ok \in BOOLEAN /\ \E gone \in SUBSET {p \in bound : alive[p] = "ordinary"} : KernelEnds(gone)

\* reclaim_stale_ordinary: the processes that hold the socket and run the
\* kernel's program as this user are terminated, one after the other.
Reclaim(ok) ==
  \E gone \in SUBSET {p \in bound : alive[p] = "ordinary"} :
    /\ ok => gone = {p \in bound : alive[p] = "ordinary"}
    /\ KernelEnds(gone)

ReclaimStaleOrdinary ==
  /\ task.at = "reclaim"
  /\ \/ Reclaim(FALSE) /\ task' = Free /\ tun' = IF task.of = "promote" THEN "idle" ELSE tun
     \/ Reclaim(TRUE) /\ task' = At("adopt") /\ UNCHANGED tun
  /\ UNCHANGED <<daemon, manager, privileged, tunAt, marks, ops>>

\* From here on the daemon starts and stops the kernel.
Adopt ==
  /\ task.at = "adopt" /\ Replace(Root) /\ task' = At("start")
  /\ privileged' = (privileged \/ task.of = "connect")
  /\ UNCHANGED <<tun, tunAt, ops>>

\* The snapshot is loaded without the lock; a kernel that serves something
\* else than the generated profile is stopped again.
ReadSnapshot ==
  /\ task.at = "snapshot" /\ task' = Free
  /\ \/ UNCHANGED <<system, daemon, manager>>
     \/ /\ manager.child # None
        /\ \E ok \in BOOLEAN :
             /\ Terminate(ok)
             /\ manager' = [manager EXCEPT !.ready = FALSE,
                                           !.child = IF ok THEN None ELSE @]
  /\ UNCHANGED <<privileged, tun, tunAt, marks, ops>>

\* stop_managed, or stop and start again after a source change or when the
\* route of TUN stays behind.
Stop(then) ==
  /\ task = Free /\ Act
  /\ \/ /\ manager.child = None
        /\ manager' = [manager EXCEPT !.ready = FALSE]
        /\ UNCHANGED <<system, daemon>> /\ task' = then
     \/ /\ manager.child # None
        /\ \E ok \in BOOLEAN :
             /\ Terminate(ok)
             /\ manager' = [manager EXCEPT !.ready = FALSE,
                                           !.child = IF ok THEN None ELSE @]
             /\ task' = IF ok THEN then ELSE Free
  /\ UNCHANGED <<privileged, tun, tunAt, marks>>

StopManaged == Stop(Free)
Restart == /\ manager.ready \/ manager.kind = "root"
           /\ Stop([Free EXCEPT !.of = "restart", !.at = "start"])

Health ==
  /\ task = Free /\ \E answer \in {"running", "none", "error"} : Poll(answer)
  /\ UNCHANGED <<system, daemon, privileged, task, tun, tunAt, marks, ops>>

---------------------------------------------------------------------------
(* set_tun_enabled(true): promotion and the new configuration               *)

SetTunEnabled ==
  /\ tun = "idle" /\ Act
  /\ tun' = IF privileged THEN "put" ELSE "prepare"
  /\ UNCHANGED <<system, daemon, manager, privileged, task, tunAt, marks>>

\* MacosPrivilegedProcessSpawner::prepare, outside the lock: a current helper
\* is given the kernel binary, which it refuses while it runs a kernel; any
\* other is installed again first.
Prepare ==
  /\ tun = "prepare"
  /\ \/ tun' = "idle" /\ UNCHANGED <<system, daemon, marks>>
     \/ StageCore /\ tun' = "prepared" /\ UNCHANGED marks
     \/ Reinstall /\ tun' \in {"prepare", "idle"}
  /\ UNCHANGED <<manager, privileged, task, tunAt, ops>>

EnsurePrivileged ==
  /\ tun = "prepared" /\ task = Free
  /\ \E answer \in {"running", "none", "error"} :
       /\ Poll(answer)
       /\ IF answer = "error" THEN task' = Free /\ tun' = "idle"
          ELSE /\ task' = [of |-> "promote", running |-> answer = "running",
                          at |-> IF answer = "running" THEN "stop" ELSE "reclaim"]
               /\ tun' = "promoting"
  /\ marks' = marks \cup (IF privileged THEN {"raced"} ELSE {})
  /\ UNCHANGED <<system, daemon, privileged, tunAt, ops>>

PromotionStops ==
  /\ task.at = "stop"
  /\ \E ok \in BOOLEAN :
       /\ Terminate(ok)
       /\ manager' = [manager EXCEPT !.ready = FALSE, !.child = IF ok THEN None ELSE @]
       /\ task' = IF ok THEN At("adopt") ELSE Free
       /\ tun' = IF ok THEN tun ELSE "idle"
  /\ UNCHANGED <<privileged, tunAt, marks, ops>>

\* start_promoted_mihomo after a failure: an ordinary manager again, and its
\* kernel if there was one.
Demote ==
  /\ task.at = "demote" /\ Replace(Ordinary)
  /\ task' = IF task.running THEN [task EXCEPT !.of = "fallback", !.at = "start"] ELSE Free
  /\ UNCHANGED <<privileged, tun, tunAt, ops>>

\* The endpoint is asked for again; whoever answers there gets the
\* configuration with TUN.
PutConfig ==
  /\ tun = "put" /\ task = Free /\ tun' = "idle"
  /\ \E answer \in {"running", "none", "error"} :
       /\ Poll(answer)
       /\ \/ UNCHANGED tunAt
          \/ answer = "running" /\ socket # None /\ tunAt' = socket
  /\ UNCHANGED <<system, daemon, privileged, task, marks, ops>>

---------------------------------------------------------------------------

\* The application is killed and launched again. A request to the daemon that
\* was under way is handled all the same.
Kill ==
  /\ Act /\ manager' = Ordinary /\ privileged' = FALSE /\ task' = Free /\ tun' = "idle"
  /\ \/ UNCHANGED late
     \/ /\ task.at = "start" /\ manager.kind = "root" /\ helper = "current"
        /\ late' = [late EXCEPT !.start = TRUE]
  /\ marks' = marks \cup (IF late'.start THEN {"late"} ELSE {})
                    \cup (IF \E p \in Alive \ bound : alive[p] = "ordinary"
                          THEN {"unbound"} ELSE {})
  /\ UNCHANGED <<system, helper, child, tunAt>>

HelperNext ==
  \/ \E p \in Pids : Bind(p) \/ Exit(p) \/ HandleLateStop(p)
  \/ HandleLateStart \/ DaemonRestarts
  \/ Connect \/ RecoverIfAvailable \/ ReclaimStaleOrdinary \/ Adopt \/ Spawn \/ Ready \/ NotReady \/ ReadSnapshot
  \/ StopManaged \/ Restart \/ Health
  \/ SetTunEnabled \/ Prepare \/ EnsurePrivileged \/ PromotionStops
  \/ Demote \/ PutConfig \/ Kill

HelperSpec == HelperInit /\ [][HelperNext]_helperVars

---------------------------------------------------------------------------
\* A kernel that has been reported ready is the only one: whatever earlier
\* instances of the application left behind was stopped by the daemon or
\* reclaimed at the socket (ControllerRuntime::connect,
\* ensure_privileged_mihomo), unless a start was given up, the daemon could
\* not be asked or forgot its child, an ordinary kernel could not be
\* terminated, or had not yet bound the socket at which it is looked for.
SoleKernel ==
  manager.ready /\ marks \subseteq {"raced"} => Alive \subseteq {manager.child}

\* The daemon knows every root kernel: it starts none beside its child, and a
\* stop that is handled late, after another kernel was started, does not make
\* it forget that one (validateMihomoStop). A root kernel nobody knows keeps
\* the device and the socket until the machine restarts. Excepted is the
\* daemon's own restart, for a child that outlives it.
RootIsHeld ==
  "forgotten" \notin marks => {p \in Alive : alive[p] = "root"} \subseteq {child}

=============================================================================
