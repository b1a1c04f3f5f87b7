----------------------------- MODULE CoreUpdate -----------------------------
(***************************************************************************)
(* The managed kernel binary and its update: the window's handlers, the    *)
(* worker that stops the kernel, downloads, publishes, checks and rolls    *)
(* back, and the connects, the automatic connection at launch and the      *)
(* system proxy switches that can run beside it.  A runtime owns at most   *)
(* one kernel process (Engine models how); an update prepares a second     *)
(* runtime, and the one that is given up ends its kernel when nothing      *)
(* holds it any more.                                                      *)
(*                                                                         *)
(* TUN asks the kernel for every switch and is left to ProxyMode; here the *)
(* proxy is the system proxy, which works without one.                     *)
(***************************************************************************)
EXTENDS Naturals, FiniteSets

CONSTANTS
  Cores,     \* kernel binaries that report the version they are meant to have
  None,      \* no binary, no kernel
  Corrupt,   \* a package that does not have the digest of the release or cannot be unpacked
  Foreign,   \* a package with a binary that does not report the release's version
  MaxOps     \* at most this many launches, user operations and kernel crashes

ASSUME CoreUpdateAssumption ==
  /\ {None, Corrupt, Foreign} \cap Cores = {} /\ MaxOps \in Nat
  /\ None # Corrupt /\ None # Foreign /\ Corrupt # Foreign

Runtimes == {0, 1}   \* a given-up runtime's name is free again once nobody holds it
Calls == {1, 2}      \* at most two connects are in flight
Binaries == Cores \cup {None}

VARIABLES
  target, backup, \* the managed binary, and its hard link while a new one is tried
  orphans,        \* backups that a launch finds under another process's name
  kernel,         \* the binary each runtime's kernel was started from
  managed,        \* runtimes that were built, with sources that compile
  runtime,        \* the window's runtime
  controller,     \* the window's connection; "Closed" when no application runs
  polling,        \* the live session polls the kernel's health
  core,           \* mihomo_core_update_state
  auto,           \* automatic connection: preference, stage, retry
  job,            \* the update's worker
  call,           \* the connects in flight
  proxy,          \* the system proxy: shown as on, and a switch in flight
  vouched,        \* the last binary that was in use before an update or passed its check
  meddled,        \* a connect or a switch was in flight beside an update, since the launch
  ops

files == <<target, backup, orphans, vouched>>
window == <<runtime, controller, polling, core, auto, proxy>>
vars == <<files, window, kernel, managed, job, call, meddled, ops>>

NoJob == [stage |-> "none", prev |-> 0, reconnect |-> FALSE, asset |-> None, ok |-> FALSE, snapshot |-> FALSE]
NoCall == [stage |-> "none", rt |-> 0]
NoAuto == [on |-> TRUE, stage |-> "Idle", retried |-> FALSE, timer |-> FALSE]
NoProxy == [on |-> FALSE, switching |-> FALSE]

Updating == job.stage # "none"
InFlight == {c \in Calls : call[c] # NoCall}
Op == ops < MaxOps /\ ops' = ops + 1
Open == controller # "Closed"

\* An Arc of a runtime's manager is held by the window, the worker and the connects.
Held(r) ==
  \/ runtime' = r
  \/ job' # NoJob /\ job'.prev = r
  \/ \E c \in Calls : call'[c] # NoCall /\ call'[c].rt = r

\* Drop for EngineManager ends the kernel of a runtime that nobody holds.
Dropped(k) == kernel' = [r \in Runtimes |-> IF Held(r) THEN k[r] ELSE None]

Init ==
  /\ target \in Binaries /\ backup = None /\ orphans = {} /\ vouched = target
  /\ kernel = [r \in Runtimes |-> None] /\ managed = {} /\ runtime = 0
  /\ controller = "Closed" /\ polling = FALSE /\ core = "Missing"
  /\ auto \in [on : BOOLEAN, stage : {"Idle"}, retried : {FALSE}, timer : {FALSE}]
  /\ job = NoJob /\ call = [c \in Calls |-> NoCall] /\ proxy = NoProxy
  /\ meddled = FALSE /\ ops = 0
-----------------------------------------------------------------------------
(* What the handlers of the window share; each gives the next values. *)

\* connect_mihomo: a call for the window's runtime.
Connects(r) ==
  \E c \in Calls \ InFlight :
    /\ \A d \in Calls \ InFlight : c <= d
    /\ call' = [call EXCEPT ![c] = [stage |-> "start", rt |-> r]]
    /\ controller' = "Connecting" /\ polling' = FALSE
    /\ meddled' = (meddled \/ job' # NoJob)

NoConnect(k, p) == controller' = k /\ polling' = p /\ UNCHANGED <<call, meddled>>

\* auto_connect_decision with its gates, for preference a, runtime r, a core that
\* is ready or not and connection k.  The sources exist.
Decision(a, r, ready, k) ==
  IF ~a.on \/ k \in {"Connecting", "Connected"} \/ r \notin managed' THEN "Skip"
  ELSE IF ready THEN "Connect" ELSE "WaitForCore"

\* maybe_auto_connect, in a handler that has come to connection k and polling p
MaybeAutoConnect(a, r, ready, k, p) ==
  \/ Decision(a, r, ready, k) = "Skip" /\ auto' = a /\ NoConnect(k, p)
  \/ /\ Decision(a, r, ready, k) = "WaitForCore"
     /\ auto' = [a EXCEPT !.stage = "WaitingForCore"] /\ NoConnect(k, p)
  \/ /\ Decision(a, r, ready, k) = "Connect"
     /\ auto' = [a EXCEPT !.stage = "Connecting", !.retried = FALSE] /\ Connects(r)

\* The worker that update_mihomo_core starts; the previous runtime is the window's.
UpdateOf(r, reconnect) == [NoJob EXCEPT !.stage = "stop", !.prev = r, !.reconnect = reconnect]
-----------------------------------------------------------------------------
(* The window. *)

\* install_seed_if_missing: a missing binary is replaced by the bundled one, if there
\* is one and it can be installed.
Seeded == IF target # None THEN {target} ELSE Binaries

\* ManisApp::new: the runtime is built from the binary that there is then.
Launch ==
  /\ ~Open /\ Op
  /\ target' \in Seeded
  /\ vouched' = IF target' # None THEN target' ELSE vouched
  /\ runtime' = 0 /\ managed' \in IF target' = None THEN {{}} ELSE {{}, {0}}
  /\ IF target' = None THEN core' = "Updating" /\ job' = UpdateOf(0, FALSE)
                       ELSE core' = "Ready" /\ job' = NoJob
  /\ proxy' = NoProxy
  /\ MaybeAutoConnect([NoAuto EXCEPT !.on = auto.on], 0, target' # None, "Disconnected", FALSE)
  /\ UNCHANGED <<backup, orphans, kernel>>

\* The application quits or crashes; a kernel that outlives it is Engine's subject.
Close ==
  /\ Open /\ Op
  /\ backup' = None /\ orphans' = orphans \cup ({backup} \ {None})
  /\ kernel' = [r \in Runtimes |-> None] /\ managed' = {} /\ runtime' = 0
  /\ controller' = "Closed" /\ polling' = FALSE /\ core' = "Missing"
  /\ auto' = [NoAuto EXCEPT !.on = auto.on]
  /\ job' = NoJob /\ call' = [c \in Calls |-> NoCall] /\ proxy' = NoProxy /\ meddled' = FALSE
  /\ UNCHANGED <<target, vouched>>

\* connect_mihomo, from one of its buttons: the state of the update is not asked for.
Connect ==
  /\ Open /\ controller # "Connecting" /\ Op
  /\ UNCHANGED job /\ Connects(runtime)
  /\ UNCHANGED <<files, kernel, managed, runtime, core, auto, proxy>>

\* update_mihomo_core, from its button
Update ==
  /\ Open /\ core # "Updating" /\ ~proxy.on /\ Op
  /\ core' = "Updating" /\ job' = UpdateOf(runtime, controller = "Connected")
  /\ controller' = "Disconnected" /\ polling' = FALSE
  /\ meddled' = (meddled \/ InFlight # {} \/ proxy.switching)
  /\ vouched' = IF target # None THEN target ELSE vouched
  /\ UNCHANGED <<target, backup, orphans, kernel, managed, runtime, auto, call, proxy>>

\* set_auto_connect, which updates a core that is missing
SetAuto ==
  /\ Open /\ Op
  /\ IF auto.on
       THEN auto' = [auto EXCEPT !.on = FALSE] /\ UNCHANGED <<controller, polling, call, meddled, core, job, managed>>
       ELSE /\ UNCHANGED managed
            /\ IF core = "Missing" /\ ~proxy.on
                 THEN /\ core' = "Updating" /\ job' = UpdateOf(runtime, controller = "Connected")
                      /\ LET d == Decision([auto EXCEPT !.on = TRUE], runtime, FALSE, controller)
                         IN auto' = [auto EXCEPT !.on = TRUE, !.stage = IF d = "WaitForCore" THEN "WaitingForCore" ELSE @]
                      /\ controller' = "Disconnected" /\ polling' = FALSE
                      /\ meddled' = (meddled \/ InFlight # {} \/ proxy.switching) /\ UNCHANGED call
                 ELSE /\ UNCHANGED <<core, job>>
                      /\ MaybeAutoConnect([auto EXCEPT !.on = TRUE], runtime, core = "Ready", controller, polling)
  /\ UNCHANGED <<files, kernel, runtime, proxy>>

\* apply_proxy_mode, and finish_proxy_mode_change after its worker: the system
\* proxy is switched on or off, and a failure leaves it as it was.
Switch ==
  /\ Open /\ controller = "Connected" /\ ~proxy.switching /\ Op
  /\ proxy' = [proxy EXCEPT !.switching = TRUE]
  /\ UNCHANGED <<files, kernel, managed, runtime, controller, polling, core, auto, job, call, meddled>>

SwitchEnds ==
  /\ proxy.switching
  /\ proxy' \in {[on |-> on, switching |-> FALSE] : on \in BOOLEAN}
  /\ UNCHANGED <<files, kernel, managed, runtime, controller, polling, core, auto, job, call, meddled, ops>>

\* fail_safe_stopped_managed_kernel
Poll ==
  /\ polling /\ kernel[runtime] = None
  /\ controller' = "Failed" /\ polling' = FALSE
  /\ \/ UNCHANGED proxy
     \/ proxy.on /\ proxy' = [proxy EXCEPT !.on = FALSE]
  /\ UNCHANGED <<files, kernel, managed, runtime, core, auto, job, call, meddled, ops>>

\* The timer of after_auto_connect_failure
Retry ==
  /\ auto.timer
  /\ IF auto.stage = "Connecting" /\ controller \notin {"Connecting", "Connected"}
       THEN auto' = [auto EXCEPT !.timer = FALSE] /\ UNCHANGED job /\ Connects(runtime)
       ELSE /\ auto' = [auto EXCEPT !.timer = FALSE, !.stage = IF @ = "Connecting" THEN "Idle" ELSE @]
            /\ UNCHANGED <<controller, polling, call, job, meddled>>
  /\ UNCHANGED <<files, kernel, managed, runtime, core, proxy, ops>>

KernelDies(r) ==
  /\ kernel[r] # None /\ Op
  /\ kernel' = [kernel EXCEPT ![r] = None]
  /\ UNCHANGED <<files, window, managed, job, call, meddled>>
-----------------------------------------------------------------------------
(* A connect: ControllerRuntime::connect on a worker, its end in the window. *)

Starts(r) == r \in managed /\ target # None

CallStart(c) ==
  /\ call[c].stage = "start"
  /\ LET r == call[c].rt IN
     \/ /\ kernel[r] # None \/ Starts(r)
        /\ kernel' = IF kernel[r] # None THEN kernel ELSE [kernel EXCEPT ![r] = target]
        /\ call' = [call EXCEPT ![c].stage = "load"]
     \/ /\ kernel[r] = None /\ UNCHANGED kernel
        /\ call' = [call EXCEPT ![c].stage = "failed"]
  /\ UNCHANGED <<files, window, managed, job, meddled, ops>>

\* The snapshot is loaded; one that does not fit the profile stops the kernel.
CallLoad(c) ==
  /\ call[c].stage = "load"
  /\ LET r == call[c].rt IN
     \/ kernel[r] # None /\ call' = [call EXCEPT ![c].stage = "loaded"] /\ UNCHANGED kernel
     \/ call' = [call EXCEPT ![c].stage = "failed"] /\ kernel' \in {kernel, [kernel EXCEPT ![r] = None]}
  /\ UNCHANGED <<files, window, managed, job, meddled, ops>>

\* The end of connect_mihomo; start_live_runtime may fail.
CallLoaded(c) ==
  /\ call[c].stage = "loaded"
  /\ call' = [call EXCEPT ![c] = NoCall]
  /\ auto' = [auto EXCEPT !.stage = "Idle", !.retried = FALSE]
  /\ controller' = "Connected" /\ polling' \in BOOLEAN
  /\ UNCHANGED <<files, managed, runtime, core, job, proxy, meddled, ops>>
  /\ Dropped(kernel)

\* after_auto_connect_failure: one retry
CallFailed(c) ==
  /\ call[c].stage = "failed"
  /\ call' = [call EXCEPT ![c] = NoCall]
  /\ controller' = "Failed" /\ UNCHANGED polling
  /\ auto' = IF auto.stage # "Connecting" THEN auto
             ELSE IF auto.retried THEN [auto EXCEPT !.stage = "Idle"]
             ELSE [auto EXCEPT !.retried = TRUE, !.timer = TRUE]
  /\ UNCHANGED <<files, managed, runtime, core, job, proxy, meddled, ops>>
  /\ Dropped(kernel)
-----------------------------------------------------------------------------
(* The worker of the update: perform_mihomo_core_update. *)

Work(from, to) == job.stage = from /\ job' = [job EXCEPT !.stage = to]
New == 1 - job.prev

\* Mutant: the kernel goes on while its binary is replaced.
StopSkipped ==
  /\ Work("stop", "download")
  /\ UNCHANGED <<files, window, kernel, managed, call, meddled, ops>>

\* stop_managed: a kernel that cannot be stopped ends the update at once.
Stop ==
  /\ \/ Work("stop", "download") /\ kernel' = [kernel EXCEPT ![job.prev] = None]
     \/ Work("stop", "done") /\ kernel[job.prev] # None /\ UNCHANGED kernel
  /\ UNCHANGED <<files, window, managed, call, meddled, ops>>

\* download_bytes: whatever the server sends within the limit of a package
Packages == Cores \cup {Corrupt, Foreign}

\* fetch_current_release_asset, download_asset_package
Download ==
  /\ \/ job.stage = "download"
        /\ \E p \in Packages : job' = [job EXCEPT !.stage = "stage", !.asset = p]
     \/ Work("download", "recover")
  /\ UNCHANGED <<files, window, kernel, managed, call, meddled, ops>>

\* verify_asset_digest, unpack_core_binary
Unpacks == job.asset # Corrupt

\* validate_binary_version: the binary is started to ask for its version.
Genuine == job.asset # Foreign

\* install_asset_package up to publish_staged_core: only a sibling is written.
Stage ==
  /\ \/ Unpacks /\ Genuine /\ Work("stage", "backup")
     \/ Work("stage", "recover")
  /\ UNCHANGED <<files, window, kernel, managed, call, meddled, ops>>

\* publish_staged_core: the hard link, under a name of its own
Backup ==
  /\ orphans' = orphans \cup ({backup} \ {None})
  /\ \/ Work("backup", "publish") /\ backup' = target
     \/ Work("backup", "recover") /\ target # None /\ backup' = None
  /\ UNCHANGED <<target, vouched, window, kernel, managed, call, meddled, ops>>

\* Mutant: the backup is removed before the check.
PublishWithoutNet ==
  /\ \/ Work("publish", "prepare") /\ target' = job.asset
     \/ Work("publish", "recover") /\ UNCHANGED target
  /\ backup' = None
  /\ UNCHANGED <<orphans, vouched, window, kernel, managed, call, meddled, ops>>

\* publish_staged_core: the rename
Publish ==
  /\ \/ Work("publish", "prepare") /\ target' = job.asset /\ UNCHANGED backup
     \/ Work("publish", "recover") /\ UNCHANGED target /\ backup' = None
  /\ UNCHANGED <<orphans, vouched, window, kernel, managed, call, meddled, ops>>

\* The health check builds a runtime, connects it if the old one was connected, and
\* on macOS hands the binary to the privileged helper.
Prepare ==
  /\ \A c \in InFlight : call[c].rt # New
  /\ \E built \in BOOLEAN :
       /\ managed' = IF built THEN managed \cup {New} ELSE managed \ {New}
       /\ \/ Work("prepare", "sync") /\ (job.reconnect => built)
             /\ kernel' = [kernel EXCEPT ![New] = IF job.reconnect THEN target ELSE None]
          \/ Work("prepare", "undo") /\ job.reconnect /\ UNCHANGED kernel
  /\ UNCHANGED <<files, window, call, meddled, ops>>

Sync ==
  /\ \/ Work("sync", "keep") /\ UNCHANGED kernel
     \/ Work("sync", "undo") /\ kernel' = [kernel EXCEPT ![New] = None]
  /\ UNCHANGED <<files, window, managed, call, meddled, ops>>

Keep ==
  /\ job.stage = "keep" /\ job' = [job EXCEPT !.stage = "done", !.ok = TRUE, !.snapshot = job.reconnect]
  /\ backup' = None /\ vouched' = target
  /\ UNCHANGED <<target, orphans, window, kernel, managed, call, meddled, ops>>

\* The rollback of publish_staged_core: the new binary goes, the old one comes back.
\* Both renames are tried; without a backup there is nothing to bring back.
Undo ==
  /\ Work("undo", "restore")
  /\ target' \in {None, target}
  /\ UNCHANGED <<backup, orphans, vouched, window, kernel, managed, call, meddled, ops>>

Restore ==
  /\ Work("restore", "recover")
  /\ \/ backup # None /\ target' = backup /\ backup' = None
     \/ UNCHANGED <<target, backup>>
  /\ UNCHANGED <<orphans, vouched, window, kernel, managed, call, meddled, ops>>

\* previous.connect(), if the kernel was connected when the update began
Recover ==
  /\ job.stage = "recover"
  /\ LET r == job.prev IN
     \/ /\ job.reconnect /\ (kernel[r] # None \/ Starts(r))
        /\ kernel' = IF kernel[r] # None THEN kernel ELSE [kernel EXCEPT ![r] = target]
        /\ job' = [job EXCEPT !.stage = "done", !.snapshot = TRUE]
     \/ UNCHANGED kernel /\ job' = [job EXCEPT !.stage = "done"]
  /\ UNCHANGED <<files, window, managed, call, meddled, ops>>

\* apply_mihomo_core_update_outcome
Finish ==
  /\ job.stage = "done" /\ job' = NoJob
  /\ runtime' = IF job.ok THEN New ELSE runtime
  /\ core' = IF job.ok \/ target # None THEN "Ready" ELSE "Missing"
  /\ LET k == IF job.snapshot THEN "Connected" ELSE controller IN
     \E p \in IF job.snapshot THEN BOOLEAN ELSE {polling} :
       IF auto.stage = "WaitingForCore"
         THEN UNCHANGED managed /\ MaybeAutoConnect(auto, runtime', core' = "Ready", k, p)
         ELSE NoConnect(k, p) /\ UNCHANGED <<auto, managed>>
  /\ UNCHANGED <<files, proxy, ops>>
  /\ Dropped(kernel)
-----------------------------------------------------------------------------
Worker ==
  \/ Stop \/ Download \/ Stage \/ Backup \/ Publish \/ Prepare \/ Sync
  \/ Keep \/ Undo \/ Restore \/ Recover \/ Finish

Connecting == \E c \in Calls : CallStart(c) \/ CallLoad(c) \/ CallLoaded(c) \/ CallFailed(c)

Next ==
  \/ Launch \/ Close \/ Connect \/ Update \/ SetAuto \/ Switch
  \/ SwitchEnds \/ Poll \/ Retry
  \/ \E r \in Runtimes : KernelDies(r)
  \/ Worker \/ Connecting

Spec == Init /\ [][Next]_vars
-----------------------------------------------------------------------------
Stages == {"none", "stop", "download", "stage", "backup", "publish", "prepare", "sync", "keep",
           "undo", "restore", "recover", "done"}
ControllerStates == {"Closed", "Disconnected", "Connecting", "Connected", "Failed"}
AutoType ==
  [on : BOOLEAN, stage : {"Idle", "Connecting", "WaitingForCore"}, retried : BOOLEAN, timer : BOOLEAN]
JobType ==
  [stage : Stages, prev : Runtimes, reconnect : BOOLEAN, asset : Binaries \cup {Corrupt, Foreign},
   ok : BOOLEAN, snapshot : BOOLEAN]
CallType == [stage : {"none", "start", "load", "loaded", "failed"}, rt : Runtimes]
ProxyType == [on : BOOLEAN, switching : BOOLEAN]

\* Every variable has its type.
TypeOK ==
  /\ target \in Binaries \cup {Corrupt, Foreign} /\ backup \in Binaries \cup {Corrupt, Foreign}
  /\ orphans \subseteq Cores \cup {Corrupt, Foreign} /\ vouched \in Binaries \cup {Corrupt, Foreign}
  /\ kernel \in [Runtimes -> Binaries \cup {Corrupt, Foreign}] /\ managed \subseteq Runtimes
  /\ runtime \in Runtimes /\ controller \in ControllerStates
  /\ polling \in BOOLEAN /\ core \in {"Missing", "Ready", "Updating"}
  /\ auto \in AutoType /\ job \in JobType /\ call \in [Calls -> CallType]
  /\ proxy \in ProxyType /\ meddled \in BOOLEAN /\ ops \in 0 .. MaxOps

\* Whatever step of an update fails, and wherever the application ends, the binary
\* that was in use is in place or beside its place under a backup's name, until a
\* verified one has passed its check; no unverified binary is ever in place.
CoreRecoverable ==
  /\ target \in Binaries
  /\ vouched # None => vouched \in {target, backup} \cup orphans

\* When nothing is in flight, a running kernel is the window's own, and it runs the
\* installed binary: no update leaves behind a kernel of the runtime it gave up, or
\* of the binary it took back.  Connects made while the update ran are excepted.
KernelRunsInstalled ==
  Open /\ ~Updating /\ InFlight = {} /\ ~meddled =>
    \A r \in Runtimes : kernel[r] # None => r = runtime /\ kernel[r] = target

\* The kernel is never taken from under the system proxy: while an update runs the
\* proxy is off, unless a connect or a switch was in flight beside it.
UpdateLeavesProxy == Updating /\ ~meddled => ~proxy.on

=============================================================================
