----------------------------- MODULE SourceApply ------------------------------
(***************************************************************************)
(* Saving a change of the sources and bringing it into effect: one         *)
(* mutate_saved_sources transaction, from the change that is installed in  *)
(* the store to the rollback of the store, with apply_saved_sources in     *)
(* between; and what runs beside it: a TUN switch that compiles from the   *)
(* same store, a connect, the kernel and the end of the application.       *)
(*                                                                         *)
(* The source lock covers the transaction, so there is one at a time.  The *)
(* manager's lock covers only part of it.  Whatever the store holds is one *)
(* value here; SourceStore opens it up.  The platform is macOS.            *)
(***************************************************************************)
CONSTANTS
  Source,    \* contents of the source store, and the profiles they render to
  Valid,     \* those that mihomo -t accepts
  NoSource   \* what a kernel serves that does not run; nothing

ASSUME SourceAssumption == Valid \subseteq Source /\ NoSource \notin Source

VARIABLES
  store,       \* the live source store
  file,        \* GENERATED_PROFILE_FILE on disk
  kernel,      \* "exited" until reaped; "none": ControllerRuntime::Invalid
  running,     \* the profile that the kernel serves
  tun,         \* tun.enable of the kernel
  privileged,  \* ControllerRuntime::Managed.privileged
  stage,       \* where the transaction stands
  lock,        \* the manager's lock
  before,      \* what there was when the transaction began
  revive,      \* was_running and restore_tun: nothing, the kernel, or TUN too
  outcome,     \* SourceRuntimeApply, as far as it is known
  toggle,      \* where set_tun_enabled of a proxy switch stands
  want,        \* its argument
  payload,     \* what it compiled
  marks        \* history: what befell the transaction

disk == <<store, file>>
core == <<kernel, running, tun, privileged>>
transaction == <<stage, lock, before, revive, outcome>>
toggling == <<toggle, want, payload>>
vars == <<disk, core, transaction, toggling, marks>>

Unlocked == {"idle", "prepare", "write", "inspect", "retune", "retunePut",
             "undo", "done"}
Stage == Unlocked \union {"reload", "stop", "create", "start", "rollback",
                          "restart"}
Situation == [store : Source, file : Source, running : Source \union {NoSource},
              tun : {"on", "off"}]

\* NoSource is none of the records that before may be.
ASSUME SituationAssumption == NoSource \notin Situation

Now == [store |-> store, file |-> file, running |-> running, tun |-> tun]

Init ==
  /\ store \in Valid /\ file = store
  /\ kernel = "down" /\ running = NoSource /\ tun = "off" /\ privileged = "no"
  /\ stage = "idle" /\ lock = "free" /\ before = NoSource
  /\ revive = "nothing" /\ outcome = "none"
  /\ toggle = "idle" /\ want = "off" /\ payload = NoSource
  /\ marks = {}

-----------------------------------------------------------------------------
(* The kernel.                                                             *)

\* EngineManager::start: from the file that is on disk.
KernelStarts(from) == kernel' = "up" /\ running' = from /\ tun' = "off"
KernelIs(status) == kernel' = status /\ running' = NoSource /\ tun' = "off"

\* reload_and_confirm_tun with profile p: it holds, or the request is lost or
\* refused, or it is accepted and not confirmed, and TUN is put off again.
\* The kernel itself refuses a profile that is not valid.
ReloadHolds(p, enabled) ==
  /\ kernel = "up" /\ p \in Valid
  /\ running' = p /\ tun' = enabled
  /\ UNCHANGED <<kernel, privileged>>
ReloadFails(p) ==
  \/ UNCHANGED core
  \/ /\ kernel = "up" /\ p \in Valid
     /\ running' = p /\ tun' \in {"off", "on"}
     /\ UNCHANGED <<kernel, privileged>>

\* Another task, or the kernel itself, steps in.
Disturb ==
  marks' = IF stage = "idle" THEN marks ELSE marks \union {"disturbed"}

-----------------------------------------------------------------------------
(* mutate_saved_sources and apply_saved_sources.                           *)

Step(s) == stage = s /\ UNCHANGED toggling
Go(next) == stage' = next /\ UNCHANGED <<lock, before, revive, outcome, marks>>

\* apply_saved_sources returns, and every lock guard is dropped.
Return(what, mark) ==
  /\ outcome' = what
  /\ stage' = IF what = "Failed" THEN "undo" ELSE "done"
  /\ lock' = "free"
  /\ marks' = marks \union mark
  /\ UNCHANGED <<before, revive>>

\* LoadError::ProxyModeLost when TUN has to be restored, another error if not.
FailsRevive(mark) == Return(IF revive = "tun" THEN "Lost" ELSE "Failed", mark)

\* Nothing is under way, and only the store remembers.
Forget ==
  /\ stage' = "idle" /\ lock' = "free" /\ before' = NoSource
  /\ revive' = "nothing" /\ outcome' = "none"
  /\ marks' = {}

\* The staged change is installed in the store.
Begin(new) ==
  /\ Step("idle")
  /\ new # store
  /\ before' = Now
  /\ store' = new
  /\ stage' = "prepare"
  /\ UNCHANGED <<file, core, lock, revive, outcome, marks>>

\* prepare_profile compiles the store and validates a candidate file.
Prepare ==
  /\ Step("prepare")
  /\ \/ kernel # "none" /\ store \in Valid /\ Go("write")
     \/ Return("Failed", {})
  /\ UNCHANGED <<disk, core>>

\* The generated profile is replaced; an error may come after the rename.
Write ==
  /\ Step("write")
  /\ \/ file' = store /\ Go("inspect")
     \/ file' = store /\ Return("Failed", {"halfway"})
     \/ UNCHANGED file /\ Return("Failed", {})
  /\ UNCHANGED <<store, core>>

\* The manager is locked; running_endpoint and tun_was_enabled.  An error of
\* either returns, and leaves the new file.
Inspect ==
  /\ Step("inspect") /\ lock = "free"
  /\ \/ /\ kernel # "exited" /\ UNCHANGED core
        /\ Return("Failed", {"halfway"})
     \/ /\ kernel = "exited" /\ KernelIs("down") /\ UNCHANGED privileged
        /\ Return("Failed", {"halfway"})
     \/ /\ kernel \in {"up", "down"} /\ UNCHANGED core
        /\ lock' = "held"
        /\ stage' = IF kernel = "up" THEN "reload" ELSE "create"
        /\ revive' = CASE kernel = "down" -> "nothing"
                       [] tun = "on" -> "tun"
                       [] OTHER -> "kernel"
        /\ UNCHANGED <<before, outcome, marks>>
  /\ UNCHANGED disk

\* Mutant: the profile without TUN is put, whatever the kernel had.
ReloadWithoutTun ==
  /\ Step("reload")
  /\ \/ ReloadHolds(store, "off") /\ Return("Updated", {})
     \/ ReloadFails(store) /\ Go("stop")
  /\ UNCHANGED disk

Reload ==
  /\ Step("reload")
  /\ \/ /\ ReloadHolds(store, IF revive = "tun" THEN "on" ELSE "off")
        /\ Return("Updated", {})
     \/ ReloadFails(store) /\ Go("stop")
  /\ UNCHANGED disk

\* stop_previous_runtime.
Stop ==
  /\ Step("stop")
  /\ \/ Return("Failed", {"halfway", "notStopped"}) /\ UNCHANGED core
     \/ /\ KernelIs("down") /\ UNCHANGED privileged
        /\ \/ Go("create")
           \/ revive = "tun" /\ Return("Lost", {})
  /\ UNCHANGED disk

\* generated_engine_manager; a kernel that did not run is not started.
Create ==
  /\ Step("create")
  /\ \/ revive = "nothing" /\ Return("Updated", {})
     \/ revive # "nothing" /\ Go("start")
     \/ FailsRevive({"halfway"})
  /\ UNCHANGED <<disk, core>>

\* TUN is restored next, with the lock dropped, or the call returns.
Revived(what) ==
  IF revive = "tun"
    THEN /\ stage' = "retune" /\ lock' = "free" /\ outcome' = what
         /\ UNCHANGED <<before, revive, marks>>
    ELSE Return(what, {})

\* Mutant: the manager stays locked while TUN is restored.
StartKeepsLock ==
  /\ Step("start")
  /\ \/ /\ KernelStarts(file)
        /\ IF revive = "tun"
             THEN /\ stage' = "retune" /\ outcome' = "Restarted"
                  /\ UNCHANGED <<lock, before, revive, marks>>
             ELSE Return("Restarted", {})
     \/ KernelIs("down") /\ Go("rollback")
  /\ UNCHANGED <<disk, privileged>>

Start ==
  /\ Step("start")
  /\ \/ KernelStarts(file) /\ Revived("Restarted")
     \/ KernelIs("down") /\ Go("rollback")
  /\ UNCHANGED <<disk, privileged>>

\* Mutant: the manager goes back to the old configuration, the file does not.
RollbackKeepsFile ==
  /\ Step("rollback")
  /\ Go("restart") \/ FailsRevive({"halfway"})
  /\ UNCHANGED <<disk, core>>

\* rollback_failed_restart: the file that there was, and a manager for it.
Rollback ==
  /\ Step("rollback")
  /\ \/ file' = before.file /\ Go("restart")
     \/ file' \in {file, before.file} /\ FailsRevive({"halfway"})
  /\ UNCHANGED <<store, core>>

\* It is started; TUN comes back only when it runs.
Restart ==
  /\ Step("restart")
  /\ \/ KernelStarts(file) /\ Revived("Failed")
     \/ KernelIs("down") /\ FailsRevive({})
  /\ UNCHANGED <<disk, privileged>>

\* restore_tun_mode: set_tun_enabled(true) compiles from the store as it is,
\* also after a rollback, and needs the manager to find the endpoint.
Retune ==
  /\ Step("retune") /\ lock = "free"
  /\ \/ kernel = "up" /\ Go("retunePut") /\ UNCHANGED core
     \/ Return("Lost", {}) /\ UNCHANGED core
     \/ /\ kernel = "exited" /\ KernelIs("down") /\ UNCHANGED privileged
        /\ Return("Lost", {})
  /\ UNCHANGED disk

RetunePut ==
  /\ Step("retunePut")
  /\ \/ ReloadHolds(store, "on")
        /\ Return(outcome, IF outcome = "Failed" THEN {"halfway"} ELSE {})
     \/ ReloadFails(store) /\ Return("Lost", {})
  /\ UNCHANGED disk

\* Mutant: a source that only failed before it reached the kernel is kept.
UndoActivatedOnly ==
  /\ Step("undo")
  /\ store' = IF file = store THEN before.store ELSE store
  /\ Go("done")
  /\ UNCHANGED <<file, core>>

\* requires_source_rollback: the store is rolled back, or that fails.
Undo ==
  /\ Step("undo")
  /\ \/ store' = before.store /\ Go("done")
     \/ /\ stage' = "done" /\ marks' = marks \union {"storeError"}
        /\ UNCHANGED <<store, lock, before, revive, outcome>>
  /\ UNCHANGED <<file, core>>

\* The result reaches the UI thread.
Acknowledge ==
  /\ Step("done")
  /\ Forget
  /\ UNCHANGED <<disk, core>>

TransactionSteps ==
  \/ Prepare \/ Write \/ Inspect \/ Reload \/ Stop \/ Create \/ Start
  \/ Rollback \/ Restart \/ Retune \/ RetunePut \/ Undo \/ Acknowledge

-----------------------------------------------------------------------------
(* set_tun_enabled for a proxy switch, which knows nothing of the          *)
(* transaction.                                                            *)

ToggleEnds == toggle' = "idle" /\ want' = "off" /\ payload' = NoSource
ToggleGoes(next) == toggle' = next /\ UNCHANGED <<want, payload>>

ToggleBegin(enabled) ==
  /\ toggle = "idle" /\ kernel # "none" /\ enabled # tun
  /\ toggle' = "compiled" /\ want' = enabled /\ payload' = store
  /\ UNCHANGED <<disk, core, transaction, marks>>

\* prepare_tun_activation restarts the kernel privileged, from the file, or as
\* it was when that fails; then the endpoint is looked up.
ToggleAim ==
  /\ toggle = "compiled" /\ lock = "free"
  /\ \/ ToggleEnds /\ kernel # "exited" /\ UNCHANGED core
     \/ /\ ToggleEnds /\ kernel = "exited"
        /\ KernelIs("down") /\ UNCHANGED privileged
     \/ /\ ToggleGoes("aimed") /\ kernel = "up"
        /\ want = "off" \/ privileged = "yes"
        /\ UNCHANGED core
     \/ /\ want = "on" /\ privileged = "no" /\ kernel \in {"up", "down"}
        /\ \/ ToggleGoes("aimed") /\ KernelStarts(file) /\ privileged' = "yes"
           \/ /\ ToggleEnds /\ UNCHANGED privileged
              /\ \/ KernelIs("down")
                 \/ kernel = "up" /\ KernelStarts(file)
  /\ Disturb
  /\ UNCHANGED <<disk, transaction>>

\* The request is sent without the lock.
TogglePut ==
  /\ toggle = "aimed"
  /\ \/ ReloadHolds(payload, want) /\ ToggleEnds
     \/ want = "off" /\ ReloadHolds(payload, want) /\ ToggleGoes("release")
     \/ ReloadFails(payload) /\ ToggleEnds
  /\ Disturb
  /\ UNCHANGED <<disk, transaction>>

\* release_macos_tun_route restarts a kernel that kept its route.
ToggleRelease ==
  /\ toggle = "release" /\ lock = "free"
  /\ ToggleEnds
  /\ KernelStarts(file) \/ KernelIs("down") \/ UNCHANGED <<kernel, running, tun>>
  /\ Disturb
  /\ UNCHANGED <<privileged, disk, transaction>>

ToggleSteps == ToggleAim \/ TogglePut \/ ToggleRelease

-----------------------------------------------------------------------------
\* ControllerRuntime::connect: a kernel that is down is started.
Connect ==
  /\ lock = "free"
  /\ \/ kernel = "down" /\ KernelStarts(file)
     \/ kernel = "exited" /\ KernelIs("down")
  /\ Disturb
  /\ UNCHANGED <<privileged, disk, transaction, toggling>>

\* The kernel crashes or is killed from outside.
KernelExits ==
  /\ kernel = "up"
  /\ KernelIs("exited")
  /\ Disturb
  /\ UNCHANGED <<privileged, disk, transaction, toggling>>

\* The application ends and is launched again: the profile is written from
\* the store before it is validated.
Relaunch ==
  /\ file' = store
  /\ KernelIs(IF store \in Valid THEN "down" ELSE "none")
  /\ privileged' = "no"
  /\ Forget
  /\ ToggleEnds
  /\ UNCHANGED store

Next ==
  \/ \E new \in Source : Begin(new)
  \/ TransactionSteps
  \/ \E enabled \in {"on", "off"} : ToggleBegin(enabled)
  \/ ToggleSteps
  \/ Connect \/ KernelExits \/ Relaunch

\* Requests have timeouts, and the executor runs what was spawned.
Fairness == WF_vars(TransactionSteps) /\ WF_vars(ToggleSteps)

Spec == Init /\ [][Next]_vars /\ Fairness

-----------------------------------------------------------------------------
\* Every variable has its type, and the manager is locked exactly in the
\* stages between its inspection and the end of the restart.
TypeOK ==
  /\ store \in Source /\ file \in Source
  /\ kernel \in {"up", "exited", "down", "none"}
  /\ running \in Source \union {NoSource}
  /\ running # NoSource <=> kernel = "up"
  /\ tun \in {"on", "off"} /\ privileged \in {"yes", "no"}
  /\ stage \in Stage
  /\ lock = IF stage \in Unlocked THEN "free" ELSE "held"
  /\ before \in Situation \union {NoSource}
  /\ before = NoSource <=> stage = "idle"
  /\ revive \in {"nothing", "kernel", "tun"}
  /\ outcome \in {"none", "Updated", "Restarted", "Failed", "Lost"}
  /\ toggle \in {"idle", "compiled", "aimed", "release"}
  /\ want \in {"on", "off"} /\ payload \in Source \union {NoSource}
  /\ marks \subseteq {"disturbed", "halfway", "notStopped", "storeError"}

Undisturbed == "disturbed" \notin marks

\* When a change is reported as applied, the file on disk is the store's and
\* the kernel serves it, with TUN as it was, unless another task or a crash
\* stepped in: also when it took a restart to get there.
AppliedMeansServing ==
  stage = "done" /\ outcome \in {"Updated", "Restarted"} /\ Undisturbed
    => /\ file = store
       /\ kernel = "up" => running = store /\ tun = before.tun

\* A change that was refused or did not start leaves the store, the file and
\* the kernel's profile as they were, unless the apply broke off halfway or
\* restored TUN after its rollback.
FailedMeansRestored ==
  stage = "done" /\ outcome = "Failed"
      /\ marks \intersect {"halfway", "storeError"} = {}
    => /\ store = before.store /\ file = before.file
       /\ Undisturbed /\ kernel = "up"
            => running \in {before.running, before.file}

\* A transaction that costs the user TUN says so, because the UI goes back to
\* mode Off on that answer only; stopping a kernel that had not confirmed its
\* reload may fail and is the exception.
TunLossReported ==
  stage = "done" /\ before.tun = "on" /\ tun = "off" /\ Undisturbed
    => outcome = "Lost" \/ "notStopped" \in marks

\* What a transaction leaves in the store can be loaded at the next launch,
\* when that was so before, unless the rollback of the store failed.
BootableStore ==
  stage = "done" /\ before.store \in Valid /\ "storeError" \notin marks
    => store \in Valid

\* Every transaction ends.
TransactionEnds == stage # "idle" ~> stage = "idle"
=============================================================================
