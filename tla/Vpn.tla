-------------------------------- MODULE Vpn ---------------------------------
(* The VPN service of the Android application and the kernel that it runs.  *)
(* The main thread handles the user, the service's intents and the system's *)
(* callbacks; every successful start begins a thread that asks the          *)
(* subscriptions for their resolvers and reloads the kernel by itself.  Both *)
(* render and start kernels through the same functions, which share         *)
(* config.yaml, the flag `running` and the native slot CORE.                *)
EXTENDS Naturals, Sequences, FiniteSets

CONSTANTS Kernels,   \* process identifiers
          Threads,   \* resolver threads that may run at a time
          Edits,     \* contents of the workspace
          Resolvers, \* what the subscriptions may answer
          MaxIntents,\* bound on intents not handled yet
          MaxTaps,   \* bound on what the user and the system do
          NoKernel

VARIABLES
  active,   \* ManisVpnService.active
  tunnel,   \* ManisVpnService.tunnel # null
  running,  \* CoreController.running
  slot,     \* CORE: the kernel that the native side knows
  kernels,  \* per kernel that runs, the configuration it was started with
  yaml,     \* config.yaml
  config,   \* Workspace.config: its content and the resolvers discovered
  signature, \* Workspace.appliedSignature
  pending,  \* Workspace.pending
  intents,  \* ACTION_START, ACTION_STOP and ACTION_RELOAD not handled yet
  thread,   \* per thread, where it is in the service's functions
  seen,     \* what has happened that the properties except
  taps

process == <<running, slot, kernels, yaml>>
desk == <<config, signature, pending>>
vpnVars == <<active, tunnel, process, desk, intents, thread, seen, taps>>

ASSUME VpnAssumption == NoKernel \notin Kernels /\ "main" \notin Threads

Callers == {"main"} \union Threads
Idle == [at |-> "idle", as |-> "none", config |-> [edit |-> 0, dns |-> 0],
         dns |-> 0, kernel |-> NoKernel]
Moves(c, at) == [thread EXCEPT ![c].at = at]
MainIdle == thread["main"].at = "idle"
Rendering(c) == thread[c].at \in {"render", "write", "halt", "take", "spawn", "store"}
Ending == thread["main"].at \in {"stop", "close"}
Living == DOMAIN kernels

VpnInit ==
  /\ active = FALSE /\ tunnel = FALSE /\ running = FALSE /\ slot = NoKernel
  /\ kernels = <<>> /\ yaml = [edit |-> 0, dns |-> 0]
  /\ config \in [edit : Edits, dns : {0}] /\ signature = config /\ pending = FALSE
  /\ intents = <<>> /\ thread = [c \in Callers |-> Idle]
  /\ seen = {} /\ taps = 0

Tap == taps < MaxTaps /\ taps' = taps + 1
Intend(action) == Len(intents) < MaxIntents /\ intents' = Append(intents, action)
Without(gone) == [k \in Living \ gone |-> kernels[k]]
\* Somebody else is between rendering and the end of a start, or the service ends.
Raced(c) == IF (\E d \in Callers \ {c} : Rendering(d)) \/ (c # "main" /\ Ending)
              THEN {"raced"} ELSE {}

---------------------------------------------------------------------------
(* The user                                                                 *)

\* Workspace.update, saved at once.
Edit == \E e \in Edits :
  /\ MainIdle /\ Tap
  /\ config' = [config EXCEPT !.edit = e]
  /\ pending' = (config' # signature)
  /\ UNCHANGED <<active, tunnel, process, signature, intents, thread, seen>>

\* applyWorkspace.
ApplyWorkspace ==
  /\ MainIdle /\ Tap /\ Intend("reload")
  /\ signature' = config /\ pending' = FALSE
  /\ UNCHANGED <<active, tunnel, process, config, thread, seen>>

\* toggleProxy: what the last poll of `active` has shown decides which.
ToggleProxy == \E action \in {"start", "stop"} :
  /\ MainIdle /\ Tap /\ Intend(action)
  /\ UNCHANGED <<active, tunnel, process, desk, thread, seen>>

---------------------------------------------------------------------------
(* Rendering and running, on whatever thread                                *)

\* renderAndRun throws: only the flag changes; the main thread ends the
\* service, a resolver thread ignores the result.
Fails(c) ==
  /\ running' = FALSE
  /\ thread' = IF c = "main" THEN Moves(c, "stop") ELSE [thread EXCEPT ![c] = Idle]
  /\ UNCHANGED <<slot, kernels, yaml>>

Render(c) ==
  /\ thread[c].at = "render"
  /\ \/ thread' = [thread EXCEPT ![c].at = "write", ![c].config = config] /\ UNCHANGED process
     \/ Fails(c)
  /\ UNCHANGED <<active, tunnel, desk, intents, seen, taps>>

WriteConfig(c) ==
  /\ thread[c].at = "write"
  /\ yaml' = thread[c].config /\ thread' = Moves(c, "halt")
  /\ UNCHANGED <<active, tunnel, running, slot, kernels, desk, intents, seen, taps>>

\* stopCore.
StopCore == kernels' = Without({slot}) /\ slot' = NoKernel

Halt(c) ==
  /\ thread[c].at = "halt" /\ thread' = Moves(c, "take")
  /\ IF running THEN StopCore ELSE UNCHANGED <<slot, kernels>>
  /\ UNCHANGED <<active, tunnel, running, yaml, desk, intents, seen, taps>>

\* Mutant: startCore relies on the caller to have stopped the kernel.
TakeNothing(c) ==
  /\ thread[c].at = "take" /\ thread' = Moves(c, "spawn")
  /\ UNCHANGED <<active, tunnel, process, desk, intents, seen, taps>>

\* startCore up to the spawn, with CORE locked.
Take(c) ==
  /\ thread[c].at = "take" /\ thread' = Moves(c, "spawn")
  /\ StopCore
  /\ UNCHANGED <<active, tunnel, running, yaml, desk, intents, seen, taps>>

\* The spawn, without the lock. A closed descriptor fails it, unless its number
\* is in use again.
SpawnCore(c) ==
  /\ thread[c].at = "spawn"
  /\ \/ \E k \in Kernels \ (Living \union {slot}) :
          /\ kernels' = [j \in Living \union {k} |-> IF j = k THEN yaml ELSE kernels[j]]
          /\ thread' = [thread EXCEPT ![c].at = "store", ![c].kernel = k]
          /\ seen' = seen \union (IF yaml.edit # signature.edit THEN {"unapplied"} ELSE {})
          /\ UNCHANGED <<running, slot, yaml>>
     \/ Fails(c) /\ UNCHANGED seen
  /\ UNCHANGED <<active, tunnel, desk, intents, taps>>

\* replace(child), running and the caller's answer: a start is active and
\* begins a resolver thread.
Store(c) ==
  /\ thread[c].at = "store"
  /\ slot' = thread[c].kernel /\ running' = TRUE
  /\ active' = (active \/ (c = "main" /\ thread[c].as = "start"))
  /\ IF c = "main" /\ thread[c].as = "start"
       THEN \E t \in {t \in Threads : thread[t].at = "idle"} :
              thread' = [thread EXCEPT ![c] = Idle, ![t].at = "learn"]
       ELSE thread' = [thread EXCEPT ![c] = Idle]
  /\ UNCHANGED <<tunnel, kernels, yaml, desk, intents, seen, taps>>

---------------------------------------------------------------------------
(* The service                                                              *)

Handle(action) == MainIdle /\ intents # <<>> /\ Head(intents) = action /\ intents' = Tail(intents)
\* Enters renderAndRun, or the shutdown.
Enter(as, at, m) ==
  /\ thread' = [thread EXCEPT !["main"].at = at, !["main"].as = as]
  /\ seen' = seen \union m

\* Without an enabled source or an interface the start fails.
OnStart ==
  /\ Handle("start")
  /\ \/ tunnel' = TRUE /\ Enter("start", "render", Raced("main"))
     \/ Enter("start", "stop", Raced("main")) /\ UNCHANGED tunnel
  /\ UNCHANGED <<active, process, desk, taps>>

\* Mutant: nothing is reloaded where no kernel runs.
OnReloadWhenRunning ==
  /\ Handle("reload")
  /\ IF tunnel /\ active /\ running THEN Enter("reload", "render", Raced("main"))
                                    ELSE UNCHANGED <<thread, seen>>
  /\ UNCHANGED <<active, tunnel, process, desk, taps>>

OnReload ==
  /\ Handle("reload")
  /\ IF tunnel /\ active THEN Enter("reload", "render", Raced("main"))
                         ELSE UNCHANGED <<thread, seen>>
  /\ UNCHANGED <<active, tunnel, process, desk, taps>>

OnStop ==
  /\ Handle("stop") /\ Enter("stop", "stop", Raced("main"))
  /\ UNCHANGED <<active, tunnel, process, desk, taps>>

\* onRevoke and onDestroy.
OnRevoke ==
  /\ MainIdle /\ tunnel /\ Tap /\ Enter("revoke", "stop", Raced("main"))
  /\ UNCHANGED <<active, tunnel, process, desk, intents>>

\* shutdown.
ShutdownStops ==
  /\ thread["main"].at = "stop" /\ thread' = Moves("main", "close")
  /\ StopCore
  /\ UNCHANGED <<active, tunnel, running, yaml, desk, intents, seen, taps>>
ShutdownCloses ==
  /\ thread["main"].at = "close" /\ thread' = [thread EXCEPT !["main"] = Idle]
  /\ running' = FALSE /\ tunnel' = FALSE /\ active' = FALSE
  /\ UNCHANGED <<slot, kernels, yaml, desk, intents, seen, taps>>

---------------------------------------------------------------------------
(* The resolver thread: learnSubscriptionDns and SubscriptionDns.refresh    *)

LearnBegins(t) ==
  /\ thread[t].at = "learn"
  /\ thread' = [thread EXCEPT ![t].at = "fetch", ![t].config = config]
  /\ UNCHANGED <<active, tunnel, process, desk, intents, seen, taps>>

\* The answer is empty, as before, or new.
Fetched(t) ==
  /\ thread[t].at = "fetch"
  /\ \/ thread' = [thread EXCEPT ![t] = Idle]
     \/ \E r \in Resolvers \ {thread[t].config.dns} :
          thread' = [thread EXCEPT ![t].at = "copy", ![t].dns = r]
  /\ UNCHANGED <<active, tunnel, process, desk, intents, seen, taps>>

\* setDiscoveredDns reads the workspace, and writes it back.
CopyWorkspace(t) ==
  /\ thread[t].at = "copy"
  /\ thread' = [thread EXCEPT ![t].at = "assign", ![t].config = config]
  /\ UNCHANGED <<active, tunnel, process, desk, intents, seen, taps>>
AssignWorkspace(t) ==
  /\ thread[t].at = "assign" /\ thread' = Moves(t, "look")
  /\ config' = [thread[t].config EXCEPT !.dns = thread[t].dns]
  /\ seen' = seen \union (IF config # thread[t].config THEN {"overwritten"} ELSE {})
  /\ UNCHANGED <<active, tunnel, process, signature, pending, intents, taps>>

Look(t) ==
  /\ thread[t].at = "look"
  /\ IF tunnel /\ active
       THEN thread' = Moves(t, "render") /\ seen' = seen \union Raced(t)
       ELSE thread' = [thread EXCEPT ![t] = Idle] /\ UNCHANGED seen
  /\ UNCHANGED <<active, tunnel, process, desk, intents, taps>>

---------------------------------------------------------------------------
\* A kernel exits; nobody waits for it.
KernelExits == \E k \in Living :
  /\ Tap /\ kernels' = Without({k})
  /\ UNCHANGED <<active, tunnel, running, slot, yaml, desk, intents, thread, seen>>

\* The system ends the process group and launches it again later: Workspace.load.
Relaunch ==
  /\ Tap /\ active' = FALSE /\ tunnel' = FALSE /\ running' = FALSE
  /\ slot' = NoKernel /\ kernels' = <<>> /\ signature' = config /\ pending' = FALSE
  /\ intents' = <<>> /\ thread' = [c \in Callers |-> Idle] /\ seen' = {}
  /\ UNCHANGED <<yaml, config>>

VpnNext ==
  \/ Edit \/ ApplyWorkspace \/ ToggleProxy
  \/ OnStart \/ OnReload \/ OnStop \/ OnRevoke \/ ShutdownStops \/ ShutdownCloses
  \/ \E c \in Callers : Render(c) \/ WriteConfig(c) \/ Halt(c) \/ Take(c) \/ SpawnCore(c) \/ Store(c)
  \/ \E t \in Threads : LearnBegins(t) \/ Fetched(t) \/ CopyWorkspace(t)
                          \/ AssignWorkspace(t) \/ Look(t)
  \/ KernelExits \/ Relaunch

VpnSpec == VpnInit /\ [][VpnNext]_vpnVars

---------------------------------------------------------------------------
\* The native side knows every kernel that runs, and none is left behind when
\* the service has ended (startCore, stopCore, shutdown): a failing reload,
\* `running` reset behind a kernel that runs on, or a second start change
\* nothing about it. Excepted are a resolver thread that renders while the
\* main thread renders or ends the service, and two such threads.
NoStrayKernel ==
  "raced" \notin seen =>
    /\ Living \subseteq {slot} \union {thread[c].kernel : c \in {d \in Callers : thread[d].at = "store"}}
    /\ MainIdle /\ ~active => Living = {}

Settled == intents = <<>> /\ \A c \in Callers : ~Rendering(c) /\ ~Ending

\* While nothing is marked as not applied, a kernel that the service still has
\* runs the workspace that is on the pages (applyWorkspace, reload), unless a
\* kernel was started from a workspace that was not applied yet, a resolver
\* thread wrote over an edit, or two threads overlapped.
NothingPendingIsServed ==
  Settled /\ active /\ ~pending /\ seen = {} /\ slot \in Living =>
    kernels[slot].edit = config.edit

=============================================================================
