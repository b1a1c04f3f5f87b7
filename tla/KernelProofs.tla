---------------------------- MODULE KernelProofs ----------------------------
(*****************************************************************************)
(* For every set of process identifiers and every number of readiness        *)
(* attempts: the kernel manager of the desktop forgets no process. For any   *)
(* number of resolver threads, kernels and intents: the Android service      *)
(* leaves no kernel behind and serves what was applied.                      *)
(*                                                                           *)
(* OwnedOrLeaked alone is not inductive. A spawn may overwrite child only    *)
(* because the methods leave child empty up to that point, and a             *)
(* termination may leave leaked alone only because an owned child is never   *)
(* also an abandoned one; EngineInv adds both facts.                         *)
(*                                                                           *)
(* NoStrayKernel is not inductive either. That storing a new kernel          *)
(* forgets none rests on the known one having been stopped before the        *)
(* spawn, and on nobody else being between spawn and store (KnownKernels),   *)
(* which holds while threads do not overlap (OneRenders).                    *)
(* NothingPendingIsServed needs to know where an edit is on its way to the   *)
(* kernel: in an intent to reload, or in the main thread's hands             *)
(* (AppliedIsServed).                                                        *)
(*****************************************************************************)
EXTENDS Engine, Vpn, TLAPS

(* The kernel manager                                                      *)
MethodOwnership ==
  /\ pc \in {"prepare", "validate", "spawn"} => ~Owned
  /\ pc \in {"poll", "probe", "cleanup", "terminate"} => Owned

ChildIsNotLeaked == child \notin leaked

EngineInv ==
  /\ TypeOK
  /\ OwnedOrLeaked
  /\ MethodOwnership
  /\ ChildIsNotLeaked

-----------------------------------------------------------------------------
\* The initial state satisfies the inductive invariant.
LEMMA EngineInit == Init => EngineInv
  BY NoPidAssumption, AttemptsAssumption
     DEF Init, EngineInv, TypeOK, OwnedOrLeaked, MethodOwnership,
         ChildIsNotLeaked, Owned, EngineState, Stage

\* Every step of a method, of a process or of the environment keeps it.
LEMMA EngineStep == EngineInv /\ [Next]_vars => EngineInv'
<1> SUFFICES ASSUME EngineInv, [Next]_vars
             PROVE  EngineInv'
    OBVIOUS
<1> USE NoPidAssumption, AttemptsAssumption
    DEF EngineInv, TypeOK, OwnedOrLeaked, MethodOwnership, ChildIsNotLeaked,
        Owned, Fail, EngineState, Stage, managerVars, processVars
<1>1. CASE StartWhileOwned
    BY <1>1 DEF StartWhileOwned
<1>2. CASE StartBegin
    BY <1>2 DEF StartBegin
<1>3. CASE StartPrepare
    BY <1>3 DEF StartPrepare
<1>4. CASE StartValidate
    BY <1>4 DEF StartValidate
<1>5. CASE StartSpawn
  <2>1. CASE /\ Fail
             /\ UNCHANGED <<child, attempt, alive, bound, leaked, window>>
      BY <1>5, <2>1 DEF StartSpawn
  <2>2. ASSUME NEW p \in Pid \ alive,
               pc = "spawn", child' = p, alive' = alive \union {p},
               attempt' = 0, pc' = "poll",
               UNCHANGED <<state, bound, leaked, window>>
        PROVE  EngineInv'
      BY <2>2
  <2> QED
      BY <1>5, <2>1, <2>2 DEF StartSpawn
<1>6. CASE StartPoll
    BY <1>6 DEF StartPoll
<1>7. CASE StartProbeReady
    BY <1>7 DEF StartProbeReady
<1>8. CASE StartProbePending
    BY <1>8 DEF StartProbePending
<1>9. CASE StartCleanup
    BY <1>9 DEF StartCleanup, TerminateOk, TerminateErr, Vanish
<1>10. CASE StopBegin
    BY <1>10 DEF StopBegin
<1>11. CASE StopTerminate
    BY <1>11 DEF StopTerminate, TerminateOk, TerminateErr, Vanish
<1>12. CASE ReapExited
    BY <1>12 DEF ReapExited
<1>13. CASE DropManager
    BY <1>13 DEF DropManager, Vanish, Abandon, FreshManager
<1>14. CASE AppCrash
    BY <1>14 DEF AppCrash, Vanish, Abandon, FreshManager
<1>15. CASE WindowConnects \/ WindowConnected \/ WindowLeaves \/ HealthPollFails
    BY <1>15 DEF WindowConnects, WindowConnected, WindowLeaves, HealthPollFails
<1>16. CASE HealthPoll
    BY <1>16 DEF HealthPoll
<1>17. ASSUME NEW p \in Pid, ProcessBind(p)
       PROVE  EngineInv'
    BY <1>17 DEF ProcessBind
<1>18. ASSUME NEW p \in Pid, ProcessExit(p)
       PROVE  EngineInv'
    BY <1>18 DEF ProcessExit, Vanish
<1>19. CASE UNCHANGED vars
    BY <1>19 DEF vars
<1> QED
    BY <1>1, <1>2, <1>3, <1>4, <1>5, <1>6, <1>7, <1>8, <1>9, <1>10, <1>11,
       <1>12, <1>13, <1>14, <1>15, <1>16, <1>17, <1>18, <1>19 DEF Next, StartSteps

\* The inductive invariant holds in every reachable state.
LEMMA EngineInvariant == Spec => []EngineInv
  BY EngineInit, EngineStep, PTL DEF Spec

-----------------------------------------------------------------------------
\* The variables of the lifecycle always have their types; in particular the
\* retry counter of start never reaches its bound.
THEOREM EngineTypeOK == Spec => []TypeOK
<1>1. EngineInv => TypeOK
    BY DEF EngineInv
<1> QED
    BY <1>1, EngineInvariant, PTL

\* Every live kernel is the manager's own child or was left behind by a
\* manager that is gone.
THEOREM NoForgottenKernel == Spec => []OwnedOrLeaked
<1>1. EngineInv => OwnedOrLeaked
    BY DEF EngineInv
<1> QED
    BY <1>1, EngineInvariant, PTL

\* Ownership of a live child ends only together with its manager.
THEOREM OwnershipTheorem == Spec => OwnershipEndsWithProcess
<1>1. EngineInv /\ [Next]_vars
        => [Owned /\ child' # child
              => child \notin alive' \/ child \in leaked']_vars
  <2> SUFFICES ASSUME EngineInv, Next, Owned, child' # child
               PROVE  child \notin alive' \/ child \in leaked'
      OBVIOUS
  <2> USE DEF Owned, managerVars, processVars
  <2>1. CASE StartSpawn
      BY <2>1 DEF StartSpawn, EngineInv, MethodOwnership
  <2>2. CASE StartPoll
      BY <2>2 DEF StartPoll
  <2>3. CASE StartCleanup
      BY <2>3 DEF StartCleanup, TerminateOk, Vanish
  <2>4. CASE StopTerminate
      BY <2>4 DEF StopTerminate, TerminateOk, Vanish
  <2>5. CASE ReapExited \/ HealthPoll
      BY <2>5 DEF ReapExited, HealthPoll
  <2>6. CASE WindowConnects \/ WindowConnected \/ WindowLeaves \/ HealthPollFails
      BY <2>6 DEF WindowConnects, WindowConnected, WindowLeaves, HealthPollFails
  <2>7. CASE DropManager \/ AppCrash
      BY <2>7 DEF DropManager, AppCrash, Abandon
  <2>8. CASE StartWhileOwned \/ StartBegin \/ StartPrepare \/ StartValidate
             \/ StartProbeReady \/ StartProbePending \/ StopBegin
      BY <2>8 DEF StartWhileOwned, StartBegin, StartPrepare, StartValidate,
                  StartProbeReady, StartProbePending, StopBegin
  <2>9. CASE \E p \in Pid : ProcessBind(p) \/ ProcessExit(p)
      BY <2>9 DEF ProcessBind, ProcessExit
  <2> QED
      BY <2>1, <2>2, <2>3, <2>4, <2>5, <2>6, <2>7, <2>8, <2>9 DEF Next, StartSteps
<1> QED
    BY <1>1, EngineInvariant, PTL DEF Spec, OwnershipEndsWithProcess

-----------------------------------------------------------------------------
(* The Android service                                                     *)
Configs == [edit : Edits \union {0}, dns : Resolvers \union {0}]
Stages == {"idle", "render", "write", "halt", "take", "spawn", "store", "stop", "close",
           "learn", "fetch", "copy", "assign", "look"}
Places ==
  [at : Stages,
   as : {"none", "start", "reload", "stop", "revoke"},
   config : Configs, dns : Resolvers \union {0}, kernel : Kernels \union {NoKernel}]
ServiceTyped ==
  /\ active \in BOOLEAN /\ tunnel \in BOOLEAN /\ running \in BOOLEAN
  /\ thread \in [Callers -> Places] /\ intents \in Seq({"start", "stop", "reload"})
KernelsTyped ==
  /\ slot \in Kernels \union {NoKernel} /\ yaml \in Configs
  /\ Living \subseteq Kernels /\ kernels \in [Living -> Configs]
DeskTyped == config \in Configs /\ signature \in Configs /\ pending \in BOOLEAN
VpnTypeOK == ServiceTyped /\ KernelsTyped /\ DeskTyped

Single == "raced" \notin seen
Main == thread["main"]

\* The main thread renders for a start or a reload, and serves with an interface.
MainRenders ==
  /\ Rendering("main") => Main.as \in {"start", "reload"}
  /\ Rendering("main") /\ Main.as = "reload" => active
  /\ Rendering("main") \/ active => tunnel

\* One thread renders at a time, none while the service ends, and the others
\* only for a service that is active.
OneRenders ==
  Single =>
    /\ \A c, d \in Callers : Rendering(c) /\ Rendering(d) => c = d
    /\ Ending => \A c \in Callers : ~Rendering(c)
    /\ \A t \in Threads : Rendering(t) => active

\* The kernel that the native side knows has been stopped when another is
\* spawned; until that one is stored, it is known to the thread that spawned it.
KnownKernels ==
  Single =>
    /\ \A k \in Living :
         k = slot \/ \E c \in Callers : thread[c].at = "store" /\ thread[c].kernel = k
    /\ \A c \in Callers : thread[c].at \in {"spawn", "store"} => slot \notin Living
    /\ \A c \in Callers : thread[c].at = "store" => thread[c].kernel # NoKernel
    /\ Main.at = "close" \/ (Main.at = "idle" /\ ~active) => Living = {}

\* What is applied is on its way to the kernel.
Reloads == \E i \in 1 .. Len(intents) : intents[i] = "reload"
Renews == Main.at \in {"render", "write", "halt", "take", "spawn", "stop", "close"}
AppliedIsServed ==
  seen = {} =>
    /\ ~pending => config.edit = signature.edit
    /\ \A k \in Living : kernels[k].edit = signature.edit \/ Reloads \/ Renews

VpnInv == VpnTypeOK /\ MainRenders /\ OneRenders /\ KnownKernels /\ AppliedIsServed

\* A step of one thread.
OnlyMoves(c, at) ==
  /\ thread' \in [Callers -> Places] /\ thread'[c].at = at
  /\ \A d \in Callers \ {c} : thread'[d] = thread[d]
-----------------------------------------------------------------------------
\* One intent more, and one less.
LEMMA Intended ==
  ASSUME intents \in Seq({"start", "stop", "reload"}),
         NEW action \in {"start", "stop", "reload"},
         Intend(action)
  PROVE  /\ intents' \in Seq({"start", "stop", "reload"})
         /\ Reloads \/ action = "reload" => Reloads'
<1>1. intents' = Append(intents, action)
  BY DEF Intend
<1>2. intents' \in Seq({"start", "stop", "reload"}) /\ Len(intents') = Len(intents) + 1
  BY <1>1
<1>3. \A i \in 1 .. Len(intents) : intents'[i] = intents[i]
  BY <1>1
<1>4. intents'[Len(intents')] = action
  BY <1>1
<1>5. Len(intents) \in Nat
  OBVIOUS
<1>6. Reloads => Reloads'
  BY <1>2, <1>3 DEF Reloads
<1>7. action = "reload" => Reloads'
  BY <1>2, <1>4 DEF Reloads
<1> QED
  BY <1>2, <1>6, <1>7

\* The next intent is taken; the ones behind it stay.
LEMMA Handled ==
  ASSUME intents \in Seq({"start", "stop", "reload"}), NEW action, Handle(action)
  PROVE  /\ Main.at = "idle" /\ intents' \in Seq({"start", "stop", "reload"})
         /\ Reloads /\ action # "reload" => Reloads'
<1>1. intents # <<>> /\ Head(intents) = action /\ intents' = Tail(intents)
  BY DEF Handle
<1>2. intents' \in Seq({"start", "stop", "reload"}) /\ Len(intents') = Len(intents) - 1
  BY <1>1
<1>3. \A i \in 1 .. Len(intents') : intents'[i] = intents[i + 1]
  BY <1>1
<1>4. Len(intents) \in Nat /\ intents[1] = action
  BY <1>1
<1>5. ASSUME Reloads, action # "reload" PROVE Reloads'
  <2>1. PICK i \in 1 .. Len(intents) : intents[i] = "reload"
    BY <1>5 DEF Reloads
  <2>2. i # 1
    BY <1>4, <1>5, <2>1
  <2>3. i - 1 \in 1 .. Len(intents') /\ intents'[i - 1] = "reload"
    BY <1>2, <1>3, <1>4, <2>1, <2>2
  <2> QED
    BY <2>3 DEF Reloads
<1> QED
  BY <1>5 DEF Handle, MainIdle, Main

\* The kernels without some of them.
LEMMA Fewer ==
  ASSUME KernelsTyped, NEW gone, kernels' = Without(gone)
  PROVE  /\ Living' = Living \ gone /\ kernels' \in [Living' -> Configs]
         /\ \A k \in Living' : kernels'[k] = kernels[k]
BY DEF Without, Living, KernelsTyped

\* stopCore ends the kernel that the native side knows.
LEMMA CoreStopped ==
  ASSUME KernelsTyped, StopCore
  PROVE  /\ slot' = NoKernel /\ Living' = Living \ {slot} /\ kernels' \in [Living' -> Configs]
         /\ \A k \in Living' : kernels'[k] = kernels[k]
BY Fewer DEF StopCore

\* A thread goes on in the same call.
LEMMA Moving ==
  ASSUME ServiceTyped, NEW c \in Callers, NEW at \in Stages,
         thread' = [thread EXCEPT ![c].at = at]
  PROVE  /\ OnlyMoves(c, at) /\ thread'[c].as = thread[c].as
         /\ thread'[c].config = thread[c].config /\ thread'[c].kernel = thread[c].kernel
BY DEF ServiceTyped, OnlyMoves, Places

\* A thread has a new place.
LEMMA Going ==
  ASSUME ServiceTyped, NEW c \in Callers, NEW place \in Places,
         thread' = [thread EXCEPT ![c] = place]
  PROVE  OnlyMoves(c, place.at) /\ thread'[c] = place
BY DEF ServiceTyped, OnlyMoves

\* A thread is done.
LEMMA Resting ==
  ASSUME ServiceTyped, NEW c \in Callers, thread' = [thread EXCEPT ![c] = Idle]
  PROVE  OnlyMoves(c, "idle")
<1>1. Idle \in Places /\ Idle.at = "idle"
  BY DEF Idle, Places, Configs, Stages
<1> QED
  BY <1>1 DEF ServiceTyped, OnlyMoves

\* renderAndRun has thrown.
LEMMA Failing ==
  ASSUME ServiceTyped, NEW c \in Callers, Fails(c)
  PROVE  /\ UNCHANGED <<slot, kernels, yaml>> /\ running' = FALSE
         /\ OnlyMoves(c, IF c = "main" THEN "stop" ELSE "idle")
<1>1. CASE c = "main"
  BY <1>1, Moving DEF Fails, Moves, Stages
<1>2. CASE c # "main"
  BY <1>2, Resting DEF Fails
<1> QED
  BY <1>1, <1>2 DEF Fails

\* The main thread begins to render or to end the service.
LEMMA Entering ==
  ASSUME ServiceTyped, NEW as \in {"start", "reload", "stop", "revoke"},
         NEW at \in {"render", "stop"}, Enter(as, at, Raced("main"))
  PROVE  /\ OnlyMoves("main", at) /\ thread'["main"].as = as /\ seen \subseteq seen'
         /\ (\E d \in Callers \ {"main"} : Rendering(d)) => "raced" \in seen'
<1>1. "main" \in Callers
  BY DEF Callers
<1>2. thread' = [thread EXCEPT !["main"].at = at, !["main"].as = as]
  BY DEF Enter
<1> DEFINE place == [thread["main"] EXCEPT !.at = at, !.as = as]
<1>4. place \in Places /\ place.at = at /\ place.as = as
  <2>1. thread["main"] \in Places
    BY <1>1 DEF ServiceTyped
  <2> QED
    BY <2>1 DEF Places, Stages
<1>5. thread' = [thread EXCEPT !["main"] = place]
  BY <1>2
<1>3. OnlyMoves("main", at) /\ thread'["main"].as = as
  <2> HIDE DEF place
  <2> QED
    BY <1>1, <1>4, <1>5, Going
<1> QED
  BY <1>3 DEF Enter, Raced

\* A thread that moves on, and at most the known kernel gone.
LEMMA KnownStay ==
  ASSUME KnownKernels, NEW c \in Callers, NEW at, OnlyMoves(c, at), thread[c].at # "store",
         at # "store", at = "spawn" => slot' \notin Living',
         c = "main" => at \notin {"idle", "close"},
         Living' \subseteq Living, slot' = slot \/ (slot' \notin Living'
           /\ slot \notin Living'),
         seen \subseteq seen', active' = active
  PROVE  KnownKernels'
<1> SUFFICES ASSUME Single' PROVE KnownKernels'
  BY DEF KnownKernels
<1>1. Single
  BY DEF Single
<1>2. \A d \in Callers : thread[d].at = "store" => thread'[d] = thread[d]
  BY DEF OnlyMoves
<1>3. \A d \in Callers : thread'[d].at = "store" => thread'[d] = thread[d]
  BY DEF OnlyMoves
<1>4. \A k \in Living' :
         k = slot' \/ \E d \in Callers : thread'[d].at = "store" /\ thread'[d].kernel = k
  <2> SUFFICES ASSUME NEW k \in Living', k # slot'
               PROVE  \E d \in Callers : thread'[d].at = "store" /\ thread'[d].kernel = k
    OBVIOUS
  <2>1. PICK d \in Callers : thread[d].at = "store" /\ thread[d].kernel = k
    BY <1>1 DEF KnownKernels
  <2> QED
    BY <1>2, <2>1
<1>5. \A d \in Callers : thread'[d].at \in {"spawn", "store"} => slot' \notin Living'
  <2> SUFFICES ASSUME NEW d \in Callers, thread'[d].at \in {"spawn", "store"}
               PROVE  slot' \notin Living'
    OBVIOUS
  <2>1. CASE d = c
    BY <2>1 DEF OnlyMoves
  <2>2. CASE d # c
    BY <1>1 DEF OnlyMoves, KnownKernels
  <2> QED
    BY <2>1, <2>2
<1>6. \A d \in Callers : thread'[d].at = "store" => thread'[d].kernel # NoKernel
  BY <1>1, <1>3 DEF KnownKernels
<1>7. Main'.at = "close" \/ (Main'.at = "idle" /\ ~active') => Living' = {}
  <2>1. "main" \in Callers
    BY DEF Callers
  <2> QED
    BY <1>1, <2>1 DEF OnlyMoves, KnownKernels, Main
<1> QED
  BY <1>4, <1>5, <1>6, <1>7 DEF KnownKernels, Main

\* A thread that spawns or stores is the only one that renders.
LEMMA RendersAlone ==
  ASSUME Single, OneRenders, KnownKernels, NEW c \in Callers,
         thread[c].at \in {"spawn", "store"}
  PROVE  /\ \A d \in Callers \ {c} : ~Rendering(d)
         /\ slot \notin Living /\ ~Ending /\ (c # "main" => active)
         /\ thread[c].at = "spawn" => Living = {}
         /\ thread[c].at = "store" => Living \subseteq {thread[c].kernel}
<1>1. Rendering(c)
  BY DEF Rendering
<1>2. /\ \A d \in Callers \ {c} : ~Rendering(d)
      /\ ~Ending /\ (c # "main" => active)
  BY <1>1 DEF OneRenders, Callers
<1>3. \A d \in Callers : thread[d].at = "store" => d = c
  BY <1>2 DEF Rendering
<1>4. slot \notin Living
  BY DEF KnownKernels
<1>5. ASSUME NEW k \in Living PROVE thread[c].at = "store" /\ thread[c].kernel = k
  BY <1>3 DEF KnownKernels
<1> QED
  BY <1>2, <1>4, <1>5

\* Every step of the Android service keeps the invariant.
LEMMA VpnNextInv == VpnInv /\ [VpnNext]_vpnVars => VpnInv'
<1> SUFFICES ASSUME VpnInv, [VpnNext]_vpnVars PROVE VpnInv'
  OBVIOUS
<1> USE DEF VpnInv
<1>1. CASE Edit
  <2>e. /\ Main.at = "idle"
        /\ UNCHANGED <<active, tunnel, running, slot, kernels, yaml, signature, thread,
           intents, seen>>
        /\ config' \in Configs /\ pending' \in BOOLEAN /\ (~pending' => config' = signature)
            /\ (Reloads => Reloads')
    BY <1>1 DEF process, desk, Moves, Stages, Reloads, ServiceTyped, KernelsTyped,
      DeskTyped, VpnTypeOK, Edit, MainIdle, Main, Configs
  <2>1. VpnTypeOK'
    BY <2>e DEF VpnTypeOK, OnlyMoves, Callers, DeskTyped, KernelsTyped, ServiceTyped,
      Places, Configs, Living, Stages
  <2>2. MainRenders' /\ OneRenders'
    BY <2>e DEF MainRenders, OneRenders, VpnTypeOK, OnlyMoves, Callers, Main, Rendering,
      Ending, Single, DeskTyped, KernelsTyped, ServiceTyped, Places, Configs, Living,
      Stages
  <2>3. KnownKernels'
    BY <2>e DEF KnownKernels, VpnTypeOK, MainRenders, OneRenders, OnlyMoves, Callers,
      Living, Main, Single, DeskTyped, KernelsTyped, ServiceTyped, Rendering, Ending,
      Places, Configs, Stages
  <2>4. AppliedIsServed'
    BY <2>e DEF AppliedIsServed, VpnTypeOK, MainRenders, OneRenders, KnownKernels,
      OnlyMoves, Callers, Living, Renews, DeskTyped, KernelsTyped, ServiceTyped, Main,
      Rendering, Ending, Single, Places, Configs, Stages
  <2> QED
    BY <2>1, <2>2, <2>3, <2>4
<1>2. CASE ApplyWorkspace
  <2>e. /\ Main.at = "idle"
        /\ UNCHANGED <<active, tunnel, running, slot, kernels, yaml, config, thread, seen>>
        /\ signature' = config /\ pending' = FALSE
        /\ intents' \in Seq({"start", "stop", "reload"}) /\ Reloads'
    BY <1>2, Intended DEF process, desk, ServiceTyped, VpnTypeOK, ApplyWorkspace,
      MainIdle, Main
  <2>1. VpnTypeOK'
    BY <2>e DEF VpnTypeOK, OnlyMoves, Callers, DeskTyped, KernelsTyped, ServiceTyped,
      Places, Configs, Living, Stages
  <2>2. MainRenders' /\ OneRenders'
    BY <2>e DEF MainRenders, OneRenders, VpnTypeOK, OnlyMoves, Callers, Main, Rendering,
      Ending, Single, DeskTyped, KernelsTyped, ServiceTyped, Places, Configs, Living,
      Stages
  <2>3. KnownKernels'
    BY <2>e DEF KnownKernels, VpnTypeOK, MainRenders, OneRenders, OnlyMoves, Callers,
      Living, Main, Single, DeskTyped, KernelsTyped, ServiceTyped, Rendering, Ending,
      Places, Configs, Stages
  <2>4. AppliedIsServed'
    BY <2>e DEF AppliedIsServed, VpnTypeOK, MainRenders, OneRenders, KnownKernels,
      OnlyMoves, Callers, Living, Renews, DeskTyped, KernelsTyped, ServiceTyped, Main,
      Rendering, Ending, Single, Places, Configs, Stages
  <2> QED
    BY <2>1, <2>2, <2>3, <2>4
<1>3. CASE ToggleProxy
  <2>e. /\ Main.at = "idle"
        /\ UNCHANGED <<active, tunnel, running, slot, kernels, yaml, config, signature,
           pending, thread, seen>>
        /\ intents' \in Seq({"start", "stop", "reload"}) /\ (Reloads => Reloads')
    BY <1>3, Intended DEF process, desk, ServiceTyped, VpnTypeOK, ToggleProxy, MainIdle,
      Main
  <2>1. VpnTypeOK'
    BY <2>e DEF VpnTypeOK, OnlyMoves, Callers, DeskTyped, KernelsTyped, ServiceTyped,
      Places, Configs, Living, Stages
  <2>2. MainRenders' /\ OneRenders'
    BY <2>e DEF MainRenders, OneRenders, VpnTypeOK, OnlyMoves, Callers, Main, Rendering,
      Ending, Single, DeskTyped, KernelsTyped, ServiceTyped, Places, Configs, Living,
      Stages
  <2>3. KnownKernels'
    BY <2>e DEF KnownKernels, VpnTypeOK, MainRenders, OneRenders, OnlyMoves, Callers,
      Living, Main, Single, DeskTyped, KernelsTyped, ServiceTyped, Rendering, Ending,
      Places, Configs, Stages
  <2>4. AppliedIsServed'
    BY <2>e DEF AppliedIsServed, VpnTypeOK, MainRenders, OneRenders, KnownKernels,
      OnlyMoves, Callers, Living, Renews, DeskTyped, KernelsTyped, ServiceTyped, Main,
      Rendering, Ending, Single, Places, Configs, Stages
  <2> QED
    BY <2>1, <2>2, <2>3, <2>4
<1>4. CASE OnStart
  <2>e. /\ Main.at = "idle"
        /\ UNCHANGED <<active, running, slot, kernels, yaml, config, signature, pending>>
        /\ intents' \in Seq({"start", "stop", "reload"}) /\ (Reloads => Reloads')
        /\ \E at \in {"render", "stop"} : OnlyMoves("main", at)
        /\ thread'["main"].as = "start"
        /\ tunnel' \in BOOLEAN /\ (tunnel \/ thread'["main"].at = "render" => tunnel')
        /\ seen \subseteq seen' /\ ((\E d \in Callers \ {"main"} : Rendering(d))
            => "raced" \in seen')
    <3>1. PICK at \in {"render", "stop"} :
            /\ Enter("start", at, Raced("main"))
            /\ tunnel' = (tunnel \/ at = "render")
      BY <1>4 DEF OnStart, ServiceTyped, VpnTypeOK
    <3>2. thread'["main"].at = at
      BY <3>1, Entering DEF VpnTypeOK, OnlyMoves
    <3> QED
      BY <1>4, <3>1, <3>2, Entering, Handled DEF OnStart, process, desk, ServiceTyped,
        VpnTypeOK
  <2>1. VpnTypeOK'
    BY <2>e DEF VpnTypeOK, OnlyMoves, Callers, DeskTyped, KernelsTyped, ServiceTyped,
      Places, Configs, Living, Stages
  <2>2. MainRenders' /\ OneRenders'
    BY <2>e, VpnAssumption DEF MainRenders, OneRenders, VpnTypeOK, OnlyMoves, Callers,
      Main, Rendering, Ending, Single, DeskTyped, KernelsTyped, ServiceTyped, Places,
      Configs, Living, Stages
  <2>3. KnownKernels'
    BY <2>e DEF KnownKernels, VpnTypeOK, MainRenders, OneRenders, OnlyMoves, Callers,
      Living, Main, Single, DeskTyped, KernelsTyped, ServiceTyped, Rendering, Ending,
      Places, Configs, Stages
  <2>4. AppliedIsServed'
    BY <2>e DEF AppliedIsServed, VpnTypeOK, MainRenders, OneRenders, KnownKernels,
      OnlyMoves, Callers, Living, Renews, DeskTyped, KernelsTyped, ServiceTyped, Main,
      Rendering, Ending, Single, Places, Configs, Stages
  <2> QED
    BY <2>1, <2>2, <2>3, <2>4
<1>5. CASE OnReload
  <2>e. /\ Main.at = "idle"
        /\ UNCHANGED <<active, tunnel, running, slot, kernels, yaml, config, signature,
           pending>>
        /\ intents' \in Seq({"start", "stop", "reload"}) 
        /\ IF tunnel /\ active THEN /\ OnlyMoves("main", "render")
            /\ thread'["main"].as = "reload"
                                    /\ seen \subseteq seen'
                                        /\ ((\E d \in Callers \ {"main"} : Rendering(d))
                                            => "raced" \in seen')
                               ELSE UNCHANGED <<thread, seen>>
    BY <1>5, Entering, Handled DEF OnReload, process, desk, ServiceTyped, VpnTypeOK
  <2>1. VpnTypeOK'
    BY <2>e DEF VpnTypeOK, OnlyMoves, Callers, DeskTyped, KernelsTyped, ServiceTyped,
      Places, Configs, Living, Stages
  <2>2. MainRenders' /\ OneRenders'
    BY <2>e DEF MainRenders, OneRenders, VpnTypeOK, OnlyMoves, Callers, Main, Rendering,
      Ending, Single, DeskTyped, KernelsTyped, ServiceTyped, Places, Configs, Living,
      Stages
  <2>3. KnownKernels'
    BY <2>e DEF KnownKernels, VpnTypeOK, MainRenders, OneRenders, OnlyMoves, Callers,
      Living, Main, Single, DeskTyped, KernelsTyped, ServiceTyped, Rendering, Ending,
      Places, Configs, Stages
  <2>4. AppliedIsServed'
    BY <2>e DEF AppliedIsServed, VpnTypeOK, MainRenders, OneRenders, KnownKernels,
      OnlyMoves, Callers, Living, Renews, DeskTyped, KernelsTyped, ServiceTyped, Main,
      Rendering, Ending, Single, Places, Configs, Stages
  <2> QED
    BY <2>1, <2>2, <2>3, <2>4
<1>6. CASE OnStop
  <2>e. /\ Main.at = "idle"
        /\ UNCHANGED <<active, tunnel, running, slot, kernels, yaml, config, signature,
           pending>>
        /\ intents' \in Seq({"start", "stop", "reload"}) /\ (Reloads => Reloads')
        /\ OnlyMoves("main", "stop")
        /\ seen \subseteq seen' /\ ((\E d \in Callers \ {"main"} : Rendering(d))
            => "raced" \in seen')
    BY <1>6, Entering, Handled DEF OnStop, process, desk, ServiceTyped, VpnTypeOK
  <2>1. VpnTypeOK'
    BY <2>e DEF VpnTypeOK, OnlyMoves, Callers, DeskTyped, KernelsTyped, ServiceTyped,
      Places, Configs, Living, Stages
  <2>2. MainRenders' /\ OneRenders'
    BY <2>e DEF MainRenders, OneRenders, VpnTypeOK, OnlyMoves, Callers, Main, Rendering,
      Ending, Single, DeskTyped, KernelsTyped, ServiceTyped, Places, Configs, Living,
      Stages
  <2>3. KnownKernels'
    BY <2>e DEF KnownKernels, VpnTypeOK, MainRenders, OneRenders, OnlyMoves, Callers,
      Living, Main, Single, DeskTyped, KernelsTyped, ServiceTyped, Rendering, Ending,
      Places, Configs, Stages
  <2>4. AppliedIsServed'
    BY <2>e DEF AppliedIsServed, VpnTypeOK, MainRenders, OneRenders, KnownKernels,
      OnlyMoves, Callers, Living, Renews, DeskTyped, KernelsTyped, ServiceTyped, Main,
      Rendering, Ending, Single, Places, Configs, Stages
  <2> QED
    BY <2>1, <2>2, <2>3, <2>4
<1>7. CASE OnRevoke
  <2>e. /\ Main.at = "idle"
        /\ UNCHANGED <<active, tunnel, running, slot, kernels, yaml, config, signature,
           pending, intents>>
        /\ (Reloads => Reloads')
        /\ OnlyMoves("main", "stop")
        /\ seen \subseteq seen' /\ ((\E d \in Callers \ {"main"} : Rendering(d))
            => "raced" \in seen')
    BY <1>7, Entering DEF OnRevoke, MainIdle, Main, Reloads, process, desk, ServiceTyped,
      VpnTypeOK
  <2>1. VpnTypeOK'
    BY <2>e DEF VpnTypeOK, OnlyMoves, Callers, DeskTyped, KernelsTyped, ServiceTyped,
      Places, Configs, Living, Stages
  <2>2. MainRenders' /\ OneRenders'
    BY <2>e DEF MainRenders, OneRenders, VpnTypeOK, OnlyMoves, Callers, Main, Rendering,
      Ending, Single, DeskTyped, KernelsTyped, ServiceTyped, Places, Configs, Living,
      Stages
  <2>3. KnownKernels'
    BY <2>e DEF KnownKernels, VpnTypeOK, MainRenders, OneRenders, OnlyMoves, Callers,
      Living, Main, Single, DeskTyped, KernelsTyped, ServiceTyped, Rendering, Ending,
      Places, Configs, Stages
  <2>4. AppliedIsServed'
    BY <2>e DEF AppliedIsServed, VpnTypeOK, MainRenders, OneRenders, KnownKernels,
      OnlyMoves, Callers, Living, Renews, DeskTyped, KernelsTyped, ServiceTyped, Main,
      Rendering, Ending, Single, Places, Configs, Stages
  <2> QED
    BY <2>1, <2>2, <2>3, <2>4
<1>8. CASE ShutdownStops
  <2>e. /\ Main.at = "stop"
        /\ UNCHANGED <<active, tunnel, running, yaml, config, signature, pending, intents,
           seen>>
        /\ (Reloads => Reloads')
        /\ OnlyMoves("main", "close") /\ thread'["main"].as = Main.as
        /\ slot' = NoKernel /\ Living' = Living \ {slot} /\ kernels' \in [Living' -> Configs]
        /\ \A k \in Living' : kernels'[k] = kernels[k]
    BY <1>8, Moving, CoreStopped DEF ShutdownStops, Main, Moves, Stages, Callers, Reloads,
      desk, VpnTypeOK
  <2>1. VpnTypeOK'
    BY <2>e DEF VpnTypeOK, OnlyMoves, Callers, DeskTyped, KernelsTyped, ServiceTyped,
      Places, Configs, Living, Stages
  <2>2. MainRenders' /\ OneRenders'
    BY <2>e DEF MainRenders, OneRenders, VpnTypeOK, OnlyMoves, Callers, Main, Rendering,
      Ending, Single, DeskTyped, KernelsTyped, ServiceTyped, Places, Configs, Living,
      Stages
  <2>3. KnownKernels'
    BY <2>e DEF KnownKernels, VpnTypeOK, MainRenders, OneRenders, OnlyMoves, Callers,
      Living, Main, Single, DeskTyped, KernelsTyped, ServiceTyped, Rendering, Ending,
      Places, Configs, Stages
  <2>4. AppliedIsServed'
    BY <2>e DEF AppliedIsServed, VpnTypeOK, MainRenders, OneRenders, KnownKernels,
      OnlyMoves, Callers, Living, Renews, DeskTyped, KernelsTyped, ServiceTyped, Main,
      Rendering, Ending, Single, Places, Configs, Stages
  <2> QED
    BY <2>1, <2>2, <2>3, <2>4
<1>9. CASE ShutdownCloses
  <2>e. /\ Main.at = "close"
        /\ UNCHANGED <<slot, kernels, yaml, config, signature, pending, intents, seen>>
        /\ (Reloads => Reloads')
        /\ OnlyMoves("main", "idle") /\ running' = FALSE /\ tunnel' = FALSE /\ active' = FALSE
    BY <1>9, Resting DEF ShutdownCloses, Main, Callers, Reloads, desk, VpnTypeOK
  <2>1. VpnTypeOK'
    BY <2>e DEF VpnTypeOK, OnlyMoves, Callers, DeskTyped, KernelsTyped, ServiceTyped,
      Places, Configs, Living, Stages
  <2>2. MainRenders' /\ OneRenders'
    BY <2>e DEF MainRenders, OneRenders, VpnTypeOK, OnlyMoves, Callers, Main, Rendering,
      Ending, Single, DeskTyped, KernelsTyped, ServiceTyped, Places, Configs, Living,
      Stages
  <2>3. KnownKernels'
    BY <2>e DEF KnownKernels, VpnTypeOK, MainRenders, OneRenders, OnlyMoves, Callers,
      Living, Main, Single, DeskTyped, KernelsTyped, ServiceTyped, Rendering, Ending,
      Places, Configs, Stages
  <2>4. AppliedIsServed'
    BY <2>e DEF AppliedIsServed, VpnTypeOK, MainRenders, OneRenders, KnownKernels,
      OnlyMoves, Callers, Living, Renews, DeskTyped, KernelsTyped, ServiceTyped, Main,
      Rendering, Ending, Single, Places, Configs, Stages
  <2> QED
    BY <2>1, <2>2, <2>3, <2>4
<1>10. ASSUME NEW c \in Callers, Render(c) PROVE VpnInv'
  <2>e. /\ thread[c].at = "render"
        /\ UNCHANGED <<active, tunnel, slot, kernels, yaml, config, signature, pending,
           intents, seen>>
        /\ (Reloads => Reloads')
        /\ running' \in BOOLEAN
        /\ \E at \in {"write"} \union (IF c = "main" THEN {"stop"} ELSE {"idle"}) : OnlyMoves(c, at)
        /\ thread'[c].at = "write" => thread'[c].as = thread[c].as
    <3>1. CASE thread' = [thread EXCEPT ![c].at = "write", ![c].config = config]
                 /\ UNCHANGED process
      <4>1. OnlyMoves(c, "write") /\ thread'[c].as = thread[c].as
        BY ZenonT(40), <3>1 DEF OnlyMoves, VpnTypeOK, ServiceTyped, DeskTyped, Places,
          Stages
      <4> QED
        BY <1>10, <3>1, <4>1 DEF Render, process, desk, Reloads, VpnTypeOK, ServiceTyped
    <3>2. CASE Fails(c)
      <4>1. OnlyMoves(c, IF c = "main" THEN "stop" ELSE "idle")
        BY <1>10, <3>2, Failing DEF VpnTypeOK
      <4>2. thread'[c].at # "write"
        BY <4>1 DEF OnlyMoves
      <4> QED
        BY <1>10, <3>2, <4>1, <4>2, Failing DEF Render, desk, Reloads, VpnTypeOK
    <3> QED BY <1>10, <3>1, <3>2 DEF Render
  <2>1. VpnTypeOK'
    BY <2>e DEF VpnTypeOK, OnlyMoves, Callers, DeskTyped, KernelsTyped, ServiceTyped,
      Places, Configs, Living, Stages
  <2>2. MainRenders' /\ OneRenders'
    BY ZenonT(40), <2>e DEF MainRenders, OneRenders, VpnTypeOK, OnlyMoves, Callers, Main,
      Rendering,
      Ending, Single, DeskTyped, KernelsTyped, ServiceTyped, Places, Configs, Living,
      Stages
  <2>3. KnownKernels'
    BY <2>e DEF KnownKernels, VpnTypeOK, MainRenders, OneRenders, OnlyMoves, Callers,
      Living, Main, Single, DeskTyped, KernelsTyped, ServiceTyped, Rendering, Ending,
      Places, Configs, Stages
  <2>4. AppliedIsServed'
    BY <2>e DEF AppliedIsServed, VpnTypeOK, MainRenders, OneRenders, KnownKernels,
      OnlyMoves, Callers, Living, Renews, DeskTyped, KernelsTyped, ServiceTyped, Main,
      Rendering, Ending, Single, Places, Configs, Stages
  <2> QED
    BY <2>1, <2>2, <2>3, <2>4
<1>11. ASSUME NEW c \in Callers, WriteConfig(c) PROVE VpnInv'
  <2>e. /\ thread[c].at = "write"
        /\ UNCHANGED <<active, tunnel, running, slot, kernels, config, signature, pending,
           intents, seen>>
        /\ (Reloads => Reloads')
        /\ yaml' \in Configs /\ OnlyMoves(c, "halt") /\ thread'[c].as = thread[c].as
    BY <1>11, Moving DEF WriteConfig, Moves, Stages, Reloads, desk, VpnTypeOK,
      ServiceTyped, Places
  <2>1. VpnTypeOK'
    BY <2>e DEF VpnTypeOK, OnlyMoves, Callers, DeskTyped, KernelsTyped, ServiceTyped,
      Places, Configs, Living, Stages
  <2>2. MainRenders' /\ OneRenders'
    BY <2>e DEF MainRenders, OneRenders, VpnTypeOK, OnlyMoves, Callers, Main, Rendering,
      Ending, Single, DeskTyped, KernelsTyped, ServiceTyped, Places, Configs, Living,
      Stages
  <2>3. KnownKernels'
    BY <2>e, KnownStay DEF VpnTypeOK, KernelsTyped, Living, Callers
  <2>4. AppliedIsServed'
    BY <2>e DEF AppliedIsServed, VpnTypeOK, MainRenders, OneRenders, KnownKernels,
      OnlyMoves, Callers, Living, Renews, DeskTyped, KernelsTyped, ServiceTyped, Main,
      Rendering, Ending, Single, Places, Configs, Stages
  <2> QED
    BY <2>1, <2>2, <2>3, <2>4
<1>12. ASSUME NEW c \in Callers, Halt(c) PROVE VpnInv'
  <2>e. /\ thread[c].at = "halt"
        /\ UNCHANGED <<active, tunnel, running, yaml, config, signature, pending, intents,
           seen>>
        /\ (Reloads => Reloads')
        /\ OnlyMoves(c, "take") /\ thread'[c].as = thread[c].as
        /\ \/ UNCHANGED <<slot, kernels>>
           \/ /\ slot' = NoKernel /\ Living' = Living \ {slot}
                  /\ kernels' \in [Living' -> Configs]
              /\ \A k \in Living' : kernels'[k] = kernels[k]
    BY <1>12, Moving, CoreStopped DEF Halt, Moves, Stages, Reloads, desk, VpnTypeOK
  <2>1. VpnTypeOK'
    BY <2>e DEF VpnTypeOK, OnlyMoves, Callers, DeskTyped, KernelsTyped, ServiceTyped,
      Places, Configs, Living, Stages
  <2>2. MainRenders' /\ OneRenders'
    BY <2>e, SMTT(30)
    DEF MainRenders, OneRenders, VpnTypeOK, OnlyMoves, Callers, Main, Rendering,
      Ending, Single, DeskTyped, KernelsTyped, ServiceTyped, Places, Configs, Living,
      Stages
  <2>3. KnownKernels'
    BY <2>e, KnownStay, VpnAssumption DEF VpnTypeOK, KernelsTyped, Living, Callers
  <2>4. AppliedIsServed'
    BY <2>e DEF AppliedIsServed, VpnTypeOK, MainRenders, OneRenders, KnownKernels,
      OnlyMoves, Callers, Living, Renews, DeskTyped, KernelsTyped, ServiceTyped, Main,
      Rendering, Ending, Single, Places, Configs, Stages
  <2> QED
    BY <2>1, <2>2, <2>3, <2>4
<1>13. ASSUME NEW c \in Callers, Take(c) PROVE VpnInv'
  <2>e. /\ thread[c].at = "take"
        /\ UNCHANGED <<active, tunnel, running, yaml, config, signature, pending, intents,
           seen>>
        /\ (Reloads => Reloads')
        /\ OnlyMoves(c, "spawn") /\ thread'[c].as = thread[c].as
        /\ slot' = NoKernel /\ Living' = Living \ {slot} /\ kernels' \in [Living' -> Configs]
        /\ \A k \in Living' : kernels'[k] = kernels[k]
    BY <1>13, Moving, CoreStopped DEF Take, Moves, Stages, Reloads, desk, VpnTypeOK
  <2>1. VpnTypeOK'
    BY <2>e DEF VpnTypeOK, OnlyMoves, Callers, DeskTyped, KernelsTyped, ServiceTyped,
      Places, Configs, Living, Stages
  <2>2. MainRenders' /\ OneRenders'
    BY <2>e DEF MainRenders, OneRenders, VpnTypeOK, OnlyMoves, Callers, Main, Rendering,
      Ending, Single, DeskTyped, KernelsTyped, ServiceTyped, Places, Configs, Living,
      Stages
  <2>3. KnownKernels'
    BY <2>e, KnownStay, VpnAssumption DEF VpnTypeOK, KernelsTyped, Living, Callers
  <2>4. AppliedIsServed'
    BY <2>e DEF AppliedIsServed, VpnTypeOK, MainRenders, OneRenders, KnownKernels,
      OnlyMoves, Callers, Living, Renews, DeskTyped, KernelsTyped, ServiceTyped, Main,
      Rendering, Ending, Single, Places, Configs, Stages
  <2> QED
    BY <2>1, <2>2, <2>3, <2>4
<1>14. ASSUME NEW c \in Callers, SpawnCore(c) PROVE VpnInv'
  <2>e. /\ thread[c].at = "spawn"
        /\ UNCHANGED <<active, tunnel, slot, yaml, config, signature, pending, intents>>
        /\ (Reloads => Reloads')
        /\ running' \in BOOLEAN /\ seen \subseteq seen' /\ ("raced" \in seen'
            => "raced" \in seen)
        /\ \/ \E k \in Kernels \ (Living \union {slot}) :
                /\ Living' = Living \union {k} /\ kernels' \in [Living' -> Configs]
                /\ kernels'[k] = yaml /\ \A j \in Living : kernels'[j] = kernels[j]
                /\ OnlyMoves(c, "store") /\ thread'[c].kernel = k
                    /\ thread'[c].as = thread[c].as
                /\ yaml.edit # signature.edit => "unapplied" \in seen'
           \/ /\ OnlyMoves(c, IF c = "main" THEN "stop" ELSE "idle")
              /\ UNCHANGED <<kernels, seen>> /\ Living' = Living
    <3>1. ASSUME NEW k \in Kernels \ (Living \union {slot}),
                 kernels' = [j \in Living \union {k} |-> IF j = k THEN yaml ELSE kernels[j]],
                 thread' = [thread EXCEPT ![c].at = "store", ![c].kernel = k]
          PROVE  /\ Living' = Living \union {k} /\ kernels' \in [Living' -> Configs]
                 /\ kernels'[k] = yaml /\ \A j \in Living : kernels'[j] = kernels[j]
                 /\ OnlyMoves(c, "store") /\ thread'[c].kernel = k
                     /\ thread'[c].as = thread[c].as
      <4>1. Living' = Living \union {k}
        BY <3>1 DEF Living
      <4>2. kernels' \in [Living' -> Configs] /\ kernels'[k] = yaml
            /\ \A j \in Living : kernels'[j] = kernels[j]
        BY <3>1, <4>1 DEF KernelsTyped, VpnTypeOK
      <4>3. OnlyMoves(c, "store") /\ thread'[c].kernel = k /\ thread'[c].as = thread[c].as
        BY ZenonT(40), <3>1 DEF OnlyMoves, VpnTypeOK, ServiceTyped, Places, Stages
      <4> QED BY <4>1, <4>2, <4>3
    <3>2. /\ thread[c].at = "spawn"
          /\ UNCHANGED <<active, tunnel, slot, yaml, config, signature, pending, intents>>
          /\ (Reloads => Reloads') /\ running' \in BOOLEAN
      BY <1>14, Failing DEF SpawnCore, desk, Reloads, VpnTypeOK, ServiceTyped
    <3>3. CASE Fails(c) /\ UNCHANGED seen
      BY <1>14, <3>2, <3>3, Failing DEF VpnTypeOK, Living
    <3>4. ASSUME NEW k \in Kernels \ (Living \union {slot}),
                 kernels' = [j \in Living \union {k} |-> IF j = k THEN yaml ELSE kernels[j]],
                 thread' = [thread EXCEPT ![c].at = "store", ![c].kernel = k],
                 seen' = seen \union (IF yaml.edit # signature.edit THEN {"unapplied"} ELSE {})
          PROVE  /\ seen \subseteq seen' /\ ("raced" \in seen' => "raced" \in seen)
                 /\ yaml.edit # signature.edit => "unapplied" \in seen'
      BY <3>4
    <3> QED BY <1>14, <3>1, <3>2, <3>3 DEF SpawnCore, Callers
  <2>1. VpnTypeOK'
    <3>1. ServiceTyped' /\ DeskTyped'
      BY <2>e DEF VpnTypeOK, ServiceTyped, DeskTyped, OnlyMoves
    <3>2. slot' \in Kernels \union {NoKernel} /\ yaml' \in Configs
      BY <2>e DEF VpnTypeOK, KernelsTyped
    <3>3. Living' \subseteq Kernels /\ kernels' \in [Living' -> Configs]
      BY <2>e DEF VpnTypeOK, KernelsTyped
    <3> QED
      BY <3>1, <3>2, <3>3 DEF VpnTypeOK, KernelsTyped
  <2>2. MainRenders' /\ OneRenders'
    BY ZenonT(40), <2>e DEF MainRenders, OneRenders, VpnTypeOK, OnlyMoves, Callers, Main,
      Rendering,
      Ending, Single, DeskTyped, KernelsTyped, ServiceTyped, Places, Configs, Living,
      Stages
  <2>3. KnownKernels'
    <3>1. CASE \E k \in Kernels \ (Living \union {slot}) :
                 /\ Living' = Living \union {k}
                 /\ kernels'[k] = yaml /\ \A j \in Living : kernels'[j] = kernels[j]
                 /\ OnlyMoves(c, "store") /\ thread'[c].kernel = k
                 /\ yaml.edit # signature.edit => "unapplied" \in seen'
      <4> SUFFICES ASSUME Single' PROVE KnownKernels'
        BY DEF KnownKernels
      <4>1. Single /\ "main" \in Callers
        BY <2>e DEF Single, Callers
      <4>2. PICK k \in Kernels \ (Living \union {slot}) :
              Living' = Living \union {k} /\ OnlyMoves(c, "store") /\ thread'[c].kernel = k
        BY <3>1
      <4>3. Living' = {k} /\ slot' # k /\ k # NoKernel
        BY <2>e, <4>1, <4>2, RendersAlone, VpnAssumption
      <4>4. \A d \in Callers \ {c} : ~Rendering(d) /\ thread'[d] = thread[d]
        BY <2>e, <4>1, RendersAlone DEF OnlyMoves
      <4>5. \A d \in Callers : thread'[d].at = "store" => d = c
        BY <4>4 DEF Rendering
      <4>6. Main'.at # "close" /\ (Main'.at = "idle" => active')
        BY <2>e, <4>1, <4>2, RendersAlone DEF Main, Ending, OnlyMoves
      <4> QED
        BY <4>2, <4>3, <4>5, <4>6 DEF KnownKernels, OnlyMoves
    <3>2. CASE OnlyMoves(c, IF c = "main" THEN "stop" ELSE "idle") /\ Living' = Living
                 /\ UNCHANGED <<kernels, seen>>
      BY <2>e, <3>2, KnownStay DEF Callers
    <3> QED
      BY <2>e, <3>1, <3>2
  <2>4. AppliedIsServed'
    <3>1. CASE \E k \in Kernels \ (Living \union {slot}) :
                 /\ Living' = Living \union {k}
                 /\ kernels'[k] = yaml /\ \A j \in Living : kernels'[j] = kernels[j]
                 /\ OnlyMoves(c, "store") /\ thread'[c].kernel = k
                 /\ yaml.edit # signature.edit => "unapplied" \in seen'
      <4> SUFFICES ASSUME seen' = {} PROVE AppliedIsServed'
        BY DEF AppliedIsServed
      <4>1. seen = {} /\ Single
        BY <2>e DEF Single
      <4>2. PICK k \in Kernels \ (Living \union {slot}) :
              Living' = Living \union {k} /\ kernels'[k] = yaml
        BY <3>1
      <4>3. Living' = {k} /\ yaml.edit = signature.edit
        BY <2>e, <3>1, <4>1, <4>2, RendersAlone
      <4> QED
        BY <2>e, <4>1, <4>3 DEF AppliedIsServed
    <3>2. CASE OnlyMoves(c, IF c = "main" THEN "stop" ELSE "idle") /\ Living' = Living
                 /\ UNCHANGED <<kernels, seen>>
      <4>1. Renews => Renews'
        BY <3>2 DEF Renews, Main, OnlyMoves, Callers
      <4> QED
        BY <2>e, <4>1 DEF AppliedIsServed
    <3> QED
      BY <2>e, <3>1, <3>2
  <2> QED
    BY <2>1, <2>2, <2>3, <2>4
<1>15. ASSUME NEW c \in Callers, Store(c) PROVE VpnInv'
  <2>e. /\ thread[c].at = "store"
        /\ UNCHANGED <<tunnel, kernels, yaml, config, signature, pending, intents, seen>>
        /\ (Reloads => Reloads')
        /\ slot' = thread[c].kernel /\ running' = TRUE
        /\ active' = (active \/ (c = "main" /\ thread[c].as = "start"))
        /\ thread' \in [Callers -> Places] /\ thread'[c].at = "idle"
        /\ \A d \in Callers \ {c} :
             thread'[d] = thread[d] \/ (d # "main" /\ thread[d].at = "idle"
               /\ thread'[d].at = "learn")
    <3>1. Idle \in Places /\ Idle.at = "idle"
      BY DEF Idle, Places, Configs, Stages
    <3>2. CASE thread' = [thread EXCEPT ![c] = Idle]
      BY <1>15, <3>1, <3>2 DEF Store, desk, Reloads, VpnTypeOK, ServiceTyped
    <3>3. ASSUME NEW t \in Threads, thread[t].at = "idle",
                 thread' = [thread EXCEPT ![c] = Idle, ![t].at = "learn"]
          PROVE  /\ thread' \in [Callers -> Places] /\ thread'[c].at = "idle"
                 /\ \A d \in Callers \ {c} :
                      thread'[d] = thread[d] \/ (d # "main" /\ thread[d].at = "idle"
                        /\ thread'[d].at = "learn")
      <4>1. t \in Callers /\ t # c /\ t # "main"
        BY <1>15, <3>3, VpnAssumption DEF Store, Callers
      <4> QED
        BY <3>1, <3>3, <4>1 DEF VpnTypeOK, ServiceTyped, Places, Stages
    <3> QED
      BY <1>15, <3>2, <3>3 DEF Store, desk, Reloads
  <2>1. VpnTypeOK'
    BY <2>e DEF VpnTypeOK, OnlyMoves, Callers, DeskTyped, KernelsTyped, ServiceTyped,
      Places, Configs, Living, Stages
  <2>2. MainRenders' /\ OneRenders'
    BY <2>e DEF MainRenders, OneRenders, VpnTypeOK, OnlyMoves, Callers, Main, Rendering,
      Ending, Single, DeskTyped, KernelsTyped, ServiceTyped, Places, Configs, Living,
      Stages
  <2>3. KnownKernels'
    <3> SUFFICES ASSUME Single' PROVE KnownKernels'
      BY DEF KnownKernels
    <3>1. Single /\ "main" \in Callers /\ Living' = Living
      BY <2>e DEF Single, Callers, Living
    <3>2. Living \subseteq {slot'} /\ ~Ending /\ (c # "main" => active)
      BY <2>e, <3>1, RendersAlone
    <3>3. \A d \in Callers \ {c} : thread[d].at \notin {"spawn", "store"}
      BY <2>e, <3>1, RendersAlone DEF Rendering
    <3>4. \A d \in Callers : thread'[d].at \notin {"spawn", "store"}
      BY <2>e, <3>3
    <3>5. c = "main" => active'
      BY <2>e DEF MainRenders, Rendering, Main
    <3>6. Main'.at # "close" /\ active'
      BY <2>e, <3>1, <3>2, <3>5 DEF Main, Ending
    <3> QED
      BY <3>1, <3>2, <3>4, <3>6 DEF KnownKernels
  <2>4. AppliedIsServed'
    BY <2>e DEF AppliedIsServed, VpnTypeOK, MainRenders, OneRenders, KnownKernels,
      OnlyMoves, Callers, Living, Renews, DeskTyped, KernelsTyped, ServiceTyped, Main,
      Rendering, Ending, Single, Places, Configs, Stages
  <2> QED
    BY <2>1, <2>2, <2>3, <2>4
<1>16. ASSUME NEW t \in Threads, LearnBegins(t) PROVE VpnInv'
  <2>e. /\ t \in Callers /\ t # "main" /\ thread[t].at = "learn"
        /\ UNCHANGED <<active, tunnel, running, slot, kernels, yaml, config, signature,
           pending, intents, seen>>
        /\ (Reloads => Reloads')
        /\ OnlyMoves(t, "fetch")
    <3>1. t \in Callers /\ t # "main"
      BY VpnAssumption DEF Callers
    <3> DEFINE place == [thread[t] EXCEPT !.at = "fetch", !.config = config]
    <3>2. place \in Places /\ place.at = "fetch"
      BY <3>1 DEF VpnTypeOK, ServiceTyped, DeskTyped, Places, Stages
    <3>3. thread' = [thread EXCEPT ![t] = place]
      BY <1>16 DEF LearnBegins
    <3>4. OnlyMoves(t, "fetch")
      <4> HIDE DEF place
      <4> QED
        BY <3>1, <3>2, <3>3, Going DEF VpnTypeOK
    <3> QED
      BY <1>16, <3>1, <3>4 DEF LearnBegins, process, desk, Reloads
  <2>1. VpnTypeOK'
    BY <2>e DEF VpnTypeOK, OnlyMoves, Callers, DeskTyped, KernelsTyped, ServiceTyped,
      Places, Configs, Living, Stages
  <2>2. MainRenders' /\ OneRenders'
    BY <2>e DEF MainRenders, OneRenders, VpnTypeOK, OnlyMoves, Callers, Main, Rendering,
      Ending, Single, DeskTyped, KernelsTyped, ServiceTyped, Places, Configs, Living,
      Stages
  <2>3. KnownKernels'
    BY <2>e, KnownStay DEF VpnTypeOK, KernelsTyped, Living, Callers
  <2>4. AppliedIsServed'
    BY <2>e DEF AppliedIsServed, VpnTypeOK, MainRenders, OneRenders, KnownKernels,
      OnlyMoves, Callers, Living, Renews, DeskTyped, KernelsTyped, ServiceTyped, Main,
      Rendering, Ending, Single, Places, Configs, Stages
  <2> QED
    BY <2>1, <2>2, <2>3, <2>4
<1>17. ASSUME NEW t \in Threads, Fetched(t) PROVE VpnInv'
  <2>e. /\ t \in Callers /\ t # "main" /\ thread[t].at = "fetch"
        /\ UNCHANGED <<active, tunnel, running, slot, kernels, yaml, config, signature,
           pending, intents, seen>>
        /\ (Reloads => Reloads')
        /\ \E at \in {"idle", "copy"} : OnlyMoves(t, at)
    <3>1. t \in Callers /\ t # "main"
      BY VpnAssumption DEF Callers
    <3>2. ASSUME NEW r \in Resolvers, thread' = [thread EXCEPT ![t].at = "copy", ![t].dns = r]
          PROVE  OnlyMoves(t, "copy")
      BY ZenonT(40), <3>1, <3>2 DEF OnlyMoves, VpnTypeOK, ServiceTyped, Places, Stages
    <3>3. \E at \in {"idle", "copy"} : OnlyMoves(t, at)
      BY <1>17, <3>1, <3>2, Resting DEF Fetched, VpnTypeOK
    <3> QED
      BY <1>17, <3>1, <3>3 DEF Fetched, process, desk, Reloads
  <2>1. VpnTypeOK'
    BY <2>e DEF VpnTypeOK, OnlyMoves, Callers, DeskTyped, KernelsTyped, ServiceTyped,
      Places, Configs, Living, Stages
  <2>2. MainRenders' /\ OneRenders'
    BY <2>e DEF MainRenders, OneRenders, VpnTypeOK, OnlyMoves, Callers, Main, Rendering,
      Ending, Single, DeskTyped, KernelsTyped, ServiceTyped, Places, Configs, Living,
      Stages
  <2>3. KnownKernels'
    BY <2>e DEF KnownKernels, VpnTypeOK, MainRenders, OneRenders, OnlyMoves, Callers,
      Living, Main, Single, DeskTyped, KernelsTyped, ServiceTyped, Rendering, Ending,
      Places, Configs, Stages
  <2>4. AppliedIsServed'
    BY <2>e DEF AppliedIsServed, VpnTypeOK, MainRenders, OneRenders, KnownKernels,
      OnlyMoves, Callers, Living, Renews, DeskTyped, KernelsTyped, ServiceTyped, Main,
      Rendering, Ending, Single, Places, Configs, Stages
  <2> QED
    BY <2>1, <2>2, <2>3, <2>4
<1>18. ASSUME NEW t \in Threads, CopyWorkspace(t) PROVE VpnInv'
  <2>e. /\ t \in Callers /\ t # "main" /\ thread[t].at = "copy"
        /\ UNCHANGED <<active, tunnel, running, slot, kernels, yaml, config, signature,
           pending, intents, seen>>
        /\ (Reloads => Reloads')
        /\ OnlyMoves(t, "assign")
    <3>1. t \in Callers /\ t # "main"
      BY VpnAssumption DEF Callers
    <3> DEFINE place == [thread[t] EXCEPT !.at = "assign", !.config = config]
    <3>2. place \in Places /\ place.at = "assign"
      BY <3>1 DEF VpnTypeOK, ServiceTyped, DeskTyped, Places, Stages
    <3>3. thread' = [thread EXCEPT ![t] = place]
      BY <1>18 DEF CopyWorkspace
    <3>4. OnlyMoves(t, "assign")
      <4> HIDE DEF place
      <4> QED
        BY <3>1, <3>2, <3>3, Going DEF VpnTypeOK
    <3> QED
      BY <1>18, <3>1, <3>4 DEF CopyWorkspace, process, desk, Reloads
  <2>1. VpnTypeOK'
    BY <2>e DEF VpnTypeOK, OnlyMoves, Callers, DeskTyped, KernelsTyped, ServiceTyped,
      Places, Configs, Living, Stages
  <2>2. MainRenders' /\ OneRenders'
    BY <2>e DEF MainRenders, OneRenders, VpnTypeOK, OnlyMoves, Callers, Main, Rendering,
      Ending, Single, DeskTyped, KernelsTyped, ServiceTyped, Places, Configs, Living,
      Stages
  <2>3. KnownKernels'
    BY <2>e, KnownStay DEF VpnTypeOK, KernelsTyped, Living, Callers
  <2>4. AppliedIsServed'
    BY <2>e DEF AppliedIsServed, VpnTypeOK, MainRenders, OneRenders, KnownKernels,
      OnlyMoves, Callers, Living, Renews, DeskTyped, KernelsTyped, ServiceTyped, Main,
      Rendering, Ending, Single, Places, Configs, Stages
  <2> QED
    BY <2>1, <2>2, <2>3, <2>4
<1>19. ASSUME NEW t \in Threads, AssignWorkspace(t) PROVE VpnInv'
  <2>e. /\ t \in Callers /\ t # "main" /\ thread[t].at = "assign"
        /\ UNCHANGED <<active, tunnel, running, slot, kernels, yaml, signature, pending,
           intents>>
        /\ (Reloads => Reloads')
        /\ OnlyMoves(t, "look") /\ config' \in Configs
        /\ seen \subseteq seen' /\ ("raced" \in seen' => "raced" \in seen)
        /\ seen' = {} => config'.edit = config.edit
    <3>1. t \in Callers /\ t # "main"
      BY VpnAssumption DEF Callers
    <3>2. thread[t] \in Places
      BY <3>1 DEF VpnTypeOK, ServiceTyped
    <3>3. config' \in Configs /\ config'.edit = thread[t].config.edit
      BY <1>19, <3>2 DEF AssignWorkspace, Places, Configs
    <3> QED
      BY <1>19, <3>1, <3>3, Moving DEF AssignWorkspace, Moves, Stages, process, Reloads,
        VpnTypeOK
  <2>1. VpnTypeOK'
    BY <2>e DEF VpnTypeOK, OnlyMoves, Callers, DeskTyped, KernelsTyped, ServiceTyped,
      Places, Configs, Living, Stages
  <2>2. MainRenders' /\ OneRenders'
    BY <2>e, SMTT(30)
    DEF MainRenders, OneRenders, VpnTypeOK, OnlyMoves, Callers, Main, Rendering,
      Ending, Single, DeskTyped, KernelsTyped, ServiceTyped, Places, Configs, Living,
      Stages
  <2>3. KnownKernels'
    BY <2>e, KnownStay DEF VpnTypeOK, KernelsTyped, Living, Callers
  <2>4. AppliedIsServed'
    BY <2>e DEF AppliedIsServed, VpnTypeOK, MainRenders, OneRenders, KnownKernels,
      OnlyMoves, Callers, Living, Renews, DeskTyped, KernelsTyped, ServiceTyped, Main,
      Rendering, Ending, Single, Places, Configs, Stages
  <2> QED
    BY <2>1, <2>2, <2>3, <2>4
<1>20. ASSUME NEW t \in Threads, Look(t) PROVE VpnInv'
  <2>e. /\ t \in Callers /\ t # "main" /\ thread[t].at = "look"
        /\ UNCHANGED <<active, tunnel, running, slot, kernels, yaml, config, signature,
           pending, intents>>
        /\ (Reloads => Reloads')
        /\ \/ /\ tunnel /\ active /\ OnlyMoves(t, "render") /\ seen \subseteq seen'
              /\ (\E d \in Callers \ {t} : Rendering(d)) \/ Ending => "raced" \in seen'
           \/ OnlyMoves(t, "idle") /\ UNCHANGED seen
    <3>1. t \in Callers /\ t # "main"
      BY VpnAssumption DEF Callers
    <3> QED
      BY <1>20, <3>1, Moving, Resting DEF Look, Moves, Stages, Raced, process, desk,
        Reloads, VpnTypeOK
  <2>1. VpnTypeOK'
    BY <2>e DEF VpnTypeOK, OnlyMoves, Callers, DeskTyped, KernelsTyped, ServiceTyped,
      Places, Configs, Living, Stages
  <2>2. MainRenders' /\ OneRenders'
    <3>1. "main" \in Callers /\ thread'["main"] = thread["main"]
      BY <2>e DEF OnlyMoves, Callers
    <3>2. MainRenders'
      BY <2>e, <3>1 DEF MainRenders, Main, Rendering
    <3>3. CASE OnlyMoves(t, "idle") /\ UNCHANGED seen
      BY <2>e, <3>1, <3>2 DEF OneRenders, Single, OnlyMoves, Rendering, Ending, Callers
    <3>4. CASE /\ tunnel /\ active /\ OnlyMoves(t, "render") /\ seen \subseteq seen'
               /\ (\E d \in Callers \ {t} : Rendering(d)) \/ Ending => "raced" \in seen'
      <4>1. active'
        BY <2>e, <3>4
      <4>2. ASSUME Single' PROVE ~Ending' /\ \A d \in Callers \ {t} : ~Rendering(d)'
        BY <2>e, <3>1, <3>4, <4>2 DEF Single, OnlyMoves, Rendering, Ending
      <4> QED
        BY <3>2, <4>1, <4>2 DEF OneRenders
    <3> QED
      BY <2>e, <3>3, <3>4
  <2>3. KnownKernels'
    BY <2>e DEF KnownKernels, VpnTypeOK, MainRenders, OneRenders, OnlyMoves, Callers,
      Living, Main, Single, DeskTyped, KernelsTyped, ServiceTyped, Rendering, Ending,
      Places, Configs, Stages
  <2>4. AppliedIsServed'
    BY <2>e DEF AppliedIsServed, VpnTypeOK, MainRenders, OneRenders, KnownKernels,
      OnlyMoves, Callers, Living, Renews, DeskTyped, KernelsTyped, ServiceTyped, Main,
      Rendering, Ending, Single, Places, Configs, Stages
  <2> QED
    BY <2>1, <2>2, <2>3, <2>4
<1>21. CASE KernelExits
  <2>e. /\ UNCHANGED <<active, tunnel, running, slot, yaml, config, signature, pending,
           thread, intents, seen>>
        /\ (Reloads => Reloads')
        /\ Living' \subseteq Living /\ kernels' \in [Living' -> Configs]
        /\ \A k \in Living' : kernels'[k] = kernels[k]
    BY <1>21, Fewer DEF KernelExits, desk, Reloads, VpnTypeOK
  <2>1. VpnTypeOK'
    BY <2>e DEF VpnTypeOK, OnlyMoves, Callers, DeskTyped, KernelsTyped, ServiceTyped,
      Places, Configs, Living, Stages
  <2>2. MainRenders' /\ OneRenders'
    BY <2>e DEF MainRenders, OneRenders, VpnTypeOK, OnlyMoves, Callers, Main, Rendering,
      Ending, Single, DeskTyped, KernelsTyped, ServiceTyped, Places, Configs, Living,
      Stages
  <2>3. KnownKernels'
    BY <2>e DEF KnownKernels, VpnTypeOK, MainRenders, OneRenders, OnlyMoves, Callers,
      Living, Main, Single, DeskTyped, KernelsTyped, ServiceTyped, Rendering, Ending,
      Places, Configs, Stages
  <2>4. AppliedIsServed'
    BY <2>e DEF AppliedIsServed, VpnTypeOK, MainRenders, OneRenders, KnownKernels,
      OnlyMoves, Callers, Living, Renews, DeskTyped, KernelsTyped, ServiceTyped, Main,
      Rendering, Ending, Single, Places, Configs, Stages
  <2> QED
    BY <2>1, <2>2, <2>3, <2>4
<1>22. CASE Relaunch
  <2>e. /\ UNCHANGED <<yaml, config>> /\ active' = FALSE /\ tunnel' = FALSE
            /\ running' = FALSE /\ slot' = NoKernel
        /\ Living' = {} /\ kernels' \in [Living' -> Configs] /\ signature' = config
            /\ pending' = FALSE
        /\ intents' \in Seq({"start", "stop", "reload"})
        /\ thread' \in [Callers -> Places] /\ \A c \in Callers : thread'[c].at = "idle"
    <3>1. Idle \in Places /\ Idle.at = "idle"
      BY DEF Idle, Places, Configs, Stages
    <3>2. Living' = {} /\ kernels' \in [Living' -> Configs]
      BY <1>22 DEF Relaunch, Living
    <3> QED
      BY <1>22, <3>1, <3>2 DEF Relaunch
  <2>1. VpnTypeOK'
    <3>1. ServiceTyped'
      BY <2>e DEF ServiceTyped
    <3>2. KernelsTyped'
      BY <2>e DEF KernelsTyped, VpnTypeOK
    <3>3. DeskTyped'
      BY <2>e DEF DeskTyped, VpnTypeOK
    <3> QED
      BY <3>1, <3>2, <3>3 DEF VpnTypeOK
  <2>2. MainRenders' /\ OneRenders'
    BY <2>e DEF MainRenders, OneRenders, VpnTypeOK, OnlyMoves, Callers, Main, Rendering,
      Ending, Single, DeskTyped, KernelsTyped, ServiceTyped, Places, Configs, Living,
      Stages
  <2>3. KnownKernels'
    BY <2>e DEF KnownKernels, VpnTypeOK, MainRenders, OneRenders, OnlyMoves, Callers,
      Living, Main, Single, DeskTyped, KernelsTyped, ServiceTyped, Rendering, Ending,
      Places, Configs, Stages
  <2>4. AppliedIsServed'
    BY <2>e DEF AppliedIsServed, VpnTypeOK, MainRenders, OneRenders, KnownKernels,
      OnlyMoves, Callers, Living, Renews, DeskTyped, KernelsTyped, ServiceTyped, Main,
      Rendering, Ending, Single, Places, Configs, Stages
  <2> QED
    BY <2>1, <2>2, <2>3, <2>4
<1>23. CASE UNCHANGED vpnVars
  <2>e. /\ UNCHANGED <<active, tunnel, running, slot, kernels, yaml, config, signature,
           pending, thread, intents, seen>>
        /\ (Reloads => Reloads')
    BY <1>23 DEF vpnVars, process, desk, Reloads
  <2>1. VpnTypeOK'
    BY <2>e DEF VpnTypeOK, OnlyMoves, Callers, DeskTyped, KernelsTyped, ServiceTyped,
      Places, Configs, Living, Stages
  <2>2. MainRenders' /\ OneRenders'
    BY <2>e DEF MainRenders, OneRenders, VpnTypeOK, OnlyMoves, Callers, Main, Rendering,
      Ending, Single, DeskTyped, KernelsTyped, ServiceTyped, Places, Configs, Living,
      Stages
  <2>3. KnownKernels'
    BY <2>e DEF KnownKernels, VpnTypeOK, MainRenders, OneRenders, OnlyMoves, Callers,
      Living, Main, Single, DeskTyped, KernelsTyped, ServiceTyped, Rendering, Ending,
      Places, Configs, Stages
  <2>4. AppliedIsServed'
    BY <2>e DEF AppliedIsServed, VpnTypeOK, MainRenders, OneRenders, KnownKernels,
      OnlyMoves, Callers, Living, Renews, DeskTyped, KernelsTyped, ServiceTyped, Main,
      Rendering, Ending, Single, Places, Configs, Stages
  <2> QED
    BY <2>1, <2>2, <2>3, <2>4
<1> QED
  BY <1>1, <1>2, <1>3, <1>4, <1>5, <1>6, <1>7, <1>8, <1>9, <1>10, <1>11, <1>12, <1>13,
    <1>14, <1>15, <1>16, <1>17, <1>18, <1>19, <1>20, <1>21, <1>22, <1>23 DEF VpnNext

\* The initial state satisfies the invariant.
LEMMA VpnInitInv == VpnInit => VpnInv
<1> SUFFICES ASSUME VpnInit PROVE VpnInv
  OBVIOUS
<1>1. Idle \in Places /\ Idle.at = "idle"
  BY DEF Idle, Places, Configs, Stages
<1>2. Living = {}
  BY DEF VpnInit, Living
<1>3. \A c \in Callers : thread[c].at = "idle"
  BY <1>1 DEF VpnInit
<1>4. VpnTypeOK
  <2>1. ServiceTyped
    <3>1. thread \in [Callers -> Places]
      BY <1>1 DEF VpnInit
    <3>2. intents \in Seq({"start", "stop", "reload"})
      BY DEF VpnInit
    <3> QED
      BY <3>1, <3>2 DEF VpnInit, ServiceTyped
  <2>2. KernelsTyped
    BY DEF VpnInit, KernelsTyped, Configs, Living
  <2>3. DeskTyped
    BY DEF VpnInit, DeskTyped, Configs
  <2> QED
    BY <2>1, <2>2, <2>3 DEF VpnTypeOK
<1>5. "main" \in Callers
  BY DEF Callers
<1>6. MainRenders /\ OneRenders
  BY <1>3 DEF VpnInit, MainRenders, OneRenders, Rendering, Ending, Main, Callers
<1>7. KnownKernels
  BY <1>2, <1>3 DEF KnownKernels
<1>8. AppliedIsServed
  BY <1>2 DEF VpnInit, AppliedIsServed
<1> QED
  BY <1>4, <1>6, <1>7, <1>8 DEF VpnInv

\* The inductive invariant of the Android service, which the theorems below
\* rest on.
THEOREM VpnInvariant == VpnSpec => []VpnInv
<1> QED
  BY VpnInitInv, VpnNextInv, PTL DEF VpnSpec

\* The state of the Android service is of its type.
THEOREM VpnTypes == VpnSpec => []VpnTypeOK
<1>1. VpnInv => VpnTypeOK
  BY DEF VpnInv
<1> QED
  BY <1>1, VpnInvariant, PTL

\* startCore, stopCore and shutdown leave no kernel behind that the native side
\* does not know, whatever fails, for any number of resolver threads as long as
\* they render by turns (NoStrayKernel).
THEOREM NoKernelIsStray == VpnSpec => []NoStrayKernel
<1>1. VpnInv => NoStrayKernel
  <2> SUFFICES ASSUME VpnInv, Single PROVE NoStrayKernel
    BY DEF NoStrayKernel, Single
  <2>1. ASSUME NEW k \in Living, k # slot
        PROVE  k \in {thread[c].kernel : c \in {d \in Callers : thread[d].at = "store"}}
    <3>1. PICK c \in Callers : thread[c].at = "store" /\ thread[c].kernel = k
      BY <2>1 DEF VpnInv, KnownKernels
    <3> QED
      BY <3>1
  <2>2. MainIdle /\ ~active => Living = {}
    BY DEF VpnInv, KnownKernels, MainIdle, Main
  <2> QED
    BY <2>1, <2>2 DEF NoStrayKernel
<1> QED
  BY <1>1, VpnInvariant, PTL

\* A kernel that the service still has runs what the pages show, while nothing
\* is marked as not applied and nothing is on its way (NothingPendingIsServed).
THEOREM AppliedReachesKernel == VpnSpec => []NothingPendingIsServed
<1>1. VpnInv => NothingPendingIsServed
  <2> SUFFICES ASSUME VpnInv, Settled, active, ~pending, seen = {}, slot \in Living
               PROVE  kernels[slot].edit = config.edit
    BY DEF NothingPendingIsServed
  <2>1. ~Reloads
    BY DEF Settled, Reloads
  <2>2. ~Renews
    BY DEF Settled, Renews, Rendering, Ending, Main, Callers
  <2> QED
    BY <2>1, <2>2 DEF VpnInv, AppliedIsServed
<1> QED
  BY <1>1, VpnInvariant, PTL
=============================================================================
