------------------------------ MODULE MCDesktop ------------------------------
(* What the desktop application does to the system around it: it takes over *)
(* the proxy settings (SystemProxy for macOS, with two settings, so that a   *)
(* takeover or a restoration stops half-way, and one server of the user's;   *)
(* PlatformProxy for Linux and Windows) and the resolvers (TunDns, with two  *)
(* services of macOS), replaces itself by a newer version (AppUpdate, with a *)
(* version newer than the installed one and one that is newer still, and two *)
(* tasks) and runs its kernel over the launch daemon (Helper, with three     *)
(* processes).  None of them touches the state of another, so a behaviour is *)
(* about one, and the others stay where they began.                          *)
EXTENDS SystemProxy, PlatformProxy, TunDns, AppUpdate, Helper, TLC

VARIABLE part
parts == <<vars, platformVars, tunDnsVars, updateVars, helperVars, part>>

Versions == {1, 2, 3}
RunningVersion == 1

\* No property and no step tells processes apart.
Alike == Permutations(Pids)

Proxy == part = "proxy" /\ UNCHANGED <<platformVars, tunDnsVars, updateVars, helperVars, part>>
Platform == part = "platform" /\ UNCHANGED <<vars, tunDnsVars, updateVars, helperVars, part>>
Dns == part = "dns" /\ UNCHANGED <<vars, platformVars, updateVars, helperVars, part>>
Version == part = "update" /\ UNCHANGED <<vars, platformVars, tunDnsVars, helperVars, part>>
Kernel == part = "kernel" /\ UNCHANGED <<vars, platformVars, tunDnsVars, updateVars, part>>

MCInit ==
  /\ part \in {"proxy", "platform", "dns", "update", "kernel"}
  /\ Init /\ (part # "proxy" => user = [s \in Setting |-> [server |-> NoServer, enabled |-> "off"]])
  /\ PlatformInit
  /\ part # "platform" => platform = "linux" /\ registry["mode"] = "corp"
  /\ TunDnsInit
  /\ part # "dns" => os = "linux" /\ \A s \in Services : chosen[s] = "theirs"
  /\ UpdateInit /\ (part # "update" => published = RunningVersion)
  /\ HelperInit /\ (part # "kernel" => helper = "absent")

MCNext ==
  \/ Proxy /\ Launch
  \/ Proxy /\ AppEnds
  \/ Proxy /\ Disable
  \/ \E listeners \in SUBSET Setting : Proxy /\ EnableBegin(listeners)
  \/ Proxy /\ ReadSettings
  \/ Proxy /\ WriteRecovery
  \/ Proxy /\ ApplyFails
  \/ Proxy /\ RestoreSwitch
  \/ Proxy /\ RestoreFails
  \/ Proxy /\ DeleteRecovery
  \/ Proxy /\ DeleteRecoveryFails
  \/ \E s \in Setting : Proxy /\ ApplySetting(s)
  \/ \E s \in Setting : Proxy /\ RestoreServer(s)
  \/ \E s \in Setting, v \in UserSetting : Proxy /\ UserEdit(s, v)
  \/ Platform /\ StartApplication
  \/ Platform /\ TakeOver
  \/ Platform /\ ReadKeys
  \/ Platform /\ WriteFile
  \/ Platform /\ SetKey
  \/ Platform /\ Notify
  \/ Platform /\ DeleteFile
  \/ Platform /\ GiveBack
  \/ Platform /\ UserSets
  \/ Platform /\ ApplicationEnds
  \/ Dns /\ RecoverStale
  \/ Dns /\ RestoreDns
  \/ Dns /\ FlushCaches
  \/ Dns /\ DeleteRecord
  \/ Dns /\ PrepareTunDns
  \/ Dns /\ WriteRecord
  \/ Dns /\ ActivateTunDns
  \/ Dns /\ InstallServer
  \/ Dns /\ RouteDomain
  \/ Dns /\ Revert
  \/ Dns /\ DisableTunDns
  \/ Dns /\ Rebind
  \/ Dns /\ LinkAppears
  \/ Dns /\ LinkDisappears
  \/ Dns /\ UserSetsDns
  \/ Dns /\ ManisEnds
  \/ \E j \in Job : Version /\ Check(j)
  \/ \E j \in Job : Version /\ CheckSteps(j)
  \/ \E j \in Job : Version /\ StartDownload(j)
  \/ \E j \in Job : Version /\ DownloadSteps(j)
  \/ Version /\ Install
  \/ \E v \in Release : Version /\ Publish(v)
  \/ \E p \in Pids : Kernel /\ Bind(p)
  \/ \E p \in Pids : Kernel /\ Exit(p)
  \/ \E p \in Pids : Kernel /\ HandleLateStop(p)
  \/ Kernel /\ HandleLateStart
  \/ Kernel /\ DaemonRestarts
  \/ Kernel /\ Connect
  \/ Kernel /\ RecoverIfAvailable
  \/ Kernel /\ ReclaimStaleOrdinary
  \/ Kernel /\ Adopt
  \/ Kernel /\ Spawn
  \/ Kernel /\ Ready
  \/ Kernel /\ NotReady
  \/ Kernel /\ ReadSnapshot
  \/ Kernel /\ StopManaged
  \/ Kernel /\ Restart
  \/ Kernel /\ Health
  \/ Kernel /\ SetTunEnabled
  \/ Kernel /\ Prepare
  \/ Kernel /\ EnsurePrivileged
  \/ Kernel /\ PromotionStops
  \/ Kernel /\ Demote
  \/ Kernel /\ PutConfig
  \/ Kernel /\ Kill
MCSpec == MCInit /\ [][MCNext]_parts
=============================================================================
