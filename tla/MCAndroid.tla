------------------------------ MODULE MCAndroid ------------------------------
(* The Android application: the workspace that its pages edit and the        *)
(* profile compiled from it (PhoneProfile, with three links of which two     *)
(* give the same name, an address that cannot be parsed and a backup from an *)
(* application with two subscriptions), and the service that runs a kernel   *)
(* with it (Vpn, with the workspace reduced to two contents). A behaviour is *)
(* about one of them.                                                        *)
EXTENDS PhoneProfile, Vpn, TLC

VARIABLE part
parts == <<phoneVars, vpnVars, part>>

Names == [link \in Links |-> IF link = "l3" THEN "n3" ELSE "n1"]
Copied == {[Empty EXCEPT
  !.subs = <<[Source("u1", 101) EXCEPT !.enabled = FALSE], Source("u2", 102)>>,
  !.groups = <<[name |-> "g", subs |-> <<1, 2>>, nodes |-> <<>>, filter |-> "none",
                meant |-> {101, 102}]>>]}
Alike == Permutations(Kernels) \union Permutations(Threads)

Pages == part = "pages" /\ edits < MaxEdits /\ UNCHANGED <<vpnVars, part>>
Service == part = "service" /\ UNCHANGED <<phoneVars, part>>

MCInit ==
  /\ part \in {"pages", "service"}
  /\ PhoneInit
  /\ VpnInit /\ (part = "pages" => config.edit = 1)

MCNext ==
  \/ Pages /\ AddSubscription
  \/ Pages /\ AddNode
  \/ Pages /\ ToggleSubscription
  \/ Pages /\ ToggleNode
  \/ Pages /\ removeSubscription
  \/ Pages /\ removeNode
  \/ Pages /\ AddGroup
  \/ Pages /\ DeleteGroup
  \/ Pages /\ AddRule
  \/ Pages /\ EditRule
  \/ Pages /\ DeleteRule
  \/ Pages /\ SwitchRule
  \/ Pages /\ moveRule
  \/ Pages /\ importWorkspace
  \/ Service /\ Edit
  \/ Service /\ ApplyWorkspace
  \/ Service /\ ToggleProxy
  \/ Service /\ OnStart
  \/ Service /\ OnReload
  \/ Service /\ OnStop
  \/ Service /\ OnRevoke
  \/ Service /\ ShutdownStops
  \/ Service /\ ShutdownCloses
  \/ \E c \in Callers : Service /\ Render(c)
  \/ \E c \in Callers : Service /\ WriteConfig(c)
  \/ \E c \in Callers : Service /\ Halt(c)
  \/ \E c \in Callers : Service /\ Take(c)
  \/ \E c \in Callers : Service /\ SpawnCore(c)
  \/ \E c \in Callers : Service /\ Store(c)
  \/ \E t \in Threads : Service /\ LearnBegins(t)
  \/ \E t \in Threads : Service /\ Fetched(t)
  \/ \E t \in Threads : Service /\ CopyWorkspace(t)
  \/ \E t \in Threads : Service /\ AssignWorkspace(t)
  \/ \E t \in Threads : Service /\ Look(t)
  \/ Service /\ KernelExits
  \/ Service /\ Relaunch
MCSpec == MCInit /\ [][MCNext]_parts
=============================================================================
