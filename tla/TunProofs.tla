----------------------------- MODULE TunProofs ------------------------------
(*****************************************************************************)
(* What TUN touches as root, and the proxy mode that turns it on. For every  *)
(* set of network services and resolvers: a resolver that is not the user's  *)
(* has a recovery file that names it, whatever command fails and wherever    *)
(* the application ends. For every set of processes: the daemon holds every  *)
(* kernel that runs as root, and a kernel that was reported ready is the     *)
(* only one. And the mode that is shown is the one in effect, and quitting   *)
(* gives everything back.                                                    *)
(*                                                                           *)
(* DnsComesBack alone is not inductive. Deleting the file keeps it only      *)
(* because by then everything is as the user left it (CleanBeforeDelete);    *)
(* restoring does only because the session remembers what the file says      *)
(* (SessionMatchesFile) and the file what the user had (FileIsTheirs); and   *)
(* a command of an installation does because the session that issues it      *)
(* has a file (HolderHasFile).                                               *)
(*                                                                           *)
(* SoleKernel holds because the manager first looks for what others left:    *)
(* an ordinary kernel is found at the socket (LeftoversAreFound), one of     *)
(* root by the daemon (RootIsHeld), and each has ended before the step       *)
(* that rests on it (NothingLeftBehind). For a promotion, which changes      *)
(* the spawner under a running kernel, Promotion says how far it has come.   *)
(*                                                                           *)
(* HonestMode and QuitRestores speak of states at rest and are not           *)
(* inductive. Progress says for each stage of a transition what is in        *)
(* effect by then, ShownIsInEffect which mode that is for who looks,         *)
(* Privileged why a kernel that died under TUN is not replaced on the way,   *)
(* and GivenBack how far quitting has come.                                  *)
(*****************************************************************************)
EXTENDS TunDns, Helper, ProxyMode, TLAPS

(* The resolvers of the TUN session                                        *)
Links == {"absent", "plain", "server", "routed"}
Stages == {"down", "idle", "restore", "delete", "flush", "prepare", "install",
           "domain", "revert"}
Servers == Resolver \union {Ours114}
LinkIsSet == link \in {"server", "routed"}
Clean == (\A s \in Services : resolvers[s] = chosen[s]) /\ ~LinkIsSet

WorldTyped ==
  /\ os \in {"macos", "linux"}
  /\ resolvers \in [Services -> Servers] /\ chosen \in [Services -> Servers]
  /\ link \in Links /\ (os = "macos" => link = "absent")
  /\ tunFile \in FileContents \union {NoRecord}
  /\ os = "macos" /\ tunFile # NoRecord => tunFile.service \in Services
                                          /\ tunFile.servers \in Servers
SessionType == [previous : FileContents \union {NoRecord},
                prepared : BOOLEAN, applied : BOOLEAN]
SessionTyped == tunSession \in SessionType
CallTyped ==
  tunCall \in [at : Stages, why : {"none", "recover", "prepare", "disable", "activate"}]
TunDnsTypeOK == WorldTyped /\ SessionTyped /\ CallTyped

\* The session remembers nothing but what the recovery file says.
SessionMatchesFile == tunSession.previous \in {NoRecord, tunFile}

\* A session that is prepared or applied has a file, and so has a call that
\* restores; a call that installs belongs to a session that counts as applied.
HolderHasFile ==
  /\ HoldsDns \/ tunCall.at = "restore" => tunSession.previous # NoRecord
  /\ tunCall.at \in {"install", "domain"} => tunSession.applied

\* On Linux the services' resolvers are never touched.
LinuxLeavesServices == os = "linux" => resolvers = chosen

\* The file of macOS has the resolvers that the user chose.
FileIsTheirs ==
  tunGone = {} /\ os = "macos" /\ tunFile # NoRecord
    => tunFile.servers = chosen[tunFile.service]

\* Where the file is about to be deleted, or nothing was installed yet, the
\* resolvers are the user's.
CleanBeforeDelete ==
  tunGone = {} /\ \/ tunCall.at = "delete"
                  \/ tunCall.at = "flush" /\ tunCall.why # "activate"
                  \/ tunSession.prepared /\ ~tunSession.applied
    => Clean

TunDnsInv ==
  /\ TunDnsTypeOK /\ SessionMatchesFile /\ HolderHasFile /\ LinuxLeavesServices
  /\ FileIsTheirs /\ CleanBeforeDelete /\ DnsComesBack

-----------------------------------------------------------------------------
(* The three facts about the invariant                                     *)

LEMMA TunDnsInitInv == TunDnsInit => TunDnsInv
<1> SUFFICES ASSUME TunDnsInit PROVE TunDnsInv
  OBVIOUS
<1>1. TunDnsTypeOK
  BY DEF TunDnsInit, TunDnsTypeOK, WorldTyped, SessionTyped, SessionType, CallTyped,
    Links, Stages, Servers, Unprepared
<1>2. SessionMatchesFile /\ HolderHasFile /\ LinuxLeavesServices
  BY DEF TunDnsInit, SessionMatchesFile, HolderHasFile, HoldsDns, LinuxLeavesServices,
    Unprepared
<1>3. FileIsTheirs /\ CleanBeforeDelete /\ DnsComesBack
  BY DEF TunDnsInit, FileIsTheirs, CleanBeforeDelete, Clean, LinkIsSet, DnsComesBack
<1> QED
  BY <1>1, <1>2, <1>3 DEF TunDnsInv

LEMMA TunDnsNextInv == TunDnsInv /\ [TunDnsNext]_tunDnsVars => TunDnsInv'
<1> SUFFICES ASSUME TunDnsInv, [TunDnsNext]_tunDnsVars PROVE TunDnsInv'
  OBVIOUS
<1> USE DEF TunDnsInv, TunDnsTypeOK, Outside, Turns, TurnsIdle
<1>1. CASE RecoverStale
  <2>1. WorldTyped'
    BY <1>1 DEF RecoverStale, WorldTyped
  <2>2. SessionTyped' /\ CallTyped'
    <3>1. CallTyped'
      BY <1>1 DEF RecoverStale, CallTyped, Stages
    <3>2. Unprepared \in SessionType
      BY DEF Unprepared, SessionType
    <3>3. tunFile \in FileContents \union {NoRecord}
      BY DEF WorldTyped
    <3>4. [Unprepared EXCEPT !.previous = tunFile] \in SessionType
      BY <3>2, <3>3 DEF SessionType
    <3> QED
      BY <1>1, <3>1, <3>4 DEF RecoverStale, SessionTyped
  <2>3. SessionMatchesFile' /\ HolderHasFile' /\ LinuxLeavesServices'
    BY <1>1 DEF RecoverStale, SessionMatchesFile, HolderHasFile, HoldsDns,
      LinuxLeavesServices, Unprepared
  <2>4. FileIsTheirs' /\ CleanBeforeDelete' /\ DnsComesBack'
    BY <1>1 DEF RecoverStale, FileIsTheirs, CleanBeforeDelete, Clean, LinkIsSet,
      DnsComesBack, Unprepared
  <2> QED BY <2>1, <2>2, <2>3, <2>4 DEF TunDnsTypeOK
<1>2. CASE RestoreDns
  <2>1. WorldTyped'
    BY <1>2 DEF RestoreDns, WorldTyped, Links, SessionMatchesFile, HolderHasFile
  <2>2. SessionTyped' /\ CallTyped'
    BY <1>2 DEF RestoreDns, SessionTyped, CallTyped, Stages
  <2>3. SessionMatchesFile' /\ HolderHasFile' /\ LinuxLeavesServices'
    BY <1>2 DEF RestoreDns, SessionMatchesFile, HolderHasFile, LinuxLeavesServices
  <2>4. FileIsTheirs' /\ CleanBeforeDelete' /\ DnsComesBack'
    BY <1>2 DEF RestoreDns, WorldTyped, SessionMatchesFile, HolderHasFile,
      LinuxLeavesServices, FileIsTheirs, CleanBeforeDelete, Clean, LinkIsSet,
      DnsComesBack, Record
  <2> QED BY <2>1, <2>2, <2>3, <2>4 DEF TunDnsTypeOK
<1>3. CASE FlushCaches
  <2>1. WorldTyped'
    BY <1>3 DEF FlushCaches, WorldTyped
  <2>2. SessionTyped' /\ CallTyped'
    BY <1>3 DEF FlushCaches, SessionTyped, CallTyped, Stages
  <2>3. SessionMatchesFile' /\ HolderHasFile' /\ LinuxLeavesServices'
    BY <1>3 DEF FlushCaches, SessionMatchesFile, HolderHasFile, HoldsDns,
      LinuxLeavesServices
  <2>4. FileIsTheirs' /\ CleanBeforeDelete' /\ DnsComesBack'
    BY <1>3 DEF FlushCaches, FileIsTheirs, CleanBeforeDelete, Clean, LinkIsSet,
      DnsComesBack
  <2> QED BY <2>1, <2>2, <2>3, <2>4 DEF TunDnsTypeOK
<1>4. CASE DeleteRecord
  <2>1. WorldTyped'
    BY <1>4 DEF DeleteRecord, WorldTyped
  <2>2. SessionTyped' /\ CallTyped'
    <3>1. CallTyped'
      BY <1>4 DEF DeleteRecord, CallTyped, Stages
    <3>2. Unprepared \in SessionType
      BY DEF Unprepared, SessionType
    <3>3. tunSession' \in {tunSession, Unprepared}
      BY <1>4 DEF DeleteRecord
    <3> QED BY <3>1, <3>2, <3>3 DEF SessionTyped
  <2>3. SessionMatchesFile' /\ HolderHasFile' /\ LinuxLeavesServices'
    BY <1>4 DEF DeleteRecord, SessionMatchesFile, HolderHasFile, HoldsDns,
      LinuxLeavesServices, Unprepared
  <2>4. FileIsTheirs' /\ CleanBeforeDelete' /\ DnsComesBack'
    BY <1>4 DEF DeleteRecord, FileIsTheirs, CleanBeforeDelete, Clean, LinkIsSet,
      DnsComesBack
  <2> QED BY <2>1, <2>2, <2>3, <2>4 DEF TunDnsTypeOK
<1>5. CASE PrepareTunDns
  <2>1. WorldTyped'
    BY <1>5 DEF PrepareTunDns, WorldTyped
  <2>2. SessionTyped' /\ CallTyped'
    BY <1>5 DEF PrepareTunDns, SessionTyped, CallTyped, Stages, AbandonTun
  <2>3. SessionMatchesFile' /\ HolderHasFile' /\ LinuxLeavesServices'
    BY <1>5 DEF PrepareTunDns, SessionMatchesFile, HolderHasFile, HoldsDns,
      LinuxLeavesServices, AbandonTun
  <2>4. FileIsTheirs' /\ CleanBeforeDelete' /\ DnsComesBack'
    BY <1>5 DEF PrepareTunDns, HoldsDns, FileIsTheirs, CleanBeforeDelete, Clean,
      LinkIsSet, DnsComesBack, AbandonTun
  <2> QED BY <2>1, <2>2, <2>3, <2>4 DEF TunDnsTypeOK
<1>6. CASE WriteRecord
  <2>1. WorldTyped'
    BY <1>6 DEF WriteRecord, WorldTyped, Record, FileContents, Servers
  <2>2. SessionTyped' /\ CallTyped'
    <3>1. CallTyped'
      BY <1>6 DEF WriteRecord, CallTyped, Stages
    <3>2. tunFile' \in FileContents \union {NoRecord}
      BY <2>1 DEF WorldTyped
    <3>3. \/ tunSession' = tunSession
          \/ tunSession' = [previous |-> tunFile', prepared |-> TRUE, applied |-> FALSE]
      BY <1>6 DEF WriteRecord
    <3>4. [previous |-> tunFile', prepared |-> TRUE, applied |-> FALSE] \in SessionType
      BY <3>2 DEF SessionType
    <3> QED BY <3>1, <3>3, <3>4 DEF SessionTyped
  <2>3. SessionMatchesFile' /\ HolderHasFile' /\ LinuxLeavesServices'
    BY <1>6, NoRecordAssumption DEF WriteRecord, SessionMatchesFile, HolderHasFile,
      HoldsDns, LinuxLeavesServices, Record, FileContents, Servers, WorldTyped
  <2>4. FileIsTheirs' /\ CleanBeforeDelete' /\ DnsComesBack'
    BY <1>6, NoRecordAssumption DEF WriteRecord, WorldTyped, FileIsTheirs,
      CleanBeforeDelete, Clean, LinkIsSet, DnsComesBack, Record, FileContents, Servers
  <2> QED BY <2>1, <2>2, <2>3, <2>4 DEF TunDnsTypeOK
<1>7. CASE ActivateTunDns
  <2>1. WorldTyped'
    BY <1>7 DEF ActivateTunDns, WorldTyped
  <2>2. SessionTyped' /\ CallTyped'
    <3>1. CallTyped'
      BY <1>7 DEF ActivateTunDns, CallTyped, Stages
    <3>2. SessionTyped'
      BY <1>7 DEF ActivateTunDns, SessionTyped, SessionType
    <3> QED BY <3>1, <3>2
  <2>3. SessionMatchesFile' /\ HolderHasFile' /\ LinuxLeavesServices'
    BY <1>7 DEF ActivateTunDns, SessionMatchesFile, HolderHasFile, HoldsDns,
      LinuxLeavesServices
  <2>4. FileIsTheirs' /\ CleanBeforeDelete' /\ DnsComesBack'
    BY <1>7 DEF ActivateTunDns, FileIsTheirs, CleanBeforeDelete, DnsComesBack
  <2> QED BY <2>1, <2>2, <2>3, <2>4 DEF TunDnsTypeOK
<1>8. CASE InstallServer
  <2>1. WorldTyped'
    BY <1>8 DEF InstallServer, WorldTyped, Links, Servers
  <2>2. SessionTyped' /\ CallTyped'
    BY <1>8 DEF InstallServer, SessionTyped, CallTyped, Stages
  <2>3. SessionMatchesFile' /\ HolderHasFile' /\ LinuxLeavesServices'
    BY <1>8 DEF InstallServer, SessionMatchesFile, HolderHasFile, HoldsDns,
      LinuxLeavesServices
  <2>4. FileIsTheirs' /\ CleanBeforeDelete' /\ DnsComesBack'
    BY <1>8 DEF InstallServer, WorldTyped, SessionMatchesFile, HolderHasFile, HoldsDns,
      FileIsTheirs, CleanBeforeDelete, DnsComesBack, Record, FileContents
  <2> QED BY <2>1, <2>2, <2>3, <2>4 DEF TunDnsTypeOK
<1>9. CASE RouteDomain
  <2>1. WorldTyped'
    BY <1>9 DEF RouteDomain, WorldTyped, Links
  <2>2. SessionTyped' /\ CallTyped'
    BY <1>9 DEF RouteDomain, SessionTyped, CallTyped, Stages
  <2>3. SessionMatchesFile' /\ HolderHasFile' /\ LinuxLeavesServices'
    BY <1>9 DEF RouteDomain, SessionMatchesFile, HolderHasFile, HoldsDns,
      LinuxLeavesServices
  <2>4. FileIsTheirs' /\ CleanBeforeDelete' /\ DnsComesBack'
    BY <1>9 DEF RouteDomain, SessionMatchesFile, HolderHasFile, HoldsDns, FileIsTheirs,
      CleanBeforeDelete, DnsComesBack
  <2> QED BY <2>1, <2>2, <2>3, <2>4 DEF TunDnsTypeOK
<1>10. CASE Revert
  <2>1. WorldTyped'
    BY <1>10 DEF Revert, WorldTyped, Links
  <2>2. SessionTyped' /\ CallTyped'
    BY <1>10 DEF Revert, SessionTyped, CallTyped, Stages
  <2>3. SessionMatchesFile' /\ HolderHasFile' /\ LinuxLeavesServices'
    BY <1>10 DEF Revert, SessionMatchesFile, HolderHasFile, HoldsDns,
      LinuxLeavesServices
  <2>4. FileIsTheirs' /\ CleanBeforeDelete' /\ DnsComesBack'
    BY <1>10 DEF Revert, FileIsTheirs, CleanBeforeDelete, Clean, LinkIsSet,
      DnsComesBack
  <2> QED BY <2>1, <2>2, <2>3, <2>4 DEF TunDnsTypeOK
<1>11. CASE DisableTunDns
  <2>1. WorldTyped'
    BY <1>11 DEF DisableTunDns, WorldTyped
  <2>2. SessionTyped' /\ CallTyped'
    BY <1>11 DEF DisableTunDns, SessionTyped, CallTyped, Stages, AbandonTun
  <2>3. SessionMatchesFile' /\ HolderHasFile' /\ LinuxLeavesServices'
    BY <1>11 DEF DisableTunDns, SessionMatchesFile, HolderHasFile, LinuxLeavesServices,
      AbandonTun
  <2>4. FileIsTheirs' /\ CleanBeforeDelete' /\ DnsComesBack'
    BY <1>11 DEF DisableTunDns, HoldsDns, FileIsTheirs, CleanBeforeDelete, Clean,
      LinkIsSet, DnsComesBack, AbandonTun
  <2> QED BY <2>1, <2>2, <2>3, <2>4 DEF TunDnsTypeOK
<1>12. CASE Rebind
  <2>1. WorldTyped'
    BY <1>12 DEF Rebind, WorldTyped, Links
  <2>2. SessionTyped' /\ CallTyped'
    BY <1>12 DEF Rebind, SessionTyped, CallTyped
  <2>3. SessionMatchesFile' /\ HolderHasFile' /\ LinuxLeavesServices'
    BY <1>12 DEF Rebind, SessionMatchesFile, HolderHasFile, HoldsDns,
      LinuxLeavesServices
  <2>4. FileIsTheirs' /\ CleanBeforeDelete' /\ DnsComesBack'
    BY <1>12 DEF Rebind, SessionMatchesFile, HolderHasFile, HoldsDns, FileIsTheirs,
      CleanBeforeDelete, DnsComesBack
  <2> QED BY <2>1, <2>2, <2>3, <2>4 DEF TunDnsTypeOK
<1>13. CASE LinkAppears
  <2>1. WorldTyped'
    BY <1>13 DEF LinkAppears, WorldTyped, Links
  <2>2. SessionTyped' /\ CallTyped'
    BY <1>13 DEF LinkAppears, SessionTyped, CallTyped
  <2>3. SessionMatchesFile' /\ HolderHasFile' /\ LinuxLeavesServices'
    BY <1>13 DEF LinkAppears, SessionMatchesFile, HolderHasFile, HoldsDns,
      LinuxLeavesServices
  <2>4. FileIsTheirs' /\ CleanBeforeDelete' /\ DnsComesBack'
    BY <1>13 DEF LinkAppears, FileIsTheirs, CleanBeforeDelete, Clean, LinkIsSet,
      DnsComesBack
  <2> QED BY <2>1, <2>2, <2>3, <2>4 DEF TunDnsTypeOK
<1>14. CASE LinkDisappears
  <2>1. WorldTyped'
    BY <1>14 DEF LinkDisappears, WorldTyped, Links
  <2>2. SessionTyped' /\ CallTyped'
    BY <1>14 DEF LinkDisappears, SessionTyped, CallTyped
  <2>3. SessionMatchesFile' /\ HolderHasFile' /\ LinuxLeavesServices'
    BY <1>14 DEF LinkDisappears, SessionMatchesFile, HolderHasFile, HoldsDns,
      LinuxLeavesServices
  <2>4. FileIsTheirs' /\ CleanBeforeDelete' /\ DnsComesBack'
    BY <1>14 DEF LinkDisappears, FileIsTheirs, CleanBeforeDelete, Clean, LinkIsSet,
      DnsComesBack
  <2> QED BY <2>1, <2>2, <2>3, <2>4 DEF TunDnsTypeOK
<1>15. CASE UserSetsDns
  <2>1. WorldTyped'
    BY <1>15 DEF UserSetsDns, WorldTyped, Servers
  <2>2. SessionTyped' /\ CallTyped'
    BY <1>15 DEF UserSetsDns, SessionTyped, CallTyped
  <2>3. SessionMatchesFile' /\ HolderHasFile' /\ LinuxLeavesServices'
    BY <1>15 DEF UserSetsDns, SessionMatchesFile, HolderHasFile, HoldsDns,
      LinuxLeavesServices
  <2>4. FileIsTheirs' /\ CleanBeforeDelete' /\ DnsComesBack'
    BY <1>15 DEF UserSetsDns, WorldTyped, FileIsTheirs, CleanBeforeDelete, Clean,
      LinkIsSet, DnsComesBack
  <2> QED BY <2>1, <2>2, <2>3, <2>4 DEF TunDnsTypeOK
<1>16. CASE ManisEnds
  <2>1. WorldTyped'
    BY <1>16 DEF ManisEnds, WorldTyped
  <2>2. SessionTyped' /\ CallTyped'
    BY <1>16 DEF ManisEnds, SessionTyped, SessionType, CallTyped, Stages, Unprepared
  <2>3. SessionMatchesFile' /\ HolderHasFile' /\ LinuxLeavesServices'
    BY <1>16 DEF ManisEnds, SessionMatchesFile, HolderHasFile, HoldsDns,
      LinuxLeavesServices, Unprepared
  <2>4. FileIsTheirs' /\ CleanBeforeDelete' /\ DnsComesBack'
    BY <1>16 DEF ManisEnds, FileIsTheirs, CleanBeforeDelete, DnsComesBack, Unprepared
  <2> QED BY <2>1, <2>2, <2>3, <2>4 DEF TunDnsTypeOK
<1>17. CASE UNCHANGED tunDnsVars
  BY <1>17 DEF tunDnsVars, WorldTyped, SessionTyped, CallTyped, SessionMatchesFile,
    HolderHasFile, HoldsDns, LinuxLeavesServices, FileIsTheirs, CleanBeforeDelete,
    Clean, LinkIsSet, DnsComesBack
<1> QED
  BY <1>1, <1>2, <1>3, <1>4, <1>5, <1>6, <1>7, <1>8, <1>9, <1>10, <1>11, <1>12, <1>13,
    <1>14, <1>15, <1>16, <1>17 DEF TunDnsNext

-----------------------------------------------------------------------------
(* The theorems                                                            *)

\* The session keeps its types, for every set of services and resolvers.
THEOREM TunDnsTypes == TunDnsSpec => []TunDnsTypeOK
<1>1. TunDnsInv => TunDnsTypeOK
  BY DEF TunDnsInv
<1> QED
  BY TunDnsInitInv, TunDnsNextInv, <1>1, PTL DEF TunDnsSpec

\* Whatever command fails and wherever the application ends, a resolver that is
\* not the user's can be given back from the recovery file (TunDnsSession).
THEOREM ResolversComeBack == TunDnsSpec => []DnsComesBack
<1>1. TunDnsInv => DnsComesBack
  BY DEF TunDnsInv
<1> QED
  BY TunDnsInitInv, TunDnsNextInv, <1>1, PTL DEF TunDnsSpec

-----------------------------------------------------------------------------
(* The privileged helper and its spawners                                  *)
Owner == Pids \union {None}
ProcessesTyped ==
  /\ alive \in [Pids -> {"none", "ordinary", "root"}]
  /\ bound \subseteq Pids /\ socket \in Owner
DaemonTyped ==
  /\ helper \in {"absent", "outdated", "current"} /\ child \in Owner
  /\ late \in [start : BOOLEAN, stops : SUBSET Pids]
ManagerType == [kind : {"ordinary", "root"}, child : Owner, ready : BOOLEAN]
TaskType ==
  [of : {"none", "connect", "restart", "promote", "fallback"},
   at : {"free", "recover", "reclaim", "adopt", "start", "probe", "snapshot", "stop",
         "demote"},
   running : BOOLEAN]
CallersTyped ==
  /\ manager \in ManagerType /\ privileged \in BOOLEAN /\ task \in TaskType
  /\ tun \in {"idle", "prepare", "prepared", "promoting", "put"}
  /\ task.at = "free" => task = Free
HelperTypeOK == ProcessesTyped /\ DaemonTyped /\ CallersTyped

\* The daemon's child and the manager's are what they were started as.
ChildrenAsStarted ==
  /\ child \in Alive => alive[child] = "root"
  /\ manager.child \in Alive => alive[manager.child] = manager.kind

RootAlive == {p \in Alive : alive[p] = "root"}
OnlyOurs == Alive \subseteq {manager.child}
Regular == marks \subseteq {"raced"}

\* A start that was given up is marked; every other ordinary kernel than the
\* manager's has bound the socket, at which it can be found.
LeftoversAreFound ==
  Regular => /\ ~late.start
             /\ \A p \in Alive : p = manager.child \/ alive[p] = "root" \/ p \in bound

\* Who promotes, and how far the user's request for TUN is.
Promotion ==
  /\ manager.kind = "root" =>
       privileged \/ (task.of = "promote" /\ task.at \in {"start", "probe", "demote"})
  /\ task.of = "promote" /\ task.at # "demote" => tun = "promoting"
  /\ task.at \in {"stop", "demote"} => task.of = "promote"
  /\ task.of = "promote" /\ task.at \in {"start", "probe", "demote"} => manager.kind = "root"
  /\ task.at = "recover" => task.of = "connect"
  /\ task.at \in {"reclaim", "adopt"} => task.of \in {"connect", "promote"}
  /\ task.at = "stop" => manager.ready
  /\ task.at \in {"probe", "stop"} => manager.child # None
\* Before the manager starts a kernel, and as long as it counts on its own, no
\* other one is left; before that, the daemon has none when the ordinary ones are
\* reclaimed.
NothingLeftBehind ==
  Regular =>
    /\ manager.ready \/ manager.kind = "root" \/ privileged => OnlyOurs
    /\ task.at \in {"adopt", "start", "probe", "snapshot"} => OnlyOurs
    /\ task.at = "reclaim" \/ tun = "prepared" => RootAlive = {} \/ OnlyOurs

HelperInv ==
  /\ HelperTypeOK /\ ChildrenAsStarted /\ RootIsHeld
  /\ LeftoversAreFound /\ Promotion /\ NothingLeftBehind
-----------------------------------------------------------------------------
(* Steps that only end processes                                           *)

\* Processes may end or bind the socket; the daemon forgets none that runs.
Shrinks ==
  /\ ProcessesTyped' /\ Alive' \subseteq Alive
  /\ \A p \in Alive' : alive'[p] = alive[p] /\ (p \in bound => p \in bound')
StopsOnly ==
  /\ Shrinks /\ DaemonTyped' /\ (late'.start => late.start)
  /\ child' = child \/ (child' = None /\ child \notin Alive')

\* The manager keeps its child, or gives up one that has ended unless marked.
FollowsChild ==
  /\ marks \subseteq marks'
  /\ \/ manager'.child = None
     \/ manager'.child = manager.child /\ manager'.kind = manager.kind
  /\ Regular' /\ manager.child \in Alive' => manager'.child = manager.child

\* Fewer processes run, and the caller follows its child: what is known stays.
LEMMA EndingKeeps ==
  ASSUME HelperInv, StopsOnly, FollowsChild
  PROVE  /\ ProcessesTyped' /\ DaemonTyped' /\ ChildrenAsStarted' /\ RootIsHeld'
         /\ LeftoversAreFound'
         /\ Regular' => Regular /\ (OnlyOurs => OnlyOurs') /\ (RootAlive = {}
             => RootAlive' = {})
<1> USE DEF HelperInv, StopsOnly, Shrinks
<1>1. ProcessesTyped' /\ DaemonTyped'
  OBVIOUS
<1>2. None \notin Alive' /\ Alive' \subseteq Pids
  BY NoProcessAssumption DEF Alive
<1>3. ChildrenAsStarted'
  BY <1>2 DEF ChildrenAsStarted, FollowsChild
<1>4. RootAlive' \subseteq RootAlive
  BY DEF RootAlive
<1>5. RootIsHeld'
  BY DEF RootIsHeld, RootAlive, FollowsChild
<1>6. Regular' => Regular
  BY DEF Regular, FollowsChild
<1>7. LeftoversAreFound'
  BY <1>6 DEF LeftoversAreFound, FollowsChild
<1>8. Regular' /\ OnlyOurs => OnlyOurs'
  BY DEF OnlyOurs, FollowsChild
<1> QED
  BY <1>1, <1>3, <1>4, <1>5, <1>6, <1>7, <1>8

\* A set of processes ends.
LEMMA EndsShrink ==
  ASSUME ProcessesTyped, NEW gone, KernelEnds(gone)
  PROVE  Shrinks /\ Alive' = Alive \ gone
<1>1. ProcessesTyped'
  BY DEF KernelEnds, ProcessesTyped, Owner
<1>2. Alive' = Alive \ gone
  BY DEF KernelEnds, Alive
<1> QED
  BY <1>1 DEF KernelEnds, Shrinks, Alive, ProcessesTyped

\* No process ends or begins.
LEMMA NothingEnds ==
  ASSUME ProcessesTyped, UNCHANGED system
  PROVE  Shrinks /\ Alive' = Alive
BY DEF system, ProcessesTyped, Shrinks, Alive

\* A request to stop that succeeds leaves no child of the daemon running.
LEMMA StopRequest ==
  ASSUME HelperTypeOK, NEW p \in Pids, NEW ok \in BOOLEAN, RequestStop(p, ok)
  PROVE  StopsOnly /\ (ok => child \notin Alive')
<1> USE DEF HelperTypeOK
<1>1. CASE ok
  <2>1. KernelEnds(Stops(p)) /\ child' = None /\ UNCHANGED <<helper, late>> /\ MayStop(p)
    BY <1>1 DEF RequestStop
  <2>2. Shrinks /\ Alive' = Alive \ Stops(p)
    BY <2>1, EndsShrink
  <2>3. child \notin Alive'
    BY <2>1, <2>2 DEF MayStop, ChildRuns, Stops
  <2> QED
    BY <2>1, <2>2, <2>3 DEF StopsOnly, DaemonTyped, Owner
<1>2. CASE ~ok
  <2>1. UNCHANGED system /\ child' = child /\ helper' = helper
    BY <1>2 DEF RequestStop, daemon
  <2>2. DaemonTyped' /\ (late'.start => late.start)
    BY <1>2 DEF RequestStop, daemon, DaemonTyped
  <2> QED
    BY <1>2, <2>1, <2>2, NothingEnds DEF StopsOnly
<1> QED BY <1>1, <1>2

\* A child that was terminated has ended.
LEMMA Termination ==
  ASSUME HelperInv, manager.child # None, NEW ok \in BOOLEAN, Terminate(ok)
  PROVE  StopsOnly /\ (ok /\ Regular => manager.child \notin Alive')
<1> USE DEF HelperInv, HelperTypeOK
<1>1. manager.child \in Pids
  BY DEF CallersTyped, ManagerType, Owner
<1>2. CASE manager.kind = "ordinary" /\ UNCHANGED daemon
  <2>1. Shrinks /\ (ok => manager.child \notin Alive')
    BY <1>2, EndsShrink, NothingEnds DEF Terminate
  <2> QED
    BY <1>2, <2>1 DEF daemon, StopsOnly, DaemonTyped
<1>3. CASE manager.kind = "root" /\ RequestStop(manager.child, ok)
  <2>1. StopsOnly /\ (ok => child \notin Alive')
    BY <1>1, <1>3, StopRequest
  <2>2. ok /\ Regular => manager.child \notin Alive'
    BY <1>3, <2>1 DEF StopsOnly, Shrinks, ChildrenAsStarted, RootIsHeld, Regular
  <2> QED BY <2>1, <2>2
<1> QED BY <1>2, <1>3 DEF Terminate

\* What an answer about the child leaves of the manager.
LEMMA Polling ==
  ASSUME HelperInv, NEW answer, Poll(answer)
  PROVE  /\ manager' \in ManagerType /\ manager'.kind = manager.kind
         /\ manager'.ready => manager.ready
         /\ \/ manager' = manager
            \/ manager'.child = None /\ (Regular => manager.child \notin Alive)
         /\ answer = "running" => manager' = manager /\ manager.ready
<1> USE DEF HelperInv, HelperTypeOK
<1>1. CASE UNCHANGED manager
  BY <1>1 DEF Poll, CallersTyped
<1>2. CASE manager.child # None /\ ChildExited /\ answer = "error"
           /\ manager' = [manager EXCEPT !.child = None, !.ready = FALSE]
  <2>1. Regular => manager.child \notin Alive
    BY <1>2 DEF ChildExited, ChildRuns, ChildrenAsStarted, RootIsHeld, Regular,
      CallersTyped, ManagerType
  <2> QED
    BY <1>2, <2>1 DEF CallersTyped, ManagerType, Owner
<1> QED BY <1>1, <1>2 DEF Poll

\* Nothing ends when neither the processes nor the daemon are touched.
LEMMA Untouched == ASSUME HelperTypeOK, UNCHANGED <<system, daemon>> PROVE StopsOnly
BY NothingEnds DEF HelperTypeOK, daemon, StopsOnly, DaemonTyped

\* Where a caller goes on, and where it is done.
LEMMA CallerGoesOn ==
  ASSUME task \in TaskType,
         NEW at \in {"recover", "reclaim", "adopt", "start", "probe", "snapshot", "stop", "demote"}
  PROVE  /\ At(at) \in TaskType /\ At(at).at = at /\ At(at).of = task.of
         /\ At(at).running = task.running
BY DEF At, TaskType

\* The free task has the fields of one that is done.
LEMMA FreeIsFree ==
  Free \in TaskType /\ Free.at = "free" /\ Free.of = "none" /\ Free.running = FALSE
BY DEF Free, TaskType

\* terminate and what Stop, ReadSnapshot and ensure_privileged_mihomo make of it.
LEMMA StoppedChild ==
  ASSUME HelperInv, manager.child # None, NEW ok \in BOOLEAN, Terminate(ok), marks' = marks,
         manager' = [manager EXCEPT !.ready = FALSE, !.child = IF ok THEN None ELSE @]
  PROVE  /\ StopsOnly /\ FollowsChild /\ manager' \in ManagerType
         /\ ~manager'.ready /\ manager'.kind = manager.kind
<1>1. manager' \in ManagerType /\ ~manager'.ready /\ manager'.kind = manager.kind
      /\ manager'.child = IF ok THEN None ELSE manager.child
  BY DEF HelperInv, HelperTypeOK, CallersTyped, ManagerType, Owner
<1>2. StopsOnly /\ (ok /\ Regular => manager.child \notin Alive')
  BY Termination
<1> QED
  BY <1>1, <1>2 DEF FollowsChild, Regular

\* A manager that polls its child.
LEMMA PolledChild ==
  ASSUME HelperInv, NEW answer, Poll(answer), StopsOnly, marks \subseteq marks'
  PROVE  FollowsChild
<1>1. \/ manager' = manager
      \/ manager'.child = None /\ (Regular => manager.child \notin Alive)
  BY Polling
<1>2. Alive' \subseteq Alive /\ (Regular' => Regular)
  BY DEF StopsOnly, Shrinks, Regular
<1> QED
  BY <1>1, <1>2 DEF FollowsChild

\* Processes and the daemon by themselves.
LEMMA CallersIdle ==
  ASSUME HelperInv, StopsOnly, marks \subseteq marks', UNCHANGED <<manager, privileged, task,
         tun>>
  PROVE  HelperInv'
<1>1. FollowsChild
  BY DEF FollowsChild
<1>2. CallersTyped' /\ Promotion'
  BY DEF HelperInv, HelperTypeOK, CallersTyped, Promotion
<1> QED
  BY <1>1, <1>2, EndingKeeps DEF HelperInv, HelperTypeOK, NothingLeftBehind

\* start on the daemon: its child runs already, or one begins beside no other.
LEMMA Starting ==
  ASSUME HelperInv, NEW p \in Pids, Starts(p), marks \subseteq marks',
         manager' = manager \/ (manager'.child = p /\ manager'.kind = "root")
  PROVE  /\ ProcessesTyped' /\ child' \in Owner /\ ChildrenAsStarted' /\ RootIsHeld'
         /\ Alive' = Alive \union {p} /\ alive'[p] = "root"
         /\ bound' = bound /\ \A q \in Alive : alive'[q] = alive[q]
<1> USE DEF HelperInv, HelperTypeOK
<1>1. CASE ChildRuns
  <2>1. p = child /\ child \in Alive /\ UNCHANGED <<alive, bound, socket, child>>
    BY <1>1 DEF ChildRuns, Starts, system
  <2> QED
    BY <2>1 DEF ProcessesTyped, DaemonTyped, ChildrenAsStarted, RootIsHeld, Alive
<1>2. CASE ~ChildRuns
  <2>1. p \in Unused /\ Begins(p, "root") /\ child' = p
    BY <1>2 DEF Starts
  <2>2. p \notin Alive /\ p # manager.child /\ Alive' = Alive \union {p} /\ alive'[p] = "root"
        /\ \A q \in Alive : alive'[q] = alive[q]
    BY <2>1 DEF Unused, Begins, ProcessesTyped, Alive
  <2>3. ProcessesTyped' /\ child' \in Owner /\ bound' = bound
    BY <2>1 DEF Begins, ProcessesTyped, Owner
  <2>4. ChildrenAsStarted'
    BY <2>1, <2>2 DEF ChildrenAsStarted
  <2>5. RootIsHeld'
    BY <1>2, <2>1, <2>2 DEF RootIsHeld, ChildRuns
  <2> QED
    BY <2>2, <2>3, <2>4, <2>5
<1> QED BY <1>1, <1>2

\* spawn in the application: an ordinary child begins.
LEMMA Beginning ==
  ASSUME HelperInv, NEW p \in Unused, Begins(p, "ordinary"), UNCHANGED <<child, marks>>,
         manager'.child = p, manager'.kind = "ordinary"
  PROVE  /\ ProcessesTyped' /\ child' \in Owner /\ ChildrenAsStarted' /\ RootIsHeld'
         /\ Alive' = Alive \union {p}
<1> USE DEF HelperInv, HelperTypeOK
<1>1. p \in Pids \ Alive /\ p # child /\ alive' = [alive EXCEPT ![p] = "ordinary"]
  BY DEF Unused, Begins
<1>2. ProcessesTyped' /\ child' \in Owner
  BY DEF Begins, ProcessesTyped, DaemonTyped
<1>3. Alive' = Alive \union {p} /\ alive'[p] = "ordinary"
      /\ \A q \in Alive : alive'[q] = alive[q]
  BY <1>1 DEF ProcessesTyped, Alive
<1> QED
  BY <1>1, <1>2, <1>3 DEF ChildrenAsStarted, RootIsHeld

\* launchd ends the daemon: what it forgets has ended or is marked.
LEMMA Forgetting ==
  ASSUME HelperInv, NEW becomes \in {"absent", "current"}, DaemonForgets(becomes),
         UNCHANGED <<manager, privileged, task>>,
         tun' = tun \/ (tun = "prepare" /\ tun' \in {"prepare", "idle"})
  PROVE  HelperInv'
<1> USE DEF HelperInv, HelperTypeOK
<1>1. DaemonTyped' /\ ~late'.start /\ child' = None
  BY DEF DaemonForgets, DaemonTyped, Owner
<1>2. CallersTyped' /\ Promotion'
  BY DEF CallersTyped, Promotion
<1>3. CASE KernelEnds({child} \intersect Pids) /\ UNCHANGED marks
  <2>1. StopsOnly
    BY <1>1, <1>3, EndsShrink DEF StopsOnly, Alive
  <2>2. FollowsChild
    BY <1>3 DEF FollowsChild
  <2> QED
    BY <1>2, <2>1, <2>2, EndingKeeps DEF NothingLeftBehind
<1>4. CASE UNCHANGED system /\ marks' = marks \union {"forgotten"}
  <2>1. "forgotten" \in marks' /\ ~Regular'
    BY <1>4 DEF Regular
  <2>2. ProcessesTyped' /\ ChildrenAsStarted'
    BY <1>1, <1>4, NoProcessAssumption DEF system, ProcessesTyped, Owner,
      ChildrenAsStarted, Alive
  <2> QED
    BY <1>1, <1>2, <2>1, <2>2 DEF RootIsHeld, LeftoversAreFound, NothingLeftBehind
<1> QED BY <1>3, <1>4 DEF DaemonForgets

\* The spawner replaced, and the old child ended unless marked.
LEMMA Replacing ==
  ASSUME HelperInv, NEW new \in ManagerType, new.child = None, Replace(new)
  PROVE  StopsOnly /\ FollowsChild
<1> USE DEF HelperInv, HelperTypeOK
<1>1. manager'.child = None
  BY DEF Replace
<1>2. CASE manager.child = None
  BY <1>1, <1>2, Untouched DEF Replace, FollowsChild, Alive
<1>3. CASE manager.child # None
  <2>1. PICK ok \in BOOLEAN :
          /\ Terminate(ok)
          /\ marks' = marks \cup (IF manager.child \in {p \in Pids : alive'[p] # "none"}
                                  THEN {"kept"} ELSE {})
    BY <1>3 DEF Replace
  <2>2. StopsOnly
    BY <1>3, <2>1, Termination
  <2>3. Regular' => manager.child \notin Alive'
    BY <2>1 DEF Regular, Alive
  <2> QED
    BY <1>1, <2>1, <2>2, <2>3 DEF FollowsChild
<1> QED BY <1>2, <1>3

\* A start that failed: promote has its fallback, the others are done.
LEMMA FailedStart ==
  ASSUME HelperInv, task.at \in {"start", "probe"}, Failed, manager' \in ManagerType,
         manager'.kind = manager.kind, manager'.ready => manager.ready,
         privileged' = privileged
  PROVE  /\ CallersTyped' /\ Promotion'
         /\ task'.at \in {"free", "demote"} /\ tun' \in {tun, "idle"}
<1> USE DEF HelperInv, HelperTypeOK
<1>1. \/ task' = Free /\ task.of # "promote"
      \/ task' = At("demote") /\ task.of = "promote" /\ tun' = "idle"
  BY DEF Failed
<1>2. tun' \in {tun, "idle"}
  BY DEF Failed
<1>3. task \in TaskType
  BY DEF CallersTyped
<1>4. CASE task' = Free /\ task.of # "promote"
  BY <1>2, <1>4, FreeIsFree DEF CallersTyped, Promotion, Free
<1>5. CASE task' = At("demote") /\ task.of = "promote" /\ tun' = "idle"
  <2>1. task' \in TaskType /\ task'.at = "demote" /\ task'.of = "promote"
    BY <1>3, <1>5, CallerGoesOn
  <2> QED
    BY <1>5, <2>1 DEF CallersTyped, Promotion
<1> QED BY <1>1, <1>2, <1>4, <1>5

\* Every step of the two spawners keeps the invariant.
LEMMA HelperNextInv == HelperInv /\ [HelperNext]_helperVars => HelperInv'
<1> SUFFICES ASSUME HelperInv, [HelperNext]_helperVars PROVE HelperInv'
  OBVIOUS
<1> USE DEF HelperInv, HelperTypeOK
<1>1. ASSUME NEW p \in Pids, Bind(p) PROVE HelperInv'
  <2>1. StopsOnly
    BY <1>1 DEF Bind, daemon, Alive, StopsOnly, Shrinks, HelperTypeOK, ProcessesTyped,
      DaemonTyped, Owner
  <2> QED
    BY <1>1, <2>1, CallersIdle DEF Bind
<1>2. ASSUME NEW p \in Pids, Exit(p) PROVE HelperInv'
  <2>1. StopsOnly
    BY <1>2, EndsShrink DEF Exit, daemon, StopsOnly, HelperTypeOK, DaemonTyped
  <2> QED
    BY <1>2, <2>1, CallersIdle DEF Exit
<1>3. ASSUME NEW p \in Pids, HandleLateStop(p) PROVE HelperInv'
  <2>1. StopsOnly
    <3>1. DaemonTyped' /\ (late'.start => late.start)
      BY <1>3 DEF HandleLateStop, HelperTypeOK, DaemonTyped, Owner
    <3>2. CASE MayStop(p)
      <4>1. Shrinks /\ Alive' = Alive \ Stops(p) /\ child' = None
        BY <1>3, <3>2, EndsShrink DEF HandleLateStop, HelperTypeOK
      <4> QED
        BY <3>1, <3>2, <4>1 DEF StopsOnly, MayStop, ChildRuns, Stops
    <3>3. CASE ~MayStop(p)
      BY <1>3, <3>1, <3>3, NothingEnds DEF HandleLateStop, HelperTypeOK, StopsOnly
    <3> QED BY <3>2, <3>3
  <2> QED
    BY <1>3, <2>1, CallersIdle DEF HandleLateStop
<1>4. CASE HandleLateStart
  <2>1. ~Regular /\ ~Regular'
    BY <1>4 DEF HandleLateStart, LeftoversAreFound, Regular
  <2>2. CASE \E p \in Pids : Starts(p)
    <3>1. PICK p \in Pids : Starts(p)
      BY <2>2
    <3>2. /\ ProcessesTyped' /\ DaemonTyped' /\ ChildrenAsStarted' /\ RootIsHeld'
      BY <1>4, <3>1, Starting DEF HandleLateStart, DaemonTyped
    <3> QED
      BY <1>4, <2>1, <3>2 DEF HandleLateStart, CallersTyped, Free, LeftoversAreFound,
        Promotion, NothingLeftBehind
  <2>3. CASE Rejects
    <3>1. StopsOnly
      BY <1>4, <2>3, NothingEnds DEF HandleLateStart, Rejects, ChildRuns, StopsOnly,
        DaemonTyped, Owner
    <3> QED
      BY <1>4, <3>1, CallersIdle DEF HandleLateStart
  <2> QED BY <1>4, <2>2, <2>3 DEF HandleLateStart
<1>5. CASE DaemonRestarts
  <2>1. DaemonForgets("current")
    BY <1>5 DEF DaemonRestarts
  <2> QED
    BY <1>5, Forgetting DEF DaemonRestarts
<1>6. CASE Connect
  <2>1. PICK answer \in {"running", "none", "error"} :
         /\ Poll(answer)
         /\ task' = CASE answer = "running" -> [Free EXCEPT !.of = "connect", !.at = "snapshot"]
                     [] answer = "none" -> [Free EXCEPT !.of = "connect",
                                            !.at = IF privileged THEN "start" ELSE "recover"]
                     [] answer = "error" -> Free
    BY <1>6 DEF Connect
  <2>2. UNCHANGED <<system, daemon, privileged, tun, marks>>
    BY <1>6 DEF Connect
  <2>3. StopsOnly /\ FollowsChild
    BY <2>1, <2>2, Untouched, PolledChild
  <2>4. /\ manager' \in ManagerType /\ manager'.kind = manager.kind
        /\ (manager'.ready => manager.ready) /\ (answer = "running" => manager.ready)
    BY <2>1, Polling
  <2>5. /\ task' \in TaskType /\ (task'.at = "free" => task' = Free)
            /\ task'.of \in {"none", "connect"}
        /\ \/ task'.at \in {"free", "recover"}
           \/ task'.at = "snapshot" /\ manager.ready
           \/ task'.at = "start" /\ privileged
    BY <2>1, <2>4 DEF Free, TaskType, CallersTyped
  <2>6. CallersTyped'
    BY <2>2, <2>4, <2>5 DEF CallersTyped, Free
  <2>7. Promotion'
    BY <1>6, <2>2, <2>4 DEF Connect, Promotion, Free
  <2>8. NothingLeftBehind'
    BY <2>2, <2>3, <2>4, <2>5, EndingKeeps DEF NothingLeftBehind
  <2> QED
    BY <2>3, <2>6, <2>7, <2>8, EndingKeeps
<1>7. CASE RecoverIfAvailable
  <2>1. StopsOnly /\ FollowsChild
    <3>1. CASE task' = At("start") /\ UNCHANGED <<system, daemon>>
      BY <1>7, <3>1, Untouched DEF RecoverIfAvailable, FollowsChild
    <3>2. CASE ~ChildRuns /\ child' = None /\ UNCHANGED <<system, helper, late, marks>>
      BY <1>7, <3>2, NothingEnds DEF RecoverIfAvailable, FollowsChild, ChildRuns,
        StopsOnly, DaemonTyped, Owner
    <3>3. ASSUME ChildRuns, NEW ok \in BOOLEAN, RequestStop(child, ok), UNCHANGED marks
          PROVE StopsOnly /\ FollowsChild
      BY <1>7, <3>3, StopRequest DEF RecoverIfAvailable, FollowsChild, ChildRuns, Alive
    <3> QED BY <1>7, <3>1, <3>2, <3>3 DEF RecoverIfAvailable
  <2>2. /\ UNCHANGED <<manager, privileged, tun>> /\ task' \in TaskType
        /\ (task'.at = "free" => task' = Free) /\ (task'.at = "free" \/ task'.of = task.of)
        /\ task'.at \in {"free", "start", "reclaim"}
    <3>1. task' \in {At("start"), At("reclaim"), Free}
      BY <1>7 DEF RecoverIfAvailable
    <3> QED
      BY <1>7, <3>1, CallerGoesOn, FreeIsFree DEF RecoverIfAvailable, CallersTyped
  <2>3. Regular' /\ task'.at = "start" => Alive = {}
    BY <1>7 DEF RecoverIfAvailable, At, Free, CallersTyped, TaskType, Regular
  <2>4. Regular' /\ task'.at = "reclaim" => RootAlive' = {}
    <3>1. SUFFICES ASSUME Regular', task'.at = "reclaim" PROVE RootAlive' = {}
      OBVIOUS
    <3>2. child \notin Alive'
      <4>1. CASE ~ChildRuns
        BY <2>1, <4>1 DEF ChildRuns, StopsOnly, Shrinks
      <4>2. CASE ChildRuns
        <5>1. PICK ok \in BOOLEAN : RequestStop(child, ok)
                /\ task' = IF ok THEN At("reclaim") ELSE Free
          BY <1>7, <3>1, <4>2 DEF RecoverIfAvailable, At, CallersTyped, TaskType
        <5>2. ok
          BY <3>1, <5>1 DEF Free
        <5> QED
          BY <4>2, <5>1, <5>2, StopRequest DEF ChildRuns, Alive
      <4> QED BY <4>1, <4>2
    <3> QED
      BY <2>1, <3>1, <3>2, EndingKeeps DEF StopsOnly, Shrinks, RootIsHeld, RootAlive,
        Regular
  <2>6. CallersTyped'
    BY <2>2 DEF CallersTyped
  <2>7. Promotion'
    BY <1>7, <2>2, FreeIsFree DEF RecoverIfAvailable, Promotion, CallersTyped, TaskType
  <2>8. NothingLeftBehind'
    BY <1>7, <2>1, <2>2, <2>3, <2>4, EndingKeeps DEF NothingLeftBehind, StopsOnly,
      Shrinks, OnlyOurs
  <2> QED
    BY <2>1, <2>6, <2>7, <2>8, EndingKeeps
<1>8. CASE ReclaimStaleOrdinary
  <2>1. StopsOnly /\ FollowsChild
    <3>1. PICK ok \in BOOLEAN : Reclaim(ok)
      BY <1>8 DEF ReclaimStaleOrdinary
    <3>2. Shrinks
      BY <3>1, EndsShrink DEF Reclaim
    <3> QED
      BY <1>8, <3>2 DEF ReclaimStaleOrdinary, daemon, StopsOnly, DaemonTyped, FollowsChild
  <2>2. /\ UNCHANGED <<manager, privileged, marks>> /\ task' \in TaskType
        /\ (task'.at = "free" => task' = Free) /\ (task'.at = "free" \/ task'.of = task.of)
        /\ task'.at \in {"free", "adopt"} /\ tun' \in {tun, "idle"}
            /\ (task'.at # "free" => tun' = tun)
    BY <1>8, CallerGoesOn, FreeIsFree DEF ReclaimStaleOrdinary, CallersTyped
  <2>3. Regular /\ task'.at = "adopt" => OnlyOurs'
    <3>1. SUFFICES ASSUME Regular, task'.at = "adopt" PROVE OnlyOurs'
      OBVIOUS
    <3>2. Reclaim(TRUE)
      BY <1>8, <3>1, FreeIsFree DEF ReclaimStaleOrdinary
    <3>3. Alive' = Alive \ {p \in bound : alive[p] = "ordinary"}
      BY <3>2, EndsShrink DEF Reclaim
    <3>4. RootAlive = {} \/ OnlyOurs
      BY <1>8, <3>1 DEF ReclaimStaleOrdinary, NothingLeftBehind
    <3> QED
      BY <2>2, <3>1, <3>3, <3>4 DEF LeftoversAreFound, RootAlive, OnlyOurs,
        ProcessesTyped, Alive
  <2>6. CallersTyped'
    BY <2>2 DEF CallersTyped
  <2>7. Promotion'
    BY <1>8, <2>2, FreeIsFree DEF ReclaimStaleOrdinary, Promotion, CallersTyped, TaskType
  <2>8. NothingLeftBehind'
    BY <1>8, <2>1, <2>2, <2>3, EndingKeeps DEF ReclaimStaleOrdinary, NothingLeftBehind
  <2> QED
    BY <2>1, <2>6, <2>7, <2>8, EndingKeeps
<1>9. CASE Adopt
  <2>1. StopsOnly /\ FollowsChild
    <3>1. Root \in ManagerType /\ Root.child = None
      BY DEF Root, ManagerType, Owner
    <3> QED
      BY <1>9, <3>1, Replacing DEF Adopt
  <2>2. /\ manager' = Root /\ privileged' \in BOOLEAN /\ (privileged => privileged')
        /\ (task.of = "connect" => privileged') /\ tun' = tun
        /\ task' \in TaskType /\ task'.at = "start" /\ task'.of = task.of
    BY <1>9, CallerGoesOn DEF Adopt, Replace, CallersTyped
  <2>6. CallersTyped'
    BY <2>2 DEF CallersTyped, ManagerType, Root, Owner
  <2>7. Promotion'
    BY <1>9, <2>2 DEF Adopt, Promotion, CallersTyped, TaskType, Root
  <2>8. NothingLeftBehind'
    BY <1>9, <2>1, EndingKeeps DEF Adopt, NothingLeftBehind
  <2> QED
    BY <2>1, <2>6, <2>7, <2>8, EndingKeeps
<1>10. CASE Spawn
  <2>1. task.at = "start" /\ privileged' = privileged
    BY <1>10 DEF Spawn
  <2>2. CASE /\ manager.child # None /\ manager' = [manager EXCEPT !.ready = FALSE] /\ Failed
             /\ UNCHANGED <<system, daemon, marks>>
    <3>1. /\ manager' \in ManagerType /\ ~manager'.ready /\ manager'.child = manager.child
          /\ manager'.kind = manager.kind
      BY <2>2 DEF CallersTyped, ManagerType
    <3>2. StopsOnly /\ FollowsChild
      BY <2>2, Untouched DEF FollowsChild
    <3>3. /\ CallersTyped' /\ Promotion'
          /\ task'.at \in {"free", "demote"} /\ tun' \in {tun, "idle"}
      BY <2>1, <2>2, <3>1, FailedStart
    <3>4. NothingLeftBehind'
      BY <2>1, <3>1, <3>2, EndingKeeps DEF NothingLeftBehind
    <3> QED BY <3>2, <3>3, <3>4, EndingKeeps
  <2>3. CASE manager.child = None /\ Failed /\ UNCHANGED <<system, daemon, manager, marks>>
    <3>1. StopsOnly /\ FollowsChild
      BY <2>3, Untouched DEF FollowsChild
    <3>2. /\ CallersTyped' /\ Promotion'
          /\ task'.at \in {"free", "demote"} /\ tun' \in {tun, "idle"}
      BY <2>1, <2>3, FailedStart DEF CallersTyped
    <3>3. NothingLeftBehind'
      BY <2>1, <2>3, <3>1, EndingKeeps DEF NothingLeftBehind
    <3> QED BY <3>1, <3>2, <3>3, EndingKeeps
  <2>4. ASSUME manager.child = None, task' = At("probe"), UNCHANGED <<helper, late, tun,
               marks>>,
               NEW p \in Pids, manager' = [manager EXCEPT !.child = p],
               \/ /\ manager.kind = "ordinary" /\ p \in Unused
                  /\ Begins(p, "ordinary") /\ UNCHANGED child
               \/ manager.kind = "root" /\ helper = "current" /\ Starts(p)
        PROVE  HelperInv'
    <3>1. /\ manager' \in ManagerType /\ manager'.child = p
          /\ manager'.kind = manager.kind /\ manager'.ready = manager.ready
      BY <2>4 DEF CallersTyped, ManagerType, Owner
    <3>2. task' \in TaskType /\ task'.at = "probe" /\ task'.of = task.of
      BY <2>4, CallerGoesOn DEF CallersTyped
    <3>3. CallersTyped' /\ Promotion'
      BY <2>1, <2>4, <3>1, <3>2, NoProcessAssumption DEF CallersTyped, Promotion
    <3>4. Regular => Alive = {}
      BY <2>1, <2>4, NoProcessAssumption DEF NothingLeftBehind, OnlyOurs, Alive
    <3>5. /\ ProcessesTyped' /\ child' \in Owner /\ ChildrenAsStarted' /\ RootIsHeld'
          /\ Alive' = Alive \union {p}
      <4>1. CASE manager.kind = "ordinary"
        BY <2>4, <3>1, <4>1, Beginning
      <4>2. CASE manager.kind = "root"
        BY <2>4, <3>1, <4>2, Starting
      <4> QED BY <2>4, <4>1, <4>2
    <3>6. DaemonTyped'
      BY <2>4, <3>5 DEF DaemonTyped
    <3>7. Regular' => Regular /\ OnlyOurs'
      BY <2>4, <3>1, <3>4, <3>5 DEF Regular, OnlyOurs
    <3>8. LeftoversAreFound' /\ NothingLeftBehind'
      BY <2>4, <3>7 DEF LeftoversAreFound, NothingLeftBehind, OnlyOurs
    <3> QED BY <3>3, <3>5, <3>6, <3>8
  <2>5. CASE /\ manager.child = None /\ Failed /\ late' = [late EXCEPT !.start = TRUE]
             /\ marks' = marks \union {"late"} /\ UNCHANGED <<system, helper, child, manager>>
    <3>1. CallersTyped' /\ Promotion'
      BY <2>1, <2>5, FailedStart DEF CallersTyped
    <3>2. DaemonTyped' /\ ~Regular'
      BY <2>5 DEF DaemonTyped, Regular
    <3>3. ProcessesTyped' /\ ChildrenAsStarted' /\ RootIsHeld'
      BY <2>5 DEF system, ProcessesTyped, Owner, ChildrenAsStarted, RootIsHeld, Alive
    <3> QED
      BY <3>1, <3>2, <3>3 DEF LeftoversAreFound, NothingLeftBehind
  <2> QED BY <1>10, <2>2, <2>3, <2>4, <2>5 DEF Spawn
<1>11. CASE StopManaged
  <2>1. task = Free /\ UNCHANGED <<privileged, tun, marks>>
    BY <1>11 DEF StopManaged, Stop
  <2>2. StopsOnly /\ FollowsChild /\ manager' \in ManagerType /\ ~manager'.ready
        /\ manager'.kind = manager.kind /\ task' \in {Free, Free}
    <3>1. CASE manager.child = None
      <4>1. UNCHANGED <<system, daemon>> /\ manager' = [manager EXCEPT !.ready = FALSE]
              /\ task' = Free
        BY <1>11, <3>1 DEF StopManaged, Stop
      <4> QED
        BY <2>1, <3>1, <4>1, Untouched DEF CallersTyped, ManagerType, FollowsChild
    <3>2. CASE manager.child # None
      <4>1. PICK ok \in BOOLEAN :
              /\ Terminate(ok)
              /\ manager' = [manager EXCEPT !.ready = FALSE, !.child = IF ok THEN None ELSE @]
              /\ task' = IF ok THEN Free ELSE Free
        BY <1>11, <3>2 DEF StopManaged, Stop
      <4> QED
        BY <2>1, <3>2, <4>1, StoppedChild
    <3> QED BY <3>1, <3>2
  <2>3. CallersTyped' /\ Promotion'
    BY <2>1, <2>2, FreeIsFree DEF CallersTyped, Promotion
  <2>4. NothingLeftBehind'
    BY <2>1, <2>2, EndingKeeps DEF NothingLeftBehind
  <2> QED BY <2>2, <2>3, <2>4, EndingKeeps
<1>12. CASE Restart
  <2>1. task = Free /\ UNCHANGED <<privileged, tun, marks>>
    BY <1>12 DEF Restart, Stop
  <2>2. StopsOnly /\ FollowsChild /\ manager' \in ManagerType /\ ~manager'.ready
        /\ manager'.kind = manager.kind
            /\ task' \in {Free, [Free EXCEPT !.of = "restart", !.at = "start"]}
    <3>1. CASE manager.child = None
      <4>1. UNCHANGED <<system, daemon>> /\ manager' = [manager EXCEPT !.ready = FALSE]
              /\ task' = [Free EXCEPT !.of = "restart", !.at = "start"]
        BY <1>12, <3>1 DEF Restart, Stop
      <4> QED
        BY <2>1, <3>1, <4>1, Untouched DEF CallersTyped, ManagerType, FollowsChild
    <3>2. CASE manager.child # None
      <4>1. PICK ok \in BOOLEAN :
              /\ Terminate(ok)
              /\ manager' = [manager EXCEPT !.ready = FALSE, !.child = IF ok THEN None ELSE @]
              /\ task' = IF ok THEN [Free EXCEPT !.of = "restart", !.at = "start"] ELSE Free
        BY <1>12, <3>2 DEF Restart, Stop
      <4> QED
        BY <2>1, <3>2, <4>1, StoppedChild
    <3> QED BY <3>1, <3>2
  <2>3. task' = Free \/ (task' \in TaskType /\ task'.at = "start" /\ task'.of = "restart")
    BY <2>2 DEF Free, TaskType
  <2>4. CallersTyped' /\ Promotion'
    BY <2>1, <2>2, <2>3, FreeIsFree DEF CallersTyped, Promotion
  <2>5. Regular' => OnlyOurs'
    BY <1>12, <2>2, EndingKeeps DEF Restart, NothingLeftBehind
  <2>6. NothingLeftBehind'
    BY <2>1, <2>2, <2>3, <2>5 DEF NothingLeftBehind
  <2> QED BY <2>2, <2>4, <2>6, EndingKeeps
<1>13. CASE ReadSnapshot
  <2>1. task' = Free /\ UNCHANGED <<privileged, tun, marks>> /\ task.at = "snapshot"
    BY <1>13 DEF ReadSnapshot
  <2>2. /\ StopsOnly /\ FollowsChild /\ manager' \in ManagerType
        /\ (manager'.ready => manager.ready) /\ manager'.kind = manager.kind
    <3>1. CASE UNCHANGED <<system, daemon, manager>>
      BY <2>1, <3>1, Untouched DEF CallersTyped, FollowsChild
    <3>2. ASSUME manager.child # None, NEW ok \in BOOLEAN, Terminate(ok),
                 manager' = [manager EXCEPT !.ready = FALSE, !.child = IF ok THEN None ELSE @]
          PROVE  StopsOnly /\ FollowsChild /\ manager' \in ManagerType
                 /\ ~manager'.ready /\ manager'.kind = manager.kind
      BY <2>1, <3>2, StoppedChild
    <3> QED BY <1>13, <3>1, <3>2 DEF ReadSnapshot
  <2>3. CallersTyped' /\ Promotion'
    BY <2>1, <2>2, FreeIsFree DEF CallersTyped, Promotion
  <2>4. NothingLeftBehind'
    BY <2>1, <2>2, EndingKeeps DEF NothingLeftBehind
  <2> QED BY <2>2, <2>3, <2>4, EndingKeeps
<1>14. CASE Health
  <2>1. PICK answer \in {"running", "none", "error"} : Poll(answer)
    BY <1>14 DEF Health
  <2>2. UNCHANGED <<system, daemon, privileged, task, tun, marks>> /\ task = Free
    BY <1>14 DEF Health
  <2>3. StopsOnly /\ FollowsChild
    BY <2>1, <2>2, Untouched, PolledChild
  <2>4. /\ manager' \in ManagerType /\ manager'.kind = manager.kind
        /\ (manager'.ready => manager.ready)
    BY <2>1, Polling
  <2>5. CallersTyped' /\ Promotion'
    BY <2>2, <2>4, FreeIsFree DEF CallersTyped, Promotion
  <2>6. NothingLeftBehind'
    BY <2>2, <2>3, <2>4, EndingKeeps DEF NothingLeftBehind
  <2> QED BY <2>3, <2>5, <2>6, EndingKeeps
<1>15. CASE SetTunEnabled
  <2>1. StopsOnly /\ FollowsChild
    BY <1>15, Untouched DEF SetTunEnabled, FollowsChild
  <2>2. CallersTyped' /\ Promotion'
    BY <1>15 DEF SetTunEnabled, CallersTyped, Promotion
  <2>3. NothingLeftBehind'
    BY <1>15, <2>1, EndingKeeps DEF SetTunEnabled, NothingLeftBehind
  <2> QED BY <2>1, <2>2, <2>3, EndingKeeps
<1>16. CASE Prepare
  <2>1. UNCHANGED <<manager, privileged, task>> /\ tun = "prepare"
    BY <1>16 DEF Prepare
  <2>2. CASE Reinstall /\ tun' \in {"prepare", "idle"}
    BY <2>1, <2>2, Forgetting DEF Reinstall
  <2>3. CASE tun' = "idle" /\ UNCHANGED <<system, daemon, marks>>
    <3>1. StopsOnly /\ FollowsChild
      BY <2>1, <2>3, Untouched DEF FollowsChild
    <3>2. CallersTyped' /\ Promotion'
      BY <2>1, <2>3 DEF CallersTyped, Promotion, Free
    <3>3. NothingLeftBehind'
      BY <2>1, <2>3, <3>1, EndingKeeps DEF NothingLeftBehind
    <3> QED BY <3>1, <3>2, <3>3, EndingKeeps
  <2>4. CASE StageCore /\ tun' = "prepared" /\ UNCHANGED marks
    <3>1. StopsOnly /\ FollowsChild
      BY <2>1, <2>4, NothingEnds DEF StageCore, ChildRuns, FollowsChild, StopsOnly,
        DaemonTyped, Owner
    <3>2. CallersTyped' /\ Promotion'
      BY <2>1, <2>4 DEF CallersTyped, Promotion, Free
    <3>3. Regular => RootAlive = {}
      BY <2>4 DEF StageCore, ChildRuns, RootIsHeld, RootAlive, Regular
    <3>4. NothingLeftBehind'
      BY <2>1, <2>4, <3>1, <3>3, EndingKeeps DEF NothingLeftBehind
    <3> QED BY <3>1, <3>2, <3>4, EndingKeeps
  <2> QED BY <1>16, <2>2, <2>3, <2>4 DEF Prepare
<1>17. CASE EnsurePrivileged
  <2>1. PICK answer \in {"running", "none", "error"} :
       /\ Poll(answer)
       /\ IF answer = "error" THEN task' = Free /\ tun' = "idle"
          ELSE /\ task' = [of |-> "promote", running |-> answer = "running",
                          at |-> IF answer = "running" THEN "stop" ELSE "reclaim"]
               /\ tun' = "promoting"
    BY <1>17 DEF EnsurePrivileged
  <2>2. UNCHANGED <<system, daemon, privileged>> /\ task = Free /\ tun = "prepared"
        /\ marks \subseteq marks' /\ (Regular' => Regular)
    BY <1>17 DEF EnsurePrivileged, Regular
  <2>3. StopsOnly /\ FollowsChild
    BY <2>1, <2>2, Untouched, PolledChild
  <2>4. /\ manager' \in ManagerType /\ manager'.kind = manager.kind
        /\ (manager'.ready => manager.ready)
        /\ (answer = "running" => manager'.ready /\ manager'.child # None)
    BY <2>1, Polling DEF Poll
  <2>5. \/ task' = Free /\ tun' = "idle"
        \/ /\ task' \in TaskType /\ task'.of = "promote" /\ tun' = "promoting"
           /\ \/ task'.at = "reclaim"
              \/ task'.at = "stop" /\ manager'.ready /\ manager'.child # None
    <3>1. CASE answer = "error"
      BY <2>1, <3>1
    <3>2. CASE answer = "running"
      <4>1. task' = [of |-> "promote", running |-> TRUE, at |-> "stop"] /\ tun' = "promoting"
        BY <2>1, <3>2
      <4> QED BY <2>4, <3>2, <4>1 DEF TaskType
    <3>3. CASE answer = "none"
      <4>1. task' = [of |-> "promote", running |-> FALSE, at |-> "reclaim"]
              /\ tun' = "promoting"
        BY <2>1, <3>3
      <4> QED BY <4>1 DEF TaskType
    <3> QED BY <3>1, <3>2, <3>3
  <2>6. CallersTyped'
    BY <2>2, <2>4, <2>5 DEF CallersTyped
  <2>7. Promotion'
    BY <2>2, <2>4, <2>5, FreeIsFree DEF Promotion
  <2>8. NothingLeftBehind'
    BY <2>2, <2>3, <2>4, <2>5, EndingKeeps DEF NothingLeftBehind
  <2> QED BY <2>3, <2>6, <2>7, <2>8, EndingKeeps
<1>18. CASE PromotionStops
  <2>1. task.at = "stop" /\ UNCHANGED <<privileged, marks>>
    BY <1>18 DEF PromotionStops
  <2>2. PICK ok \in BOOLEAN :
       /\ Terminate(ok)
       /\ manager' = [manager EXCEPT !.ready = FALSE, !.child = IF ok THEN None ELSE @]
       /\ task' = IF ok THEN At("adopt") ELSE Free
       /\ tun' = IF ok THEN tun ELSE "idle"
    BY <1>18 DEF PromotionStops
  <2>3. manager.child # None
    BY <2>1 DEF Promotion
  <2>4. /\ StopsOnly /\ FollowsChild /\ manager' \in ManagerType
        /\ ~manager'.ready /\ manager'.kind = manager.kind
    BY <2>1, <2>2, <2>3, StoppedChild
  <2>5. \/ task' = Free /\ tun' = "idle"
        \/ task' \in TaskType /\ task'.at = "adopt" /\ task'.of = task.of /\ tun' = tun
    BY <2>2, CallerGoesOn DEF CallersTyped
  <2>6. CallersTyped' /\ Promotion'
    BY <2>1, <2>4, <2>5, FreeIsFree DEF CallersTyped, Promotion
  <2>7. NothingLeftBehind'
    BY <2>1, <2>4, <2>5, EndingKeeps DEF NothingLeftBehind, Promotion
  <2> QED BY <2>4, <2>6, <2>7, EndingKeeps
<1>19. CASE Demote
  <2>1. StopsOnly /\ FollowsChild
    <3>1. Ordinary \in ManagerType /\ Ordinary.child = None
      BY DEF Ordinary, ManagerType, Owner
    <3> QED
      BY <1>19, <3>1, Replacing DEF Demote
  <2>2. /\ manager' = Ordinary /\ UNCHANGED <<privileged, tun>>
        /\ \/ task' = Free
           \/ task' \in TaskType /\ task'.at = "start" /\ task'.of = "fallback"
    BY <1>19 DEF Demote, Replace, CallersTyped, TaskType
  <2>3. CallersTyped' /\ Promotion'
    BY <2>2, FreeIsFree DEF CallersTyped, Promotion, Ordinary, ManagerType, Owner
  <2>4. Regular' => OnlyOurs'
    BY <1>19, <2>1, EndingKeeps DEF Demote, NothingLeftBehind, Promotion
  <2>5. NothingLeftBehind'
    BY <2>2, <2>4 DEF NothingLeftBehind, Ordinary
  <2> QED BY <2>1, <2>3, <2>5, EndingKeeps
<1>20. CASE PutConfig
  <2>1. PICK answer \in {"running", "none", "error"} : Poll(answer)
    BY <1>20 DEF PutConfig
  <2>2. UNCHANGED <<system, daemon, privileged, task, marks>> /\ task = Free /\ tun' = "idle"
    BY <1>20 DEF PutConfig
  <2>3. StopsOnly /\ FollowsChild
    BY <2>1, <2>2, Untouched, PolledChild
  <2>4. /\ manager' \in ManagerType /\ manager'.kind = manager.kind
        /\ (manager'.ready => manager.ready)
    BY <2>1, Polling
  <2>5. CallersTyped' /\ Promotion'
    BY <2>2, <2>4, FreeIsFree DEF CallersTyped, Promotion
  <2>6. NothingLeftBehind'
    BY <2>2, <2>3, <2>4, EndingKeeps DEF NothingLeftBehind
  <2> QED BY <2>3, <2>5, <2>6, EndingKeeps
<1>21. CASE Kill
  <2>1. manager' = Ordinary /\ privileged' = FALSE /\ task' = Free /\ tun' = "idle"
        /\ UNCHANGED <<system, helper, child>>
    BY <1>21 DEF Kill
  <2>2. marks \subseteq marks' /\ (Regular' => ~late'.start)
        /\ (Regular' => \A p \in Alive \ bound : alive[p] # "ordinary")
    BY <1>21 DEF Kill, Regular
  <2>3. CallersTyped' /\ Promotion'
    BY <2>1, FreeIsFree DEF CallersTyped, Promotion, Ordinary, ManagerType, Owner
  <2>4. DaemonTyped'
    BY <1>21 DEF Kill, DaemonTyped
  <2>5. ProcessesTyped' /\ ChildrenAsStarted' /\ RootIsHeld'
    BY <2>1, <2>2, NoProcessAssumption DEF system, ProcessesTyped, Owner,
      ChildrenAsStarted, RootIsHeld, Ordinary, Alive
  <2>6. LeftoversAreFound'
    BY <2>1, <2>2 DEF LeftoversAreFound, system, Alive, ProcessesTyped
  <2>7. NothingLeftBehind'
    BY <2>1, FreeIsFree DEF NothingLeftBehind, Ordinary
  <2> QED BY <2>3, <2>4, <2>5, <2>6, <2>7
<1>22. CASE Ready
  <2>1. task.at = "probe" /\ UNCHANGED <<system, daemon, marks>>
    BY <1>22 DEF Ready
  <2>2. /\ manager' \in ManagerType /\ manager'.child = manager.child
        /\ manager'.kind = manager.kind /\ manager'.ready
    BY <1>22 DEF Ready, CallersTyped, ManagerType
  <2>3. StopsOnly /\ FollowsChild
    BY <2>1, <2>2, Untouched DEF FollowsChild
  <2>4. \/ task' = Free
        \/ task' \in TaskType /\ task'.at = "snapshot" /\ task'.of = "connect"
    BY <1>22, CallerGoesOn DEF Ready, CallersTyped
  <2>5. CallersTyped'
    BY <1>22, <2>2, <2>4, FreeIsFree DEF Ready, CallersTyped
  <2>6. Promotion'
    BY <1>22, <2>2, <2>4, FreeIsFree DEF Ready, Promotion
  <2>7. Regular' => OnlyOurs'
    BY <2>1, <2>3, EndingKeeps DEF NothingLeftBehind
  <2>8. NothingLeftBehind'
    BY <2>7 DEF NothingLeftBehind
  <2> QED BY <2>3, <2>5, <2>6, <2>8, EndingKeeps
<1>23. CASE NotReady
  <2>1. task.at = "probe" /\ UNCHANGED <<privileged, marks>> /\ Failed
    BY <1>23 DEF NotReady
  <2>2. /\ StopsOnly /\ FollowsChild /\ manager' \in ManagerType
        /\ manager'.kind = manager.kind /\ (manager'.ready => manager.ready)
    <3>1. CASE Poll("error") /\ UNCHANGED <<system, daemon>>
      BY <2>1, <3>1, Untouched, Polling, PolledChild
    <3>2. ASSUME NEW ok \in BOOLEAN, Terminate(ok),
                 manager' = IF ok THEN [manager EXCEPT !.child = None] ELSE manager
          PROVE  /\ StopsOnly /\ FollowsChild /\ manager' \in ManagerType
                 /\ manager'.kind = manager.kind /\ (manager'.ready => manager.ready)
      <4>1. manager' \in ManagerType /\ manager'.kind = manager.kind
              /\ manager'.ready = manager.ready
            /\ manager'.child = IF ok THEN None ELSE manager.child
        BY <3>2 DEF CallersTyped, ManagerType, Owner
      <4>2. StopsOnly /\ (ok /\ Regular => manager.child \notin Alive')
        BY <2>1, <3>2, Termination DEF Promotion
      <4> QED
        BY <2>1, <4>1, <4>2 DEF FollowsChild, Regular
    <3> QED BY <1>23, <3>1, <3>2 DEF NotReady
  <2>3. /\ CallersTyped' /\ Promotion'
        /\ task'.at \in {"free", "demote"} /\ tun' \in {tun, "idle"}
    BY <2>1, <2>2, FailedStart
  <2>4. NothingLeftBehind'
    BY <2>1, <2>2, EndingKeeps DEF NothingLeftBehind
  <2> QED BY <2>2, <2>3, <2>4, EndingKeeps
<1>24. CASE UNCHANGED helperVars
  <2>1. StopsOnly
    BY <1>24, Untouched DEF helperVars, system, daemon
  <2> QED
    BY <1>24, <2>1, CallersIdle DEF helperVars
<1> QED
  BY <1>1, <1>2, <1>3, <1>4, <1>5, <1>6, <1>7, <1>8, <1>9, <1>10, <1>11, <1>12, <1>13,
    <1>14, <1>15, <1>16, <1>17, <1>18, <1>19, <1>20, <1>21, <1>22, <1>23, <1>24 DEF
    HelperNext

\* The initial state satisfies the invariant.
LEMMA HelperInitInv == HelperInit => HelperInv
<1> SUFFICES ASSUME HelperInit PROVE HelperInv
  OBVIOUS
<1>1. Alive = {} /\ ~manager.ready /\ manager.kind = "ordinary" /\ manager.child = None
  BY DEF HelperInit, Alive, Ordinary
<1>2. task = Free /\ tun = "idle" /\ ~late.start
  BY DEF HelperInit
<1>3. ProcessesTyped /\ DaemonTyped
  BY DEF HelperInit, ProcessesTyped, DaemonTyped, Owner
<1>4. CallersTyped
  BY FreeIsFree DEF HelperInit, CallersTyped, ManagerType, Ordinary, Owner
<1>5. ChildrenAsStarted /\ RootIsHeld /\ LeftoversAreFound /\ NothingLeftBehind
  BY <1>1, <1>2 DEF ChildrenAsStarted, RootIsHeld, LeftoversAreFound, NothingLeftBehind,
    OnlyOurs, RootAlive
<1>6. Promotion
  BY <1>1, <1>2, FreeIsFree DEF Promotion
<1> QED
  BY <1>3, <1>4, <1>5, <1>6 DEF HelperInv, HelperTypeOK

\* The inductive invariant of the two spawners.
LEMMA HelperInvariant == HelperSpec => []HelperInv
<1>1. HelperInit => HelperInv
  BY HelperInitInv
<1>2. HelperInv /\ [HelperNext]_helperVars => HelperInv'
  BY HelperNextInv
<1> QED
  BY <1>1, <1>2, PTL DEF HelperSpec

\* Processes, daemon, manager and callers of the two spawners keep their types.
THEOREM HelperTypes == HelperSpec => []HelperTypeOK
<1>1. HelperInv => HelperTypeOK
  BY DEF HelperInv
<1> QED
  BY <1>1, HelperInvariant, PTL

\* The daemon (HelperCore) holds every kernel that runs as root, whatever
\* requests come late, unless launchd ended it and its child lived on.
THEOREM RootKernelIsHeld == HelperSpec => []RootIsHeld
<1>1. HelperInv => RootIsHeld
  BY DEF HelperInv
<1> QED
  BY <1>1, HelperInvariant, PTL

\* Whatever was left behind by earlier instances, a kernel that the manager has
\* reported ready is the only one, but for the exceptions that are marked.
THEOREM ReadyKernelIsAlone == HelperSpec => []SoleKernel
<1>1. HelperInv => SoleKernel
  BY DEF HelperInv, NothingLeftBehind, SoleKernel, Regular, OnlyOurs
<1> QED
  BY <1>1, HelperInvariant, PTL
-----------------------------------------------------------------------------
(* The proxy mode.                                                         *)

ControlTyped ==
  /\ mode \in Mode /\ busy \in Mode \union {"none"}
  /\ controller \in {"Disconnected", "Connecting", "Connected", "Failed"}
  /\ polling \in {"yes", "no"}
  /\ ui \in {"idle", "failsafe", "quitTun", "quitSystem", "quitStop", "gone"}
  /\ stage \in Stage /\ from \in Mode
  /\ leg \in {"forward", "back", "redo"} /\ result \in {"ok", "err", "deferred"}
RuntimeTyped ==
  /\ connect \in {"none", "start", "load", "loaded", "failed"}
  /\ seen \in {"on", "off"}
  /\ kernel \in {"down", "up", "exited"} /\ tunnel \in {"on", "off"}
  /\ promoted \in {"yes", "no"}
SessionsTyped ==
  /\ proxy \in {"none", "user", "manis"} /\ desktop \in {"user", "manis"}
  /\ dns \in {"idle", "prepared", "applied"} /\ resolver \in {"user", "tun"}
BlemishTyped == blemish \subseteq {"failure", "overlap", "late", "misread"}
ModeTypeOK == ControlTyped /\ RuntimeTyped /\ SessionsTyped /\ BlemishTyped

\* Only a kernel that runs has a TUN; a transition has its request; and a
\* connect shows, and keeps others from beginning one or watching the kernel.
TunNeedsKernel == kernel # "up" => tunnel = "off"
RequestIsOwn ==
  (stage = "none" <=> busy = "none") /\ (busy # "none" => busy # from)
ConnectShows ==
  /\ connect # "none" =>
       controller = "Connecting" /\ polling = "no" /\ ui # "failsafe"
  /\ polling = "yes" => controller = "Connected"
  /\ ui = "failsafe" => polling = "yes"

\* TUN is on only behind a privileged kernel, on whichever way it came on; so
\* no promotion puts a new kernel in the place of one that died under TUN.  The
\* fail-safe meets TUN only with the kernel gone, or misread.
Privileged ==
  /\ "Tun" \in {mode, from} \/ "on" \in {tunnel, seen} => promoted = "yes"
  /\ stage \in {"dnsOff", "tunOff"} \/ leg = "redo" => from = "Tun"
  /\ stage \in {"tunOn", "dnsActivate"} => promoted = "yes"
  /\ stage = "sysOn" /\ leg # "back" => busy = "System"
  /\ stage = "done" /\ result = "ok" /\ busy = "Tun" => promoted = "yes"
  /\ ui = "failsafe" /\ mode = "Tun" => kernel # "up" \/ "misread" \in blemish

\* What a session has not taken over is the user's, unless a call that was
\* to give it back has failed.
OthersAreTheUsers ==
  "failure" \notin blemish =>
    /\ proxy # "manis"
    /\ desktop = "manis" => proxy = "user"
    /\ resolver = "tun" => dns = "applied"

\* How far quitting has come.
GivenBack ==
  blemish \intersect {"failure", "late"} = {} =>
    /\ ui \in {"quitTun", "quitSystem", "quitStop", "gone"} =>
         ~Locked /\ dns = "idle" /\ resolver = "user"
    /\ ui \in {"quitStop", "gone"} => proxy = "none" /\ desktop = "user"
    /\ ui = "gone" => kernel = "down"

\* What the modes are on the desktop and in the kernel.
ProxyIs(m) == IF m = "System" THEN proxy = "user" /\ desktop = "manis"
                              ELSE proxy = "none" /\ desktop = "user"
DnsIs(d) == dns = d /\ resolver = IF d = "applied" THEN "tun" ELSE "user"
InEffect(m) ==
  /\ ProxyIs(m)
  /\ DnsIs(IF m = "Tun" THEN "applied" ELSE "idle")
  /\ IF m = "Tun" THEN kernel = "up" => tunnel = "on" ELSE tunnel = "off"
SomeMode == \E m \in Mode : InEffect(m)

\* The ways by which a transition comes to enable TUN.
ToTun == \/ leg = "forward" /\ from \in {"Off", "System"} /\ busy = "Tun"
         \/ leg = "back" /\ from = "Tun"

\* Where a transition stands and what is in effect agree.
Progress ==
  /\ stage = "queued" =>
       leg = "forward" /\ (InEffect(from) \/ InEffect("Off"))
  /\ stage = "sysOff" =>
       /\ leg = "forward" /\ from = "System"
       /\ InEffect("System") \/ InEffect("Off")
  /\ stage = "dnsOff" =>
       /\ leg = "forward" /\ from = "Tun"
       /\ InEffect("Tun") \/ InEffect("Off")
  /\ stage = "tunOff" =>
       leg = "forward" /\ from = "Tun" /\ ProxyIs("Off") /\ DnsIs("idle")
  /\ stage = "sysOn" =>
       /\ InEffect("Off")
       /\ \/ leg = "forward" /\ from \in {"Off", "Tun"} /\ busy = "System"
          \/ leg = "back" /\ from = "System"
  /\ stage = "dnsPrepare" => ToTun /\ InEffect("Off")
  /\ stage \in {"promote", "tunOn", "undoDns"} =>
       ToTun /\ ProxyIs("Off") /\ DnsIs("prepared") /\ tunnel = "off"
  /\ stage = "dnsActivate" =>
       /\ ToTun /\ ProxyIs("Off") /\ DnsIs("prepared")
       /\ kernel = "up" => tunnel = "on"
  /\ stage \in {"undoDns", "undoActivate", "undoTun"} =>
       ToTun /\ leg = "forward"
  /\ stage = "undoActivate" =>
       ProxyIs("Off") /\ dns = "applied" /\ resolver = "user"
  /\ stage = "undoTun" => ProxyIs("Off") /\ DnsIs("idle")
  /\ stage = "done" =>
       /\ result # "deferred" /\ SomeMode
       /\ controller = "Connected" =>
            InEffect(IF result = "ok" THEN busy ELSE from)

\* While nothing has defeated it: at rest some mode is in effect, and as long
\* as the kernel is connected it is the one that is shown.
ShownIsInEffect ==
  /\ ui \in {"idle", "failsafe"}
  /\ blemish \intersect {"failure", "overlap", "misread"} = {}
  =>
    /\ Progress
    /\ stage = "none" =>
         SomeMode /\ (controller = "Connected" => InEffect(mode))
    /\ stage # "none" /\ controller = "Connected" => mode = from
    /\ connect = "loaded" => busy = "none" /\ (seen = "on" <=> InEffect("Tun"))

\* The inductive invariant.
ModeInv ==
  /\ ModeTypeOK /\ TunNeedsKernel /\ RequestIsOwn /\ ConnectShows /\ Privileged
  /\ OthersAreTheUsers /\ GivenBack /\ ShownIsInEffect

\* The initial state: no session is taken over and no mode is asked for.
LEMMA ModeInit == ASSUME Init PROVE ModeInv
BY DEF Init, ModeInv, ModeTypeOK, ControlTyped, RuntimeTyped, SessionsTyped,
  BlemishTyped, TunNeedsKernel, RequestIsOwn, ConnectShows, Privileged,
  OthersAreTheUsers, GivenBack, ShownIsInEffect, Progress, SomeMode, InEffect,
  ProxyIs, DnsIs, Mode, Stage

\* No step of a transition, of a connect, of a handler, of quitting or of the
\* kernel breaks it.
LEMMA ModeStep == ModeInv /\ [Next]_vars => ModeInv'
<1> SUFFICES ASSUME ModeInv, [Next]_vars PROVE ModeInv'
    OBVIOUS
<1> USE DEF ModeInv, ModeTypeOK, ControlTyped, RuntimeTyped, SessionsTyped,
        uiVars, transition, connecting, runtime, sessions, Mode, Stage
<1>1. ASSUME NEW requested \in Mode, RequestMode(requested) PROVE ModeInv'
  <2>1. (ControlTyped /\ RuntimeTyped /\ SessionsTyped)'
    <3>1. ControlTyped'
      BY <1>1 DEF RequestMode, Locked
    <3>2. RuntimeTyped'
      BY <1>1 DEF RequestMode, Locked
    <3>3. SessionsTyped'
      BY <1>1 DEF RequestMode, Locked
    <3> QED BY <3>1, <3>2, <3>3
  <2>2. BlemishTyped'
    BY <1>1 DEF RequestMode, Locked, BlemishTyped
  <2>3. (TunNeedsKernel /\ RequestIsOwn /\ ConnectShows)'
    BY <1>1 DEF RequestMode, Locked, TunNeedsKernel, RequestIsOwn,
       ConnectShows
  <2>4. Privileged'
    BY <1>1 DEF RequestMode, Locked, TunNeedsKernel, RequestIsOwn,
       ConnectShows, Privileged
  <2>5. OthersAreTheUsers'
    BY <1>1 DEF RequestMode, Locked, OthersAreTheUsers
  <2>6. GivenBack'
    BY <1>1 DEF RequestMode, Locked, OthersAreTheUsers, GivenBack
  <2>7. ShownIsInEffect'
    BY <1>1 DEF RequestMode, Locked, TunNeedsKernel, RequestIsOwn,
       ConnectShows, Privileged, OthersAreTheUsers, ShownIsInEffect, Progress,
       SomeMode, InEffect, ProxyIs, DnsIs, ToTun
  <2> QED BY <2>1, <2>2, <2>3, <2>4, <2>5, <2>6, <2>7
<1>2. CASE TransitionBegin
  <2>1. (ControlTyped /\ RuntimeTyped /\ SessionsTyped)'
    <3>1. ControlTyped'
      BY <1>2 DEF TransitionBegin, Step, Go, Stain
    <3>2. RuntimeTyped'
      BY <1>2 DEF TransitionBegin, Step, Go, Stain
    <3>3. SessionsTyped'
      BY <1>2 DEF TransitionBegin, Step, Go, Stain
    <3> QED BY <3>1, <3>2, <3>3
  <2>2. BlemishTyped'
    BY <1>2 DEF TransitionBegin, Step, Go, Stain, BlemishTyped
  <2>3. (TunNeedsKernel /\ RequestIsOwn /\ ConnectShows)'
    BY <1>2 DEF TransitionBegin, Step, Go, Stain, TunNeedsKernel,
       RequestIsOwn, ConnectShows
  <2>4. Privileged'
    BY <1>2 DEF TransitionBegin, Step, Go, Stain, TunNeedsKernel,
       RequestIsOwn, ConnectShows, Privileged
  <2>5. OthersAreTheUsers'
    BY <1>2 DEF TransitionBegin, Step, Go, Stain, OthersAreTheUsers
  <2>6. GivenBack'
    BY <1>2 DEF TransitionBegin, Step, Go, Stain, OthersAreTheUsers,
       GivenBack, Locked
  <2>7. ShownIsInEffect'
    <3>1. CASE from = "System"
      BY <1>2, <3>1 DEF TransitionBegin, Step, Go, Stain, TunNeedsKernel,
         RequestIsOwn, ConnectShows, Privileged, OthersAreTheUsers,
         ShownIsInEffect, Progress, SomeMode, InEffect, ProxyIs, DnsIs, ToTun,
         Locked
    <3>2. CASE from = "Tun"
      BY <1>2, <3>2 DEF TransitionBegin, Step, Go, Stain, TunNeedsKernel,
         RequestIsOwn, ConnectShows, Privileged, OthersAreTheUsers,
         ShownIsInEffect, Progress, SomeMode, InEffect, ProxyIs, DnsIs, ToTun,
         Locked
    <3>3. CASE from = "Off"
      BY <1>2, <3>3 DEF TransitionBegin, Step, Go, Stain, TunNeedsKernel,
         RequestIsOwn, ConnectShows, Privileged, OthersAreTheUsers,
         ShownIsInEffect, Progress, SomeMode, InEffect, ProxyIs, DnsIs, ToTun,
         Locked
    <3> QED BY <3>1, <3>2, <3>3
  <2> QED BY <2>1, <2>2, <2>3, <2>4, <2>5, <2>6, <2>7
<1>3. CASE SysOff
  <2>1. (ControlTyped /\ RuntimeTyped /\ SessionsTyped)'
    <3>1. ControlTyped'
      BY <1>3 DEF SysOff, Step, Go, Return, Stain, ProxyDisable
    <3>2. RuntimeTyped'
      BY <1>3 DEF SysOff, Step, Go, Return, Stain, ProxyDisable
    <3>3. SessionsTyped'
      BY <1>3 DEF SysOff, Step, Go, Return, Stain, ProxyDisable
    <3> QED BY <3>1, <3>2, <3>3
  <2>2. BlemishTyped'
    BY <1>3 DEF SysOff, Step, Go, Return, Stain, ProxyDisable, BlemishTyped
  <2>3. (TunNeedsKernel /\ RequestIsOwn /\ ConnectShows)'
    BY <1>3 DEF SysOff, Step, Go, Return, Stain, ProxyDisable, TunNeedsKernel,
       RequestIsOwn, ConnectShows
  <2>4. Privileged'
    BY <1>3 DEF SysOff, Step, Go, Return, Stain, ProxyDisable, TunNeedsKernel,
       RequestIsOwn, ConnectShows, Privileged
  <2>5. OthersAreTheUsers'
    BY <1>3 DEF SysOff, Step, Go, Return, Stain, ProxyDisable,
       OthersAreTheUsers
  <2>6. GivenBack'
    BY <1>3 DEF SysOff, Step, Go, Return, Stain, ProxyDisable,
       OthersAreTheUsers, GivenBack, Locked
  <2>7. ShownIsInEffect'
    BY <1>3 DEF SysOff, Step, Go, Return, Stain, ProxyDisable, TunNeedsKernel,
       RequestIsOwn, ConnectShows, Privileged, OthersAreTheUsers,
       ShownIsInEffect, Progress, SomeMode, InEffect, ProxyIs, DnsIs, ToTun,
       Locked
  <2> QED BY <2>1, <2>2, <2>3, <2>4, <2>5, <2>6, <2>7
<1>4. CASE SysOn
  <2>1. (ControlTyped /\ RuntimeTyped /\ SessionsTyped)'
    <3>1. ControlTyped'
      BY <1>4 DEF SysOn, Step, Back, Return, Stain, ProxyEnable, Lost
    <3>2. RuntimeTyped'
      BY <1>4 DEF SysOn, Step, Back, Return, Stain, ProxyEnable, Lost
    <3>3. SessionsTyped'
      BY <1>4 DEF SysOn, Step, Back, Return, Stain, ProxyEnable, Lost
    <3> QED BY <3>1, <3>2, <3>3
  <2>2. BlemishTyped'
    BY <1>4 DEF SysOn, Step, Back, Return, Stain, ProxyEnable, Lost,
       BlemishTyped
  <2>3. (TunNeedsKernel /\ RequestIsOwn /\ ConnectShows)'
    BY <1>4 DEF SysOn, Step, Back, Return, Stain, ProxyEnable, Lost,
       TunNeedsKernel, RequestIsOwn, ConnectShows
  <2>4. Privileged'
    BY <1>4 DEF SysOn, Step, Back, Return, Stain, ProxyEnable, Lost,
       TunNeedsKernel, RequestIsOwn, ConnectShows, Privileged
  <2>5. OthersAreTheUsers'
    BY <1>4 DEF SysOn, Step, Back, Return, Stain, ProxyEnable, Lost,
       OthersAreTheUsers
  <2>6. GivenBack'
    BY <1>4 DEF SysOn, Step, Back, Return, Stain, ProxyEnable, Lost,
       OthersAreTheUsers, GivenBack, Locked
  <2>7. ShownIsInEffect'
    BY <1>4 DEF SysOn, Step, Back, Return, Stain, ProxyEnable, Lost,
       TunNeedsKernel, RequestIsOwn, ConnectShows, Privileged,
       OthersAreTheUsers, ShownIsInEffect, Progress, SomeMode, InEffect,
       ProxyIs, DnsIs, ToTun, Locked
  <2> QED BY <2>1, <2>2, <2>3, <2>4, <2>5, <2>6, <2>7
<1>5. CASE DnsOff
  <2>1. (ControlTyped /\ RuntimeTyped /\ SessionsTyped)'
    <3>1. ControlTyped'
      BY <1>5 DEF DnsOff, Step, Go, Return, Stain, DnsDisable
    <3>2. RuntimeTyped'
      BY <1>5 DEF DnsOff, Step, Go, Return, Stain, DnsDisable
    <3>3. SessionsTyped'
      BY <1>5 DEF DnsOff, Step, Go, Return, Stain, DnsDisable
    <3> QED BY <3>1, <3>2, <3>3
  <2>2. BlemishTyped'
    BY <1>5 DEF DnsOff, Step, Go, Return, Stain, DnsDisable, BlemishTyped
  <2>3. (TunNeedsKernel /\ RequestIsOwn /\ ConnectShows)'
    BY <1>5 DEF DnsOff, Step, Go, Return, Stain, DnsDisable, TunNeedsKernel,
       RequestIsOwn, ConnectShows
  <2>4. Privileged'
    BY <1>5 DEF DnsOff, Step, Go, Return, Stain, DnsDisable, TunNeedsKernel,
       RequestIsOwn, ConnectShows, Privileged
  <2>5. OthersAreTheUsers'
    BY <1>5 DEF DnsOff, Step, Go, Return, Stain, DnsDisable, OthersAreTheUsers
  <2>6. GivenBack'
    BY <1>5 DEF DnsOff, Step, Go, Return, Stain, DnsDisable,
       OthersAreTheUsers, GivenBack, Locked
  <2>7. ShownIsInEffect'
    BY <1>5 DEF DnsOff, Step, Go, Return, Stain, DnsDisable, TunNeedsKernel,
       RequestIsOwn, ConnectShows, Privileged, OthersAreTheUsers,
       ShownIsInEffect, Progress, SomeMode, InEffect, ProxyIs, DnsIs, ToTun,
       Locked
  <2> QED BY <2>1, <2>2, <2>3, <2>4, <2>5, <2>6, <2>7
<1>6. CASE TunOff
  <2>1. (ControlTyped /\ RuntimeTyped /\ SessionsTyped)'
    <3>1. ControlTyped'
      BY <1>6 DEF TunOff, Step, Go, Return, Stain, Reload
    <3>2. RuntimeTyped'
      BY <1>6 DEF TunOff, Step, Go, Return, Stain, Reload
    <3>3. SessionsTyped'
      BY <1>6 DEF TunOff, Step, Go, Return, Stain, Reload
    <3> QED BY <3>1, <3>2, <3>3
  <2>2. BlemishTyped'
    BY <1>6 DEF TunOff, Step, Go, Return, Stain, Reload, BlemishTyped
  <2>3. (TunNeedsKernel /\ RequestIsOwn /\ ConnectShows)'
    BY <1>6 DEF TunOff, Step, Go, Return, Stain, Reload, TunNeedsKernel,
       RequestIsOwn, ConnectShows
  <2>4. Privileged'
    BY <1>6 DEF TunOff, Step, Go, Return, Stain, Reload, TunNeedsKernel,
       RequestIsOwn, ConnectShows, Privileged
  <2>5. OthersAreTheUsers'
    BY <1>6 DEF TunOff, Step, Go, Return, Stain, Reload, OthersAreTheUsers
  <2>6. GivenBack'
    BY <1>6 DEF TunOff, Step, Go, Return, Stain, Reload, OthersAreTheUsers,
       GivenBack, Locked
  <2>7. ShownIsInEffect'
    BY <1>6 DEF TunOff, Step, Go, Return, Stain, Reload, TunNeedsKernel,
       RequestIsOwn, ConnectShows, Privileged, OthersAreTheUsers,
       ShownIsInEffect, Progress, SomeMode, InEffect, ProxyIs, DnsIs, ToTun,
       Locked
  <2> QED BY <2>1, <2>2, <2>3, <2>4, <2>5, <2>6, <2>7
<1>7. CASE PrepareDns
  <2>1. (ControlTyped /\ RuntimeTyped /\ SessionsTyped)'
    <3>1. ControlTyped'
      BY <1>7 DEF PrepareDns, Step, Go, TunFails, Back, Return, Stain,
         DnsPrepare, DnsDisable, Lost
    <3>2. RuntimeTyped'
      BY <1>7 DEF PrepareDns, Step, Go, TunFails, Back, Return, Stain,
         DnsPrepare, DnsDisable, Lost
    <3>3. SessionsTyped'
      BY <1>7 DEF PrepareDns, Step, Go, TunFails, Back, Return, Stain,
         DnsPrepare, DnsDisable, Lost
    <3> QED BY <3>1, <3>2, <3>3
  <2>2. BlemishTyped'
    BY <1>7 DEF PrepareDns, Step, Go, TunFails, Back, Return, Stain,
       DnsPrepare, DnsDisable, Lost, BlemishTyped
  <2>3. (TunNeedsKernel /\ RequestIsOwn /\ ConnectShows)'
    BY <1>7 DEF PrepareDns, Step, Go, TunFails, Back, Return, Stain,
       DnsPrepare, DnsDisable, Lost, TunNeedsKernel, RequestIsOwn,
       ConnectShows
  <2>4. Privileged'
    BY <1>7 DEF PrepareDns, Step, Go, TunFails, Back, Return, Stain,
       DnsPrepare, DnsDisable, Lost, TunNeedsKernel, RequestIsOwn,
       ConnectShows, Privileged
  <2>5. OthersAreTheUsers'
    BY <1>7 DEF PrepareDns, Step, Go, TunFails, Back, Return, Stain,
       DnsPrepare, DnsDisable, Lost, OthersAreTheUsers
  <2>6. GivenBack'
    BY <1>7 DEF PrepareDns, Step, Go, TunFails, Back, Return, Stain,
       DnsPrepare, DnsDisable, Lost, OthersAreTheUsers, GivenBack, Locked
  <2>7. ShownIsInEffect'
    BY <1>7 DEF PrepareDns, Step, Go, TunFails, Back, Return, Stain,
       DnsPrepare, DnsDisable, Lost, TunNeedsKernel, RequestIsOwn,
       ConnectShows, Privileged, OthersAreTheUsers, ShownIsInEffect, Progress,
       SomeMode, InEffect, ProxyIs, DnsIs, ToTun, Locked
  <2> QED BY <2>1, <2>2, <2>3, <2>4, <2>5, <2>6, <2>7
<1>8. CASE PromoteKernel
  <2>1. (ControlTyped /\ RuntimeTyped /\ SessionsTyped)'
    <3>1. ControlTyped'
      BY <1>8 DEF PromoteKernel, Step, Go, Stain, Promote, Lost
    <3>2. RuntimeTyped'
      BY <1>8 DEF PromoteKernel, Step, Go, Stain, Promote, Lost
    <3>3. SessionsTyped'
      BY <1>8 DEF PromoteKernel, Step, Go, Stain, Promote, Lost
    <3> QED BY <3>1, <3>2, <3>3
  <2>2. BlemishTyped'
    BY <1>8 DEF PromoteKernel, Step, Go, Stain, Promote, Lost, BlemishTyped
  <2>3. (TunNeedsKernel /\ RequestIsOwn /\ ConnectShows)'
    BY <1>8 DEF PromoteKernel, Step, Go, Stain, Promote, Lost, TunNeedsKernel,
       RequestIsOwn, ConnectShows
  <2>4. Privileged'
    BY <1>8 DEF PromoteKernel, Step, Go, Stain, Promote, Lost, TunNeedsKernel,
       RequestIsOwn, ConnectShows, Privileged
  <2>5. OthersAreTheUsers'
    BY <1>8 DEF PromoteKernel, Step, Go, Stain, Promote, Lost,
       OthersAreTheUsers
  <2>6. GivenBack'
    BY <1>8 DEF PromoteKernel, Step, Go, Stain, Promote, Lost,
       OthersAreTheUsers, GivenBack, Locked
  <2>7. ShownIsInEffect'
    BY <1>8 DEF PromoteKernel, Step, Go, Stain, Promote, Lost, TunNeedsKernel,
       RequestIsOwn, ConnectShows, Privileged, OthersAreTheUsers,
       ShownIsInEffect, Progress, SomeMode, InEffect, ProxyIs, DnsIs, ToTun,
       Locked
  <2> QED BY <2>1, <2>2, <2>3, <2>4, <2>5, <2>6, <2>7
<1>9. CASE TunOn
  <2>1. (ControlTyped /\ RuntimeTyped /\ SessionsTyped)'
    <3>1. ControlTyped'
      BY <1>9 DEF TunOn, Step, Go, Stain, Reload, Lost
    <3>2. RuntimeTyped'
      BY <1>9 DEF TunOn, Step, Go, Stain, Reload, Lost
    <3>3. SessionsTyped'
      BY <1>9 DEF TunOn, Step, Go, Stain, Reload, Lost
    <3> QED BY <3>1, <3>2, <3>3
  <2>2. BlemishTyped'
    BY <1>9 DEF TunOn, Step, Go, Stain, Reload, Lost, BlemishTyped
  <2>3. (TunNeedsKernel /\ RequestIsOwn /\ ConnectShows)'
    BY <1>9 DEF TunOn, Step, Go, Stain, Reload, Lost, TunNeedsKernel,
       RequestIsOwn, ConnectShows
  <2>4. Privileged'
    BY <1>9 DEF TunOn, Step, Go, Stain, Reload, Lost, TunNeedsKernel,
       RequestIsOwn, ConnectShows, Privileged
  <2>5. OthersAreTheUsers'
    BY <1>9 DEF TunOn, Step, Go, Stain, Reload, Lost, OthersAreTheUsers
  <2>6. GivenBack'
    BY <1>9 DEF TunOn, Step, Go, Stain, Reload, Lost, OthersAreTheUsers,
       GivenBack, Locked
  <2>7. ShownIsInEffect'
    BY <1>9 DEF TunOn, Step, Go, Stain, Reload, Lost, TunNeedsKernel,
       RequestIsOwn, ConnectShows, Privileged, OthersAreTheUsers,
       ShownIsInEffect, Progress, SomeMode, InEffect, ProxyIs, DnsIs, ToTun,
       Locked
  <2> QED BY <2>1, <2>2, <2>3, <2>4, <2>5, <2>6, <2>7
<1>10. CASE Activate
  <2>1. (ControlTyped /\ RuntimeTyped /\ SessionsTyped)'
    <3>1. ControlTyped'
      BY <1>10 DEF Activate, Step, Go, Return, Stain, DnsActivate, Lost
    <3>2. RuntimeTyped'
      BY <1>10 DEF Activate, Step, Go, Return, Stain, DnsActivate, Lost
    <3>3. SessionsTyped'
      BY <1>10 DEF Activate, Step, Go, Return, Stain, DnsActivate, Lost
    <3> QED BY <3>1, <3>2, <3>3
  <2>2. BlemishTyped'
    BY <1>10 DEF Activate, Step, Go, Return, Stain, DnsActivate, Lost,
       BlemishTyped
  <2>3. (TunNeedsKernel /\ RequestIsOwn /\ ConnectShows)'
    BY <1>10 DEF Activate, Step, Go, Return, Stain, DnsActivate, Lost,
       TunNeedsKernel, RequestIsOwn, ConnectShows
  <2>4. Privileged'
    BY <1>10 DEF Activate, Step, Go, Return, Stain, DnsActivate, Lost,
       TunNeedsKernel, RequestIsOwn, ConnectShows, Privileged
  <2>5. OthersAreTheUsers'
    BY <1>10 DEF Activate, Step, Go, Return, Stain, DnsActivate, Lost,
       OthersAreTheUsers
  <2>6. GivenBack'
    BY <1>10 DEF Activate, Step, Go, Return, Stain, DnsActivate, Lost,
       OthersAreTheUsers, GivenBack, Locked
  <2>7. ShownIsInEffect'
    BY <1>10 DEF Activate, Step, Go, Return, Stain, DnsActivate, Lost,
       TunNeedsKernel, RequestIsOwn, ConnectShows, Privileged,
       OthersAreTheUsers, ShownIsInEffect, Progress, SomeMode, InEffect,
       ProxyIs, DnsIs, ToTun, Locked
  <2> QED BY <2>1, <2>2, <2>3, <2>4, <2>5, <2>6, <2>7
<1>11. CASE UndoDns
  <2>1. (ControlTyped /\ RuntimeTyped /\ SessionsTyped)'
    <3>1. ControlTyped'
      BY <1>11 DEF UndoDns, Step, Go, TunFails, Back, Return, Stain,
         DnsDisable
    <3>2. RuntimeTyped'
      BY <1>11 DEF UndoDns, Step, Go, TunFails, Back, Return, Stain,
         DnsDisable
    <3>3. SessionsTyped'
      BY <1>11 DEF UndoDns, Step, Go, TunFails, Back, Return, Stain,
         DnsDisable
    <3> QED BY <3>1, <3>2, <3>3
  <2>2. BlemishTyped'
    BY <1>11 DEF UndoDns, Step, Go, TunFails, Back, Return, Stain, DnsDisable,
       BlemishTyped
  <2>3. (TunNeedsKernel /\ RequestIsOwn /\ ConnectShows)'
    BY <1>11 DEF UndoDns, Step, Go, TunFails, Back, Return, Stain, DnsDisable,
       TunNeedsKernel, RequestIsOwn, ConnectShows
  <2>4. Privileged'
    BY <1>11 DEF UndoDns, Step, Go, TunFails, Back, Return, Stain, DnsDisable,
       TunNeedsKernel, RequestIsOwn, ConnectShows, Privileged
  <2>5. OthersAreTheUsers'
    BY <1>11 DEF UndoDns, Step, Go, TunFails, Back, Return, Stain, DnsDisable,
       OthersAreTheUsers
  <2>6. GivenBack'
    BY <1>11 DEF UndoDns, Step, Go, TunFails, Back, Return, Stain, DnsDisable,
       OthersAreTheUsers, GivenBack, Locked
  <2>7. ShownIsInEffect'
    BY <1>11 DEF UndoDns, Step, Go, TunFails, Back, Return, Stain, DnsDisable,
       TunNeedsKernel, RequestIsOwn, ConnectShows, Privileged,
       OthersAreTheUsers, ShownIsInEffect, Progress, SomeMode, InEffect,
       ProxyIs, DnsIs, ToTun, Locked
  <2> QED BY <2>1, <2>2, <2>3, <2>4, <2>5, <2>6, <2>7
<1>12. CASE UndoTun
  <2>1. (ControlTyped /\ RuntimeTyped /\ SessionsTyped)'
    <3>1. ControlTyped'
      BY <1>12 DEF UndoTun, Step, TunFails, Back, Return, Stain, Reload
    <3>2. RuntimeTyped'
      BY <1>12 DEF UndoTun, Step, TunFails, Back, Return, Stain, Reload
    <3>3. SessionsTyped'
      BY <1>12 DEF UndoTun, Step, TunFails, Back, Return, Stain, Reload
    <3> QED BY <3>1, <3>2, <3>3
  <2>2. BlemishTyped'
    BY <1>12 DEF UndoTun, Step, TunFails, Back, Return, Stain, Reload,
       BlemishTyped
  <2>3. (TunNeedsKernel /\ RequestIsOwn /\ ConnectShows)'
    BY <1>12 DEF UndoTun, Step, TunFails, Back, Return, Stain, Reload,
       TunNeedsKernel, RequestIsOwn, ConnectShows
  <2>4. Privileged'
    BY <1>12 DEF UndoTun, Step, TunFails, Back, Return, Stain, Reload,
       TunNeedsKernel, RequestIsOwn, ConnectShows, Privileged
  <2>5. OthersAreTheUsers'
    BY <1>12 DEF UndoTun, Step, TunFails, Back, Return, Stain, Reload,
       OthersAreTheUsers
  <2>6. GivenBack'
    BY <1>12 DEF UndoTun, Step, TunFails, Back, Return, Stain, Reload,
       OthersAreTheUsers, GivenBack, Locked
  <2>7. ShownIsInEffect'
    BY <1>12 DEF UndoTun, Step, TunFails, Back, Return, Stain, Reload,
       TunNeedsKernel, RequestIsOwn, ConnectShows, Privileged,
       OthersAreTheUsers, ShownIsInEffect, Progress, SomeMode, InEffect,
       ProxyIs, DnsIs, ToTun, Locked
  <2> QED BY <2>1, <2>2, <2>3, <2>4, <2>5, <2>6, <2>7
<1>13. CASE Finish
  <2>1. (ControlTyped /\ RuntimeTyped /\ SessionsTyped)'
    <3>1. ControlTyped'
      BY <1>13 DEF Finish, ModeIdle, RequestIsOwn
    <3>2. RuntimeTyped'
      BY <1>13 DEF Finish, ModeIdle, RequestIsOwn
    <3>3. SessionsTyped'
      BY <1>13 DEF Finish, ModeIdle, RequestIsOwn
    <3> QED BY <3>1, <3>2, <3>3
  <2>2. BlemishTyped'
    BY <1>13 DEF Finish, ModeIdle, BlemishTyped
  <2>3. (TunNeedsKernel /\ RequestIsOwn /\ ConnectShows)'
    BY <1>13 DEF Finish, ModeIdle, TunNeedsKernel, RequestIsOwn, ConnectShows
  <2>4. Privileged'
    BY <1>13 DEF Finish, ModeIdle, TunNeedsKernel, RequestIsOwn, ConnectShows,
       Privileged
  <2>5. OthersAreTheUsers'
    BY <1>13 DEF Finish, ModeIdle, OthersAreTheUsers
  <2>6. GivenBack'
    BY <1>13 DEF Finish, ModeIdle, OthersAreTheUsers, GivenBack, Locked
  <2>7. ShownIsInEffect'
    BY <1>13 DEF Finish, ModeIdle, TunNeedsKernel, RequestIsOwn, ConnectShows,
       Privileged, OthersAreTheUsers, ShownIsInEffect, Progress, SomeMode,
       InEffect, ProxyIs, DnsIs, ToTun, Locked
  <2> QED BY <2>1, <2>2, <2>3, <2>4, <2>5, <2>6, <2>7
<1>14. CASE ConnectMihomo
  <2>1. (ControlTyped /\ RuntimeTyped /\ SessionsTyped)'
    <3>1. ControlTyped'
      BY <1>14 DEF ConnectMihomo
    <3>2. RuntimeTyped'
      BY <1>14 DEF ConnectMihomo
    <3>3. SessionsTyped'
      BY <1>14 DEF ConnectMihomo
    <3> QED BY <3>1, <3>2, <3>3
  <2>2. BlemishTyped'
    BY <1>14 DEF ConnectMihomo, BlemishTyped
  <2>3. (TunNeedsKernel /\ RequestIsOwn /\ ConnectShows)'
    BY <1>14 DEF ConnectMihomo, TunNeedsKernel, RequestIsOwn, ConnectShows
  <2>4. Privileged'
    BY <1>14 DEF ConnectMihomo, TunNeedsKernel, RequestIsOwn, ConnectShows,
       Privileged
  <2>5. OthersAreTheUsers'
    BY <1>14 DEF ConnectMihomo, OthersAreTheUsers
  <2>6. GivenBack'
    BY <1>14 DEF ConnectMihomo, OthersAreTheUsers, GivenBack, Locked
  <2>7. ShownIsInEffect'
    BY <1>14 DEF ConnectMihomo, TunNeedsKernel, RequestIsOwn, ConnectShows,
       Privileged, OthersAreTheUsers, ShownIsInEffect, Progress, SomeMode,
       InEffect, ProxyIs, DnsIs, ToTun, Locked
  <2> QED BY <2>1, <2>2, <2>3, <2>4, <2>5, <2>6, <2>7
<1>15. CASE ConnectStart
  <2>1. (ControlTyped /\ RuntimeTyped /\ SessionsTyped)'
    <3>1. ControlTyped'
      BY <1>15 DEF ConnectStart, Stain
    <3>2. RuntimeTyped'
      BY <1>15 DEF ConnectStart, Stain
    <3>3. SessionsTyped'
      BY <1>15 DEF ConnectStart, Stain
    <3> QED BY <3>1, <3>2, <3>3
  <2>2. BlemishTyped'
    BY <1>15 DEF ConnectStart, Stain, BlemishTyped
  <2>3. (TunNeedsKernel /\ RequestIsOwn /\ ConnectShows)'
    BY <1>15 DEF ConnectStart, Stain, TunNeedsKernel, RequestIsOwn,
       ConnectShows
  <2>4. Privileged'
    BY <1>15 DEF ConnectStart, Stain, TunNeedsKernel, RequestIsOwn,
       ConnectShows, Privileged
  <2>5. OthersAreTheUsers'
    BY <1>15 DEF ConnectStart, Stain, OthersAreTheUsers
  <2>6. GivenBack'
    BY <1>15 DEF ConnectStart, Stain, OthersAreTheUsers, GivenBack, Locked
  <2>7. ShownIsInEffect'
    BY <1>15 DEF ConnectStart, Stain, TunNeedsKernel, RequestIsOwn,
       ConnectShows, Privileged, OthersAreTheUsers, ShownIsInEffect, Progress,
       SomeMode, InEffect, ProxyIs, DnsIs, ToTun, Locked
  <2> QED BY <2>1, <2>2, <2>3, <2>4, <2>5, <2>6, <2>7
<1>16. CASE ConnectLoad
  <2>1. (ControlTyped /\ RuntimeTyped /\ SessionsTyped)'
    <3>1. ControlTyped'
      BY <1>16 DEF ConnectLoad, Stain
    <3>2. RuntimeTyped'
      BY <1>16 DEF ConnectLoad, Stain
    <3>3. SessionsTyped'
      BY <1>16 DEF ConnectLoad, Stain
    <3> QED BY <3>1, <3>2, <3>3
  <2>2. BlemishTyped'
    BY <1>16 DEF ConnectLoad, Stain, BlemishTyped
  <2>3. (TunNeedsKernel /\ RequestIsOwn /\ ConnectShows)'
    BY <1>16 DEF ConnectLoad, Stain, TunNeedsKernel, RequestIsOwn,
       ConnectShows
  <2>4. Privileged'
    BY <1>16 DEF ConnectLoad, Stain, TunNeedsKernel, RequestIsOwn,
       ConnectShows, Privileged
  <2>5. OthersAreTheUsers'
    BY <1>16 DEF ConnectLoad, Stain, OthersAreTheUsers
  <2>6. GivenBack'
    BY <1>16 DEF ConnectLoad, Stain, OthersAreTheUsers, GivenBack, Locked
  <2>7. ShownIsInEffect'
    BY <1>16 DEF ConnectLoad, Stain, TunNeedsKernel, RequestIsOwn,
       ConnectShows, Privileged, OthersAreTheUsers, ShownIsInEffect, Progress,
       SomeMode, InEffect, ProxyIs, DnsIs, ToTun, Locked
  <2> QED BY <2>1, <2>2, <2>3, <2>4, <2>5, <2>6, <2>7
<1>17. CASE Connected
  <2>1. (ControlTyped /\ RuntimeTyped /\ SessionsTyped)'
    <3>1. ControlTyped'
      BY <1>17 DEF Connected
    <3>2. RuntimeTyped'
      BY <1>17 DEF Connected
    <3>3. SessionsTyped'
      BY <1>17 DEF Connected
    <3> QED BY <3>1, <3>2, <3>3
  <2>2. BlemishTyped'
    BY <1>17 DEF Connected, BlemishTyped
  <2>3. (TunNeedsKernel /\ RequestIsOwn /\ ConnectShows)'
    BY <1>17 DEF Connected, TunNeedsKernel, RequestIsOwn, ConnectShows
  <2>4. Privileged'
    BY <1>17 DEF Connected, TunNeedsKernel, RequestIsOwn, ConnectShows,
       Privileged
  <2>5. OthersAreTheUsers'
    BY <1>17 DEF Connected, OthersAreTheUsers
  <2>6. GivenBack'
    BY <1>17 DEF Connected, OthersAreTheUsers, GivenBack, Locked
  <2>7. ShownIsInEffect'
    BY <1>17 DEF Connected, TunNeedsKernel, RequestIsOwn, ConnectShows,
       Privileged, OthersAreTheUsers, ShownIsInEffect, Progress, SomeMode,
       InEffect, ProxyIs, DnsIs, ToTun, Locked
  <2> QED BY <2>1, <2>2, <2>3, <2>4, <2>5, <2>6, <2>7
<1>18. CASE ConnectFailed
  <2>1. (ControlTyped /\ RuntimeTyped /\ SessionsTyped)'
    <3>1. ControlTyped'
      BY <1>18 DEF ConnectFailed
    <3>2. RuntimeTyped'
      BY <1>18 DEF ConnectFailed
    <3>3. SessionsTyped'
      BY <1>18 DEF ConnectFailed
    <3> QED BY <3>1, <3>2, <3>3
  <2>2. BlemishTyped'
    BY <1>18 DEF ConnectFailed, BlemishTyped
  <2>3. (TunNeedsKernel /\ RequestIsOwn /\ ConnectShows)'
    BY <1>18 DEF ConnectFailed, TunNeedsKernel, RequestIsOwn, ConnectShows
  <2>4. Privileged'
    BY <1>18 DEF ConnectFailed, TunNeedsKernel, RequestIsOwn, ConnectShows,
       Privileged
  <2>5. OthersAreTheUsers'
    BY <1>18 DEF ConnectFailed, OthersAreTheUsers
  <2>6. GivenBack'
    BY <1>18 DEF ConnectFailed, OthersAreTheUsers, GivenBack, Locked
  <2>7. ShownIsInEffect'
    BY <1>18 DEF ConnectFailed, TunNeedsKernel, RequestIsOwn, ConnectShows,
       Privileged, OthersAreTheUsers, ShownIsInEffect, Progress, SomeMode,
       InEffect, ProxyIs, DnsIs, ToTun, Locked
  <2> QED BY <2>1, <2>2, <2>3, <2>4, <2>5, <2>6, <2>7
<1>19. CASE FailSafeBegin
  <2>1. (ControlTyped /\ RuntimeTyped /\ SessionsTyped)'
    <3>1. ControlTyped'
      BY <1>19 DEF FailSafeBegin
    <3>2. RuntimeTyped'
      BY <1>19 DEF FailSafeBegin
    <3>3. SessionsTyped'
      BY <1>19 DEF FailSafeBegin
    <3> QED BY <3>1, <3>2, <3>3
  <2>2. BlemishTyped'
    BY <1>19 DEF FailSafeBegin, BlemishTyped
  <2>3. (TunNeedsKernel /\ RequestIsOwn /\ ConnectShows)'
    BY <1>19 DEF FailSafeBegin, TunNeedsKernel, RequestIsOwn, ConnectShows
  <2>4. Privileged'
    BY <1>19 DEF FailSafeBegin, TunNeedsKernel, RequestIsOwn, ConnectShows,
       Privileged
  <2>5. OthersAreTheUsers'
    BY <1>19 DEF FailSafeBegin, OthersAreTheUsers
  <2>6. GivenBack'
    BY <1>19 DEF FailSafeBegin, OthersAreTheUsers, GivenBack, Locked
  <2>7. ShownIsInEffect'
    BY <1>19 DEF FailSafeBegin, TunNeedsKernel, RequestIsOwn, ConnectShows,
       Privileged, OthersAreTheUsers, ShownIsInEffect, Progress, SomeMode,
       InEffect, ProxyIs, DnsIs, ToTun, Locked
  <2> QED BY <2>1, <2>2, <2>3, <2>4, <2>5, <2>6, <2>7
<1>20. CASE FailSafeEnd
  <2>1. (ControlTyped /\ RuntimeTyped /\ SessionsTyped)'
    <3>1. ControlTyped'
      BY <1>20 DEF FailSafeEnd, Stain, ProxyDisable, DnsDisable
    <3>2. RuntimeTyped'
      BY <1>20 DEF FailSafeEnd, Stain, ProxyDisable, DnsDisable
    <3>3. SessionsTyped'
      BY <1>20 DEF FailSafeEnd, Stain, ProxyDisable, DnsDisable
    <3> QED BY <3>1, <3>2, <3>3
  <2>2. BlemishTyped'
    BY <1>20 DEF FailSafeEnd, Stain, ProxyDisable, DnsDisable, BlemishTyped
  <2>3. (TunNeedsKernel /\ RequestIsOwn /\ ConnectShows)'
    BY <1>20 DEF FailSafeEnd, Stain, ProxyDisable, DnsDisable, TunNeedsKernel,
       RequestIsOwn, ConnectShows
  <2>4. Privileged'
    BY <1>20 DEF FailSafeEnd, Stain, ProxyDisable, DnsDisable, TunNeedsKernel,
       RequestIsOwn, ConnectShows, Privileged
  <2>5. OthersAreTheUsers'
    BY <1>20 DEF FailSafeEnd, Stain, ProxyDisable, DnsDisable,
       OthersAreTheUsers
  <2>6. GivenBack'
    BY <1>20 DEF FailSafeEnd, Stain, ProxyDisable, DnsDisable,
       OthersAreTheUsers, GivenBack, Locked
  <2>7. ShownIsInEffect'
    <3>1. CASE mode = "Off"
      BY <1>20, <3>1 DEF FailSafeEnd, Stain, ProxyDisable, DnsDisable,
         TunNeedsKernel, RequestIsOwn, ConnectShows, Privileged,
         OthersAreTheUsers, ShownIsInEffect, Progress, SomeMode, InEffect,
         ProxyIs, DnsIs, ToTun, Locked
    <3>2. CASE mode = "System"
      BY <1>20, <3>2 DEF FailSafeEnd, Stain, ProxyDisable, DnsDisable,
         TunNeedsKernel, RequestIsOwn, ConnectShows, Privileged,
         OthersAreTheUsers, ShownIsInEffect, Progress, SomeMode, InEffect,
         ProxyIs, DnsIs, ToTun, Locked
    <3>3. CASE mode = "Tun"
      BY <1>20, <3>3 DEF FailSafeEnd, Stain, ProxyDisable, DnsDisable,
         TunNeedsKernel, RequestIsOwn, ConnectShows, Privileged,
         OthersAreTheUsers, ShownIsInEffect, Progress, SomeMode, InEffect,
         ProxyIs, DnsIs, ToTun, Locked
    <3> QED BY <3>1, <3>2, <3>3
  <2> QED BY <2>1, <2>2, <2>3, <2>4, <2>5, <2>6, <2>7
<1>21. CASE QuitDns
  <2>1. (ControlTyped /\ RuntimeTyped /\ SessionsTyped)'
    <3>1. ControlTyped'
      BY <1>21 DEF QuitDns, Quitting, Stain, DnsDisable
    <3>2. RuntimeTyped'
      BY <1>21 DEF QuitDns, Quitting, Stain, DnsDisable
    <3>3. SessionsTyped'
      BY <1>21 DEF QuitDns, Quitting, Stain, DnsDisable
    <3> QED BY <3>1, <3>2, <3>3
  <2>2. BlemishTyped'
    BY <1>21 DEF QuitDns, Quitting, Stain, DnsDisable, BlemishTyped
  <2>3. (TunNeedsKernel /\ RequestIsOwn /\ ConnectShows)'
    BY <1>21 DEF QuitDns, Quitting, Stain, DnsDisable, TunNeedsKernel,
       RequestIsOwn, ConnectShows
  <2>4. Privileged'
    BY <1>21 DEF QuitDns, Quitting, Stain, DnsDisable, TunNeedsKernel,
       RequestIsOwn, ConnectShows, Privileged
  <2>5. OthersAreTheUsers'
    BY <1>21 DEF QuitDns, Quitting, Stain, DnsDisable, OthersAreTheUsers
  <2>6. GivenBack'
    BY <1>21 DEF QuitDns, Quitting, Stain, DnsDisable, OthersAreTheUsers,
       GivenBack, Locked
  <2>7. ShownIsInEffect'
    BY <1>21 DEF QuitDns, Quitting, Stain, DnsDisable, TunNeedsKernel,
       RequestIsOwn, ConnectShows, Privileged, OthersAreTheUsers,
       ShownIsInEffect, Progress, SomeMode, InEffect, ProxyIs, DnsIs, ToTun,
       Locked
  <2> QED BY <2>1, <2>2, <2>3, <2>4, <2>5, <2>6, <2>7
<1>22. CASE QuitTun
  <2>1. (ControlTyped /\ RuntimeTyped /\ SessionsTyped)'
    <3>1. ControlTyped'
      BY <1>22 DEF QuitTun, Quitting, Stain, Reload
    <3>2. RuntimeTyped'
      BY <1>22 DEF QuitTun, Quitting, Stain, Reload
    <3>3. SessionsTyped'
      BY <1>22 DEF QuitTun, Quitting, Stain, Reload
    <3> QED BY <3>1, <3>2, <3>3
  <2>2. BlemishTyped'
    BY <1>22 DEF QuitTun, Quitting, Stain, Reload, BlemishTyped
  <2>3. (TunNeedsKernel /\ RequestIsOwn /\ ConnectShows)'
    BY <1>22 DEF QuitTun, Quitting, Stain, Reload, TunNeedsKernel,
       RequestIsOwn, ConnectShows
  <2>4. Privileged'
    BY <1>22 DEF QuitTun, Quitting, Stain, Reload, TunNeedsKernel,
       RequestIsOwn, ConnectShows, Privileged
  <2>5. OthersAreTheUsers'
    BY <1>22 DEF QuitTun, Quitting, Stain, Reload, OthersAreTheUsers
  <2>6. GivenBack'
    BY <1>22 DEF QuitTun, Quitting, Stain, Reload, OthersAreTheUsers,
       GivenBack, Locked
  <2>7. ShownIsInEffect'
    BY <1>22 DEF QuitTun, Quitting, Stain, Reload, TunNeedsKernel,
       RequestIsOwn, ConnectShows, Privileged, OthersAreTheUsers,
       ShownIsInEffect, Progress, SomeMode, InEffect, ProxyIs, DnsIs, ToTun,
       Locked
  <2> QED BY <2>1, <2>2, <2>3, <2>4, <2>5, <2>6, <2>7
<1>23. CASE QuitSystem
  <2>1. (ControlTyped /\ RuntimeTyped /\ SessionsTyped)'
    <3>1. ControlTyped'
      BY <1>23 DEF QuitSystem, Quitting, Stain, ProxyDisable
    <3>2. RuntimeTyped'
      BY <1>23 DEF QuitSystem, Quitting, Stain, ProxyDisable
    <3>3. SessionsTyped'
      BY <1>23 DEF QuitSystem, Quitting, Stain, ProxyDisable
    <3> QED BY <3>1, <3>2, <3>3
  <2>2. BlemishTyped'
    BY <1>23 DEF QuitSystem, Quitting, Stain, ProxyDisable, BlemishTyped
  <2>3. (TunNeedsKernel /\ RequestIsOwn /\ ConnectShows)'
    BY <1>23 DEF QuitSystem, Quitting, Stain, ProxyDisable, TunNeedsKernel,
       RequestIsOwn, ConnectShows
  <2>4. Privileged'
    BY <1>23 DEF QuitSystem, Quitting, Stain, ProxyDisable, TunNeedsKernel,
       RequestIsOwn, ConnectShows, Privileged
  <2>5. OthersAreTheUsers'
    BY <1>23 DEF QuitSystem, Quitting, Stain, ProxyDisable, OthersAreTheUsers
  <2>6. GivenBack'
    BY <1>23 DEF QuitSystem, Quitting, Stain, ProxyDisable, OthersAreTheUsers,
       GivenBack, Locked
  <2>7. ShownIsInEffect'
    BY <1>23 DEF QuitSystem, Quitting, Stain, ProxyDisable, TunNeedsKernel,
       RequestIsOwn, ConnectShows, Privileged, OthersAreTheUsers,
       ShownIsInEffect, Progress, SomeMode, InEffect, ProxyIs, DnsIs, ToTun,
       Locked
  <2> QED BY <2>1, <2>2, <2>3, <2>4, <2>5, <2>6, <2>7
<1>24. CASE QuitStop
  <2>1. (ControlTyped /\ RuntimeTyped /\ SessionsTyped)'
    <3>1. ControlTyped'
      BY <1>24 DEF QuitStop, Quitting, Stain
    <3>2. RuntimeTyped'
      BY <1>24 DEF QuitStop, Quitting, Stain
    <3>3. SessionsTyped'
      BY <1>24 DEF QuitStop, Quitting, Stain
    <3> QED BY <3>1, <3>2, <3>3
  <2>2. BlemishTyped'
    BY <1>24 DEF QuitStop, Quitting, Stain, BlemishTyped
  <2>3. (TunNeedsKernel /\ RequestIsOwn /\ ConnectShows)'
    BY <1>24 DEF QuitStop, Quitting, Stain, TunNeedsKernel, RequestIsOwn,
       ConnectShows
  <2>4. Privileged'
    BY <1>24 DEF QuitStop, Quitting, Stain, TunNeedsKernel, RequestIsOwn,
       ConnectShows, Privileged
  <2>5. OthersAreTheUsers'
    BY <1>24 DEF QuitStop, Quitting, Stain, OthersAreTheUsers
  <2>6. GivenBack'
    BY <1>24 DEF QuitStop, Quitting, Stain, OthersAreTheUsers, GivenBack,
       Locked
  <2>7. ShownIsInEffect'
    BY <1>24 DEF QuitStop, Quitting, Stain, TunNeedsKernel, RequestIsOwn,
       ConnectShows, Privileged, OthersAreTheUsers, ShownIsInEffect, Progress,
       SomeMode, InEffect, ProxyIs, DnsIs, ToTun, Locked
  <2> QED BY <2>1, <2>2, <2>3, <2>4, <2>5, <2>6, <2>7
<1>25. CASE KernelExits
  <2>1. (ControlTyped /\ RuntimeTyped /\ SessionsTyped)'
    <3>1. ControlTyped'
      BY <1>25 DEF KernelExits
    <3>2. RuntimeTyped'
      BY <1>25 DEF KernelExits
    <3>3. SessionsTyped'
      BY <1>25 DEF KernelExits
    <3> QED BY <3>1, <3>2, <3>3
  <2>2. BlemishTyped'
    BY <1>25 DEF KernelExits, BlemishTyped
  <2>3. (TunNeedsKernel /\ RequestIsOwn /\ ConnectShows)'
    BY <1>25 DEF KernelExits, TunNeedsKernel, RequestIsOwn, ConnectShows
  <2>4. Privileged'
    BY <1>25 DEF KernelExits, TunNeedsKernel, RequestIsOwn, ConnectShows,
       Privileged
  <2>5. OthersAreTheUsers'
    BY <1>25 DEF KernelExits, OthersAreTheUsers
  <2>6. GivenBack'
    BY <1>25 DEF KernelExits, OthersAreTheUsers, GivenBack, Locked
  <2>7. ShownIsInEffect'
    BY <1>25 DEF KernelExits, TunNeedsKernel, RequestIsOwn, ConnectShows,
       Privileged, OthersAreTheUsers, ShownIsInEffect, Progress, SomeMode,
       InEffect, ProxyIs, DnsIs, ToTun, Locked
  <2> QED BY <2>1, <2>2, <2>3, <2>4, <2>5, <2>6, <2>7
<1>26. CASE Gone \/ UNCHANGED vars
  <2>1. (ControlTyped /\ RuntimeTyped /\ SessionsTyped)'
    <3>1. ControlTyped'
      BY <1>26 DEF Gone, vars
    <3>2. RuntimeTyped'
      BY <1>26 DEF Gone, vars
    <3>3. SessionsTyped'
      BY <1>26 DEF Gone, vars
    <3> QED BY <3>1, <3>2, <3>3
  <2>2. BlemishTyped'
    BY <1>26 DEF Gone, vars, BlemishTyped
  <2>3. (TunNeedsKernel /\ RequestIsOwn /\ ConnectShows)'
    BY <1>26 DEF Gone, vars, TunNeedsKernel, RequestIsOwn, ConnectShows
  <2>4. Privileged'
    BY <1>26 DEF Gone, vars, TunNeedsKernel, RequestIsOwn, ConnectShows,
       Privileged
  <2>5. OthersAreTheUsers'
    BY <1>26 DEF Gone, vars, OthersAreTheUsers
  <2>6. GivenBack'
    BY <1>26 DEF Gone, vars, OthersAreTheUsers, GivenBack, Locked
  <2>7. ShownIsInEffect'
    BY <1>26 DEF Gone, vars, TunNeedsKernel, RequestIsOwn, ConnectShows,
       Privileged, OthersAreTheUsers, ShownIsInEffect, Progress, SomeMode,
       InEffect, ProxyIs, DnsIs, ToTun, Locked
  <2> QED BY <2>1, <2>2, <2>3, <2>4, <2>5, <2>6, <2>7
<1>27. CASE FailSafeMisreads
  <2>1. (ControlTyped /\ RuntimeTyped /\ SessionsTyped)'
    <3>1. ControlTyped'
      BY <1>27 DEF FailSafeMisreads, Stain
    <3>2. RuntimeTyped'
      BY <1>27 DEF FailSafeMisreads, Stain
    <3>3. SessionsTyped'
      BY <1>27 DEF FailSafeMisreads, Stain
    <3> QED BY <3>1, <3>2, <3>3
  <2>2. BlemishTyped'
    BY <1>27 DEF FailSafeMisreads, Stain, BlemishTyped
  <2>3. (TunNeedsKernel /\ RequestIsOwn /\ ConnectShows)'
    BY <1>27 DEF FailSafeMisreads, Stain, TunNeedsKernel, RequestIsOwn, ConnectShows
  <2>4. Privileged'
    BY <1>27 DEF FailSafeMisreads, Stain, TunNeedsKernel, RequestIsOwn, ConnectShows,
       Privileged
  <2>5. OthersAreTheUsers'
    BY <1>27 DEF FailSafeMisreads, Stain, OthersAreTheUsers
  <2>6. GivenBack'
    BY <1>27 DEF FailSafeMisreads, Stain, OthersAreTheUsers, GivenBack, Locked
  <2>7. ShownIsInEffect'
    BY <1>27 DEF FailSafeMisreads, Stain, TunNeedsKernel, RequestIsOwn, ConnectShows,
       Privileged, OthersAreTheUsers, ShownIsInEffect, Progress, SomeMode,
       InEffect, ProxyIs, DnsIs, ToTun, Locked
  <2> QED BY <2>1, <2>2, <2>3, <2>4, <2>5, <2>6, <2>7
<1> QED
    BY <1>1, <1>2, <1>3, <1>4, <1>5, <1>6, <1>7, <1>8, <1>9, <1>10, <1>11,
       <1>12, <1>13, <1>14, <1>15, <1>16, <1>17, <1>18, <1>19, <1>20, <1>21,
       <1>22, <1>23, <1>24, <1>25, <1>26, <1>27 DEF Next, TransitionSteps,
       QuitSteps

\* In every reachable state, wherever the transition, the connect, a handler
\* and quitting stand and whatever call has failed.
THEOREM ModeInvariant == Spec => []ModeInv
<1> QED BY ModeInit, ModeStep, PTL DEF Spec

\* The mode shown is the mode in effect: once no transition and no connect is
\* under way, what the tray shows is what the desktop's proxy, its resolvers
\* and the kernel's TUN are, unless a call that cleans up had failed, a connect
\* had overlapped a transition, or a health check had taken a running TUN kernel
\* for a stopped one.
THEOREM ModeIsHonest == Spec => []HonestMode
<1>1. ModeInv => HonestMode
    BY DEF ModeInv, ModeTypeOK, ControlTyped, Mode, ShownIsInEffect, InEffect,
      ProxyIs, DnsIs, HonestMode, Settled, Honest
<1> QED BY <1>1, ModeInvariant, PTL

\* Quitting gives everything back: when the application has gone, the proxy
\* settings and the resolvers are the user's and the kernel is stopped, unless
\* a call of the quitting failed or a transition began only then.
THEOREM QuitGivesBack == Spec => []QuitRestores
<1>1. ModeInv => QuitRestores
    BY DEF ModeInv, GivenBack, QuitRestores
<1> QED BY <1>1, ModeInvariant, PTL
=============================================================================
