-------------------------------- MODULE TunDns --------------------------------
(***************************************************************************)
(* TunDnsSession: the resolver that TUN needs, set for the network service *)
(* of the default route on macOS, and for the link of the TUN device by a  *)
(* helper with root rights on Linux.  One step is one command; each may    *)
(* fail, and the application may end between two.                          *)
(***************************************************************************)
CONSTANTS Services,   \* network services of macOS
          Resolver,   \* resolvers that the user may have set, Empty among them
          Ours114,    \* TUN_DNS_SERVER
          NoRecord    \* no recovery file, or nothing remembered

\* Contents of a recovery file: a service with its resolvers on macOS, the
\* name of the TUN device on Linux.
FileContents ==
  [service : Services \union {"Meta"}, servers : Resolver \union {Ours114, "none"}]

ASSUME NoRecordAssumption == NoRecord \notin FileContents

VARIABLES
  os,          \* macos or linux
  resolvers,   \* the resolvers of each service
  chosen,      \* history: the resolvers as the user last left them
  link,        \* the TUN device: absent, plain, server (set), routed (domain, too)
  tunFile,     \* contents of tun-dns.recovery
  tunSession,  \* TunDnsSession
  tunCall,     \* the running call: its stage and purpose
  tunGone      \* history: how a recovery file became worthless

tunDnsVars == <<os, resolvers, chosen, link, tunFile, tunSession, tunCall, tunGone>>
Outside == <<os, chosen>>

Unprepared == [previous |-> NoRecord, prepared |-> FALSE, applied |-> FALSE]
Turns(stage, why) == tunCall' = [at |-> stage, why |-> why]
TurnsIdle == Turns("idle", "none")
Record(service, servers) == [service |-> service, servers |-> servers]

TunDnsInit ==
  /\ os \in {"macos", "linux"}
  /\ resolvers \in [Services -> Resolver]
  /\ os = "linux" => \A s, t \in Services : resolvers[s] = resolvers[t]
  /\ chosen = resolvers /\ link = "absent"
  /\ tunFile = NoRecord /\ tunSession = Unprepared /\ tunGone = {}
  /\ tunCall = [at |-> "down", why |-> "none"]

-----------------------------------------------------------------------------
(* Restoring, and the end of a call                                        *)

\* recover_stale_with_language at the launch: what the file names is restored.
RecoverStale ==
  /\ tunCall.at = "down"
  /\ \/ TurnsIdle /\ UNCHANGED tunSession
     \/ /\ tunFile # NoRecord /\ Turns("restore", "recover")
        /\ tunSession' = [Unprepared EXCEPT !.previous = tunFile]
  /\ UNCHANGED <<Outside, resolvers, link, tunFile, tunGone>>

\* Mutant: the helper's error is ignored, the file deleted.
RestoreDnsUnchecked ==
  /\ tunCall.at = "restore"
  /\ \/ /\ os = "macos"
        /\ resolvers' = [resolvers EXCEPT ![tunSession.previous.service] =
                                            tunSession.previous.servers]
        /\ UNCHANGED link
     \/ /\ os = "linux" /\ link' = (IF link = "absent" THEN "absent" ELSE "plain")
        /\ UNCHANGED resolvers
     \/ UNCHANGED <<resolvers, link>>
  /\ Turns("delete", tunCall.why)
  /\ UNCHANGED <<Outside, tunFile, tunSession, tunGone>>

\* restore_tun_dns: networksetup, or the helper's `revert` where the device
\* still exists.
RestoreDns ==
  /\ tunCall.at = "restore"
  /\ \/ /\ os = "macos" /\ Turns("delete", tunCall.why)
        /\ resolvers' = [resolvers EXCEPT ![tunSession.previous.service] =
                                            tunSession.previous.servers]
        /\ UNCHANGED link
     \/ /\ os = "linux" /\ Turns("flush", tunCall.why)
        /\ link' = (IF link = "absent" THEN "absent" ELSE "plain")
        /\ UNCHANGED resolvers
     \/ TurnsIdle /\ UNCHANGED <<resolvers, link>>
  /\ UNCHANGED <<Outside, tunFile, tunSession, tunGone>>

\* The helper's last command, also of `install`, where a failure reverts.
FlushCaches ==
  /\ tunCall.at = "flush"
  /\ IF tunCall.why = "activate" THEN TurnsIdle \/ Turns("revert", "activate")
                                 ELSE TurnsIdle \/ Turns("delete", tunCall.why)
  /\ UNCHANGED <<Outside, resolvers, link, tunFile, tunSession, tunGone>>

\* The end of disable_with_language and of recover_stale_tun_dns.
DeleteRecord ==
  /\ tunCall.at = "delete"
  /\ \/ TurnsIdle /\ UNCHANGED <<tunFile, tunSession>>
     \/ /\ tunFile' = NoRecord /\ tunSession' = Unprepared
        /\ IF tunCall.why = "prepare" THEN Turns("prepare", "none") ELSE TurnsIdle
  /\ UNCHANGED <<Outside, resolvers, link, tunGone>>

-----------------------------------------------------------------------------
(* prepare_with_language, activate_with_language, disable_with_language    *)

AbandonTun(why) == Turns(IF tunSession.applied THEN "restore" ELSE "delete", why)
HoldsDns == tunSession.prepared \/ tunSession.applied

PrepareTunDns ==
  /\ tunCall.at = "idle"
  /\ IF HoldsDns THEN AbandonTun("prepare") ELSE Turns("prepare", "none")
  /\ UNCHANGED <<Outside, resolvers, link, tunFile, tunSession, tunGone>>

\* prepare_tun_dns: the recovery file comes first.  On macOS it names the service
\* of the default route, which any may be.
WriteRecord ==
  /\ tunCall.at = "prepare" /\ TurnsIdle
  /\ \/ UNCHANGED <<tunFile, tunSession, tunGone>>
     \/ \E s \in Services :
          /\ tunFile' = IF os = "macos" THEN Record(s, resolvers[s])
                                        ELSE Record("Meta", "none")
          /\ tunSession' = [previous |-> tunFile', prepared |-> TRUE, applied |-> FALSE]
          /\ tunGone' = tunGone \union
               (IF tunFile # NoRecord THEN {"overwritten"} ELSE {})
  /\ UNCHANGED <<Outside, resolvers, link>>

\* The session counts as applied before the first command, so that giving up
\* restores whatever the command has done.  The Linux helper may not be allowed
\* to run, and installs nothing without the device.
ActivateTunDns ==
  /\ tunCall.at = "idle" /\ tunSession.prepared
  /\ tunSession' = [tunSession EXCEPT !.applied = TRUE]
  /\ \/ os = "linux" /\ TurnsIdle
     \/ /\ os = "macos" \/ link # "absent"
        /\ Turns("install", "activate")
  /\ UNCHANGED <<Outside, resolvers, link, tunFile, tunGone>>

\* apply_tun_dns on macOS, the helper's first command on Linux.
InstallServer ==
  /\ tunCall.at = "install"
  /\ \/ /\ os = "macos" /\ TurnsIdle
        /\ resolvers' = [resolvers EXCEPT ![tunSession.previous.service] = Ours114]
        /\ UNCHANGED link
     \/ /\ os = "linux" /\ link # "absent"
        /\ link' = (IF link = "routed" THEN "routed" ELSE "server")
        /\ Turns("domain", "activate") /\ UNCHANGED resolvers
     \/ TurnsIdle /\ UNCHANGED <<resolvers, link>>
  /\ UNCHANGED <<Outside, tunFile, tunSession, tunGone>>

\* The second command routes every name to the link; a failure reverts.
RouteDomain ==
  /\ tunCall.at = "domain"
  /\ \/ link # "absent" /\ link' = "routed" /\ Turns("flush", "activate")
     \/ UNCHANGED link /\ Turns("revert", "activate")
  /\ UNCHANGED <<Outside, resolvers, tunFile, tunSession, tunGone>>

\* with_rollback: the link is reverted, or RollbackFailed says that it is not.
Revert ==
  /\ tunCall.at = "revert" /\ TurnsIdle
  /\ \/ link' = (IF link = "absent" THEN "absent" ELSE "plain")
     \/ UNCHANGED link
  /\ UNCHANGED <<Outside, resolvers, tunFile, tunSession, tunGone>>

DisableTunDns ==
  /\ tunCall.at = "idle" /\ HoldsDns
  /\ AbandonTun("disable")
  /\ UNCHANGED <<Outside, resolvers, link, tunFile, tunSession, tunGone>>

-----------------------------------------------------------------------------
(* Around the session                                                      *)

\* require_linux_dns_rebind, after a rollback has switched TUN on again: it asks
\* the helper past the session, and a mode switch may have ended that before.
Rebind ==
  /\ os = "linux" /\ tunCall.at # "down" /\ link # "absent"
  /\ link' \in {"absent", "plain", "server", "routed"}
  /\ tunGone' = tunGone \union
       (IF tunCall.at # "idle" \/ ~tunSession.applied THEN {"rebound"} ELSE {})
  /\ UNCHANGED <<Outside, resolvers, tunFile, tunSession, tunCall>>

\* The kernel creates its device, or it disappears with TUN or the kernel.
LinkAppears ==
  /\ os = "linux" /\ link = "absent" /\ link' = "plain"
  /\ UNCHANGED <<Outside, resolvers, tunFile, tunSession, tunCall, tunGone>>
LinkDisappears ==
  /\ link # "absent" /\ link' = "absent"
  /\ UNCHANGED <<Outside, resolvers, tunFile, tunSession, tunCall, tunGone>>

UserSetsDns == \E s \in Services, r \in Resolver :
  /\ os = "macos" /\ tunCall.at \in {"down", "idle"}
  /\ resolvers' = [resolvers EXCEPT ![s] = r] /\ chosen' = [chosen EXCEPT ![s] = r]
  /\ tunGone' = tunGone \union
       (IF tunFile # NoRecord /\ tunFile.service = s THEN {"edited"} ELSE {})
  /\ UNCHANGED <<os, link, tunFile, tunSession, tunCall>>

ManisEnds ==
  /\ tunCall.at # "down" /\ Turns("down", "none") /\ tunSession' = Unprepared
  /\ UNCHANGED <<Outside, resolvers, link, tunFile, tunGone>>

TunDnsNext ==
  \/ RecoverStale \/ RestoreDns \/ FlushCaches \/ DeleteRecord \/ PrepareTunDns
  \/ WriteRecord \/ ActivateTunDns \/ InstallServer \/ RouteDomain \/ Revert
  \/ DisableTunDns \/ Rebind \/ LinkAppears \/ LinkDisappears
  \/ UserSetsDns \/ ManisEnds
TunDnsSpec == TunDnsInit /\ [][TunDnsNext]_tunDnsVars

-----------------------------------------------------------------------------
\* Whatever command fails and wherever the application ends, a resolver that
\* is not the user's has a recovery file that names it: on macOS with the
\* resolvers to put back, on Linux so that the link is reverted at the next
\* chance.  Excepted are a file that was overwritten after a failed recovery,
\* resolvers edited under a file, and a rebind past a session that has ended
\* (TunDnsSession, linux.rs, macos.rs and the Linux helper).
DnsComesBack ==
  \/ tunGone # {}
  \/ /\ \A s \in Services :
          resolvers[s] = chosen[s] \/ tunFile = Record(s, chosen[s])
     /\ link \in {"server", "routed"} => tunFile # NoRecord
=============================================================================
