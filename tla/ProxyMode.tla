----------------------------- MODULE ProxyMode ------------------------------
(***************************************************************************)
(* Switching between no proxy, the system proxy and TUN: the handlers of   *)
(* ManisApp on the UI thread, the transition and the connect that run in   *)
(* the background, the two desktop sessions, and the managed kernel, which *)
(* may die at any time.                                                    *)
(*                                                                         *)
(* A running transition holds the locks of both sessions; a handler that   *)
(* needs one of them waits.  The kernel's manager is behind a lock that is *)
(* held only for one step.  The sessions are those of macOS, seen from     *)
(* outside: SystemProxy opens one of them up, and Engine the manager.      *)
(***************************************************************************)
VARIABLES
  mode,        \* ManisApp.proxy_mode
  busy,        \* ManisApp.proxy_mode_busy
  controller,  \* ManisApp.controller
  polling,     \* whether live_generation has a poll_live_runtime chain
  ui,          \* where a handler of the UI thread waits for a lock
  stage,       \* where the background transition stands
  from,        \* the mode it started from
  leg,         \* going forward, rolling back, or redoing the DNS
  result,      \* what it returns
  connect,     \* the background connect
  seen,        \* tun.enable in the snapshot that it loaded
  kernel,      \* the managed kernel; "exited" until the manager reaps it
  tunnel,      \* tun.enable of the kernel
  promoted,    \* ControllerRuntime::Managed.privileged
  proxy,       \* SystemProxySession: what .previous holds while .applied
  desktop,     \* "manis" while any of the proxy settings is taken over
  dns,         \* TunDnsSession: idle, prepared, applied
  resolver,    \* the desktop's DNS servers
  blemish      \* history: what went wrong or overlapped so far

uiVars == <<mode, busy, controller, polling, ui>>
transition == <<stage, from, leg, result>>
connecting == <<connect, seen>>
runtime == <<kernel, tunnel, promoted>>
sessions == <<proxy, desktop, dns, resolver>>
vars == <<uiVars, transition, connecting, runtime, sessions, blemish>>

Mode == {"Off", "System", "Tun"}
Stage == {"none", "queued", "sysOff", "sysOn", "dnsOff", "tunOff",
          "dnsPrepare", "promote", "tunOn", "dnsActivate", "undoDns",
          "undoActivate", "undoTun", "done"}

Init ==
  /\ mode = "Off" /\ busy = "none" /\ controller = "Disconnected"
  /\ polling = "no" /\ ui = "idle"
  /\ stage = "none" /\ from = "Off" /\ leg = "forward" /\ result = "ok"
  /\ connect = "none" /\ seen = "off"
  /\ kernel = "down" /\ tunnel = "off" /\ promoted = "no"
  /\ proxy = "none" /\ desktop = "user"
  /\ dns = "idle" /\ resolver = "user"
  /\ blemish = {}

Stain(kind) == blemish' = blemish \union kind
Locked == stage \notin {"none", "queued", "done"}

-----------------------------------------------------------------------------
(* The sessions and the runtime, one call each.  Every call says whether   *)
(* it succeeds; each of them leaves blemish to its caller.                 *)

\* SystemProxySession::disable_with_language.
ProxyDisable(ok) ==
  IF proxy = "none"
    THEN ok /\ UNCHANGED <<proxy, desktop>>
    ELSE \/ ok /\ desktop' = proxy /\ proxy' = "none"
         \/ /\ ~ok
            /\ desktop' \in {desktop, proxy}
            /\ UNCHANGED proxy

\* SystemProxySession::enable_with_language.  A takeover that is applied is
\* undone first; a takeover whose own rollback fails leaves settings behind.
ProxyEnable(ok) ==
  LET before == IF proxy = "none" THEN desktop ELSE proxy IN
  \/ ok /\ desktop' = "manis" /\ proxy' = before
  \/ ~ok /\ desktop' \in {desktop, before} /\ UNCHANGED proxy
  \/ ~ok /\ desktop' \in {before, "manis"} /\ proxy' = "none"

\* TunDnsSession::disable_with_language.
DnsDisable(ok) ==
  \/ /\ ok
     /\ dns' = "idle"
     /\ resolver' = IF dns = "applied" THEN "user" ELSE resolver
  \/ /\ ~ok
     /\ dns # "idle"
     /\ resolver' \in {resolver, IF dns = "applied" THEN "user" ELSE resolver}
     /\ UNCHANGED dns

\* TunDnsSession::prepare_with_language.
DnsPrepare(ok) ==
  \/ /\ ok
     /\ dns' = "prepared"
     /\ resolver' = IF dns = "applied" THEN "user" ELSE resolver
  \/ /\ ~ok
     /\ DnsDisable(TRUE) \/ DnsDisable(FALSE)

\* TunDnsSession::activate_with_language: applied is set before the command.
DnsActivate(ok) ==
  /\ dns' = "applied"
  /\ resolver' = IF ok THEN "tun" ELSE resolver

\* set_tun_enabled up to and with prepare_tun_activation: the first time the
\* kernel is replaced by a privileged one, or by the old one when that fails.
Promote(ok) ==
  IF promoted = "yes"
    THEN ok /\ UNCHANGED runtime
    ELSE \/ ~ok /\ UNCHANGED runtime
         \/ ~ok /\ kernel = "exited" /\ kernel' = "down"
            /\ UNCHANGED <<tunnel, promoted>>
         \/ /\ kernel # "exited"
            /\ tunnel' = "off"
            /\ \/ ok /\ kernel' = "up" /\ promoted' = "yes"
               \/ ~ok /\ kernel' \in {"down", kernel} /\ UNCHANGED promoted

\* The rest of set_tun_enabled: the configuration is put and read back.
Reload(enabled, ok) ==
  \/ ok /\ kernel = "up" /\ tunnel' = enabled /\ UNCHANGED <<kernel, promoted>>
  \/ /\ ~ok
     /\ kernel' \in {kernel, IF kernel = "exited" THEN "down" ELSE kernel}
     /\ tunnel' \in IF kernel = "up" THEN {tunnel, enabled, "off"} ELSE {"off"}
     /\ UNCHANGED promoted

-----------------------------------------------------------------------------
(* apply_proxy_mode_transition.                                            *)

Go(next) == stage' = next /\ UNCHANGED <<from, leg, result>>
Return(what) == stage' = "done" /\ result' = what /\ UNCHANGED <<from, leg>>
Back(next) == stage' = next /\ leg' = "back" /\ UNCHANGED <<from, result>>

\* A rollback that does not succeed leaves less than the mode says.
Lost == IF leg = "forward" THEN {} ELSE {"failure"}

Step(s) == stage = s /\ ui # "gone" /\ UNCHANGED <<uiVars, connecting>>

TransitionBegin ==
  /\ Step("queued")
  /\ Go(CASE from = "System" -> "sysOff"
          [] from = "Tun" -> "dnsOff"
          [] OTHER -> IF busy = "System" THEN "sysOn" ELSE "dnsPrepare")
  /\ Stain(IF ui = "idle" THEN {} ELSE {"late"})
  /\ UNCHANGED <<runtime, sessions>>

SysOff ==
  /\ Step("sysOff")
  /\ \/ ProxyDisable(TRUE) /\ Stain({})
        /\ IF busy = "Off" THEN Return("ok") ELSE Go("dnsPrepare")
     \/ ProxyDisable(FALSE) /\ Stain({"failure"}) /\ Return("err")
  /\ UNCHANGED <<runtime, dns, resolver>>

SysOn ==
  /\ Step("sysOn")
  /\ \/ ProxyEnable(TRUE) /\ Stain({})
        /\ Return(IF leg = "back" THEN "err" ELSE "ok")
     \/ /\ ProxyEnable(FALSE)
        /\ Stain(IF desktop' = "manis" THEN {"failure"} ELSE Lost)
        /\ IF leg = "forward" /\ from = "Tun" THEN Back("dnsPrepare")
                                              ELSE Return("err")
  /\ UNCHANGED <<runtime, dns, resolver>>

\* disable_tun_with_dns restores the DNS before it touches the kernel.
DnsOff ==
  /\ Step("dnsOff")
  /\ \/ DnsDisable(TRUE) /\ Stain({}) /\ Go("tunOff")
     \/ DnsDisable(FALSE) /\ Stain({"failure"}) /\ Return("deferred")
  /\ UNCHANGED <<runtime, proxy, desktop>>

TunOff ==
  /\ Step("tunOff")
  /\ \/ Reload("off", TRUE) /\ Stain({})
        /\ IF busy = "Off" THEN Return("ok") ELSE Go("sysOn")
     \/ Reload("off", FALSE) /\ Stain({"failure"})
        /\ stage' = "dnsPrepare" /\ leg' = "redo" /\ UNCHANGED <<from, result>>
  /\ UNCHANGED sessions

\* enable_tun_with_dns gives up; from System the takeover is put back.
TunFails == IF leg = "forward" /\ from = "System" THEN Back("sysOn")
                                                  ELSE Return("err")

PrepareDns ==
  /\ Step("dnsPrepare")
  /\ \/ DnsPrepare(TRUE) /\ Stain({})
        /\ Go(IF leg = "redo" THEN "dnsActivate" ELSE "promote")
     \/ DnsPrepare(FALSE) /\ TunFails
        /\ Stain(IF dns' = "idle" THEN Lost ELSE {"failure"})
  /\ UNCHANGED <<runtime, proxy, desktop>>

PromoteKernel ==
  /\ Step("promote")
  /\ \/ Promote(TRUE) /\ Stain({}) /\ Go("tunOn")
     \/ Promote(FALSE) /\ Stain(Lost) /\ Go("undoDns")
  /\ UNCHANGED sessions

TunOn ==
  /\ Step("tunOn")
  /\ \/ Reload("on", TRUE) /\ Stain({}) /\ Go("dnsActivate")
     \/ Reload("on", FALSE) /\ Go("undoDns")
        /\ Stain(IF tunnel' = "on" THEN {"failure"} ELSE Lost)
  /\ UNCHANGED sessions

Activate ==
  /\ Step("dnsActivate")
  /\ \/ DnsActivate(TRUE) /\ Stain({})
        /\ Return(IF leg = "forward" THEN "ok" ELSE "err")
     \/ DnsActivate(FALSE) /\ Stain(Lost)
        /\ IF leg = "redo" THEN Return("err") ELSE Go("undoActivate")
  /\ UNCHANGED <<runtime, proxy, desktop>>

\* Mutant: TUN is left on when the DNS cannot be installed.
UndoDnsOnly ==
  /\ stage \in {"undoDns", "undoActivate"}
  /\ Step(stage)
  /\ \/ DnsDisable(TRUE) /\ Stain({})
     \/ DnsDisable(FALSE) /\ Stain({"failure"})
  /\ TunFails
  /\ UNCHANGED <<runtime, proxy, desktop>>

\* The rollbacks inside enable_tun_with_dns.
UndoDns ==
  /\ stage \in {"undoDns", "undoActivate"}
  /\ Step(stage)
  /\ \/ DnsDisable(TRUE) /\ Stain({})
     \/ DnsDisable(FALSE) /\ Stain({"failure"})
  /\ IF stage = "undoActivate" THEN Go("undoTun") ELSE TunFails
  /\ UNCHANGED <<runtime, proxy, desktop>>

UndoTun ==
  /\ Step("undoTun")
  /\ \/ Reload("off", TRUE) /\ Stain({})
     \/ Reload("off", FALSE) /\ Stain({"failure"})
  /\ TunFails
  /\ UNCHANGED sessions

TransitionSteps ==
  \/ TransitionBegin \/ SysOff \/ SysOn \/ DnsOff \/ TunOff \/ PrepareDns
  \/ PromoteKernel \/ TunOn \/ Activate \/ UndoDns \/ UndoTun

-----------------------------------------------------------------------------
(* Handlers of the UI thread.                                              *)

\* apply_proxy_mode, unless reject_proxy_mode_request refuses.
RequestMode(requested) ==
  /\ ui = "idle"
  /\ busy = "none"
  /\ requested # mode
  /\ controller = "Connected"
  /\ busy' = requested
  /\ stage' = "queued"
  /\ from' = mode
  /\ leg' = "forward"
  /\ result' = "ok"
  /\ UNCHANGED <<mode, controller, polling, ui, connecting, runtime, sessions,
                 blemish>>

ModeIdle ==
  /\ stage' = "none" /\ from' = "Off" /\ leg' = "forward" /\ result' = "ok"
  /\ busy' = "none"

\* finish_proxy_mode_change.
Finish ==
  /\ ui = "idle"
  /\ stage = "done"
  /\ ModeIdle
  /\ mode' = IF result = "ok" THEN busy ELSE mode
  /\ UNCHANGED <<controller, polling, ui, connecting, runtime, sessions,
                 blemish>>

\* connect_mihomo: also the refresh of a connected kernel's data.
ConnectMihomo ==
  /\ ui = "idle"
  /\ controller # "Connecting"
  /\ controller' = "Connecting"
  /\ polling' = "no"
  /\ connect' = "start"
  /\ UNCHANGED <<mode, busy, ui, transition, seen, runtime, sessions, blemish>>

\* ControllerRuntime::connect under the manager's lock: a running kernel is
\* used, an exited one is reaped and reported, otherwise one is started.  The
\* kernel may also be impossible to query, or to start.
ConnectStart ==
  /\ connect = "start"
  /\ ui # "gone"
  /\ \/ kernel = "up" /\ connect' = "load" /\ UNCHANGED <<runtime, blemish>>
     \/ /\ kernel = "exited" /\ kernel' = "down" /\ connect' = "failed"
        /\ UNCHANGED <<tunnel, promoted, blemish>>
     \/ connect' = "failed" /\ UNCHANGED <<runtime, blemish>>
     \/ /\ kernel = "down" /\ kernel' = "up" /\ connect' = "load"
        /\ promoted' \in {promoted, "yes"}
        /\ Stain(IF dns = "idle" /\ busy = "none" THEN {} ELSE {"overlap"})
        /\ UNCHANGED tunnel
  /\ UNCHANGED <<uiVars, transition, seen, sessions>>

\* The rest of it: the snapshot is loaded, or not, or the kernel is stopped
\* because it does not serve the expected port.
ConnectLoad ==
  /\ connect = "load"
  /\ ui # "gone"
  /\ \/ /\ kernel = "up" /\ connect' = "loaded" /\ seen' = tunnel
        /\ Stain(IF busy = "none" THEN {} ELSE {"overlap"})
        /\ UNCHANGED runtime
     \/ connect' = "failed" /\ UNCHANGED <<seen, runtime, blemish>>
     \/ /\ kernel = "up" /\ kernel' = "down" /\ tunnel' = "off"
        /\ connect' = "failed"
        /\ UNCHANGED <<seen, promoted, blemish>>
  /\ UNCHANGED <<uiVars, transition, sessions>>

\* apply_mihomo_snapshot, which asks the session under its lock, and
\* start_live_runtime, whose streams may not start.
Connected ==
  /\ ui = "idle" /\ connect = "loaded" /\ ~Locked
  /\ connect' = "none" /\ seen' = "off"
  /\ controller' = "Connected"
  /\ polling' \in {"yes", "no"}
  /\ mode' = CASE seen = "on" -> "Tun"
               [] seen = "off" /\ proxy # "none" -> "System"
               [] OTHER -> "Off"
  /\ UNCHANGED <<busy, ui, transition, runtime, sessions, blemish>>

ConnectFailed ==
  /\ ui = "idle" /\ connect = "failed"
  /\ connect' = "none"
  /\ controller' = "Failed"
  /\ UNCHANGED <<mode, busy, polling, ui, transition, seen, runtime, sessions,
                 blemish>>

\* fail_safe_stopped_managed_kernel up to the lock it needs: the kernel has
\* exited and is reaped, or the manager cannot query it and leaves it be.
FailSafeBegin ==
  /\ ui = "idle" /\ polling = "yes" /\ kernel # "up"
  /\ kernel' \in {"down", kernel}
  /\ ui' = "failsafe"
  /\ UNCHANGED <<mode, busy, controller, polling, transition, connecting, tunnel,
                 promoted, sessions, blemish>>

\* The query fails while the kernel runs, as when the launch daemon does not
\* answer, or the manager has given the running kernel up as failed.
FailSafeMisreads ==
  /\ ui = "idle" /\ polling = "yes" /\ kernel = "up"
  /\ ui' = "failsafe"
  /\ Stain(IF mode = "Tun" THEN {"misread"} ELSE {})
  /\ UNCHANGED <<mode, busy, controller, polling, transition, connecting, runtime,
                 sessions>>

\* Mutant: the kernel is reported stopped and the sessions are left alone.
FailSafeReportsOnly ==
  /\ ui = "failsafe"
  /\ ui' = "idle" /\ polling' = "no" /\ controller' = "Failed"
  /\ UNCHANGED <<mode, busy, transition, connecting, runtime, sessions,
                 blemish>>

\* The rest of it.  Nothing of it touches the kernel: a TUN that still runs
\* stays on, while its DNS servers go and the mode is shown as off.
FailSafeEnd ==
  /\ ui = "failsafe"
  /\ mode # "Off" => ~Locked
  /\ \/ /\ mode = "Off" /\ Stain({}) /\ UNCHANGED <<mode, sessions>>
     \/ /\ mode = "System"
        /\ \/ ProxyDisable(TRUE) /\ mode' = "Off" /\ Stain({})
           \/ ProxyDisable(FALSE) /\ Stain({"failure"}) /\ UNCHANGED mode
        /\ UNCHANGED <<dns, resolver>>
     \/ /\ mode = "Tun"
        /\ \/ DnsDisable(TRUE) /\ mode' = "Off" /\ Stain({})
           \/ DnsDisable(FALSE) /\ Stain({"failure"}) /\ UNCHANGED mode
        /\ UNCHANGED <<proxy, desktop>>
  /\ ui' = "idle" /\ polling' = "no" /\ controller' = "Failed"
  /\ UNCHANGED <<busy, transition, connecting, runtime>>

-----------------------------------------------------------------------------
(* shutdown_for_quit.  The UI thread does nothing else any more.           *)

Quitting(here, there) ==
  /\ ui = here
  /\ ui' = there
  /\ UNCHANGED <<mode, busy, controller, polling, transition, connecting>>

QuitDns ==
  /\ Quitting("idle", "quitTun")
  /\ ~Locked
  /\ \/ DnsDisable(TRUE) /\ Stain({})
     \/ DnsDisable(FALSE) /\ Stain({"failure"})
  /\ UNCHANGED <<runtime, proxy, desktop>>

QuitTun ==
  /\ Quitting("quitTun", "quitSystem")
  /\ IF mode = "Tun"
       THEN \/ Reload("off", TRUE) /\ Stain({})
            \/ Reload("off", FALSE) /\ Stain({"failure"})
       ELSE UNCHANGED <<runtime, blemish>>
  /\ UNCHANGED sessions

\* Mutant: the system proxy is only restored in the mode of that name.
QuitSystemByMode ==
  /\ Quitting("quitSystem", "quitStop")
  /\ ~Locked
  /\ \/ /\ mode = "System"
        /\ \/ ProxyDisable(TRUE) /\ Stain({})
           \/ ProxyDisable(FALSE) /\ Stain({"failure"})
     \/ /\ mode # "System"
        /\ UNCHANGED <<proxy, desktop, blemish>>
  /\ UNCHANGED <<runtime, dns, resolver>>

QuitSystem ==
  /\ Quitting("quitSystem", "quitStop")
  /\ ~Locked
  /\ \/ ProxyDisable(TRUE) /\ Stain({})
     \/ ProxyDisable(FALSE) /\ Stain({"failure"})
  /\ UNCHANGED <<runtime, dns, resolver>>

\* stop_managed, and the end of the process.
QuitStop ==
  /\ Quitting("quitStop", "gone")
  /\ \/ kernel' = "down" /\ tunnel' = "off" /\ Stain({})
     \/ kernel = "up" /\ UNCHANGED <<kernel, tunnel>> /\ Stain({"failure"})
  /\ UNCHANGED <<promoted, sessions>>

QuitSteps == QuitTun \/ QuitSystem \/ QuitStop

-----------------------------------------------------------------------------
\* The kernel crashes or is killed from outside.
KernelExits ==
  /\ kernel = "up"
  /\ kernel' = "exited"
  /\ tunnel' = "off"
  /\ UNCHANGED <<uiVars, transition, connecting, promoted, sessions, blemish>>

Gone == ui = "gone" /\ UNCHANGED vars

Next ==
  \/ \E requested \in Mode : RequestMode(requested)
  \/ TransitionSteps \/ Finish
  \/ ConnectMihomo \/ ConnectStart \/ ConnectLoad \/ Connected \/ ConnectFailed
  \/ FailSafeBegin \/ FailSafeMisreads \/ FailSafeEnd
  \/ QuitDns \/ QuitSteps
  \/ KernelExits \/ Gone

\* The executor runs what was spawned; the queue of the UI thread is served in
\* order, so that a finished transition is not passed over for ever by
\* handlers that come and go (SF); and the poll chain calls the health check
\* again and again.
Fairness ==
  /\ WF_vars(TransitionSteps) /\ SF_vars(Finish)
  /\ WF_vars(ConnectStart) /\ WF_vars(ConnectLoad)
  /\ WF_vars(Connected) /\ WF_vars(ConnectFailed)
  /\ WF_vars(FailSafeBegin) /\ WF_vars(FailSafeEnd)
  /\ WF_vars(QuitSteps)

Spec == Init /\ [][Next]_vars /\ Fairness

-----------------------------------------------------------------------------
\* No transition and no connect is under way, and the kernel is connected.
Settled ==
  /\ stage = "none" /\ connect = "none" /\ ui = "idle"
  /\ kernel = "up" /\ controller = "Connected"

Honest ==
  CASE mode = "Off" -> desktop = "user" /\ resolver = "user" /\ tunnel = "off"
    [] mode = "System" -> desktop = "manis" /\ resolver = "user" /\ tunnel = "off"
    [] mode = "Tun" -> desktop = "user" /\ resolver = "tun" /\ tunnel = "on"

\* The mode the tray shows as checked is the one in effect on the desktop and
\* in the kernel, also after rollbacks, crashes and reconnects.  Three things
\* defeat that: a cleaning-up call that failed; a connect that loaded its
\* snapshot while a transition was running or restarted a crashed kernel
\* under a transition or under the DNS servers of TUN; and a health check
\* that took a running TUN kernel for a stopped one.
HonestMode ==
  Settled /\ blemish \intersect {"failure", "overlap", "misread"} = {}
    => Honest

\* Quitting gives everything back, whatever was under way when it began: a
\* transition that runs is waited for.  A transition that had not begun to
\* run is the exception.
QuitRestores ==
  ui = "gone" /\ blemish \intersect {"failure", "late"} = {}
    => /\ desktop = "user" /\ resolver = "user" /\ dns = "idle"
       /\ kernel = "down"

\* When the kernel dies behind an applied system proxy and health checks run,
\* the settings are given back, unless giving back fails or a connect comes
\* first, which ends the health checks.
CrashGivesBack ==
  (kernel # "up" /\ mode = "System" /\ polling = "yes" /\ busy = "none")
    ~> \/ proxy = "none" \/ "failure" \in blemish
       \/ kernel = "up" \/ controller = "Connecting" \/ ui = "gone"
=============================================================================
