# A verification project for Manis

Manis is a client (Rust and GPUI on the desktop, Kotlin and Rust on Android)
for the mihomo proxy kernel. It starts and supervises the kernel, compiles the
user's sources into a profile for it, and points the system at it: through the
proxy settings, or through a TUN device and the resolvers that go with it. This
directory holds TLA+ modules of the parts in which an order of steps, a failure
or a crash decides whether the user's system, settings and sources are left as
they should be; TLC configurations that check them on small instances; and
TLAPS proofs of the main results for all values of the constants.

`PROJECT.json` lists the components, the runs, the mutants that show that each
property can fail, the source lines of every definition, what the runs found
in the code, the hazards, and the theorems.

    tlc -workers 2 -config MCEngine.cfg MCEngine      # one run
    tlapm KernelProofs.tla                            # one proof module

Paths below are relative to `src/crates/`; `ui` is `manis-ui/src`, `android`
is `src/android/app/src/main/java/dev/manis/app`.

## 1. Inventory

| component | state | operations | what is hard, and what must hold |
|---|---|---|---|
| kernel manager (`manis-engine/src/lifecycle.rs`) | `state`, `child` | `start`, `stop`, `running_endpoint`, `Drop` | termination that fails, kernels that exit unnoticed or outlive their manager, probing an endpoint that anybody may answer, health polls that only a live session makes; no kernel is forgotten, and a crash behind a live session is noticed |
| system proxy session (`ui/system_proxy/`) | `previous`, `applied`, recovery file, the desktop's settings | `enable`, `disable`, `recover_stale` | several commands per call, each may fail, as may the rollback; the application ends anywhere; the user's settings come back. Linux and Windows have other stores and other notifications |
| TUN DNS session (`ui/system_proxy/session.rs`, `ui/macos_privileged.rs`, `manis-linux-helper`) | as above, resolvers | `prepare`, `activate`, `disable`, `rebind`, `shutdown` | as above, and the order against TUN itself |
| proxy mode and runtime lifecycle (`ui/app/proxy_transition.rs`, `ui/app/routing_controls/`, `ui/app/runtime_lifecycle/`) | `proxy_mode`, `proxy_mode_busy`, `controller`, live generation | mode switch, connect, refresh, health poll, fail-safe, quit | background transitions with rollbacks, snapshots applied after a switch, a kernel that dies in between; the mode shown is in effect |
| managed configuration (`ui/mihomo/managed_apply.rs`, `ui/app/routing_apply.rs`) | generated file, running kernel, `privileged` | `apply_saved_sources`, `mutate_saved_sources`, `set_tun_enabled`, `connect` | reload that is not confirmed, restart, rollback of file and kernel, TUN to be restored; applied means served, refused means unchanged |
| source store (`ui/mihomo/store_snapshot.rs`, `ui/config_toml.rs`) | entries of `config.toml` | stage, install, roll back; write and remove by others; migration | one lock per entry and not per transaction; writes that fail after they took effect; a migration that is cut off |
| stored records (`ui/mihomo/workspace*`, `ui/mihomo/policy_store/`, `ui/manual_rule/store.rs`, `ui/direct_rule.rs`) | subscriptions, rule sources, nodes, groups, picks, manual rules in up to four versions | load, save, edit, remove | every operation rewrites all fields; limits at writing and at reading differ |
| configuration editor, backup and transfer (`ui/config_jsonc.rs`, `ui/config_backup*`, `ui/app/configuration/transfer.rs`) | the text, a preview, backups | show, edit, check, replace, roll back, relaunch | two texts for one document; a replacement that fails at any step while other tasks run |
| application update (`ui/app_update.rs`, `ui/app/runtime_lifecycle/update.rs`) | `app_update_state`, packages | check, download, install | overlapping workers that each replace the state; a release tag that moves |
| kernel update (`ui/core_update*`) | the binary, its backup, the worker | stop, download, publish, probe, roll back | replacing a binary that may be in use; ends between two renames |
| subscriptions and source lists (`ui/app/subscription_workflow/`, `ui/app/configuration/`) | lists, due times, generations, busy indicators | import, refresh, schedule, rename, switch, remove | late results of a closed dialog, overlapping tasks; the page shows the store |
| editor windows (`ui/app/configuration/…/editor.rs`, `rule_sources.rs`) | drafts, input fields shared by all windows of a kind | open, type, submit, close | a completion that clears a newer draft |
| routing rules and policies (`ui/manual_rule*`, `ui/rule_source.rs`, `ui/mihomo/routing_order.rs`) | manual rules, rule sources, their order, policy groups | edit, reorder, import, compile, attribute connections | three copies of one order: page, store, kernel |
| node picks (`ui/app/routing_controls/`, `ui/mihomo/policy_store/node_selection.rs`) | saved, shown and used node per group | pick, restore after connect, retry | answers that arrive after a newer pick |
| benchmarks, exit address (`ui/app/runtime_lifecycle/benchmark.rs`, `ui/app/exit_ip.rs`) | results, generations, queue | test by hand and by timer, probe | results of an older test or group; a group that is due is tested |
| controller client, live streams (`manis-mihomo`, `ui/mihomo/live_runtime.rs`) | connection, frames, mailbox, page | stream, reconnect, drain, requests | chunks that do not end with a frame, bounded queues, sessions that are replaced |
| privileged helpers (`src/packaging/macos/`, `ui/macos_privileged/`, `manis-linux-helper`) | root-owned kernel | start, stop, reclaim, stage | a client that gives up, a daemon that restarts, a process found only by its socket |
| single instance, autostart, automatic connection (`ui/single_instance.rs`, `ui/autostart.rs`, `ui/auto_connect.rs`) | lock, requests | launch, activate, quit | a launch beside an owner that is quitting |
| Android (`manis-android`, `android/`) | workspace, service, native kernel slot | edit, compile, start, reload, stop, learn resolvers | references by position; threads that share one slot |
| profile compiler (`manis-profile`), domain types (`manis-core`), command lines | none | parse, validate, render | data, no control |
| views, diagnostics, localization | presentation | | |

How they interact. The views and the tray call handlers of `ManisApp` on the
UI thread. A handler that blocks spawns a background task, which calls the
sessions (each behind a mutex) and the `ControllerRuntime` (which holds the
kernel manager behind another), and posts its result back to the UI thread,
where the state may have changed since; generations and busy indicators tell
late results from current ones. A change of the sources runs under a
process-wide source lock: it is staged in a copy of the store, installed entry
by entry, compiled, validated by the kernel, sent to the running kernel or
used to restart it, and rolled back if that fails. A TUN switch compiles from
the same store without that lock. A replacement of the whole configuration
waits for all other tasks, refuses new ones and ends in a relaunch.

## 2. Modules

| module | models | relation |
|---|---|---|
| `Engine` | the kernel manager | |
| `SystemProxy` | the system proxy session on macOS and its recovery file | implements `UndoLog` |
| `UndoLog` | what such a session promises: record, change, restore, forget | abstract |
| `PlatformProxy` | the same session on Linux and Windows | |
| `TunDns` | the TUN DNS session on macOS and Linux | summarized in `ProxyMode` |
| `ProxyMode` | mode switches, connects, health checks and quitting, over both sessions and the kernel seen from outside | composes what `SystemProxy`, `TunDns` and `Engine` open up |
| `Helper` | kernels that are ordinary children or root's, over the launch daemon | opens up the promotion in `ProxyMode` |
| `SourceApply` | one source change from installation to report, against a TUN switch, connects, crashes and relaunches | the store is one value |
| `SourceStore` | staging, installation and rollback of the entries against other writers | opens up the store of `SourceApply` |
| `Settings`, `ConfigText` | the whole document: migration, page writes, the editor, replacement; and the two texts it is shown as | `Settings` uses `ConfigText` |
| `Records` | the records in it, by release and by operation | opens up an entry of `SourceStore` |
| `Sources` | the source lists, their tasks, timers and the transfer's fences | a transaction is one step with outcomes |
| `Editors` | the editor windows beside background tasks | |
| `Instance` | launches, the lock, activation and quitting | |
| `Routing` | manual rules, rule sources, order, groups, compilation and attribution | |
| `Filters` | the filtering of a sequence, by the set of what passes | used by `Routing`, `LiveStream` and `PhoneProfile` |
| `Selections` | picks of nodes: saved, shown, used | |
| `Benchmarks` | latency tests, their timer, exit-address probes | |
| `LiveStream` | a stream of the kernel from socket to page | |
| `AppUpdate` | checks, downloads, installation of the application's update | |
| `CoreUpdate` | the kernel binary and its replacement | |
| `PhoneProfile`, `Vpn` | the Android workspace and its compilation; the Android service | |
| `KernelProofs` | theorems about `Engine` and `Vpn` | |
| `SystemProxyProofs` | about `SystemProxy` (with its refinement) and `PlatformProxy` | |
| `TunProofs` | about `TunDns`, `Helper` and `ProxyMode` | |
| `ApplicationProofs` | about `AppUpdate`, `Instance` and `Benchmarks` | |
| `ConnectionProofs` | about `CoreUpdate` and `Selections` | |
| `PageProofs` | about `Editors` and `Sources` | |
| `SourceApplyProofs` | about `SourceApply` and `Settings` | |
| `DataProofs` | about `Filters`, `SourceStore`, `Routing`, `LiveStream` and `PhoneProfile` | |
| `MC…` | constants for TLC and the compositions below | |

Five of the `MC` modules put modules side by side that share nothing:
a variable `part` says which one a behaviour is about, and the others keep
their initial state. Nothing is said there about their interplay; where
components do interact, one module has both sides.

### Engine

`state` and `child` are the fields of `EngineManager`; `pc` is where `start`
or `stop` stands; `alive` and `bound` are the operating system's processes and
the owner of the endpoint. `start` is eight actions (already owned, begin,
prepare, validate, spawn, poll the child, probe ready or pending, clean up), so that
a kernel can bind, crash or be answered for by another one between any two
of them. `leaked` are kernels whose manager is gone (`Drop` ignores the error
of `terminate`, a killed application runs no destructor). `window` is the live
session of `ManisApp`: a connect drops it before it asks the manager and starts
it anew when it succeeds, an update of the kernel drops it too, and only while
it lives does `poll_live_runtime` ask for the kernel's health (`HealthPoll`,
with `HealthPollFails` where the child cannot be queried). `CrashIsNoticed`
speaks of a live session only: after a failed connect a dead child stays under
`Ready` until somebody asks.

### SystemProxy, UndoLog, PlatformProxy, TunDns

In `SystemProxy`, `sys` are the desktop's settings, `user` what the user last
chose, `file` the recovery file, `previous`/`applied` the session, `pc` and its
companions the call in progress. One action is one `networksetup` command or
one operation on the recovery file, and each has a failing twin. `enable` while
applied restores first; a failing `apply` rolls back; a failing rollback leaves
the file. The application may end at every step (`AppEnds`) and recovers at
`Launch`. `restore_setting` issues two commands per setting, the server and the
switch, which are two actions. A setting without a server counts as off
whatever its switch says (`Same`), as `networksetup` treats it. `UndoLog` knows
a log and the set of things changed since; `Undoable` is its specification
under the mapping "the log is the recovery file".

`PlatformProxy` is the session over keys of `gsettings` or values of the
registry; on Windows running programs see a change only after `Notify`, so
`noticed` is a second copy. `reg` says by exit status 1 that a value is absent,
and fails with the same status; so a query may misread a value as absent, and a
deletion that failed may count as done (`Misreported`). `UserSets` replaces all
settings at once.
`TunDns` has the resolvers of two network services on macOS and, on Linux, the
TUN link whose server and routing domain the helper sets in two commands; a
restart of the kernel makes a new link, to which `Rebind` gives the resolver
again. In both, `gone`/`tunGone` tell that a recovery file has become worthless:
overwritten by an `enable` after a failed recovery, edited under by the
user, or, on Windows, written or removed after such a misreading; for DNS also a
rebind past the end of the session.

### ProxyMode

`mode`, `busy`, `controller` are `ManisApp`'s fields; `stage`, `from`, `leg`
and `result` the background transition of `proxy_transition.rs`; `connect` and
`seen` a connect and the `tun.enable` of the snapshot it loaded; `ui` a handler
that waits for a session's lock (the fail-safe or quitting); the remaining
variables are the world. Each call of a transition is one action with its
outcomes; `leg` distinguishes going forward, rolling back and redoing DNS, so
that rollbacks are the same actions. `blemish` names what defeats the promises:
`failure` (a call that cleans up failed), `overlap` (a connect loaded its
snapshot during a transition, or restarted a crashed kernel under one), `misread`
(a health check failed while the kernel ran, and the fail-safe took TUN for
ended: `FailSafeMisreads`), `late` (a transition that had not begun when quitting
did).

### Helper

`alive` says of each process whether it runs as root; `socket` is the last one
to bind, `child` what the daemon knows, `manager` what the application knows.
One caller at a time holds the manager's lock (`task`); preparing a
configuration and sending it happen outside it. A request whose client gave up
after its time limit stays in `late` and may still be handled. `Reclaim` finds
kernels of earlier instances by the socket. `marks` are the exceptions:
`late`, `unreached` (the daemon could not be asked), `forgotten` (it was
restarted), `kept` (an ordinary kernel could not be terminated), `unbound` (it
had no socket yet when looked for), `raced`.

### SourceApply and SourceStore

`SourceApply` follows `mutate_saved_sources` and `apply_generated_profile`:
`Begin` (change installed), `Prepare` (compile and validate), `Write` (replace
the generated file), `Inspect` (lock the manager, poll the kernel, ask for
TUN), `Reload`, `Stop`, `Create`, `Start`, `Rollback`, `Restart`, `Retune` and
`RetunePut` (restore TUN: compile from the store, send), `Undo` (roll the store
back) and `Acknowledge` (report). A reload has three outcomes: confirmed, refused, and
not confirmed, after which the kernel may serve either profile. Beside it runs
one `set_tun_enabled` in its three steps, a connect, a kernel exit, and a
relaunch, possible everywhere. `before` is a history variable of what there was
when the transaction began. `marks` names what the properties except:
`disturbed` (another task or a crash stepped in), `halfway` (an early return
after the file was replaced), `notStopped`, `storeError`.

In `SourceStore` the staged change is captured from the store (`Capture`),
made in the stage (`Mutate`), compared entry by entry, installed entry by entry
with a compare-and-replace under the document's lock, and taken back in reverse
order. A write may fail before or after it took effect. `OtherWrites` may happen
between any two of these steps.

### Settings, ConfigText, Records

`ConfigText` has the document (a sequence of named entries with lines of keys
and values), the JSONC text of the editor (`to_jsonc`, `from_jsonc` and its
checks of names and references) and the line-by-line export of older versions.
A value is text or a reference, plain or in hexadecimal; punctuation, comments
and escapes are left out. `Settings` has what happens to the document: the
launch that finds the data directory, migrates entries from it and from files
beside `config.toml` and removes them, but no file whose name is not that of an
entry; writes by the pages; the editor from
`edit_configuration` over preview to `replace_configuration`, with backup, entry
by entry replacement, validation and rollback. Every write may fail, and the
application may end between any two steps. `wanted` are the configurations that
the user may expect; `marred` marks the excepted texts (repeated keys, names
that two things share) and a rollback that failed.

`Records` has the fields of each kind of record, the four formats that releases
have written, and what each operation reads and rewrites; the older suffix of
policy groups is moved one file at a time. `Store` is a write that is compiled
before it stands (`mutate_saved_sources`), `Note` one that is not. A "long"
address is a legal one whose record, together with nameservers learned for it,
exceeds what a read accepts. The manual rules are one record, a list in one of
four formats; a read that finds it missing or in the first format takes over the
direct rules of older releases, which had an entry of their own and defaults
when there is none. A behaviour follows one kind of record.

### Sources, Editors, Instance

`Sources` has the lists as shown (`ui`) and as stored, the busy indicators, and
every task in flight with what it will bring; the slot of a task is its
generation. Subscriptions, rule sources and single nodes are imported, renamed,
switched, refreshed and removed by hand; the timer refreshes what is due and
retries later. A finisher merges, or drops the result of an older generation;
it brings the report of a lost TUN to the window. A transaction that fails may
have ended TUN without a report, which `tun` remembers as "untold" (`TunAfter`).
The transfer refuses while a
task runs and fences off new ones. `Age(i)` makes a source due again only after
every other due source was tried.

`Editors` has the three kinds of editor window; fields belong to the kind and
not to the window. `Instance` has launches that find the lock taken: a request
file written under a temporary name and renamed, a bounded number of rechecks,
and an owner that polls for requests, hides, quits or dies.

### Routing, Selections, Benchmarks, LiveStream

In `Routing`, `store`, `ui` and `kernel` hold the three copies of rules and
order; `tx` is the transaction, `job` the background task of the page, of a
source and of a policy group. `Compile` follows `compile_routing_rules` and
the policy check (`Visit`, a depth-first search). `MatchingGroup` is the
attribution of connections on the activity page. `astray` collects the
exceptions that section 4 lists.

In `Selections`, a pick is saved and shown at once and sent by a worker; a
connect shows the saved picks over the catalog it fetched and starts a worker
that sends them; incomplete catalogs are fetched again and the picks sent once
more. An edit of a group drops the catalog. An update of the kernel ends the
connection, if there is one, stops the kernel and ends, if there was one, with a snapshot of the new one, or of
the old one when it failed; unlike a connect, it shows the saved picks and sends
none (`ShowsUpdated`). Workers of the former runtime go on talking to a kernel that
nothing else looks at (`FormerWorkers`, `FormerReadings`). A latency test reads the
kernel's node and shows it when it ends. In `Benchmarks`, one test runs at a time and
its generation tells its partial and final results from older ones; the timer
takes the first group that is due; a probe of exit addresses fills a queue that
a poll empties. In `LiveStream`, frames go from the kernel in halves over the
wire into a buffer, a bounded mailbox and the page; the session is replaced
with the connection, and a timer of its generation drains the mailbox.

### AppUpdate and CoreUpdate

`AppUpdate`: `state` is `app_update_state`. A check remembers the state that it
replaced and decides with it what to show if it fails; a download remembers its
update. Both end by posting a result that replaces the state whatever it is by
then. `published` moves on between any two steps, and a download reads it again.

`CoreUpdate`: the worker stops the kernel of the old runtime, downloads,
unpacks, verifies, links the binary in place as backup, renames the new one
over it, probes it and commits or rolls back, each of which may fail; a second
runtime is prepared and one of the two is given up. Connects, switches of the
system proxy, polls and the automatic connection run beside it. `vouched` is the
last binary that was in use or passed its check; `meddled` records a connect or
switch beside an update; `orphans` are backups that a launch finds.

### PhoneProfile and Vpn

`PhoneProfile` has the lists of the workspace, groups that refer to positions
in them, all edits of the pages, and `compile` with the warnings it gives. What
a group was meant to hold is a history field, as are the identities of the sources.
`Backups`, the texts on the clipboard, are workspaces that were copied from the
application: the import takes positions as it reads them, and a text written by
hand may have any. `Vpn` has the service's main
thread and the resolver threads, which render, write the configuration, halt,
take, spawn and store kernels through the same functions; `slot` is the kernel
that the native library knows. Intents are handled later than they are sent.

## 3. Runs

| run | states | question |
|---|---|---|
| `engine` | 2,742 | Can a kernel be forgotten, is a crash behind a live session noticed? |
| `proxy_mode` | 1,217,192 | Is the mode shown the one in effect, does quitting give everything back, is a crash answered? |
| `desktop` | 1,364,318 | Are settings and resolvers always within reach, is the session an undo log, is what is installed what was offered, is there one kernel and does the daemon know root's? |
| `source_apply` | 205,516 | Does applied mean served, refused mean unchanged, can the store be loaded again, does the transaction end? |
| `stores` | 168,244 | Do other writers' contents survive, is a change all or nothing, does the document survive its editor and its migration, does the next launch read what was listed? |
| `sources` | 1,313,987 | Do the lists end up showing the store, is a lost TUN shown, are drafts kept, is a launch answered? |
| `kernel` | 436,610 | Is a binary always within reach, does the kernel run it, are picks used and shown, is the stream shown in order and complete? |
| `benchmarks` | 310,553 | Are old results dropped, is a due group tested? |
| `routing` | 308,012 | Does a draft keep its rule, do page, store and kernel agree, is a connection attributed to its group, does a sound store compile? |
| `android` | 1,446,476 | Do groups keep their members, is no kernel left behind, is what is not pending served? |
| `carried` | violated | finding 1 |
| `phone_warnings` | violated | finding 2 |

Every property of the first ten runs holds; the exceptions it makes are in its
comment and in section 4. For each one `PROJECT.json` names a plausible mistake
in one definition that breaks it.

Bounds. `Engine`: three processes let an abandoned kernel, an owned one and a
third meet; names are used again, so that the number of starts is not bounded;
two attempts are one retry and then giving up. `SystemProxy`: two settings
suffice for any call to stop half-way, and one server gives a setting its three
situations: none, dormant, in use. `PlatformProxy`: the keys are those of the
code, with one server, an empty and an absent value. `TunDns`: two services,
since the default route may move. `Helper`: three processes, `MaxOps = 4`
things that user and world do between two idle states. `AppUpdate`: the installed version, a
newer and one newer still, and two tasks in flight. `ProxyMode` has no
constants and is explored in full; at most one connect runs at a time because
`controller` is `Connecting` meanwhile. `SourceApply`: two accepted sources and
one that the kernel rejects; the source lock grants one transaction at a time.
`SourceStore`: two entries, so that one may be installed and the other not, and
three contents: the old, the new and somebody else's. `Settings`: three first
documents, each of them in place, in the old directory or beside the document; four entries
that pages write, `MaxOps = 2` and one change per opened editor. `Records`:
three names; `MaxPolicies` and `MaxTargets` are 2 where the code has 32 and 256, and
`MaxConditions` is 2 where it has 4;
operations are not bounded. `Sources`: three slots, hence three tasks at once,
and `MaxOps = 2` operations by the user while the timer is not bounded.
`Editors`: one saved item, six operations. `Instance`: three launches, three
rechecks where the code has five, since three already let the owner's steps fall
before, between and after two looks at the lock. `CoreUpdate`: two binaries beside a corrupt and a
foreign one, two runtimes, two connects, three launches, operations and kernel
crashes together. `Selections`: one
group beside GLOBAL, two nodes, two restorations in flight, three operations, of
which an update of the kernel is one.
`LiveStream`: a mailbox of two and a page of three frames, four frames, two
sessions, so that both limits overflow. `Benchmarks`: two groups, a source, two
generations, three operations by the user. `Routing`: three manual rules, two
sources that share a condition, three groups that can form a diamond, two
operations. `PhoneProfile`: three sources of a kind, two groups, two rules,
five edits. `Vpn`: three kernels, two resolver threads, two workspaces, two
intents waiting, four taps.

`android` uses symmetry, of kernels and of threads, and `desktop`, of the processes
of `Helper`; neither checks liveness. Records, positions and versions elsewhere are told apart by the model.

Fairness is assumed in four modules. Background tasks of the executor run once
spawned, and every blocking call of theirs has a timeout, hence `WF` on their
steps in `Engine`, `ProxyMode`, `SourceApply` and `Benchmarks`. In `Engine` a live
session polls again and again, and the poll waits for the
manager's lock in the UI thread, where every other call begins, so that nothing new
is begun before it: hence `SF(HealthPoll)`. Without a session nothing is assumed.
In `ProxyMode` the handler that
finishes a transition competes with others for the UI thread,
which serves each of its queued callbacks in turn, hence `SF(Finish)`. In
`Benchmarks` the four-second timer ticks. Nothing is assumed of the user, of
kernel crashes, of other writers, or of the next connect. The other modules
state safety only: what they would promise in the end depends on the user or on
a network that may be away for ever.

Deadlock is checked where the modelled system always has a next step
(`engine`, `proxy_mode`, `source_apply`; the end of the application is a
stuttering step of its own there). In the other runs operations are bounded or
launches end for good, so that the model may stop.

## 4. What the runs found

1. **The editor does not carry unrecognised entries through verbatim**
   (`ui/config_jsonc.rs:390`). An entry without a section of its own is shown as
   one JSON object; of lines that share a key only the last one survives, against
   the comment at the head of that file. Run `carried`.
2. **Warnings of the Android compiler can be errors**
   (`manis-android/src/model.rs:376`, `:223`, `:241`). A rule behind the final
   one is announced as one that never matches, and makes the profile fail its
   validation; a skipped source shifts the positions to which groups refer, which
   then name another provider or none (`model.rs:288` indexes past the end). Run
   `phone_warnings`.

Other behaviour that the models show and the properties except by name, with
the place where it arises.

Proxy, TUN and resolvers:
- A failed rollback keeps the recovery file, but the session does not count as
  applied: the next `enable` overwrites it with half-changed settings
  (`ui/system_proxy/macos.rs:324`, the same on Linux, Windows and for the
  resolvers; `Restorable`, `ProxyComesBack`, `DnsComesBack`). After a failed
  recovery of the resolvers, `prepare` and `disable` delete the record without
  restoring.
- On Windows an empty registry value is read as the name of its type
  (`ui/system_proxy/windows.rs`). A `reg` that fails with status 1 counts as an
  absent value: a value that could not be read is deleted by the restoration (line
  130), and one that could not be deleted stays Manis' own while the recovery file
  goes (line 176; `ProxyComesBack`).
- A health check that cannot query the kernel counts as a stopped one
  (`ui/app/runtime_lifecycle/live.rs:159`; the daemon that does not answer,
  `ui/macos_privileged.rs:326`): the mode is shown as off and the resolvers are given
  back while the kernel runs with TUN on (`HonestMode`).
- A resolver can be bound to a new TUN link after the session has ended.
- A refresh can clear the mode while TUN is on: its snapshot of `tun.enable` is
  older than the switch it overwrites (`ui/app/runtime_lifecycle/kernel.rs:398`;
  `HonestMode`). "TUN is disabled, but …" can be shown while it is enabled
  (`ui/app/proxy_transition.rs:155`).
- A start over the launch daemon that the client gave up leaves a root kernel
  that only the daemon knows (`SoleKernel`).

Sources, store and editor:
- Refused rules can come back with TUN, which is restored by compiling a store
  that is rolled back only later (`ui/mihomo/managed_apply.rs:281`). After the
  generated file has been replaced, the `?` returns at lines 107-113 leave it
  while the store is rolled back; the failed stop at line 218 can lose TUN
  without `ProxyModeLost`, and no finisher then corrects the mode that is shown
  (`FailedMeansRestored`, `LossIsShown`).
- An edit of metadata reads its record outside the transaction and, beside another
  rule task, can undo it (`ui/app/configuration.rs:153`); `Sources` has the step, and
  no property is about it.
- Two rule tasks at a time share one generation: the earlier one's result is
  dropped (`ListsFollowStore`). A rule editor opened over an import resets its
  feedback (`DraftsAreKept`).
- The editor of the configuration refuses some texts that the program wrote
  (ambiguous names, a group that refers to none, no folded group;
  `TextsAreUnderstood`). An import of a text that fails has closed its window, and
  reopening it starts blank.
- A subscription with a long address, or a 33rd policy group, is written before
  it is refused, and only the compilation that follows takes it back.

Routing and nodes:
- A failed apply puts an older list of rules back under an open draft
  (`ui/app/configuration/manual_rules/persistence.rs:76`). The order is saved
  from what the page has loaded: without manual rules that were not read yet,
  and with an order whose apply is still under way
  (`…/source_mutations/qx_import.rs:273`). Manual rules that could not be read
  count as none, and the next save overwrites them (`…/manual_rules/editor.rs:263`).
- An explicit group that mixes a saved node with nodes of subscriptions loses the
  former (`managed_policy.rs:153-213`). Compound rules and `IP6-CIDR` are never
  attributed to their group.
- A restoration of picks, or a latency test, that began before a newer pick
  overwrites it in the kernel or on the page (`PicksAreUsed`, `ShownIsUsed`).
- After an update of the kernel the saved picks are shown but not sent
  (`ui/app/runtime_lifecycle/kernel.rs:229`, where a connect sends them at `:299`): the
  new kernel uses its defaults until the next connect (`PicksAreUsed`, `ShownIsUsed`).
- A lowest-latency group without candidates starves those behind it
  (`ui/app/runtime_lifecycle/benchmark.rs:34`; `DueIsTested`). Late answers of
  exit-address probes are lost (`ui/app/exit_ip.rs:98`).

Kernel, updates and launches:
- Only a live session polls the kernel's health. A connect drops it
  (`ui/app/runtime_lifecycle/kernel.rs:260`), and after one that failed nobody notices
  that the kernel dies (`CrashIsNoticed`). The readiness probe of a start is answered
  by any kernel on the endpoint, also by one that a former manager left behind
  (`manis-engine/src/lifecycle.rs:249`).
- A connect is not held back by an update of the kernel, which itself looks only
  at the mode and not at a switch under way (`ui/app/runtime_lifecycle/kernel.rs:149`,
  `:243`; `KernelRunsInstalled`). Staged files and backups of a crashed update are
  never cleaned. A missing kernel never connects automatically, against the
  comment at `kernel.rs:49-51`.
- A failing check hides a release that an earlier one found
  (`ui/app/runtime_lifecycle/update.rs:239`). `src/README.en.md:108-109` says that
  Manis "only reads version metadata and never downloads or installs application
  updates", while `ui/app_update.rs` does both.
- An owner that takes longer to quit than the rechecks take loses the launch
  (`ui/single_instance.rs:121`; `NoLaunchIsLost`).
- After the fail-safe or a failed connect the page keeps the connections of a
  dead kernel; the back-off of a stream is reset only by a clean end; a kernel
  that hangs inside a response stays "Live".

Android:
- Overlapping starts, reloads and resolver threads can leave a kernel that
  nobody knows (`manis-android/src/lib.rs:204`), a reload counts as applied before
  it has succeeded, and a failing one ends the VPN although the page says that it
  is not interrupted (`NoStrayKernel`, `NothingPendingIsServed`).
- Picking only nodes that belong to no subscription leaves a group without a
  filter, so that it gets every subscription's nodes (`GroupsKeepMembers`).

## 5. Proofs

Each of the components below has an inductive invariant, checked by TLC before it
was proved, the three facts about it (the initial states have it, every step
keeps it, it implies the properties), and the theorems that follow. A proof
module is about components that share nothing but the side of the system they
are on; its proofs never mix them. The type invariant of each component is
proved and, mostly, not run; so are some properties that the invariants imply
and that would repeat what a run asks: `OwnershipTheorem`,
`MemoryAgreesWithFile`, `TakeoverIsComplete`, `BusyStateHasWorker`,
`LostTunIsReported`, `UpdateLeavesTheProxy`, `RollbackReportsHonestly`,
`OneInstance` and `PartialResultsAreOwn`.

### KernelProofs

**Engine** (assuming `Attempts` is a positive natural number and `NoPid`
is not a process). `EngineInv` is `TypeOK`, `OwnedOrLeaked`, and two strengthenings:
`MethodOwnership` (which stages own a child: one that is validating does not,
one that is probing does) and `ChildIsNotLeaked`. Without the first,
`StartSpawn` could overwrite a living child; without the second, a termination
could end a leaked process and leave it recorded as alive. Theorems:
`EngineTypeOK`, `NoForgottenKernel`, `OwnershipTheorem` (an action property).

**Vpn** (for any resolver threads, kernels and numbers of edits; `NoKernel` is
no kernel and "main" no resolver thread). `NoStrayKernel` and
`NothingPendingIsServed` speak of threads that have not overlapped (`Single`).
`OneRenders` says that then at most one of them is between its rendering and its
storing, and none while the service ends; `MainRenders` when that can be the main
thread; `KnownKernels` that every living kernel is the service's or in the hands of
the thread that spawned it, and that the service's has ended before another is
spawned. `AppliedIsServed` follows an edit that the page no longer calls pending: it
is in the running kernel, in an intent to reload, or in the main thread's hands on
the way there. Each step moves one thread (`OnlyMoves`), and that is how the proof
reads: what a step does to its own thread, and that the others stand where they
stood. Theorems: `VpnInvariant`, `VpnTypes`, `NoKernelIsStray`, `AppliedReachesKernel`.

### SystemProxyProofs

**SystemProxy** (for any set of settings and servers). `SessionInv` adds
to `TypeOK`, `Restorable` and `MemoryMatchesFile`: `WellFormed` (a setting without
a server is off, so that restoring it needs no server), `CallMatchesFile` (the snapshot of the call in progress
is the file's), `RestoredSoFar` and `AppliedSoFar` (what a half-done restoration or
takeover has already set, setting by setting). The last two carry the loops:
they say at the last command that all commands were done. Theorems: `SystemProxyTypeOK`,
`SettingsStayRestorable`, `MemoryAgreesWithFile`, `TakeoverIsComplete`, and
`SessionImplementsUndoLog`, the refinement.

**PlatformProxy** (for any value that a user may have set; `NoFile` is no content
of a recovery file). As on macOS, the file has to be followed through the loops
that write key after key: `FileIsTheirs` (unless it became worthless, it says what
the user has chosen), `CallHasFile` (a call that writes took its snapshot from the
file, an applied session remembers it), `PassedIsRestored` (the keys that a
restoring call has passed are as its snapshot says, and without a file every key is
as the user left it), and for Windows `ProgramsKnow` (running programs know what is
set, or a file is there from which the keys will be written, and announced, again).
Theorems: `PlatformTypes`, `SettingsComeBack`.

### TunProofs

**TunDns** (for any network services and resolvers; `NoRecord` is no content of a
recovery file). `DnsComesBack` is inductive only together with: the session
remembers nothing but what the file says (`SessionMatchesFile`); a session that is
prepared or applied, and a call that restores, has a file (`HolderHasFile`); the
file of macOS has the user's resolvers (`FileIsTheirs`), while on Linux no service's
resolvers are touched (`LinuxLeavesServices`); and where the file is about to be
deleted everything is as the user left it (`CleanBeforeDelete`). Theorems:
`TunDnsTypes`, `ResolversComeBack`.

**Helper** (for any processes; `None` is not one). `SoleKernel` is a promise about
kernels that were reported ready, and `HelperInv` has what each step before it
establishes, as long as nothing but `raced` has been marked (`Regular`): an ordinary kernel of an earlier run has bound the socket,
at which it is found (`LeftoversAreFound`), one of root is the daemon's child
(`RootIsHeld`); before the manager starts one, no other is left, and when the
ordinary ones are reclaimed the daemon has none (`NothingLeftBehind`). A promotion
replaces the spawner under a running kernel; `Promotion` says how far it has come and
that nobody else does what only a promotion may. `ChildrenAsStarted` connects the two
sides. Theorems: `HelperTypes`, `RootKernelIsHeld`, `ReadyKernelIsAlone`.

**ProxyMode** (it has no constants, and TLC visits all of its states; the proof says
why they are right). `HonestMode` speaks of the time between transitions and
`QuitRestores` of the end; `ModeInv` says what is on the way there. `Progress` says of
each stage of a transition, going forward or rolling back, what of the old mode and of
the new one is in effect; `ShownIsInEffect` adds the times without one, where a failed
call that cleans up is the only excuse. A handler that changes the mode outside of a
transition needs to know that it is alone (`RequestIsOwn`, `ConnectShows`), and the
fail-safe that the kernel is gone, or that it has misread it; an end of
TUN that the kernel is not asked for, that it runs as root only while TUN is wanted
(`TunNeedsKernel`, `Privileged`). `OthersAreTheUsers` (a session that is not
the application's leaves what the user had) and `GivenBack` (what each step of quitting
has done stays done) give `QuitRestores`. Theorems: `ModeInvariant`, `ModeIsHonest`,
`QuitGivesBack`.

### ApplicationProofs

**AppUpdate** (for any versions and any number of overlapping tasks, where
TLC has three and two). `BusyHasWorker` is inductive with the types.
`InstallsTheOffer` needs to follow a version from the release that a check found
to the package file: `OffersAreNewer` (every version shown, remembered or on its
way is newer) and `BytesMatchNames` (a download carries its own version's bytes,
a package file holds those of its name or is not complete). Theorems:
`UpdateTypeOK`, `BusyStateHasWorker`, `OfferIsInstalled`.

**Instance** (for any launches, where TLC has three, if a launch looks at least
three times; the code's `SECONDARY_RECHECK_ATTEMPTS` is five).
`NoLaunchIsLost` speaks of launches that have ended. Those under way are in
`Unanswered`: a request is on disk under its temporary or its final name, or an
owner is about to open its window, which answers all of them; for a launch that has
looked for the last time or has ended, only the latter will do. `LooksAreCounted`
says that nobody looks again before it has tried to leave a request, so that a
launch that gives up has outlasted what an owner that quits can take; this is what
the assumption is for: with two looks, TLC finds a lost launch. Theorems:
`InstanceTypes`, `OneInstance`, `LaunchesAreAnswered`.

**Benchmarks** (for any groups in any order, sources and nodes; groups are not
sources, and `None` is no identity of a test). `OldResultsAreDropped` relates two
states and follows from an invariant of each: the worker is the active test's
(`OneTest`), a running result is the active test's, whose group was not edited since
it began, and nothing else has partial results (`RunningIsActive`), and a poll with
the active identity, which may have been another test's before, asks for that test's
source (`PollsAreOwn`). Theorems: `BenchmarksTypes`, `PartialResultsAreOwn`,
`EditsDropResults`.

### ConnectionProofs

**CoreUpdate** (for any set of binaries, with `None`, `Corrupt` and
`Foreign` not among them). `CoreRecoverable` alone does not survive the publishing rename and
the rollback, which overwrite the binary in place: `FilesInv` adds to its types
`Checked` (a staged binary passed its verification), `Linked` (from the hard
link to the publication the backup is the binary in place) and `Backed` (while
a new binary is tried, the backup by itself is enough). For
`UpdateLeavesTheProxy` a second invariant, `ClosedIdle` and `Alone`, says that
nothing else is in flight beside an update unless `meddled` says so. Theorems:
`CoreUpdateTypes`, `CoreIsRecoverable`, `UpdateLeavesTheProxy`.
For `KernelRunsInstalled` a third one says which runtime may have a running kernel
and of which binary, by how far the update is (`KernelsAreKnown`), that the connects
in flight are the window's (`CallsAreOwn`), that the worker began with the window's
runtime (`WorkerIsOwn`), and that nothing runs while the application is closed
(`NothingRunsClosed`). Theorem: `KernelIsInstalled`.

**Selections** (for any groups, nodes and chains of nodes, at least one node, and
distinct markers). `PicksAreUsed` and `ShownIsUsed` speak of the end of all work, so
the invariant says, behind a catalog that is complete, who is going to remove each
difference: a saved pick that the kernel does not use is about to be sent by its own
worker or by a restoration (`SavedIsServed`), a node shown that is not in use is
about to be shown again by one of them (`ShownIsServed`). Before the catalog is
complete there are readings: each belongs to a connect or a connection
(`ReadingsHaveOwner`), is of the groups as they are unless an edit has ended or is
about to (`ReadingsAreCurrent`), and what it says of groups without a saved pick is in
use (`ReadingsHold`); what an update of the kernel brings is not newer than the
groups, and a kernel it has only installed does not run (`UpdateKnown`); `CandidatesAreThere` says that a complete catalog's nodes
are the kernel's. What a controller may do when asked for a node is stated once
(`Took`). Theorems: `SelectionsInvariant`, `SavedPicksAreUsed`, `ShownNodesAreUsed`.

### PageProofs

**Editors** (for any lists of items and any number of operations).
A completion clears a draft, so it has to be known which tasks can complete under
an open window. `TaskMatchesWindow`: of proxies none, since their window stays closed
while one runs, and of groups only the latest, the one that the window waits for;
`LatestGenerations`: no task's generation is ahead of the counter, and each belongs
to one task; `ClosedWhileInstalling`: no window is open while a transfer installs.
`FieldsComeBack` says that disabled fields belong to a kind whose task will end,
`HostsKeep` that an open window has the item and text its user left there. The
exception in both is the recorded one of rule sources (`raced`). Theorems:
`EditorsTypes`, `DraftsSurvive`.

**Sources** (for any rule sources, nodes and definitions, and any number of slots, where
TLC has three, with no more subscriptions than slots; a failed source is tried again no sooner
than every scheduled one could have been tried, an item is in one list only, and a
configuration always has manual rules). Both
properties speak of a window with nothing in flight, so the invariant says what each
task in flight is going to bring. `Indicators`: the busy mark that a task raised is still
there and carries its generation; `OneRouted`: one task at a time holds the mark that
manual rules and nodes share. Hence no finisher takes a result for an older one and drops it.
`OneRuleTask` says the same of rule sources, unless two of them went astray. `InStep`:
a list shows for an item without a task what the store has, and for an item with one what
the store will have once that task's result is merged, or had before it was committed.
`LossIsNoticed`: a TUN that is gone is shown as off, or the result of a task says
that it is lost. A result that waits is not touched by the other tasks, because
each item has at most one (`OneTaskOfItem`, a lemma). A launch renumbers the slots and
starts with due sources at once: `SlotsForAll` is the counting
argument that there is a slot for each. One lemma per action says that it keeps the
invariant. The proof found an overlap of two guards in an operator of the model
(`Written`, now with `Added` and `Changed`), on which TLC had taken the first branch, as the
code does. Theorems: `SourcesInvariant`, `ListsFollowTheStore`, `LostTunIsShown`.

### SourceApplyProofs and DataProofs

**SourceApply** (for any sources, of which any may be accepted, and a
`NoSource` that is none of them). The properties speak of the end of a
transaction; `ApplyInv` says, stage by stage, what is known on the way there:
when the outcome is settled (`OutcomeByStage`), which stages have a validated
store (`StoreByStage`), from which write to which rollback the generated file is
the new one (`FileByStage`), and, for undisturbed transactions only, what the
kernel serves and that `revive` remembers the TUN of the beginning
(`KernelByStage`). It needs one more fact of the kernel, that TUN is off whenever
it does not run. The proof has one step per action and one below it per part of
the invariant. Theorems: `ApplyTypeOK`, `AppliedIsServed`, `RefusedIsRestored`,
`LostTunIsReported`, `StoreStaysBootable`.

**Settings** (for any first documents that an earlier session may have left, that is,
sequences that parse: `SettingsAssumption`; and any number of operations).
`StoredIsKept` speaks of what is found on disk by whoever looks next; `SettingsInv`
adds what makes it so. What the old files hold goes into the document before they are
removed (`FilesAreTaken`): without a document they are all there, or there
are none, and what is taken over is the first configuration, the files that are no
entries left aside (`EntriesAreRead`). A replacement carries two configurations
(`ReplacementInv`): until the entries are written the one on disk is the old one, from
then on it is the new one or the old one, and the rollback's copy is what was there.
That what the user typed is what the replacement writes is not proved but assumed, as
`[]TextsAreUnderstood`, which is the property that run `stores` checks of the two
conversions in `ConfigText`; everything about order, failures and ends is proved.
Theorem: `SettingsAreKept`.

**SourceStore** (for any entries and contents). `StoreInv` adds to
`TypeOK` and `OthersKept`: `StageMatchesProgress` (which entries have been checked,
tried and undone, by stage), `OwnEntries` (an entry that no other writer touched
holds the old content until the installation comes to it and the new one until
the rollback begins) and `TakenBack` (what the rollback has been through is
restored, or the conflict is noted). Theorems: `StoreTypeOK`, `OtherWritersAreKept`,
`TransactionIsAtomic`, `RollbackReportsHonestly`.

**Routing** (for any rules, rule sources, policies and numbers of operations; what
the store holds at launch is arbitrary, but an order has no id that was never given
out, and ids are given out in growing order, as `next_stored_source_id` does while the
clock does not go back). `PageAndKernelFollowStore` speaks of moments at which nothing is under
way; `RoutingInv` compares at every moment two states that exist in no variable: what
the page would show if the task in flight failed (`Base`) and what the store would
hold if the transaction were taken back (`Undone`). Their rules are equal
(`RulesInStep`), so are their sources but for the task that has succeeded and is not
yet shown (`SourcesInStep`); their orders are only *alike* (`OrderInStep`), that is,
normalized to the same one, because each side normalizes when it reads. The kernel
runs what `Undone` compiles to (`KernelInStep`). That a transaction holds what it
copied or installed (`LockIsHeld`), in spite of handlers that write the order beside
it, and that no order names a source before it exists (`OrdersAreKnown`) carry these.
The facts about data they rest on: normalizing twice changes nothing
(`NormalizedAgain`); with fewer sources, what is left of the order is a part of the
normalized one (`NormalizedFewer`); a new source comes at its end (`NormalizedMore`);
hence alike orders stay alike when a source comes or goes (`AlikeStable`). They are
proved from lemmas on `Filter`, by induction over the sequence: no theorem with an
operator as its parameter is needed when the induction is over the *set* of sequences
for which a claim holds (`SeqInd`, from the least element of a set of numbers).
`DraftKeepsItsRule` needs beside it only that a draft is not opened before
the rules have been read. The proof says
which exceptions matter where: an order that could not be saved does not disturb what
the kernel runs, and one that was saved before the manual rules were read does not
disturb what the page shows.

`ActivityMirrorsProfile` adds to this a fact about compiling. The profile of the first
groups of an order is at every moment (`Mirrors`) a part of rules with conditions and
a part of rules without; in the first, the first rule of its conditions is from the first
of these groups that has such a rule (`Attributed`), and the second is there if one of them
has a FINAL. A further group inserts its rules between the two
(`InsertBetween`, `SourceBrings`, `ManualBrings`) and so takes no condition from an
earlier group (`AttributedGrows`, `AppendsIts`); `AppendedMirrors` is the induction over
the order. With no task left the page's order is the one that was compiled
(`ShownIsCompiled`), the kernel never runs a refused profile (`KernelStep`), and what
`MatchingGroup` finds is the first such group. The code never recognizes a rule of
several conditions; the property leaves those out, and the model's `Hits` is only asked
about the others.
Theorems: `RoutingInvariant`, `DraftsKeepTheirRule`, `RoutingFollowsStore`,
`ActivityMirrors`.

**LiveStream** (for any size of mailbox and page, any number of frames and sessions).
`StreamIsFaithful` is about the *flow*: page, mailbox, and the frames completed by
what is in the buffer and on the wire, one after the other. It is in order, and what
was written and is not in it was lost where that may be. A step that adds to the flow
needs to know that all of it is older, and one that replaces the page that nothing
else is on its way; so `StreamInv` adds that the flow has only what was written
and that without a session wire, buffer and mailbox are empty. Every
other step takes a part out of the flow and accounts for it, which one lemma shows to
be enough (`PartIsLost`): a round that fails (`RoundIsLost`), a session that is dropped
(`SessionIsLost`), a mailbox or page that is full (`ChunkIsRead`, `DrainKeepsFlow`), a
connection cut within a frame (`StopKeepsFlow`). That the size of the chunks makes
no difference is `ChunkIsRead`: frames completed by two parts are those of the
first and those of the second (`CompleteConcat`), and what `Emit` leaves in the
buffer completes none (`EmitIsComplete`). Theorems: `StreamInvariant`, `StreamsAreFaithful`.

**PhoneProfile** (for any addresses, links, names and numbers of edits; workspaces on the
clipboard are copies from the application, `PhoneAssumption`). `GroupsKeepMembers`
speaks of what `compile` returns; `PhoneInv` of what it starts from: in each list
every source has an identity of its own, the positions of a group are
positions of the lists, and the sources at them are those that were meant of what is
still there (`MembersAreMeant`). A group for which only nodes of no subscription
were picked has all subscriptions and means none, so the invariant must name it
from the moment it is saved. That an edit of a list and the edit of the positions belong
together is one predicate, `Follows`, shown for a source that is added (`ListGrows`),
switched (`ListSwitches`) and removed (`ListShrinks`, where the positions behind
it come one place nearer); `ListsChange` makes of it that all groups are kept. The second
half is about the compiler: when no source is skipped, the list of the parsed ones is
that of the enabled ones (`NoneIsSkipped`), so that what is looked up at a group's
positions are its enabled members (`MembersAre`, `GroupIsFaithful`). Where
a source *is* skipped this fails, and so does the code: finding 2.
Theorems: `PhoneInvariant`, `GroupsAreKept`.

### What is only model-checked

- Liveness (`CrashIsNoticed`, `CrashGivesBack`, `TransactionEnds`, `DueIsTested`):
  the prover has no rules for fairness and `ENABLED`.
- `Routing.CompilesIfSound` compares a depth-first search (`Visit`, a fold inside of
  a recursive function) with reachability, a fold too. It needs inductions over folds,
  whose theorems take an operator as their parameter.
- `Settings.TextsAreUnderstood` (the conversions of `ConfigText`, there and back) and
  `Records.RecordsAreRead` (the formats of the records): what they compute is compared
  with a reference over bounded inputs, record by record and line by line, and TLC
  is the tool for it.

## 6. Abstractions to know of

- The platform of `SourceApply`, `ProxyMode` and `Helper` is macOS; Linux and
  Windows have no privileged restart of the kernel.
- Contents are atoms: a source set, the profile compiled from it and the
  generated file are one value in `SourceApply`; whether the kernel accepts a
  profile is the constant `Valid`. `Routing`, `Records` and `ConfigText` open up
  the parts of it in which order, references and fields matter.
- The generated file exists before a transaction begins; the first one ever
  written is not modelled.
- `release_macos_tun_route`, which stops and starts the kernel when TUN is
  switched off, is one step of `ProxyMode`; so is the promotion of the kernel
  to root, which `Helper` opens up.
- The live streams appear in `ProxyMode` only as `polling`: when they do not
  start, there are no health polls, and `CrashGivesBack` promises nothing.
  `CoreUpdate` knows the system proxy only; TUN asks the kernel for every switch.
- In `SystemProxy` the user does not edit the proxy settings in the middle of a
  call. In `Settings` the user changes a text once before submitting it.
- `LiveStream` follows one of two streams that run the same code and share only
  the lock of the mailbox. In `Routing` one rule source changes at a time;
  `Sources` has several. In `Benchmarks` a group becomes due again by time only
  while no other is due, which the intervals (30 s and more against a tick of 4 s)
  come to.
- In `Helper` asking for the status and staging a binary are one step each.

## 7. Not modelled, and why

- Command lines and paths of the engine, `manis-core`, parsing of share links and
  subscription bodies, rendering of YAML, version parsing, hashing, archives:
  functions without state, which appear as outcomes.
- Requests to the controller other than streams: single steps with the outcomes
  success, failure and lost answer, in the module that makes them.
- Views, theme, localization, diagnostics (an append-only log), autostart (one
  file), the caches of benchmarks: nothing depends on their order.
- The kernel's routing mode (rule, global, direct): one preference and one request.
- In `Records`: validation of names and contents, collapsed groups, lost updates
  between two read-modify-writes. In `Settings`: pruning of backups. In
  `Routing`: legacy targets, duplicate group names, write failures inside a
  transaction (they are in `SourceStore`). In `Instance`: a lock that cannot be
  taken at all.
- Android's update manager and its picks of nodes; the installation of the Linux
  helper; runtimes of a controller that Manis does not manage.

## 8. What a continuation would take up

A proof of `TunDns` as a second implementation of `UndoLog`;
`ProxyMode` over the steps of `TunDns` instead of its summary; the record-level
lost updates of the configuration page; a composition of `Sources` and
`Editors`, which today meet only in their abstractions of each other.
