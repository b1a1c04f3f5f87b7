------------------------------ MODULE Selections ------------------------------
(***************************************************************************)
(* The nodes the user has picked: what is saved, what the kernel uses and  *)
(* what the pages show, which are three different things.                  *)
(*                                                                         *)
(* A pick is saved and shown at once and sent to the kernel by a worker.   *)
(* A connect brings a catalog of the kernel's groups, shows the saved      *)
(* picks over it, and has a worker send them to the kernel again one by    *)
(* one.  A catalog whose candidates are still being loaded is fetched      *)
(* again, and the picks are sent once more when it is complete.  Editing a *)
(* policy group reconfigures the kernel, drops the catalog and connects    *)
(* again.  A latency test of a group reads the node the kernel uses and    *)
(* shows it when the test is over.  An update of the core stops the kernel *)
(* and brings a snapshot of the one it has started: the saved picks are    *)
(* shown over that one too, and are not sent.                              *)
(*                                                                         *)
(* Of a connect, an update and a latency test only what touches selections *)
(* and catalog is here; CoreUpdate and ProxyMode have the rest of the      *)
(* first two, Benchmarks the rest of a test.  A preference that cannot be written is  *)
(* taken back before anything else happens and is not a step.  The states  *)
(* in managed_policies.runtime_states are written and never read.          *)
(***************************************************************************)
EXTENDS Naturals, FiniteSets

CONSTANTS
    Policies,      \* the manual policy groups
    Global,        \* the kernel's GLOBAL selector, driven by the Nodes page
    Nodes,         \* their candidates
    Syncs,         \* bound: restorations of saved picks in flight
    Attempts,      \* POLICY_CATALOG_RETRY_ATTEMPTS
    MaxActs,       \* bound: picks, edits, connects and tests of the user, and lost kernels
    Nothing        \* no node, no job, no catalog

Selectors == Policies \cup {Global}

\* What was read of the groups; the candidates that a restoration sends, those
\* still to be sent and those accepted; a pick; a chain of retries; a test.
Views == [listed : BOOLEAN, rev : Nat, target : [Policies -> Nodes \cup {Nothing}]]
Asked == UNION {[asked -> Nodes] : asked \in SUBSET Selectors}
Restorations == [to : Asked, left : SUBSET Selectors, got : SUBSET Selectors]
Sends == [to : Nodes, stage : {"sent", "applied", "failed"}]
Chains == [left : Nat, stage : {"waiting", "read", "failed"}, view : Views \cup {Nothing}]
Tests == [group : Policies, current : Nodes \cup {Nothing}]

\* What the kernel is: its candidates and selectors.  The worker of an update: whether
\* it is to connect again, the kernel of the runtime it has built, what it has read.
Targets == [Selectors -> Nodes]
Kernels == [up : BOOLEAN, listed : BOOLEAN, current : Targets]
Updates == [reconnect : BOOLEAN, stage : {"stop", "install", "done"},
            kernel : Kernels \cup {Nothing}, view : Views \cup {Nothing}]

ASSUME SelectionsAssumption ==
    /\ Global \notin Policies
    /\ Nodes # {} /\ Nothing \notin Nodes
    /\ Nothing \notin Views /\ Nothing \notin Restorations /\ Nothing \notin Sends
    /\ Nothing \notin Chains /\ Nothing \notin Tests
    /\ Nothing \notin Kernels /\ Nothing \notin Updates
    /\ {Attempts, MaxActs} \subseteq Nat

VARIABLES
    mihomo,      \* [up, listed, current]: the kernel, its candidates and selectors
    store,       \* the revision of the policy groups in the store
    saved,       \* node_selections, in memory as in the settings
    session,     \* ControllerState
    calling,     \* a connect is in flight
    snapshot,    \* what the connect in flight has read from the kernel
    update,      \* the worker of update_mihomo_core
    catalog,     \* the groups shown: [listed, rev, target]
    retry,       \* the chain that fetches an incomplete catalog again
    picks,       \* the worker of a pick, per selector
    syncs,       \* the workers that restore saved picks
    test,        \* the latency test of a manual group
    edit,        \* managed_policies.mutation_state: idle, saving or saved
    transfer,    \* configuration_transfer: shut, refused (its window says "busy") or open
    acts,        \* how many of the operations have happened
    astray,      \* selectors last touched by a failure, an older pick, a restart or nothing
    misshown,    \* groups whose shown node was overwritten by an older reading
    unfetched    \* no snapshot was fetched since an edit ended, or of the kernel as it is

selectionsVars ==
  <<mihomo, store, saved, session, calling, snapshot, update, catalog, retry, picks,
    syncs, test, edit, transfer, acts, astray, misshown, unfetched>>

\* A catalog without candidates shows no node (nodes empty, or COMPATIBLE).
ViewOf(k) == [listed |-> k.listed, rev |-> store,
              target |-> [p \in Policies |-> IF k.listed THEN k.current[p] ELSE Nothing]]
View == ViewOf(mihomo')

\* A kernel that starts may bring any selection back, and load its candidates later.
StartsIfDown == IF mihomo.up THEN mihomo' = mihomo ELSE mihomo' \in {k \in Kernels : k.up}

\* Behind a connection, or the reading for one, that makes obsolete what was sent and read.
StartsBehind ==
    /\ StartsIfDown
    /\ astray' = IF ~mihomo.up /\ (session = "connected" \/ snapshot # Nothing)
                 THEN Selectors ELSE astray

Free(s) == syncs[s] = Nothing

Operation == acts < MaxActs /\ acts' = acts + 1

\* configuration_transfer.active is not set.
Shut == transfer = "shut"

SelectionsInit ==
    /\ mihomo = CHOOSE k \in Kernels : ~k.up /\ ~k.listed
    /\ store = 0
    /\ saved = [g \in Selectors |-> Nothing]
    /\ session = "off" /\ calling = FALSE /\ update = Nothing
    /\ snapshot = Nothing /\ catalog = Nothing /\ retry = Nothing
    /\ picks = [g \in Selectors |-> Nothing]
    /\ syncs = [s \in Syncs |-> Nothing]
    /\ test = Nothing
    /\ edit = "idle" /\ transfer = "shut"
    /\ acts = 0
    /\ astray = {} /\ misshown = {} /\ unfetched = FALSE

(* ------------------------------ the catalog ------------------------------ *)

\* apply_selector_target: only a group with that candidate takes the target.
Showing(c, p, n) == IF c # Nothing /\ c.listed THEN [c EXCEPT !.target[p] = n] ELSE c

\* What is shown after a reading of the selectors in `got` has arrived.
Shown(got) ==
    LET some == DOMAIN got \cap Policies IN
    IF catalog # Nothing /\ catalog.listed
    THEN [catalog EXCEPT !.target = [p \in Policies |-> IF p \in some THEN got[p] ELSE @[p]]]
    ELSE catalog

Misread(got) == {p \in DOMAIN got \cap Policies : got[p] # mihomo.current[p]}

Arrives(got) ==
    /\ catalog' = Shown(got)
    /\ misshown' = (misshown \ DOMAIN got) \cup Misread(got)

\* sync_saved_node_selections: the targets are fixed here and applied later;
\* while the window of a transfer is open they are not sent at all.
SyncStarts(s) ==
    LET asked == {g \in Selectors : saved[g] # Nothing} IN
    /\ syncs' = IF asked = {} \/ ~Shut THEN syncs
                ELSE [syncs EXCEPT ![s] = [to |-> [g \in asked |-> saved[g]], left |-> asked, got |-> {}]]
    /\ astray' = IF Shut THEN astray ELSE astray \cup asked

(* -------------------------------- connects ------------------------------- *)

\* apply_mihomo_snapshot shows the saved targets over those of the kernel.
WithSaved(v) ==
    [v EXCEPT !.target = [p \in Policies |-> IF v.listed /\ saved[p] # Nothing THEN saved[p] ELSE @[p]]]

\* start_live_runtime begins the retries of a catalog that is incomplete.
RetriesOf(v) ==
    IF v.listed THEN Nothing ELSE [left |-> Attempts, stage |-> "waiting", view |-> Nothing]

\* connect_mihomo: a new live generation, which ends the chains of the old one.
\* Bound: a second connect, possible while an update has set the first one's
\* state back, begins when the first has ended (CoreUpdate has two in flight).
ConnectBegins ==
    /\ ~calling /\ calling' = TRUE
    /\ session' = "connecting"
    /\ snapshot' = Nothing /\ retry' = Nothing
    /\ unfetched' = FALSE

connect_mihomo ==
    /\ Shut /\ session # "connecting"
    /\ Operation
    /\ ConnectBegins
    /\ UNCHANGED <<transfer, update, mihomo, store, saved, catalog, picks, syncs, test, edit,
                   astray, misshown>>

\* Its worker starts the kernel if it must, and loads a snapshot.
ConnectRead ==
    /\ calling /\ snapshot = Nothing
    /\ StartsBehind
    /\ snapshot' = View
    /\ UNCHANGED <<transfer, calling, update, store, saved, session, catalog, retry, picks,
                   syncs, test, edit, acts, misshown, unfetched>>

\* Retries end with the connection, which an update may have brought meanwhile.
ConnectFails ==
    /\ calling /\ calling' = FALSE
    /\ session' = "off" /\ snapshot' = Nothing /\ retry' = Nothing
    /\ UNCHANGED <<transfer, update, mihomo, store, saved, catalog, picks, syncs, test,
                   edit, acts, astray, misshown, unfetched>>

\* A connect shows the saved picks and does not send them.
ConnectSucceedsWithoutSync(s) ==
    /\ calling /\ snapshot # Nothing
    /\ Free(s)
    /\ session' = "connected" /\ calling' = FALSE /\ snapshot' = Nothing
    /\ catalog' = WithSaved(snapshot) /\ misshown' = {}
    /\ retry' = RetriesOf(snapshot)
    /\ UNCHANGED <<transfer, update, mihomo, store, saved, picks, syncs, test, edit, acts,
                   astray, unfetched>>

\* The end of connect_mihomo: the saved targets are shown, and sent again.
ConnectSucceeds(s) ==
    /\ calling /\ snapshot # Nothing
    /\ Free(s)
    /\ session' = "connected" /\ calling' = FALSE /\ snapshot' = Nothing
    /\ catalog' = WithSaved(snapshot) /\ misshown' = {}
    /\ retry' = RetriesOf(snapshot)
    /\ SyncStarts(s)
    /\ UNCHANGED <<transfer, update, mihomo, store, saved, picks, test, edit, acts, unfetched>>

\* retry_incomplete_policy_catalog: the worker loads, or cannot.
RetryRead ==
    /\ retry # Nothing /\ retry.left > 0 /\ retry.stage = "waiting"
    /\ mihomo' = mihomo
    /\ \/ retry' = [retry EXCEPT !.stage = "failed"]
       \/ mihomo.up /\ retry' = [retry EXCEPT !.stage = "read", !.view = View]
    /\ UNCHANGED <<transfer, calling, update, store, saved, session, snapshot, catalog, picks,
                   syncs, test, edit, acts, astray, misshown, unfetched>>

RetryAgain == [left |-> retry.left - 1, stage |-> "waiting", view |-> Nothing]

RetryFailed ==
    /\ retry # Nothing /\ retry.stage = "failed"
    /\ retry' = RetryAgain
    /\ UNCHANGED <<transfer, calling, update, mihomo, store, saved, session, snapshot, catalog,
                   picks, syncs, test, edit, acts, astray, misshown, unfetched>>

\* The retried catalog is shown without sending the picks again.
RetryApplyWithoutSync(s) ==
    /\ retry # Nothing /\ retry.stage = "read"
    /\ Free(s)
    /\ catalog' = retry.view /\ misshown' = {}
    /\ retry' = IF retry.view.listed THEN Nothing ELSE RetryAgain
    /\ UNCHANGED <<transfer, calling, update, mihomo, store, saved, session, snapshot, picks,
                   syncs, test, edit, acts, astray, unfetched>>

\* apply_refreshed_policy_snapshot; the picks are sent once the catalog is complete.
RetryApply(s) ==
    /\ retry # Nothing /\ retry.stage = "read"
    /\ Free(s)
    /\ catalog' = retry.view
    /\ misshown' = {}
    /\ IF retry.view.listed
       THEN retry' = Nothing /\ SyncStarts(s)
       ELSE retry' = RetryAgain /\ UNCHANGED <<syncs, astray>>
    /\ UNCHANGED <<transfer, calling, update, mihomo, store, saved, session, snapshot, picks,
                   test, edit, acts, unfetched>>

(* ----------------------- the controller's selectors ---------------------- *)

\* select_policy_group_candidate: the candidate must be there, the change be
\* confirmed; a change that is not confirmed may have been made.
Outcomes(g, n) ==
    IF mihomo.up /\ mihomo.listed
    THEN {[ok |-> TRUE, current |-> n], [ok |-> FALSE, current |-> n],
          [ok |-> FALSE, current |-> mihomo.current[g]]}
    ELSE {[ok |-> FALSE, current |-> mihomo.current[g]]}

\* A failure for want of candidates is made good when the catalog is complete.
Sent(g, n, out) ==
    /\ mihomo' = [mihomo EXCEPT !.current[g] = out.current]
    /\ astray' = CASE out.ok /\ n = saved[g]      -> astray \ {g}
                   [] ~out.ok /\ ~mihomo.listed -> astray
                   [] OTHER                       -> astray \cup {g}

SyncSend(s, g) ==
    /\ ~Free(s) /\ g \in syncs[s].left
    /\ \E out \in Outcomes(g, syncs[s].to[g]) :
          /\ Sent(g, syncs[s].to[g], out)
          /\ syncs' = [syncs EXCEPT ![s].left = @ \ {g},
                                    ![s].got = IF out.ok THEN @ \cup {g} ELSE @]
    /\ UNCHANGED <<transfer, calling, update, store, saved, session, snapshot, catalog, retry,
                   picks, test, edit, acts, misshown, unfetched>>

SyncFinish(s) ==
    /\ ~Free(s) /\ syncs[s].left = {}
    /\ Arrives([g \in syncs[s].got |-> syncs[s].to[g]])
    /\ syncs' = [syncs EXCEPT ![s] = Nothing]
    /\ UNCHANGED <<transfer, calling, update, mihomo, store, saved, session, snapshot, retry,
                   picks, test, edit, acts, astray, unfetched>>

(* --------------------------------- picks --------------------------------- *)

\* policy_selection_busy is one flag for all policies, global_selection_busy another.
Busy(g) == \E h \in Selectors : (h = Global <=> g = Global) /\ picks[h] # Nothing

\* policy_target_is_selectable: by the catalog when connected, else by the store.
Selectable(g) == g = Global \/ session # "connected" \/ (catalog # Nothing /\ catalog.listed)

\* select_policy_node, select_global_node: saved and shown at once; sent to a
\* kernel that is connected, and left to the next connect otherwise.
Pick(g, n) ==
    /\ Shut /\ ~Busy(g) /\ Selectable(g)
    /\ Operation
    /\ saved' = [saved EXCEPT ![g] = n]
    /\ catalog' = IF g = Global THEN catalog ELSE Showing(catalog, g, n)
    /\ misshown' = misshown \ {g}
    /\ picks' = [picks EXCEPT ![g] = IF session = "connected"
                                     THEN [to |-> n, stage |-> "sent"] ELSE Nothing]
    /\ UNCHANGED <<transfer, calling, update, mihomo, store, session, snapshot, retry, syncs,
                   test, edit, astray, unfetched>>

PickSend(g) ==
    /\ picks[g] # Nothing /\ picks[g].stage = "sent"
    /\ \E out \in Outcomes(g, picks[g].to) :
          /\ Sent(g, picks[g].to, out)
          /\ picks' = [picks EXCEPT ![g].stage = IF out.ok THEN "applied" ELSE "failed"]
    /\ UNCHANGED <<transfer, calling, update, store, saved, session, snapshot, catalog, retry,
                   syncs, test, edit, acts, misshown, unfetched>>

\* finish_policy_node_selection: a failure changes the status text only.
PickFinish(g) ==
    /\ picks[g] # Nothing /\ picks[g].stage \in {"applied", "failed"}
    /\ picks' = [picks EXCEPT ![g] = Nothing]
    /\ IF picks[g].stage = "applied"
       THEN Arrives([h \in {g} |-> picks[g].to])
       ELSE UNCHANGED <<catalog, misshown>>
    /\ UNCHANGED <<transfer, calling, update, mihomo, store, saved, session, snapshot, retry,
                   syncs, test, edit, acts, astray, unfetched>>

(* --------------------- edits, latency tests, the kernel ------------------ *)

EditBegins ==
    /\ Shut /\ edit = "idle"
    /\ Operation
    /\ edit' = "saving"
    /\ UNCHANGED <<transfer, calling, update, mihomo, store, saved, session, snapshot, catalog,
                   retry, picks, syncs, test, astray, misshown, unfetched>>

\* The transaction of SourceApply: committed and in a running kernel, or neither.
EditCommits ==
    /\ edit = "saving"
    /\ edit' = "saved"
    /\ store' = store + 1
    /\ mihomo' \in {k \in Kernels : k.up = mihomo.up /\ (~k.up => k = mihomo)}
    /\ UNCHANGED <<transfer, calling, update, saved, session, snapshot, catalog, retry, picks,
                   syncs, test, acts, astray, misshown, unfetched>>

EditRefused ==
    /\ edit = "saving"
    /\ edit' = "idle"
    /\ UNCHANGED <<transfer, calling, update, mihomo, store, saved, session, snapshot, catalog,
                   retry, picks, syncs, test, acts, astray, misshown, unfetched>>

\* finish_managed_policy_save, refresh_after_managed_policy_change.
EditFinish ==
    /\ edit = "saved"
    /\ edit' = "idle"
    /\ catalog' = Nothing
    /\ misshown' = {}
    /\ IF session = "connected" /\ Shut
       THEN ConnectBegins
       ELSE /\ unfetched' = \/ unfetched \/ session = "connected"
                            \/ snapshot # Nothing /\ snapshot.rev # store
            /\ UNCHANGED <<session, calling, snapshot, retry>>
    /\ UNCHANGED <<transfer, update, mihomo, store, saved, picks, syncs, test, acts, astray>>

TestBegins(p) ==
    /\ Shut /\ test = Nothing /\ session = "connected"
    /\ catalog # Nothing /\ catalog.listed
    /\ Operation
    /\ test' = [group |-> p, current |-> Nothing]
    /\ UNCHANGED <<transfer, calling, update, mihomo, store, saved, session, snapshot, catalog,
                   retry, picks, syncs, edit, astray, misshown, unfetched>>

\* test_policy_group_delay: it starts a kernel that is gone, and reads the
\* node in use last.
TestReads ==
    /\ test # Nothing /\ test.current = Nothing
    /\ StartsBehind
    /\ test' = [test EXCEPT !.current = mihomo'.current[test.group]]
    /\ UNCHANGED <<transfer, calling, update, store, saved, session, snapshot, catalog, retry,
                   picks, syncs, edit, acts, misshown, unfetched>>

\* finish_policy_group_benchmark: a node without a delay is not shown as current.
TestShows(n) ==
    /\ test # Nothing /\ test.current # Nothing
    /\ n \in {test.current, Nothing}
    /\ Arrives([p \in {test.group} |-> n])
    /\ test' = Nothing
    /\ UNCHANGED <<transfer, calling, update, mihomo, store, saved, session, snapshot, retry,
                   picks, syncs, edit, acts, astray, unfetched>>

TestFails ==
    /\ test # Nothing
    /\ test' = Nothing
    /\ UNCHANGED <<transfer, calling, update, mihomo, store, saved, session, snapshot, catalog,
                   retry, picks, syncs, edit, acts, astray, misshown, unfetched>>

\* The kernel's own steps: candidates arrive, the process ends.
CandidatesLoad ==
    /\ mihomo.up /\ ~mihomo.listed
    /\ mihomo' = [mihomo EXCEPT !.listed = TRUE]
    /\ UNCHANGED <<transfer, calling, update, store, saved, session, snapshot, catalog, retry,
                   picks, syncs, test, edit, acts, astray, misshown, unfetched>>

KernelExits ==
    /\ mihomo.up
    /\ Operation
    /\ mihomo' = [mihomo EXCEPT !.up = FALSE, !.listed = FALSE]
    /\ UNCHANGED <<transfer, calling, update, store, saved, session, snapshot, catalog, retry,
                   picks, syncs, test, edit, astray, misshown, unfetched>>

\* The health poll finds the kernel gone: fail_safe_managed_runtime.
LossNoticed ==
    /\ session = "connected" /\ ~mihomo.up
    /\ session' = "off" /\ retry' = Nothing
    /\ UNCHANGED <<transfer, calling, update, mihomo, store, saved, snapshot, catalog, picks,
                   syncs, test, edit, acts, astray, misshown, unfetched>>

(* --------------------------- updates of the core ------------------------- *)

\* update_mihomo_core: the live generation ends, the connection is set back.
UpdateBegins ==
    /\ Shut /\ update = Nothing
    /\ Operation
    /\ update' = [reconnect |-> session = "connected", stage |-> "stop",
                  kernel |-> Nothing, view |-> Nothing]
    /\ session' = "off" /\ retry' = Nothing
    /\ UNCHANGED <<transfer, calling, mihomo, store, saved, snapshot, catalog, picks, syncs,
                   test, edit, astray, misshown, unfetched>>

UpdateAt(stage) == update # Nothing /\ update.stage = stage

\* perform_mihomo_core_update: a kernel that cannot be stopped ends it at once.
UpdateStops ==
    /\ UpdateAt("stop")
    /\ \/ /\ mihomo' = [mihomo EXCEPT !.up = FALSE, !.listed = FALSE]
          /\ update' = [update EXCEPT !.stage = "install"]
       \/ /\ mihomo.up /\ UNCHANGED mihomo
          /\ update' = [update EXCEPT !.stage = "done"]
    /\ UNCHANGED <<transfer, calling, store, saved, session, snapshot, catalog, retry, picks,
                   syncs, test, edit, acts, astray, misshown, unfetched>>

\* The new runtime, connected if the previous one was when the update began.
UpdateInstalls ==
    /\ UpdateAt("install")
    /\ \E k \in Kernels :
          /\ k.up = update.reconnect /\ (k.up \/ ~k.listed)
          /\ update' = [update EXCEPT !.stage = "done", !.kernel = k,
                                      !.view = IF k.up THEN ViewOf(k) ELSE Nothing]
    /\ UNCHANGED <<transfer, calling, mihomo, store, saved, session, snapshot, catalog, retry,
                   picks, syncs, test, edit, acts, astray, misshown, unfetched>>

\* The update has failed: the previous runtime connects again if it was connected,
\* which may start its kernel and then fail to load.
UpdateFails ==
    /\ UpdateAt("install")
    /\ \/ update.reconnect /\ StartsBehind
       \/ UNCHANGED <<mihomo, astray>>
    /\ \E v \in {Nothing} \cup (IF update.reconnect /\ mihomo'.up THEN {View} ELSE {}) :
          update' = [update EXCEPT !.stage = "done", !.view = v]
    /\ UNCHANGED <<transfer, calling, store, saved, session, snapshot, catalog, retry, picks,
                   syncs, test, edit, acts, misshown, unfetched>>

\* A worker that began with the previous runtime sends to, and reads from, a kernel
\* that nothing else looks at any more.
FormerWorkers ==
    /\ \E taken \in SUBSET Selectors :
          /\ picks' = [g \in Selectors |->
                IF picks[g] = Nothing \/ picks[g].stage # "sent" THEN picks[g]
                ELSE [picks[g] EXCEPT !.stage = IF g \in taken THEN "applied" ELSE "failed"]]
          /\ syncs' = [s \in Syncs |->
                IF Free(s) THEN Nothing
                ELSE [syncs[s] EXCEPT !.left = {}, !.got = @ \cup (syncs[s].left \cap taken)]]
    /\ IF test # Nothing /\ test.current = Nothing
       THEN \E n \in Nodes : test' = [test EXCEPT !.current = n]
       ELSE UNCHANGED test
    /\ IF calling /\ snapshot = Nothing
       THEN \E k \in Kernels : k.up /\ snapshot' = ViewOf(k)
       ELSE UNCHANGED snapshot

\* So does the chain of a connect that has ended during the update.
FormerReadings ==
    IF retry = Nothing \/ retry.stage # "waiting" \/ retry.left = 0 THEN {}
    ELSE {[retry EXCEPT !.stage = "read", !.view = ViewOf(k)] : k \in {k \in Kernels : k.up}}

\* What was read is not of the groups, or of the kernel, as they are.
Outdated(v) ==
    v.rev # store \/ (v.listed /\ mihomo'.up /\ [v EXCEPT !.rev = store] # View)

\* apply_core_update_snapshot: unlike the end of connect_mihomo it sends nothing.
ShowsUpdated(v) ==
    /\ session' = "connected"
    /\ catalog' = WithSaved(v) /\ misshown' = {}
    /\ retry' = RetriesOf(v)
    /\ astray' = astray \cup {g \in Selectors : saved[g] # Nothing}

\* apply_mihomo_core_update_outcome, Installed: the window's runtime is the new one.
UpdateInstalled ==
    /\ UpdateAt("done") /\ update.kernel # Nothing
    /\ update' = Nothing
    /\ mihomo' = update.kernel
    /\ FormerWorkers
    /\ IF update.view # Nothing
       THEN /\ ShowsUpdated(update.view)
            /\ unfetched' = (calling \/ Outdated(update.view))
       ELSE /\ unfetched' = (unfetched \/ calling)
            /\ retry' \in {retry} \cup FormerReadings
            /\ UNCHANGED <<session, catalog, misshown, astray>>
    /\ UNCHANGED <<transfer, calling, store, saved, edit, acts>>

\* apply_mihomo_core_update_outcome, Failed
UpdateFailed ==
    /\ UpdateAt("done") /\ update.kernel = Nothing
    /\ update' = Nothing
    /\ mihomo' = mihomo
    /\ IF update.view # Nothing
       THEN /\ ShowsUpdated(update.view)
            /\ unfetched' = (Outdated(update.view) \/ (calling /\ unfetched))
       ELSE UNCHANGED <<session, catalog, misshown, retry, astray, unfetched>>
    /\ UNCHANGED <<transfer, calling, snapshot, store, saved, picks, syncs, test, edit, acts>>

(* ------------------------------- transfers ------------------------------- *)

\* configuration_mutation_busy, in what it says of picks, edits, tests, connects and updates.
MutationBusy ==
    \/ edit # "idle" \/ test # Nothing \/ session = "connecting" \/ update # Nothing
    \/ \E g \in Selectors : picks[g] # Nothing

\* begin_configuration_transfer: its window opens also to say that it is busy.
TransferOpens ==
    /\ Shut
    /\ Operation
    /\ transfer' = IF MutationBusy THEN "refused" ELSE "open"
    /\ UNCHANGED <<calling, update, mihomo, store, saved, session, snapshot, catalog, retry,
                   picks, syncs, test, edit, astray, misshown, unfetched>>

TransferCloses ==
    /\ ~Shut
    /\ transfer' = "shut"
    /\ UNCHANGED <<calling, update, mihomo, store, saved, session, snapshot, catalog, retry,
                   picks, syncs, test, edit, acts, astray, misshown, unfetched>>

\* finish_configuration_replacement after a failure: the kernel was stopped and
\* the live generation has ended.  A success restarts the application.
TransferStops ==
    /\ transfer = "open" /\ ~MutationBusy
    /\ mihomo' = [mihomo EXCEPT !.up = FALSE, !.listed = FALSE]
    /\ session' = "off" /\ retry' = Nothing
    /\ UNCHANGED <<transfer, calling, update, store, saved, snapshot, catalog, picks, syncs,
                   test, edit, acts, astray, misshown, unfetched>>

(* ------------------------------ specification ---------------------------- *)

User == \/ connect_mihomo \/ EditBegins \/ TransferOpens \/ UpdateBegins
        \/ \E g \in Selectors, n \in Nodes : Pick(g, n)
        \/ \E p \in Policies : TestBegins(p)

ConnectWork == ConnectRead \/ ConnectFails \/ \E s \in Syncs : ConnectSucceeds(s)
RetryWork == RetryRead \/ RetryFailed \/ \E s \in Syncs : RetryApply(s)
SyncWork(s) == SyncFinish(s) \/ \E g \in Selectors : SyncSend(s, g)
PickWork(g) == PickSend(g) \/ PickFinish(g)
UpdateWork == UpdateStops \/ UpdateInstalls \/ UpdateFails \/ UpdateInstalled \/ UpdateFailed
EditWork == EditCommits \/ EditRefused \/ EditFinish
TestWork == TestReads \/ TestFails \/ \E n \in Nodes \cup {Nothing} : TestShows(n)
Kernel == CandidatesLoad \/ KernelExits \/ LossNoticed

SelectionsNext ==
    \/ User \/ Kernel \/ TransferCloses \/ TransferStops
    \/ ConnectWork \/ RetryWork \/ EditWork \/ TestWork \/ UpdateWork
    \/ \E s \in Syncs : SyncWork(s)
    \/ \E g \in Selectors : PickWork(g)

SelectionsSpec == SelectionsInit /\ [][SelectionsNext]_selectionsVars

(* ------------------------------- properties ------------------------------ *)

Quiet ==
    /\ session = "connected" /\ mihomo.up
    /\ retry = Nothing /\ edit = "idle" /\ test = Nothing /\ ~calling /\ update = Nothing
    /\ \A g \in Selectors : picks[g] = Nothing
    /\ \A s \in Syncs : Free(s)

\* With nothing in flight, a connected kernel uses the nodes the user has
\* saved, whether they were picked offline, during a connect, while the
\* candidates were loading or around an edit; but for a selector that a
\* reported failure, an older restoration or a restart behind the window
\* touched last; one whose saved node was only shown, because an update of the
\* core had brought the snapshot or the window of a transfer was open; and an
\* edit, or a kernel that replaced another, after which no snapshot was fetched.
PicksAreUsed ==
    Quiet /\ catalog # Nothing /\ catalog.listed /\ ~unfetched =>
        \A g \in Selectors \ astray : saved[g] \in {Nothing, mihomo.current[g]}

\* With nothing in flight the node shown for a group is the one the kernel
\* uses, with the exceptions of PicksAreUsed and of an older reading (of a
\* latency test or a restoration) that arrived after a newer pick.
ShownIsUsed ==
    Quiet /\ catalog # Nothing /\ catalog.listed /\ ~unfetched =>
        \A p \in Policies \ (astray \cup misshown) : catalog.target[p] = mihomo.current[p]

===============================================================================
