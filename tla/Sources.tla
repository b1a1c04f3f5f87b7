------------------------------ MODULE Sources ------------------------------
(***************************************************************************)
(* The source lists of the configuration page and the background tasks     *)
(* that change them: remote subscriptions, remote rule sources, single     *)
(* nodes and the manual rules.  A handler on the main thread checks the    *)
(* busy indicators, raises its own and starts a task; the task downloads   *)
(* and commits a store transaction (modelled in detail by SourceApply) on  *)
(* a worker thread; a second handler on the main thread merges the result, *)
(* unless the indicator no longer carries the task's generation.           *)
(*                                                                         *)
(* A task occupies a slot, and the slot is its generation: generations are *)
(* only compared for equality, with that of the latest operation.          *)
(***************************************************************************)
EXTENDS Naturals, FiniteSets, Functions, TLC

CONSTANTS
  Subs, Rules, Nodes,  \* the items of the three lists
  Manual,              \* the manual rules, saved and shown as one item
  Scheduled,           \* the items with a refresh interval other than Manual
  Defs,                \* names, addresses and targets, as one value
  Contents, Plain,     \* rule documents; the content of everything else
  Absent,              \* an item that is not in a list
  Saved, Imported,     \* the configuration at launch; that of a replacement
  Slots,               \* at most this many tasks run at once
  RetryTicks,          \* idle scheduler ticks before a source is tried again
  MaxOps               \* at most this many user operations

Items == Subs \cup Rules \cup Nodes \cup {Manual}
Record == [on : BOOLEAN, def : Defs, body : Contents \cup {Plain}, fresh : BOOLEAN]
Lists == [Items -> Record \cup {Absent}]

\* An item is in one list, and every configuration has manual rules, if no more
\* than an empty text.
ASSUME SourcesAssumption ==
  /\ Subs \cap Rules = {} /\ (Subs \cup Rules) \cap Nodes = {}
  /\ Manual \notin Subs \cup Rules \cup Nodes
  /\ Absent \notin Record
  /\ Slots \subseteq Nat \ {0} /\ IsFiniteSet(Slots)
  /\ IsFiniteSet(Subs) /\ Cardinality(Subs) <= Cardinality(Slots)
  /\ Scheduled \subseteq Subs \cup Rules
  /\ RetryTicks \in Nat /\ Cardinality(Scheduled) <= RetryTicks
  /\ {Saved, Imported} \subseteq Lists
  /\ Saved[Manual] # Absent /\ Imported[Manual] # Absent

VARIABLES
  store,     \* what the store holds
  ui,        \* what the lists of the window show
  sub,       \* state and generation of each subscription
  proxy,     \* the proxy source editor: slot of its import, 0 when idle
  rules,     \* the rule source page: feedback, generations and editor window
  routing,   \* routing_apply_state is busy
  task,      \* the tasks in flight
  retry,     \* ticks until the scheduler may try an item again
  transfer,  \* the configuration replacement
  mode,      \* the proxy mode that the window shows
  tun,       \* the kernel's TUN: on, off, or off without a task that will tell
  ops,       \* user operations so far
  astray     \* a rule task was started beside another, or a rollback failed

vars == <<store, ui, sub, proxy, rules, routing, task, retry, transfer, mode, tun, ops, astray>>
volatile == <<sub, proxy, rules, routing, retry, transfer>>

NoTask == [op |-> "none"]
Task(op, i) ==
  [op |-> op, item |-> i, how |-> "none", def |-> "none", on |-> TRUE, stage |-> "work",
   seen |-> Absent, prev |-> Absent, rec |-> Absent, result |-> "none"]

Free == {k \in Slots : task[k] = NoTask}
NextSlot(k) == k \in Free /\ \A j \in Free : k <= j
InFlight(i) == {k \in Slots \ Free : task[k].item = i}
RuleTasks == {k \in Slots \ Free : task[k].item \in Rules}

\* source_refresh_busy
Busy ==
  \/ proxy # 0
  \/ \E s \in Subs : sub[s].state \in {"Refreshing", "Removing"}
  \/ rules.importing
  \/ \E r \in Rules : rules.refreshing[r] # 0 \/ rules.updating[r] # 0

Idle == transfer = "off" /\ ~Busy
IdleRules == [importing |-> FALSE, gen |-> 0, editor |-> "closed",
              refreshing |-> [r \in Rules |-> 0], updating |-> [r \in Rules |-> 0]]
IdleSub == [state |-> "None", gen |-> 0]

Loaded(l, s) == IF l[s] = Absent \/ ~l[s].on THEN "None" ELSE "Pending"

\* Some time after a launch: the subscriptions are loaded and TUN is on.
Init ==
  /\ store = Saved /\ ui = Saved
  /\ sub = [s \in Subs |-> [state |-> IF Loaded(Saved, s) = "None" THEN "None" ELSE "Ready",
                            gen |-> 0]]
  /\ proxy = 0 /\ rules = IdleRules /\ routing = FALSE
  /\ task = [k \in Slots |-> NoTask]
  /\ retry = [i \in Items |-> 0]
  /\ transfer = "off" /\ mode = "Tun" /\ tun = "on"
  /\ ops = 0 /\ astray = FALSE
-----------------------------------------------------------------------------
(* Starting a task: the handlers of the window. *)

UserOp == ops < MaxOps /\ ops' = ops + 1

Start(k, t) ==
  /\ NextSlot(k)
  /\ task' = [task EXCEPT ![k] = t]
  /\ astray' = (astray \/ (t.item \in Rules /\ RuleTasks # {}))

Kept == UNCHANGED <<store, ui, mode, tun>>

\* A source that is added again is a new item: no older task may still name it.
New(i) == \A k \in InFlight(i) : task[k].how = "new"

\* submit_source_import
SubmitProxy(i, how, t) ==
  /\ UserOp /\ Idle /\ ~routing
  /\ IF how = "new" THEN New(i) ELSE ui[i] # Absent
  /\ \E k \in Slots : Start(k, t) /\ proxy' = k
  /\ Kept /\ UNCHANGED <<sub, rules, routing, retry, transfer>>

\* import_remote_subscription
ImportSub(s, how, def, on) ==
  SubmitProxy(s, how, [Task("save", s) EXCEPT !.how = how, !.def = def, !.on = on])

\* import_single_node
ImportNode(n, how, def, on) ==
  SubmitProxy(n, how, [Task("save", n) EXCEPT !.how = how, !.def = def, !.on = on])

\* A generation is forgotten with its task: no later one could be equal to it.
Shown(s, k, state) == sub' = [sub EXCEPT ![s] = [state |-> state, gen |-> k]]

\* Mutant: a refresh does not ask what the subscription is doing.
MayRefreshBusySub(s) ==
  transfer = "off" /\ proxy = 0 /\ ui[s] # Absent /\ ui[s].on /\ sub[s].state # "None"

\* refresh_imported_subscription: its guard looks at no other task than imports.
MayRefreshSub(s) ==
  /\ transfer = "off" /\ proxy = 0
  /\ ui[s] # Absent /\ ui[s].on
  /\ sub[s].state \notin {"None", "Refreshing", "Removing"}

StartRefreshSub(s, k) ==
  /\ MayRefreshSub(s)
  /\ Start(k, Task("refresh", s))
  /\ Shown(s, k, "Refreshing")
  /\ Kept /\ UNCHANGED <<proxy, rules, routing, transfer>>

RefreshSub(s) == UserOp /\ (\E k \in Slots : StartRefreshSub(s, k)) /\ UNCHANGED retry

\* set_subscription_enabled
ToggleSub(s) ==
  /\ UserOp /\ Idle /\ ui[s] # Absent
  /\ \E k \in Slots :
       /\ Start(k, [Task("toggle", s) EXCEPT !.on = ~ui[s].on, !.prev = sub[s].state])
       /\ Shown(s, k, "Refreshing")
  /\ Kept /\ UNCHANGED <<proxy, rules, routing, retry, transfer>>

\* remove_imported_subscription
RemoveSub(s) ==
  /\ UserOp /\ Idle /\ ui[s] # Absent
  /\ \E k \in Slots : Start(k, Task("remove", s)) /\ Shown(s, k, "Removing")
  /\ Kept /\ UNCHANGED <<proxy, rules, routing, retry, transfer>>

ChangeNode(n, t) ==
  /\ UserOp /\ Idle /\ ~routing /\ ui[n] # Absent
  /\ \E k \in Slots : Start(k, t)
  /\ routing' = TRUE
  /\ Kept /\ UNCHANGED <<sub, proxy, rules, retry, transfer>>

\* set_single_node_enabled, remove_saved_single_node
ToggleNode(n) == ChangeNode(n, [Task("toggle", n) EXCEPT !.on = ~ui[n].on])
RemoveNode(n) == ChangeNode(n, Task("remove", n))

\* persist_manual_rules: the list shows the change before it is saved.
EditManual(def) ==
  /\ UserOp /\ transfer = "off" /\ ~routing
  /\ \E k \in Slots : Start(k, [Task("manual", Manual) EXCEPT !.def = def, !.prev = ui[Manual]])
  /\ ui' = [ui EXCEPT ![Manual].def = def]
  /\ routing' = TRUE
  /\ UNCHANGED <<store, sub, proxy, rules, retry, transfer, mode, tun>>

\* open_new_qx_rule_editor is offered at any time, and resets the feedback of
\* an import or a removal that still runs.
OpenNewRule ==
  /\ UserOp /\ rules.editor = "closed"
  /\ rules' = [rules EXCEPT !.editor = "new", !.importing = FALSE]
  /\ Kept /\ UNCHANGED <<sub, proxy, routing, task, retry, transfer, astray>>

\* open_qx_rule_editor, from a card whose controls are enabled
OpenRule(r) ==
  /\ UserOp /\ rules.editor = "closed" /\ ~Busy /\ ui[r] # Absent
  /\ rules' = [rules EXCEPT !.editor = r]
  /\ Kept /\ UNCHANGED <<sub, proxy, routing, task, retry, transfer, astray>>

\* close_qx_rule_editor
CloseRule ==
  /\ rules.editor # "closed" /\ ~rules.importing
  /\ rules' = [rules EXCEPT !.editor = "closed"]
  /\ Kept /\ UNCHANGED <<sub, proxy, routing, task, retry, transfer, ops, astray>>

\* submit_qx_rule_import closes the window; it does not ask whether a
\* refresh or another change is running.
SubmitRule(r, how, def) ==
  /\ UserOp /\ transfer = "off" /\ ~rules.importing
  /\ IF how = "new" THEN rules.editor = "new" /\ ui[r] = Absent /\ New(r)
                    ELSE rules.editor = r
  /\ \E k \in Slots :
       /\ Start(k, [Task("save", r) EXCEPT !.how = how, !.def = def,
                      !.stage = IF how = "new" THEN "work" ELSE "read"])
       /\ rules' = [rules EXCEPT !.importing = TRUE, !.gen = k, !.editor = "closed"]
  /\ Kept /\ UNCHANGED <<sub, proxy, routing, retry, transfer>>

\* refresh_qx_rule_source
StartRefreshRule(r, k) ==
  /\ Idle /\ ui[r] # Absent
  /\ Start(k, Task("refresh", r))
  /\ rules' = [rules EXCEPT !.refreshing[r] = k, !.gen = k]
  /\ Kept /\ UNCHANGED <<sub, proxy, routing, transfer>>

RefreshRule(r) == UserOp /\ (\E k \in Slots : StartRefreshRule(r, k)) /\ UNCHANGED retry

ChangeRule(r, t) ==
  /\ UserOp /\ Idle /\ ui[r] # Absent
  /\ \E k \in Slots : Start(k, t) /\ rules' = [rules EXCEPT !.updating[r] = k, !.gen = k]
  /\ Kept /\ UNCHANGED <<sub, proxy, routing, retry, transfer>>

\* set_qx_rule_source_enabled
ToggleRule(r) == ChangeRule(r, [Task("toggle", r) EXCEPT !.on = ~ui[r].on])

\* update_qx_rule_source_target
TargetRule(r, def) ==
  ui[r] # Absent /\ def # ui[r].def /\ ChangeRule(r, [Task("target", r) EXCEPT !.def = def])

\* remove_qx_rule_source, from a card whose controls are enabled
RemoveRule(r) ==
  /\ UserOp /\ Idle /\ ui[r] # Absent
  /\ \E k \in Slots :
       /\ Start(k, Task("remove", r))
       /\ rules' = [rules EXCEPT !.importing = TRUE, !.gen = k]
  /\ Kept /\ UNCHANGED <<sub, proxy, routing, retry, transfer>>
-----------------------------------------------------------------------------
(* The scheduler: source_refresh_scheduler and next_due_remote_source. *)

Due(i) ==
  /\ i \in Scheduled /\ ui[i] # Absent /\ ui[i].on /\ ~ui[i].fresh
  /\ i \in Subs => sub[i].state \notin {"None", "Pending", "Refreshing", "Removing"}

\* Attempts and operations are shorter than a tick, so that only the ticks that
\* find the application idle bring the retries closer.
Elapsed(i) == IF retry[i] = 0 THEN 0 ELSE retry[i] - 1

NextDue ==
  LET ready == {i \in Items : Due(i) /\ Elapsed(i) = 0}
  IN  IF ready \cap Subs # {} THEN ready \cap Subs ELSE ready

\* A tick that finds the application idle.
Tick ==
  /\ Idle
  /\ \/ /\ NextDue = {} /\ \E i \in Items : retry[i] # 0
        /\ retry' = [i \in Items |-> Elapsed(i)]
        /\ Kept /\ UNCHANGED <<sub, proxy, rules, routing, task, transfer, ops, astray>>
     \/ LET i == CHOOSE d \in NextDue : TRUE
        IN  /\ NextDue # {}
            /\ retry' = [[j \in Items |-> Elapsed(j)] EXCEPT ![i] = RetryTicks]
            /\ \E k \in Slots : IF i \in Subs THEN StartRefreshSub(i, k) ELSE StartRefreshRule(i, k)
            /\ UNCHANGED ops

\* A refresh interval passes.  The shortest is an hour, sixty ticks: by then every
\* other source that is due has been tried.
Stale(r) == IF r = Absent THEN r ELSE [r EXCEPT !.fresh = FALSE]
Age(i) ==
  /\ i \in Scheduled /\ (Stale(store[i]) # store[i] \/ Stale(ui[i]) # ui[i])
  /\ \A j \in Scheduled \ {i} : Due(j) => retry[j] > 0
  /\ store' = [store EXCEPT ![i] = Stale(store[i])]
  /\ ui' = [ui EXCEPT ![i] = Stale(ui[i])]
  /\ task' = [k \in Slots |-> IF k \notin InFlight(i) THEN task[k]
                              ELSE [task[k] EXCEPT !.seen = Stale(@), !.rec = Stale(@)]]
  /\ UNCHANGED <<sub, proxy, rules, routing, retry, transfer, mode, tun, ops, astray>>
-----------------------------------------------------------------------------
(* The tasks, on worker threads. *)

\* save_qx_rule_source reads the saved rules outside the transaction.
Read(k) ==
  /\ task[k] # NoTask /\ task[k].stage = "read"
  /\ task' = [task EXCEPT ![k].stage = "work", ![k].seen = store[task[k].item]]
  /\ UNCHANGED <<store, ui, volatile, mode, tun, ops, astray>>

(* What the store functions write, given the saved record. *)

\* save_subscription_source_with_options_in: a known address is overwritten.
AddedSub(t, old) ==
  IF old = Absent THEN [on |-> t.on, def |-> t.def, body |-> Plain, fresh |-> TRUE]
                  ELSE [old EXCEPT !.on = t.on, !.def = t.def]

\* update_subscription_source_in: a new address counts as an update.
EditedSub(t, old) == [old EXCEPT !.on = t.on, !.def = t.def, !.fresh = @ \/ t.how = "url"]

\* save_single_node_source_with_options_in, update_single_node_source_in
AddedNode(t, old) == [on |-> t.on, def |-> t.def, body |-> Plain, fresh |-> TRUE]
EditedNode(t, old) == [old EXCEPT !.on = t.on, !.def = t.def]

\* save_named_qx_rule_source_in: a known address is left as it is.
AddedRule(t, old) ==
  IF old # Absent THEN {old}
  ELSE {[on |-> TRUE, def |-> t.def, body |-> b, fresh |-> TRUE] : b \in Contents}

\* replace_qx_rule_source_definition_in, with the content and update time that the
\* task read when the address is the same, and with a fresh download otherwise
EditedRule(t, old) ==
  IF t.how = "meta" /\ t.seen # Absent
    THEN {[old EXCEPT !.def = t.def, !.body = t.seen.body, !.fresh = t.seen.fresh]}
    ELSE {[old EXCEPT !.def = t.def, !.body = b, !.fresh = TRUE] : b \in Contents}

\* update_qx_rule_source_name_in, update_qx_rule_source_target_in, save_manual_rules_in
Renamed(t, old) == [old EXCEPT !.def = t.def]

\* update_subscription_source_enabled_in, and those of nodes and rules
Switched(t, old) == [old EXCEPT !.on = t.on]

\* replace_qx_rule_source_content_in
RefreshedRule(old) == {[old EXCEPT !.body = b, !.fresh = TRUE] : b \in Contents}

\* mark_subscription_source_update_success_in
RefreshedSub(old) == [old EXCEPT !.fresh = TRUE]

Added(t, old) ==
  IF t.item \in Subs THEN {AddedSub(t, old)}
  ELSE IF t.item \in Nodes THEN {AddedNode(t, old)} ELSE AddedRule(t, old)

Changed(t, old) ==
  CASE t.op = "save" /\ t.item \in Subs -> {EditedSub(t, old)}
    [] t.op = "save" /\ t.item \in Nodes -> {EditedNode(t, old)}
    [] t.op = "save" /\ t.item \in Rules -> IF t.how = "name" THEN {Renamed(t, old)} ELSE EditedRule(t, old)
    [] t.op = "toggle" -> {Switched(t, old)}
    [] t.op \in {"target", "manual"} -> {Renamed(t, old)}
    [] t.op = "refresh" -> IF t.item \in Subs THEN {RefreshedSub(old)} ELSE RefreshedRule(old)

\* Every function but the adding and removing ones refuses a missing record.
Written(t) ==
  LET old == store[t.item] IN
  IF t.op = "remove" THEN {Absent}
  ELSE IF t.op = "save" /\ t.how = "new" THEN Added(t, old)
  ELSE IF old = Absent THEN {} ELSE Changed(t, old)

\* A rule source that is added; its address may be in the store already.
Adds(t) == t.op = "save" /\ t.item \in Rules /\ t.how = "new"
Existing(t) == Adds(t) /\ t.seen # Absent

\* Saving only a name does not involve the kernel.
MetadataOnly(t) == t.how = "name" /\ t.seen # Absent

\* A reload that is not confirmed may have ended TUN.  Where the kernel can then not
\* be stopped, or its settings not be made, the failure does not mention TUN.
TunAfter(result) ==
  CASE result \in {"committed", "failed"} -> {tun}
    [] result = "lost" -> {"off"}
    [] result \in {"rolled", "broken"} -> IF tun = "on" THEN {"on", "untold"} ELSE {tun}

\* mutate_saved_sources: the transaction is committed, TUN being lost or not; it
\* is rolled back, or the rollback fails; or nothing is installed.
Work(k) ==
  /\ task[k] # NoTask /\ task[k].stage = "work"
  /\ \/ \E result \in {"committed", "lost", "broken"}, rec \in Written(task[k]) :
          /\ result = "lost" => tun = "on"
          /\ result # "committed" => ~MetadataOnly(task[k])
          /\ task' = [task EXCEPT ![k].stage = "done", ![k].result = result,
                        ![k].rec = IF result = "broken" THEN Absent ELSE rec,
                        ![k].seen = IF Adds(task[k]) THEN store[task[k].item] ELSE Absent]
          /\ store' = [store EXCEPT ![task[k].item] = rec]
          /\ tun' \in TunAfter(result)
          /\ astray' = (astray \/ result = "broken")
     \/ \E result \in {"rolled", "failed"} :
          /\ result = "rolled" => Written(task[k]) # {} /\ ~MetadataOnly(task[k])
          /\ task' = [task EXCEPT ![k].stage = "done", ![k].result = result, ![k].seen = Absent]
          /\ tun' \in TunAfter(result)
          /\ UNCHANGED <<store, astray>>
  /\ UNCHANGED <<ui, volatile, mode, ops>>
-----------------------------------------------------------------------------
(* The results, on the main thread. *)

Committed(t) == t.result \in {"committed", "lost"}

\* reconcile_proxy_mode
Reconciled(t) == mode' = IF t.result = "lost" THEN "Off" ELSE mode

Ends(k) == task' = [task EXCEPT ![k] = NoTask] /\ UNCHANGED <<store, tun, ops, astray, transfer>>
Dropped == UNCHANGED <<ui, sub, proxy, rules, routing, retry, mode>>

Retired(k) == IF rules.gen = k THEN 0 ELSE rules.gen

Merged(i, rec) == ui' = [ui EXCEPT ![i] = rec]
MergedIfShown(i, rec) == ui' = IF ui[i] = Absent THEN ui ELSE [ui EXCEPT ![i] = rec]

\* merge_imported_subscription
MergedSub(s, rec) == Merged(s, rec) /\ Shown(s, 0, IF rec.on THEN "Ready" ELSE "None")

\* finish_subscription_import
FinishImportSub(k, t) ==
  /\ t.op = "save" /\ t.item \in Subs /\ Ends(k)
  /\ IF proxy # k THEN Dropped
     ELSE /\ proxy' = 0
          /\ IF Committed(t) THEN MergedSub(t.item, t.rec) /\ Reconciled(t)
                             ELSE UNCHANGED <<ui, sub, mode>>
          /\ UNCHANGED <<rules, routing, retry>>

\* finish_single_node_import, finish_saved_single_node
FinishImportNode(k, t) ==
  /\ t.op = "save" /\ t.item \in Nodes /\ Ends(k)
  /\ IF proxy # k THEN Dropped
     ELSE /\ proxy' = 0
          /\ IF Committed(t) THEN Merged(t.item, t.rec) /\ Reconciled(t) ELSE UNCHANGED <<ui, mode>>
          /\ UNCHANGED <<sub, rules, routing, retry>>

\* finish_subscription_refresh takes the update time alone from the record.
FinishRefreshSub(k, t) ==
  /\ t.op = "refresh" /\ t.item \in Subs /\ Ends(k)
  /\ IF sub[t.item].gen # k THEN Dropped
     ELSE /\ IF Committed(t)
               THEN /\ ui' = [ui EXCEPT ![t.item].fresh = t.rec.fresh]
                    /\ Shown(t.item, 0, "Ready")
                    /\ retry' = [retry EXCEPT ![t.item] = 0]
                    /\ Reconciled(t)
               ELSE /\ Shown(t.item, 0, IF t.result = "failed" THEN "Failed" ELSE "Pending")
                    /\ UNCHANGED <<ui, retry, mode>>
          /\ UNCHANGED <<proxy, rules, routing>>

\* finish_subscription_toggle; enabling refreshes in the same handler.
FinishToggleSub(k, t) ==
  /\ t.op = "toggle" /\ t.item \in Subs
  /\ IF sub[t.item].gen # k THEN Ends(k) /\ Dropped
     ELSE /\ LET refresh == Committed(t) /\ t.rec.on /\ transfer = "off" /\ proxy = 0
             IN  /\ IF refresh
                      THEN task' = [task EXCEPT ![k] = Task("refresh", t.item)]
                      ELSE task' = [task EXCEPT ![k] = NoTask]
                 /\ Shown(t.item, IF refresh THEN k ELSE 0,
                                     IF ~Committed(t) THEN t.prev
                                     ELSE IF refresh THEN "Refreshing"
                                     ELSE IF t.rec.on THEN "Pending" ELSE "None")
          /\ IF Committed(t) THEN ui' = [ui EXCEPT ![t.item].on = t.rec.on] /\ Reconciled(t)
                             ELSE UNCHANGED <<ui, mode>>
          /\ UNCHANGED <<store, proxy, rules, routing, retry, transfer, tun, ops, astray>>

\* remove_imported_subscription, its completion
FinishRemoveSub(k, t) ==
  /\ t.op = "remove" /\ t.item \in Subs /\ Ends(k)
  /\ IF sub[t.item].gen # k THEN Dropped
     ELSE /\ IF Committed(t)
               THEN /\ Merged(t.item, Absent) /\ Shown(t.item, 0, "None")
                    /\ retry' = [retry EXCEPT ![t.item] = 0]
                    /\ Reconciled(t)
               ELSE /\ Shown(t.item, 0, IF t.result = "failed" THEN "Failed" ELSE "Ready")
                    /\ UNCHANGED <<ui, retry, mode>>
          /\ UNCHANGED <<proxy, rules, routing>>

\* Mutant: the completion does not reconcile the proxy mode.
FinishNodeForgetsMode(k, t) ==
  /\ t.op \in {"toggle", "remove"} /\ t.item \in Nodes /\ Ends(k)
  /\ routing' = FALSE
  /\ IF Committed(t) THEN MergedIfShown(t.item, t.rec) ELSE UNCHANGED ui
  /\ UNCHANGED <<sub, proxy, rules, retry, mode>>

\* set_single_node_enabled and remove_saved_single_node, their completions
FinishNode(k, t) ==
  /\ t.op \in {"toggle", "remove"} /\ t.item \in Nodes /\ Ends(k)
  /\ routing' = FALSE
  /\ IF Committed(t) THEN MergedIfShown(t.item, t.rec) /\ Reconciled(t) ELSE UNCHANGED <<ui, mode>>
  /\ UNCHANGED <<sub, proxy, rules, retry>>

\* start_routing_runtime_apply, its completion: the list goes back to the
\* snapshot unless the change was committed.
FinishManual(k, t) ==
  /\ t.op = "manual" /\ Ends(k)
  /\ routing' = FALSE
  /\ IF Committed(t) THEN Reconciled(t) /\ UNCHANGED ui
                     ELSE Merged(Manual, t.prev) /\ UNCHANGED mode
  /\ UNCHANGED <<sub, proxy, rules, retry>>

\* finish_qx_rule_import.  An address that is in the store already is reported,
\* without the outcome of applying the transaction.
FinishSaveRule(k, t) ==
  /\ t.op = "save" /\ t.item \in Rules /\ Ends(k)
  /\ IF rules.gen # k THEN Dropped
     ELSE /\ \/ /\ Committed(t) /\ ~Existing(t)
                /\ rules' = [rules EXCEPT !.importing = FALSE, !.gen = 0, !.refreshing[t.item] = 0]
                /\ Merged(t.item, t.rec) /\ Reconciled(t)
             \/ /\ ~(Committed(t) /\ ~Existing(t))
                /\ rules' = [rules EXCEPT !.importing = FALSE, !.gen = 0]
                /\ ui' = IF Committed(t) /\ ui[t.item] = Absent THEN [ui EXCEPT ![t.item] = t.rec] ELSE ui
                /\ UNCHANGED mode
          /\ UNCHANGED <<sub, proxy, routing, retry>>

\* finish_qx_rule_source_refresh
FinishRefreshRule(k, t) ==
  /\ t.op = "refresh" /\ t.item \in Rules /\ Ends(k)
  /\ IF rules.refreshing[t.item] # k THEN Dropped
     ELSE /\ rules' = [rules EXCEPT !.refreshing[t.item] = 0, !.gen = Retired(k)]
          /\ IF Committed(t)
               THEN /\ MergedIfShown(t.item, t.rec) /\ Reconciled(t)
                    /\ retry' = [retry EXCEPT ![t.item] = 0]
               ELSE UNCHANGED <<ui, retry, mode>>
          /\ UNCHANGED <<sub, proxy, routing>>

\* set_qx_rule_source_enabled, finish_qx_rule_target_update
FinishChangeRule(k, t) ==
  /\ t.op \in {"toggle", "target"} /\ t.item \in Rules /\ Ends(k)
  /\ IF rules.updating[t.item] # k THEN Dropped
     ELSE /\ rules' = [rules EXCEPT !.updating[t.item] = 0, !.gen = Retired(k)]
          /\ IF Committed(t) THEN MergedIfShown(t.item, t.rec) /\ Reconciled(t)
                             ELSE UNCHANGED <<ui, mode>>
          /\ UNCHANGED <<sub, proxy, routing, retry>>

\* remove_qx_rule_source, its completion
FinishRemoveRule(k, t) ==
  /\ t.op = "remove" /\ t.item \in Rules /\ Ends(k)
  /\ IF rules.gen # k THEN Dropped
     ELSE /\ IF Committed(t)
               THEN /\ rules' = [rules EXCEPT !.importing = FALSE, !.gen = 0, !.refreshing[t.item] = 0]
                    /\ Merged(t.item, Absent) /\ Reconciled(t)
                    /\ retry' = [retry EXCEPT ![t.item] = 0]
               ELSE /\ rules' = [rules EXCEPT !.importing = FALSE, !.gen = 0]
                    /\ UNCHANGED <<ui, retry, mode>>
          /\ UNCHANGED <<sub, proxy, routing>>

Finish(k) ==
  /\ task[k] # NoTask /\ task[k].stage = "done"
  /\ \/ FinishImportSub(k, task[k])
     \/ FinishImportNode(k, task[k])
     \/ FinishRefreshSub(k, task[k])
     \/ FinishToggleSub(k, task[k])
     \/ FinishRemoveSub(k, task[k])
     \/ FinishNode(k, task[k])
     \/ FinishManual(k, task[k])
     \/ FinishSaveRule(k, task[k])
     \/ FinishRefreshRule(k, task[k])
     \/ FinishChangeRule(k, task[k])
     \/ FinishRemoveRule(k, task[k])
-----------------------------------------------------------------------------
(* Configuration replacement and launches. *)

\* configuration_mutation_busy and has_editors, as far as sources go
Settled == ~Busy /\ ~routing /\ rules.editor = "closed"

Moves(from, to) == transfer = from /\ transfer' = to

\* begin_configuration_transfer
BeginTransfer ==
  /\ UserOp /\ Settled /\ Moves("off", "open")
  /\ Kept /\ UNCHANGED <<sub, proxy, rules, routing, task, retry, astray>>

\* cancel_configuration_transfer
CancelTransfer ==
  /\ Moves("open", "off")
  /\ Kept /\ UNCHANGED <<sub, proxy, rules, routing, task, retry, ops, astray>>

\* replace_configuration
Replace ==
  /\ Settled /\ Moves("open", "replacing")
  /\ Kept /\ UNCHANGED <<sub, proxy, rules, routing, task, retry, ops, astray>>

\* Its worker turns the proxy off, stops the kernel and restores; every step
\* may fail, and the store is then as it was.
ReplaceWork ==
  /\ \/ Moves("replacing", "running") /\ UNCHANGED <<store, tun>>
     \/ Moves("replacing", "stopped") /\ tun' = "off" /\ UNCHANGED store
     \/ Moves("replacing", "replaced") /\ tun' = "off" /\ store' = Imported
  /\ UNCHANGED <<ui, sub, proxy, rules, routing, task, retry, mode, ops, astray>>

\* finish_configuration_replacement, when nothing was replaced
ReplaceFailed ==
  /\ \/ Moves("running", "open") /\ UNCHANGED mode
     \/ Moves("stopped", "open") /\ mode' = "Off"
  /\ UNCHANGED <<store, ui, sub, proxy, rules, routing, task, retry, tun, ops, astray>>

\* The lists are read from the store, and every subscription that is enabled is
\* refreshed: restore_imported_subscriptions asks for no busy indicator.
Launch ==
  LET pending == {s \in Subs : Loaded(store, s) = "Pending"}
      slot == CHOOSE f \in [pending -> Slots] : IsInjective(f)
      owner(k) == CHOOSE s \in pending : slot[s] = k
  IN  /\ ui' = store
      /\ task' = [k \in Slots |-> IF k \in Range(slot) THEN Task("refresh", owner(k)) ELSE NoTask]
      /\ sub' = [s \in Subs |-> IF s \in pending THEN [state |-> "Refreshing", gen |-> slot[s]]
                                                 ELSE IdleSub]
      /\ proxy' = 0 /\ rules' = IdleRules /\ routing' = FALSE
      /\ retry' = [i \in Items |-> 0]
      /\ transfer' = "off" /\ mode' = "Off" /\ tun' = "off"
      /\ astray' = FALSE /\ UNCHANGED store

\* finish_configuration_replacement restarts the application.
Replaced == transfer = "replaced" /\ Launch /\ UNCHANGED ops

\* The application quits or crashes, and is started again.
Relaunch == UserOp /\ Launch
-----------------------------------------------------------------------------
User ==
  \/ \E how \in {"new", "meta", "url"}, def \in Defs, on \in BOOLEAN :
       \/ \E s \in Subs : ImportSub(s, how, def, on)
       \/ \E n \in Nodes : how # "meta" /\ ImportNode(n, how, def, on)
  \/ \E s \in Subs : RefreshSub(s) \/ ToggleSub(s) \/ RemoveSub(s)
  \/ \E n \in Nodes : ToggleNode(n) \/ RemoveNode(n)
  \/ \E def \in Defs : EditManual(def)
  \/ OpenNewRule \/ CloseRule
  \/ \E r \in Rules : OpenRule(r) \/ RefreshRule(r) \/ ToggleRule(r) \/ RemoveRule(r)
  \/ \E r \in Rules, how \in {"new", "name", "meta", "url"}, def \in Defs : SubmitRule(r, how, def)
  \/ \E r \in Rules, def \in Defs : TargetRule(r, def)
  \/ BeginTransfer \/ CancelTransfer \/ Replace
  \/ Relaunch

System ==
  \/ Tick
  \/ \E k \in Slots : Read(k) \/ Work(k) \/ Finish(k)
  \/ ReplaceWork \/ ReplaceFailed \/ Replaced
  \/ \E i \in Items : Age(i)

Next == User \/ System

Spec == Init /\ [][Next]_vars
-----------------------------------------------------------------------------
\* Once no task runs, the lists show exactly what the store holds, whatever
\* succeeded, failed or was rolled back: unless two rule tasks ran side by side
\* (the later one's generation makes the result of the earlier one stale) or a
\* rollback failed.
ListsFollowStore ==
  Free = Slots /\ ~astray /\ transfer # "replaced" => ui = store

\* A TUN that was lost while a change was applied is not shown as on once the
\* tasks are done, except after the races that ListsFollowStore excepts, and
\* where the kernel could not be stopped, or its settings not be made, after a
\* reload that had ended TUN: no result mentions that loss ("untold").
LossIsShown ==
  Free = Slots /\ ~astray /\ transfer \in {"off", "open"} /\ tun = "off" => mode = "Off"

=============================================================================
