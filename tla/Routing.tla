------------------------------ MODULE Routing ------------------------------
(***************************************************************************)
(* The routing rules: the manual rules, the remote rule sources and the    *)
(* order of these groups, as the routing page shows them, as the store     *)
(* holds them and as they are compiled for the kernel, with the policy     *)
(* groups that are their targets.                                          *)
(*                                                                         *)
(* A handler of the page changes what is shown and starts a background     *)
(* task that commits it; a task that fails puts back what was shown when   *)
(* it started.  The handlers of rule sources that finish meanwhile write   *)
(* the order to the store on their own, outside of any transaction.  The   *)
(* manual rules are read when the page or a rule draft is first opened.    *)
(*                                                                         *)
(* One change of a rule source at a time: Sources has several.  There, the *)
(* downloads are modelled; here, the order and what is compiled.  The      *)
(* window of a transfer, which refuses these operations, is left out.      *)
(***************************************************************************)
EXTENDS Naturals, SequencesExt, Filters

CONSTANTS
  Conds,     \* conditions of a rule: a kind and its parameter
  Ids,       \* the ids of rule sources, oldest first
  Holds,     \* the rules of each source's document
  Policies,  \* policy groups
  Manual,    \* the id of the group of manual rules
  Direct,    \* the built-in policy
  Node,      \* a proxy node, as a member of a policy group
  Absent, Gone, Nothing,
  Refused,   \* what a store that does not compile compiles to
  Saved,     \* what the store can hold at launch
  Texts,     \* what a user enters as a rule
  MaxRules,  \* at most this many manual rules
  MaxOps     \* at most this many user operations

Sources == Range(Ids)
Groups == Sources \cup {Manual}
Targets == Policies \cup {Direct}

\* A rule holds when all its conditions do; FINAL has none.
Rule == [match : SUBSET Conds, to : Targets, on : BOOLEAN]
Doc == [to : Targets, on : BOOLEAN]
Store == [rules : Seq(Rule), order : Seq(Groups),
          docs : [Sources -> Doc \cup {Absent, Gone}],
          pol : [Policies -> SUBSET (Policies \cup {Node}) \cup {Absent}],
          nodes : BOOLEAN]

\* Ids are given out in their order and never again, and an order has nothing
\* but groups that there have been.
InTurn(docs) ==
  \A i, j \in DOMAIN Ids : i < j /\ docs[Ids[j]] # Absent => docs[Ids[i]] # Absent
Known(docs) == {s \in Sources : docs[s] # Absent} \cup {Manual}

ASSUME RoutingAssumption ==
  /\ Ids \in Seq(Sources) /\ IsInjective(Ids) /\ Manual \notin Sources
  /\ Absent # Gone /\ Absent \notin Doc /\ Gone \notin Doc
  /\ Saved \subseteq Store /\ Texts \subseteq Rule
  /\ \A s \in Saved : InTurn(s.docs) /\ Range(s.order) \subseteq Known(s.docs)
  /\ Holds \in [Sources -> Seq(Conds)]
  /\ \A s \in Sources : Holds[s] # <<>>

VARIABLES
  store,   \* what the store holds
  ui,      \* what the window shows; loaded: the manual rules have been read
  draft,   \* the manual rule editor
  job,     \* the background tasks: of the page, of a source, of a policy group
  tx,      \* the source transaction that holds the lock
  kernel,  \* the rules the kernel runs
  ops,     \* user operations so far
  astray   \* history: what has come between the window and the store

routingVars == <<store, ui, draft, job, tx, kernel, ops, astray>>

Final(r) == r.match = {}
Same(r, q) == r.match = q.match /\ r.to = q.to      \* same_definition
Listed(docs) == Filter(Ids, {s \in Sources : docs[s] \notin {Absent, Gone}})
-----------------------------------------------------------------------------
(* The order of the groups. *)

\* normalized_routing_rule_group_order
Normalized(order, manual, sources) ==
  LET groups == Range(sources) \cup (IF manual THEN {Manual} ELSE {})
      kept == Filter(order, groups)
      head == IF manual /\ Manual \notin Range(kept) THEN <<Manual>> ELSE <<>>
  IN head \o kept \o Filter(sources, groups \ Range(kept))

ShownOrder(u) == Normalized(u.order, u.rules # <<>>, Listed(u.docs))

\* sync_routing_rule_group_order
Synced(u) == [u EXCEPT !.order = ShownOrder(u)]

Index(order, g) == CHOOSE i \in DOMAIN order : order[i] = g
MoveTo(order, from, to) == InsertAt(RemoveAt(order, from), to, order[from])

\* place_routing_rule_group, of two different groups
Place(order, g, anchor, after) ==
  LET from == Index(order, g)
      slot == Index(order, anchor) + (IF after THEN 1 ELSE 0)
  IN MoveTo(order, from, slot - (IF from < slot THEN 1 ELSE 0))

\* move_routing_rule_group; beyond an end, nothing moves.
Swapped(order, g, up) ==
  LET i == Index(order, g)
      j == IF up THEN i - 1 ELSE i + 1
  IN IF j \in DOMAIN order THEN [order EXCEPT ![i] = order[j], ![j] = order[i]] ELSE order
-----------------------------------------------------------------------------
(* Compiling the store (compile_saved_profile).  A compiled rule also says *)
(* which group it is from.                                                 *)

Compiled(r, g) == [match |-> r.match, to |-> r.to, from |-> g]

\* Mutant: the new rules come before the ones that are there.
InsertFirst(profile, new) == new \o profile

\* The new rules come before a terminal MATCH.
Insert(profile, new) ==
  LET finals == {i \in DOMAIN profile : Final(profile[i])}
      at == IF finals = {} THEN Len(profile) ELSE Min(finals) - 1
  IN SubSeq(profile, 1, at) \o new \o SubSeq(profile, at + 1, Len(profile))

\* append_manual_rules: FINAL comes after every other rule.
AppendManual(profile, rules) ==
  LET on == {r \in Range(rules) : r.on}
      finals == {r \in on : Final(r)}
      of(set) == LET some == Filter(rules, set)
                 IN [i \in DOMAIN some |-> Compiled(some[i], Manual)]
      specific == Insert(profile, of(on \ finals))
  IN IF finals = {} THEN specific
     ELSE Filter(specific, {r \in Range(specific) : ~Final(r)}) \o of(finals)

\* apply_qx_rule_sources, for one source
AppendSource(profile, s, doc) ==
  IF ~doc.on THEN profile
  ELSE Insert(profile,
         [i \in DOMAIN Holds[s] |-> [match |-> {Holds[s][i]}, to |-> doc.to, from |-> s]])

\* Profile::validate: a policy that exists, and MATCH at the end only
Valid(profile, pol) ==
  \A i \in DOMAIN profile :
    /\ profile[i].to = Direct \/ pol[profile[i].to] # Absent
    /\ Final(profile[i]) => i = Len(profile)

Seen == [visiting : SUBSET Policies, visited : SUBSET Policies, ok : BOOLEAN]

\* Mutant: a group is done before its members have been visited.
VisitDoneFirst(pol) ==
  LET visit[p \in Policies, seen \in Seen] ==
        IF ~seen.ok \/ p \in seen.visited THEN seen
        ELSE IF pol[p] = Absent THEN [seen EXCEPT !.ok = FALSE]
        ELSE FoldSet(LAMBDA q, acc : visit[q, acc],
                     [seen EXCEPT !.visited = @ \cup {p}], pol[p] \ {Node})
  IN visit

\* visit: the groups on the path, and the ones that are done
Visit(pol) ==
  LET visit[p \in Policies, seen \in Seen] ==
        IF ~seen.ok \/ p \in seen.visited THEN seen
        ELSE IF p \in seen.visiting \/ pol[p] = Absent THEN [seen EXCEPT !.ok = FALSE]
        ELSE LET inner == FoldSet(LAMBDA q, acc : visit[q, acc],
                                  [seen EXCEPT !.visiting = @ \cup {p}], pol[p] \ {Node})
             IN [inner EXCEPT !.visiting = @ \ {p}, !.visited = @ \cup {p}]
  IN visit

Present(pol) == {p \in Policies : pol[p] # Absent}

\* validate_managed_policy_references
ReferencesPass(pol) ==
  LET visit == Visit(pol)
  IN FoldSet(LAMBDA p, seen : visit[p, seen],
             [visiting |-> {}, visited |-> {}, ok |-> TRUE], Present(pol)).ok

\* compile_managed_policy_groups: a group needs a member.
GroupsPass(pol) == ReferencesPass(pol) /\ \A p \in Present(pol) : pol[p] # {}

\* build_base_profile: the groups need a node source.  With one, the profile
\* has no rules yet; without, its only rule is kept for the end.
managed_empty == <<[match |-> {}, to |-> Direct, from |-> Nothing]>>
BasePasses(pol, nodes) == GroupsPass(pol) /\ (Present(pol) # {} => nodes)
Fallback(nodes) == IF nodes THEN <<>> ELSE managed_empty

\* apply_saved_routing: the groups of rules, each in its turn.
AppendGroup(profile, g, rules, docs) ==
  IF g = Manual THEN AppendManual(profile, rules) ELSE AppendSource(profile, g, docs[g])
Appended(order, rules, docs) ==
  LET upto[n \in 0..Len(order)] ==
        IF n = 0 THEN <<>> ELSE AppendGroup(upto[n - 1], order[n], rules, docs)
  IN upto[Len(order)]

CompileIn(order, rules, docs, pol, nodes) ==
  LET profile == Appended(order, rules, docs)
      ended == IF \E i \in DOMAIN profile : Final(profile[i]) THEN profile
               ELSE profile \o Fallback(nodes)
  IN IF BasePasses(pol, nodes) /\ Valid(ended, pol) THEN ended ELSE Refused

\* compile_saved_profile
Compile(s) ==
  CompileIn(Normalized(s.order, s.rules # <<>>, Listed(s.docs)),
            s.rules, s.docs, s.pol, s.nodes)
-----------------------------------------------------------------------------
NoJob == [stage |-> "none"]
NoTx == [stage |-> "none"]
NoDraft == [mode |-> "closed", at |-> 0, shown |-> Nothing, moved |-> FALSE]
Tasks == {"page", "source", "policy"}
Busy == job["page"] # NoJob          \* routing_apply_state

Launched(s) == [rules |-> <<>>, order |-> s.order, docs |-> s.docs, loaded |-> FALSE]

RoutingInit ==
  /\ store \in Saved
  /\ kernel = Compile(store) /\ kernel # Refused
  /\ ui = Launched(store)
  /\ draft = NoDraft
  /\ job = [t \in Tasks |-> NoJob] /\ tx = NoTx
  /\ ops = 0 /\ astray = {}

UserOp == ops < MaxOps /\ ops' = ops + 1
Flag(cond, name) == astray' = IF cond THEN astray \cup {name} ELSE astray

\* The application ends, and is launched again with what the store holds.
\* A store that does not compile is out of scope here.
Relaunch ==
  /\ UserOp
  /\ Compile(store) # Refused /\ kernel' = Compile(store)
  /\ ui' = Launched(store)
  /\ draft' = NoDraft
  /\ job' = [t \in Tasks |-> NoJob] /\ tx' = NoTx
  /\ UNCHANGED <<store, astray>>
-----------------------------------------------------------------------------
(* The routing page. *)

\* ensure_manual_rule_input: read once, also when that fails.
Load(u) ==
  IF ui.loaded THEN u = ui /\ UNCHANGED astray
  ELSE \/ u = Synced([ui EXCEPT !.rules = store.rules, !.loaded = TRUE]) /\ UNCHANGED astray
       \/ u = [ui EXCEPT !.loaded = TRUE] /\ Flag(store.rules # <<>>, "unread")

OpenPage ==
  /\ ~ui.loaded
  /\ Load(ui')
  /\ UNCHANGED <<store, draft, job, tx, kernel, ops>>

\* open_manual_rule_editor ("append"), from a connection ("prepend")
OpenDraft(mode) ==
  /\ draft.mode = "closed"
  /\ Load(ui')
  /\ draft' = [NoDraft EXCEPT !.mode = mode]
  /\ UNCHANGED <<store, job, tx, kernel, ops>>

\* open_manual_rule_editor_for_edit, from a row of the page
OpenEdit(i) ==
  /\ draft.mode = "closed" /\ ui.loaded /\ i \in DOMAIN ui.rules
  /\ draft' = [NoDraft EXCEPT !.mode = "edit", !.at = i, !.shown = ui.rules[i]]
  /\ UNCHANGED <<store, ui, job, tx, kernel, ops, astray>>

\* close_manual_rule_editor
CloseDraft ==
  /\ draft.mode # "closed"
  /\ draft' = NoDraft
  /\ UNCHANGED <<store, ui, job, tx, kernel, ops, astray>>

\* persist_manual_rules and start_routing_runtime_apply
Apply(u, undo) ==
  /\ UserOp /\ ~Busy
  /\ ui' = u
  /\ job' = [job EXCEPT !["page"] =
               [stage |-> "queued", rules |-> u.rules, order |-> u.order,
                undo |-> [rules |-> undo.rules, order |-> undo.order]]]
  /\ UNCHANGED <<store, tx, kernel, astray>>

ChangeRules(rules) == Apply(Synced([ui EXCEPT !.rules = rules]), ui)

\* submit_manual_rule puts FINAL last.
FinalLast(rules) ==
  LET final == {r \in Range(rules) : Final(r)}
  IN Filter(rules, Range(rules) \ final) \o Filter(rules, final)

\* Is there room for r beside the rules at these places?
Fits(r, places) ==
  \A i \in places : ~Same(ui.rules[i], r) /\ ~(Final(r) /\ Final(ui.rules[i]))

\* submit_manual_rule, for a new rule
SubmitNew(r) ==
  /\ draft.mode \in {"append", "prepend"}
  /\ Fits(r, DOMAIN ui.rules) /\ Len(ui.rules) < MaxRules
  /\ ChangeRules(FinalLast(IF draft.mode = "append" THEN Append(ui.rules, r)
                                                    ELSE <<r>> \o ui.rules))
  /\ draft' = NoDraft

\* submit_manual_rule, for an edited one: replace_manual_rule keeps whether
\* the rule at the place is enabled.
SubmitEdit(r) ==
  /\ draft.mode = "edit" /\ draft.at \in DOMAIN ui.rules
  /\ Fits(r, DOMAIN ui.rules \ {draft.at})
  /\ ChangeRules(FinalLast([ui.rules EXCEPT ![draft.at] = [r EXCEPT !.on = ui.rules[draft.at].on]]))
  /\ draft' = NoDraft

\* submit_manual_rule: there is no rule at the place any more.
SubmitMissing ==
  /\ draft.mode = "edit" /\ draft.at \notin DOMAIN ui.rules
  /\ draft' = NoDraft
  /\ UNCHANGED <<store, ui, job, tx, kernel, ops, astray>>

\* Mutant: a rule can be removed from the list beside an open draft.
RemoveRuleBesideDraft(i) ==
  /\ ui.loaded /\ i \in DOMAIN ui.rules
  /\ ChangeRules(RemoveAt(ui.rules, i))
  /\ UNCHANGED draft

\* remove_manual_rule
RemoveRule(i) ==
  /\ draft.mode = "closed"
  /\ ui.loaded /\ i \in DOMAIN ui.rules
  /\ ChangeRules(RemoveAt(ui.rules, i))
  /\ UNCHANGED draft

\* set_manual_rule_enabled
ToggleRule(i) ==
  /\ ui.loaded /\ i \in DOMAIN ui.rules
  /\ ChangeRules([ui.rules EXCEPT ![i].on = ~@])
  /\ UNCHANGED draft

\* The order that is shown is what a failure puts back.
Reorder(order) ==
  /\ ui.loaded /\ order # ShownOrder(ui)
  /\ Apply([ui EXCEPT !.order = order], Synced(ui))
  /\ UNCHANGED draft

\* reorder_routing_rule_group
PlaceGroup(g, anchor, after) ==
  /\ {g, anchor} \subseteq Range(ShownOrder(ui)) /\ g # anchor
  /\ Reorder(Place(ShownOrder(ui), g, anchor, after))

\* move_routing_rule_group
MoveGroup(g, up) ==
  /\ g \in Range(ShownOrder(ui))
  /\ Reorder(Swapped(ShownOrder(ui), g, up))

FinishPageAs(undone) ==
  /\ job["page"].stage \in {"ok", "failed"}
  /\ job' = [job EXCEPT !["page"] = NoJob]
  /\ ui' = IF job["page"].stage = "ok" THEN ui ELSE undone
  /\ draft' = [draft EXCEPT !.moved = @ \/ (draft.mode = "edit" /\ ui'.rules # ui.rules)]
  /\ UNCHANGED <<store, tx, kernel, ops, astray>>

\* Mutant: the order is not put back.
FinishPageKeepsOrder == FinishPageAs([ui EXCEPT !.rules = job["page"].undo.rules])

\* start_routing_runtime_apply, when the task ends
FinishPage ==
  FinishPageAs([ui EXCEPT !.rules = job["page"].undo.rules, !.order = job["page"].undo.order])
-----------------------------------------------------------------------------
(* Rule sources and policy groups. *)

StartTask(t, item, new) ==
  /\ UserOp /\ job[t] = NoJob
  /\ job' = [job EXCEPT ![t] = [stage |-> "queued", item |-> item, new |-> new]]
  /\ UNCHANGED <<store, ui, draft, tx, kernel, astray>>

\* submit_qx_rule_import; ids are never used twice, and grow.
AddSource(s, to) ==
  /\ ui.docs[s] = Absent
  /\ \A i \in 1..(Index(Ids, s) - 1) : ui.docs[Ids[i]] # Absent
  /\ StartTask("source", s, [to |-> to, on |-> TRUE])

\* remove_qx_rule_source
RemoveSource(s) == s \in Range(Listed(ui.docs)) /\ StartTask("source", s, Gone)

\* set_qx_rule_source_enabled
ToggleSource(s) ==
  s \in Range(Listed(ui.docs)) /\ StartTask("source", s, [ui.docs[s] EXCEPT !.on = ~@])

\* update_qx_rule_source_target
TargetSource(s, to) ==
  /\ s \in Range(Listed(ui.docs)) /\ ui.docs[s].to # to
  /\ StartTask("source", s, [ui.docs[s] EXCEPT !.to = to])

\* A policy group is saved or removed (Selections has the editor).
SavePolicy(p, members) == store.pol[p] # members /\ StartTask("policy", p, members)

\* persist_routing_rule_group_order writes what is shown at that moment: also
\* an order that is still being applied, and also before the manual rules
\* have been read.
PersistAs(u) ==
  LET blind == IF ~ui.loaded /\ store.rules # <<>> THEN {"blind"} ELSE {}
      mingled == IF Busy THEN {"mingled"} ELSE {}
  IN
  /\ ui' = u
  /\ \/ store' = [store EXCEPT !.order = u.order] /\ astray' = astray \cup blind \cup mingled
     \/ store' = store /\ astray' = astray \cup blind \cup {"unsaved"}

Persist(u) == PersistAs(Synced(u))

\* finish_qx_rule_import and the handlers of the other changes: the order is
\* saved when a source has come or gone.
FinishSource ==
  LET t == job["source"]
      u == [ui EXCEPT !.docs[t.item] = t.new]
  IN
  /\ t.stage \in {"ok", "failed"}
  /\ job' = [job EXCEPT !["source"] = NoJob]
  /\ IF t.stage = "failed" THEN UNCHANGED <<store, ui, astray>>
     ELSE IF Listed(u.docs) # Listed(ui.docs) THEN Persist(u)
     ELSE ui' = u /\ UNCHANGED <<store, astray>>
  /\ UNCHANGED <<draft, tx, kernel, ops>>
-----------------------------------------------------------------------------
(* The transaction of a task (mutate_saved_sources). *)

Mutated(t, s) ==
  IF t = "page" THEN [s EXCEPT !.rules = job[t].rules, !.order = job[t].order]
  ELSE IF t = "source" THEN [s EXCEPT !.docs[job[t].item] = job[t].new]
  ELSE [s EXCEPT !.pol[job[t].item] = job[t].new]

\* The lock is taken and the store is copied.
Begin(t) ==
  /\ tx = NoTx /\ job[t].stage = "queued"
  /\ tx' = [stage |-> "staged", of |-> t, before |-> store, after |-> Mutated(t, store)]
  /\ job' = [job EXCEPT ![t].stage = "working"]
  /\ UNCHANGED <<store, ui, draft, kernel, ops, astray>>

Touched == {e \in DOMAIN store : tx.before[e] # tx.after[e]}

Ends(outcome) ==
  /\ tx' = NoTx
  /\ job' = [job EXCEPT ![tx.of] =
               IF tx.of = "policy" THEN NoJob ELSE [@ EXCEPT !.stage = outcome]]

\* install: an entry that has changed since the copy refuses it.
InstallAll ==
  /\ tx.stage = "staged"
  /\ IF \A e \in Touched : store[e] = tx.before[e]
       THEN /\ store' = [e \in DOMAIN store |->
                           IF e \in Touched THEN tx.after[e] ELSE store[e]]
            /\ tx' = [tx EXCEPT !.stage = "installed"] /\ UNCHANGED job
       ELSE Ends("failed") /\ UNCHANGED store
  /\ UNCHANGED <<ui, draft, kernel, ops, astray>>

\* The kernel takes what the store compiles to.
Accept ==
  /\ tx.stage = "installed"
  /\ Compile(store) # Refused
  /\ kernel' = Compile(store)
  /\ Ends("ok")
  /\ UNCHANGED <<store, ui, draft, ops, astray>>

\* It does not compile, or the kernel does not take it; an entry that another
\* writer has changed meanwhile stays.
RollBack ==
  /\ tx.stage = "installed"
  /\ store' = [e \in DOMAIN store |->
                 IF e \in Touched /\ store[e] = tx.after[e] THEN tx.before[e] ELSE store[e]]
  /\ Ends("failed")
  /\ UNCHANGED <<ui, draft, kernel, ops, astray>>
-----------------------------------------------------------------------------
RoutingNext ==
  \/ Relaunch \/ OpenPage \/ CloseDraft \/ SubmitMissing \/ FinishPage \/ FinishSource
  \/ \E mode \in {"append", "prepend"} : OpenDraft(mode)
  \/ \E i \in 1..MaxRules : OpenEdit(i) \/ RemoveRule(i) \/ ToggleRule(i)
  \/ \E r \in Texts : SubmitNew(r) \/ SubmitEdit(r)
  \/ \E g, anchor \in Groups, after \in BOOLEAN : PlaceGroup(g, anchor, after)
  \/ \E g \in Groups, up \in BOOLEAN : MoveGroup(g, up)
  \/ \E s \in Sources : RemoveSource(s) \/ ToggleSource(s)
  \/ \E s \in Sources, to \in Targets : AddSource(s, to) \/ TargetSource(s, to)
  \/ \E p \in Policies : \E m \in SUBSET (Policies \cup {Node}) \cup {Absent} : SavePolicy(p, m)
  \/ \E t \in Tasks : Begin(t)
  \/ InstallAll \/ Accept \/ RollBack

RoutingSpec == RoutingInit /\ [][RoutingNext]_routingVars
-----------------------------------------------------------------------------
Idle == \A t \in Tasks : job[t] = NoJob
Clear(names) == astray \cap names = {}

\* "A manual rule draft blocks main-list deletion to keep its index stable
\* until saved or cancelled": the place a draft will be saved to holds the
\* rule that it showed, unless a change that failed has put an older list
\* back meanwhile.
DraftKeepsItsRule ==
  draft.mode = "edit" /\ ~draft.moved =>
    draft.at \in DOMAIN ui.rules /\ Same(ui.rules[draft.at], draft.shown)

\* "Failed applies restore the previous order": whatever was refused, the page
\* shows the rules, sources and order that the store holds once no task is
\* left, and outside a transaction the kernel runs what the store compiles to,
\* though sources save their order without compiling it.  Left out: an order
\* that a source saves while another one is applied or the manual rules have
\* not been read, one that could not be saved, rules that could not be read.
PageAndKernelFollowStore ==
  /\ tx.stage # "installed" /\ Clear({"mingled", "blind", "unread"}) => kernel = Compile(store)
  /\ Idle /\ ui.loaded /\ Clear({"mingled", "unsaved", "unread"}) =>
       /\ ui.rules = store.rules /\ ui.docs = store.docs
       /\ ShownOrder(ui) = Normalized(store.order, store.rules # <<>>, Listed(store.docs))

\* activity/matching.rs: the rule group that a connection is shown with.
Hits(g, match, rules, docs) ==
  IF g = Manual THEN \E i \in DOMAIN rules : rules[i].on /\ rules[i].match = match
  ELSE docs[g].on /\ \E i \in DOMAIN Holds[g] : match = {Holds[g][i]}
MatchingGroup(match) ==
  LET order == ShownOrder(ui)
      hits == {i \in DOMAIN order : Hits(order[i], match, ui.rules, ui.docs)}
  IN IF hits = {} THEN Nothing ELSE order[Min(hits)]

\* "The configured order mirrors profile compilation order, so the first
\* matching group recovers the same first-match semantics": with no task
\* left, a connection is shown with the group that its rule was compiled
\* from.  A rule with several conditions is never recognized.
ActivityMirrorsProfile ==
  Idle /\ ui.loaded /\ astray = {} =>
    \A i \in DOMAIN kernel :
      LET rule == kernel[i]
          first == \A j \in 1..(i - 1) : kernel[j].match # rule.match
      IN first /\ Cardinality(rule.match) <= 1 => MatchingGroup(rule.match) = rule.from

\* A policy group reaches the groups that its members name, and so on.
Reaches(pol, p) ==
  LET step(set) == set \cup UNION {pol[q] \cap Policies : q \in {r \in set : pol[r] # Absent}}
  IN FoldSet(LAMBDA q, set : step(set), pol[p] \cap Policies, Policies)

Sound(s) ==
  /\ \A p \in Present(s.pol) :
       s.pol[p] # {} /\ s.nodes /\ p \notin Reaches(s.pol, p)
         /\ s.pol[p] \cap Policies \subseteq Present(s.pol)
  /\ \A to \in {s.rules[i].to : i \in {j \in DOMAIN s.rules : s.rules[j].on}}
               \cup {s.docs[d].to : d \in {d \in Range(Listed(s.docs)) : s.docs[d].on}} :
       to \in Present(s.pol) \cup {Direct}

\* A store compiles if and only if its enabled rules name existing targets
\* and its policy groups name each other without a gap or a cycle: wherever
\* the group with the FINAL rule stands, its MATCH ends up last.
CompilesIfSound == Compile(store) # Refused <=> Sound(store)
=============================================================================
