---------------------------- MODULE PhoneProfile ----------------------------
(* The workspace of the Android application and its compilation. Policy     *)
(* groups hold the positions of their members in the lists of subscriptions *)
(* and nodes, which the pages edit; the compiler turns these positions into *)
(* positions among the enabled sources, and leaves out what it cannot use.  *)
EXTENDS Naturals, SequencesExt, Filters

CONSTANTS Urls,       \* addresses a subscription may have
          Links,      \* share links of single nodes
          Usable,     \* the addresses and links that can be parsed
          NameIn,     \* per link, the name it gives its node
          GroupNames, \* names of policy groups
          Backups,    \* workspaces on the clipboard
          MaxSources, MaxGroups, MaxPhoneRules, \* bounds on the lists
          MaxEdits    \* bound on the edits

\* The identities of the sources at some positions of a list, and of all of them
IdsAt(list, positions) == {list[positions[k]].id : k \in DOMAIN positions}
AllIds(list) == {list[i].id : i \in DOMAIN list}

\* What a workspace is: identities are distinct, the members of a group are positions in
\* the lists, and are what was meant of what is still on them; but a group for which
\* only nodes of no subscription were picked has all subscriptions and means none.
PhoneSource ==
  [what : Urls \union Links \union Usable, enabled : BOOLEAN, id : Nat]
PhoneGroup ==
  [name : GroupNames, subs : Seq(Nat), nodes : Seq(Nat), filter : {"none", "names"},
   meant : SUBSET Nat]
Distinct(list) == \A i, j \in DOMAIN list : list[i].id = list[j].id => i = j
MembersAreMeant(w, g) ==
  /\ Range(g.subs) \subseteq DOMAIN w.subs /\ Range(g.nodes) \subseteq DOMAIN w.nodes
  /\ IdsAt(w.nodes, g.nodes) = g.meant \cap AllIds(w.nodes)
  /\ \/ IdsAt(w.subs, g.subs) = g.meant \cap AllIds(w.subs)
     \/ g.filter = "none" /\ g.meant \cap AllIds(w.subs) = {}
WorkspaceTyped(w) ==
  /\ DOMAIN w = {"subs", "nodes", "groups", "rules"}
  /\ w.subs \in Seq(PhoneSource) /\ w.nodes \in Seq(PhoneSource)
  /\ w.groups \in Seq(PhoneGroup)
WorkspaceKept(w) ==
  /\ Distinct(w.subs) /\ Distinct(w.nodes) /\ AllIds(w.subs) \cap AllIds(w.nodes) = {}
  /\ \A k \in DOMAIN w.groups : MembersAreMeant(w, w.groups[k])
\* None of these identities is used by the workspace.
Unused(w, ids) ==
  /\ ids \cap (AllIds(w.subs) \union AllIds(w.nodes)) = {}
  /\ \A k \in DOMAIN w.groups : ids \cap w.groups[k].meant = {}

\* A workspace on the clipboard was copied from the application, with identities of
\* its own. (The import reads positions as they are: those of a text written by hand
\* may be anything.)
ASSUME PhoneAssumption ==
  /\ MaxEdits \in Nat
  /\ \A w \in Backups : WorkspaceTyped(w) /\ WorkspaceKept(w) /\ Unused(w, 1..MaxEdits)

VARIABLES workspace,  \* Workspace.config
          edits       \* edits so far; numbers what is added

phoneVars == <<workspace, edits>>

\* A source has an identity `id` that the program does not keep; a group, the
\* identities `meant` that were on its list when it was saved.
Source(what, n) == [what |-> what, enabled |-> TRUE, id |-> n]
Empty == [subs |-> <<>>, nodes |-> <<>>, groups |-> <<>>, rules |-> <<>>]

PhoneInit == workspace = Empty /\ edits = 0

---------------------------------------------------------------------------
(* Compilation                                                              *)

\* The positions of the enabled sources, in their order.
EnabledAt(list) ==
  Filter([i \in DOMAIN list |-> i], {i \in DOMAIN list : list[i].enabled})

compile_subscriptions(list) ==
  Filter(EnabledAt(list), {i \in DOMAIN list : list[i].what \in Usable})

\* A node with the name of an earlier one is left out.
compile_nodes(list) ==
  LET Parsed(i) == list[i].enabled /\ list[i].what \in Usable
      SameName(i, j) == NameIn[list[i].what] = NameIn[list[j].what]
  IN  Filter(EnabledAt(list),
        {i \in DOMAIN list : Parsed(i) /\ \A j \in 1..(i - 1) : Parsed(j) => ~SameName(i, j)})

\* The members of a group in one of the lists: a position in the list becomes
\* one among the enabled sources, and is looked up among the parsed ones. 0 is
\* a position beyond them.
Members(list, parsed, wanted) ==
  LET kept == Filter(wanted, Range(EnabledAt(list)))
      Position(i) == CHOOSE k \in DOMAIN EnabledAt(list) : EnabledAt(list)[k] = i
  IN  [k \in DOMAIN kept |->
         IF Position(kept[k]) <= Len(parsed) THEN list[parsed[Position(kept[k])]].id
                                             ELSE 0]

CompiledGroup(w, g) ==
  [name |-> g.name, filter |-> g.filter, meant |-> g.meant,
   subs |-> Members(w.subs, compile_subscriptions(w.subs), g.subs),
   nodes |-> Members(w.nodes, compile_nodes(w.nodes), g.nodes)]
HasMembers(group) == group.subs # <<>> \/ group.nodes # <<>>

\* Groups without a member are left out.
compile_groups(w) ==
  LET compiled == [i \in DOMAIN w.groups |-> CompiledGroup(w, w.groups[i])]
  IN  Filter(compiled, {g \in Range(compiled) : HasMembers(g)})

\* A group with the name of an earlier one that is not left out is an error.
NamesRepeat(w) == \E i, j \in DOMAIN w.groups :
  i < j /\ w.groups[i].name = w.groups[j].name /\ HasMembers(CompiledGroup(w, w.groups[i]))

\* A policy that is not there is replaced by the global group.
resolve_policy(policy, names) ==
  IF policy \in {"DIRECT", "REJECT"} \union names THEN policy ELSE "GLOBAL"

\* Only the first enabled final rule is kept, wherever it stands.
compile_structured_rules(rules, names) ==
  LET First(i) == \A j \in 1..(i - 1) : ~(rules[j].enabled /\ rules[j].final)
      kept == Filter([i \in DOMAIN rules |-> i],
                {i \in DOMAIN rules : rules[i].enabled /\ (rules[i].final => First(i))})
  IN  [k \in DOMAIN kept |->
         [final |-> rules[kept[k]].final,
          policy |-> resolve_policy(rules[kept[k]].policy, names)]]

ensure_global_match(rules) ==
  IF \E k \in DOMAIN rules : rules[k].final THEN rules
  ELSE Append(rules, [final |-> TRUE, policy |-> "GLOBAL"])

\* Profile::validate and compile_user_groups, as far as the workspace decides.
Validates(groups, rules) ==
  /\ \A k \in DOMAIN groups : 0 \notin Range(groups[k].subs \o groups[k].nodes)
  /\ \A k \in DOMAIN rules : rules[k].final => k = Len(rules)

\* compile: the errors that it announces, "invalid" for those that come from
\* what it has built itself, or the profile.
compile(w) ==
  LET groups == compile_groups(w)
      names == {groups[k].name : k \in DOMAIN groups}
      rules == ensure_global_match(compile_structured_rules(w.rules, names))
      Result(is) == [is |-> is, groups |-> groups, rules |-> rules]
  IN  IF compile_subscriptions(w.subs) = <<>> /\ compile_nodes(w.nodes) = <<>>
        THEN Result("no source")
      ELSE IF NamesRepeat(w) THEN Result("same name")
      ELSE IF Validates(groups, rules) THEN Result("profile") ELSE Result("invalid")

---------------------------------------------------------------------------
(* Editing                                                                  *)

Update(w) == edits < MaxEdits /\ edits' = edits + 1 /\ workspace' = w

AddSubscription == \E url \in Urls :
  /\ Len(workspace.subs) < MaxSources
  /\ Update([workspace EXCEPT !.subs = Append(@, Source(url, edits + 1))])
AddNode == \E link \in Links :
  /\ Len(workspace.nodes) < MaxSources
  /\ Update([workspace EXCEPT !.nodes = Append(@, Source(link, edits + 1))])

Switched(list, i) == [list EXCEPT ![i].enabled = ~@]
ToggleSubscription == \E i \in DOMAIN workspace.subs :
  Update([workspace EXCEPT !.subs = Switched(@, i)])
ToggleNode == \E i \in DOMAIN workspace.nodes :
  Update([workspace EXCEPT !.nodes = Switched(@, i)])

\* Mutant: the positions behind the removed source stay.
WithoutPositionOnly(positions, i) == Filter(positions, Range(positions) \ {i})

WithoutPosition(positions, i) ==
  LET kept == Filter(positions, Range(positions) \ {i})
  IN  [k \in DOMAIN kept |-> IF kept[k] > i THEN kept[k] - 1 ELSE kept[k]]

withoutSubscription(g, i) == [g EXCEPT !.subs = WithoutPosition(@, i)]
withoutNode(g, i) == [g EXCEPT !.nodes = WithoutPosition(@, i)]

removeSubscription == \E i \in DOMAIN workspace.subs :
  Update([workspace EXCEPT !.subs = RemoveAt(@, i),
            !.groups = [k \in DOMAIN @ |-> withoutSubscription(@[k], i)]])
removeNode == \E i \in DOMAIN workspace.nodes :
  Update([workspace EXCEPT !.nodes = RemoveAt(@, i),
            !.groups = [k \in DOMAIN @ |-> withoutNode(@[k], i)]])

Group(name, nodes, filter, meant) ==
  [name |-> name, subs |-> EnabledAt(workspace.subs), nodes |-> nodes,
   filter |-> filter,
   meant |-> meant \union IdsAt(workspace.nodes, nodes)]

\* SourceEditorPane: the group takes every enabled source, or the nodes that
\* were picked. The subscriptions are all on it; those of their nodes that
\* were picked are a filter, and without any there is none.
AddGroup == \E name \in GroupNames :
  LET subs == IdsAt(workspace.subs, EnabledAt(workspace.subs)) IN
  /\ Len(workspace.groups) < MaxGroups
  /\ \/ Update([workspace EXCEPT !.groups =
          Append(@, Group(name, EnabledAt(workspace.nodes), "none", subs))])
     \/ \E names \in SUBSET Range(NameIn), theirs \in BOOLEAN :
          LET nodes == workspace.nodes
              picked == Filter([i \in DOMAIN nodes |-> i],
                          {i \in DOMAIN nodes : NameIn[nodes[i].what] \in names})
          IN  /\ names # {} \/ theirs
              /\ theirs => subs # {}
              /\ Update([workspace EXCEPT !.groups =
                   Append(@, Group(name, picked, IF theirs THEN "names" ELSE "none",
                                   IF theirs THEN subs ELSE {}))])
DeleteGroup == \E i \in DOMAIN workspace.groups :
  Update([workspace EXCEPT !.groups = RemoveAt(@, i)])

policyOptions == {"DIRECT", "GLOBAL"} \union
                 {workspace.groups[k].name : k \in DOMAIN workspace.groups}
\* RuleEditorPane: no second enabled final rule.
MayBeFinal(i) ==
  ~\E j \in DOMAIN workspace.rules :
     j # i /\ workspace.rules[j].enabled /\ workspace.rules[j].final
AddRule == \E final \in BOOLEAN, policy \in policyOptions :
  /\ Len(workspace.rules) < MaxPhoneRules
  /\ final => MayBeFinal(0)
  /\ Update([workspace EXCEPT !.rules =
       Append(@, [final |-> final, policy |-> policy, enabled |-> TRUE])])
EditRule == \E i \in DOMAIN workspace.rules, final \in BOOLEAN, policy \in policyOptions :
  /\ final => MayBeFinal(i)
  /\ Update([workspace EXCEPT !.rules[i].final = final, !.rules[i].policy = policy])
DeleteRule == \E i \in DOMAIN workspace.rules :
  Update([workspace EXCEPT !.rules = RemoveAt(@, i)])
SwitchRule == \E i \in DOMAIN workspace.rules :
  Update([workspace EXCEPT !.rules = Switched(@, i)])
moveRule == \E from, to \in DOMAIN workspace.rules :
  /\ from # to
  /\ Update([workspace EXCEPT !.rules =
       InsertAt(RemoveAt(@, from), to, @[from])])

\* importWorkspace: a workspace that does not compile is refused.
importWorkspace == \E w \in Backups :
  /\ \E i \in DOMAIN (w.subs \o w.nodes) : (w.subs \o w.nodes)[i].enabled
  /\ compile(w).is = "profile"
  /\ Update(w)

PhoneNext ==
  \/ AddSubscription \/ AddNode \/ ToggleSubscription \/ ToggleNode
  \/ removeSubscription \/ removeNode \/ AddGroup \/ DeleteGroup
  \/ AddRule \/ EditRule \/ DeleteRule \/ SwitchRule \/ moveRule
  \/ importWorkspace

PhoneSpec == PhoneInit /\ [][PhoneNext]_phoneVars

---------------------------------------------------------------------------
\* The sources that the compiler leaves out, with a warning.
Skipped(list, parsed) == Range(EnabledAt(list)) \ Range(parsed)

\* However the sources around it were added, removed and switched since the
\* group was saved, it is compiled with the enabled sources that were put on
\* it and no others (withoutSubscription, withoutNode, compile_groups). Excepted
\* are workspaces with a source that is skipped, which shifts the positions
\* behind it, and groups for which only nodes of no subscription were picked.
GroupsKeepMembers ==
  LET Skips == \/ Skipped(workspace.subs, compile_subscriptions(workspace.subs)) # {}
               \/ Skipped(workspace.nodes, compile_nodes(workspace.nodes)) # {}
      SubIds == IdsAt(workspace.subs, EnabledAt(workspace.subs))
      Enabled == SubIds \union IdsAt(workspace.nodes, EnabledAt(workspace.nodes))
      groups == compile(workspace).groups
  IN  ~Skips => \A k \in DOMAIN groups :
        LET g == groups[k] IN
        \/ g.filter = "none" /\ g.subs # <<>> /\ g.meant \cap Range(g.subs) = {}
        \/ Range(g.subs \o g.nodes) = g.meant \cap Enabled

\* What the compiler warns of - a source that is skipped, a rule that never
\* matches behind the final one - does not keep the workspace from compiling:
\* compile fails only for the reasons it announces.
WarningsAreNoErrors == compile(workspace).is # "invalid"
=============================================================================
