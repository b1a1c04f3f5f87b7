------------------------------- MODULE Records -------------------------------
(* The records of the store (mihomo/workspace, mihomo/policy_store): how   *)
(* subscriptions, rule sources, single nodes, policy groups and node picks *)
(* are written, by which release they may have been written, how they are  *)
(* read again and what each operation rewrites.  The lists the application *)
(* keeps are built from what the operations answer, the next launch builds *)
(* them from the records.  A behaviour is about one kind of record.        *)
(*                                                                         *)
(* A record is its version and the fields that have a line; hex and line   *)
(* syntax are ConfigText's.  The nodes and nameservers are sets.  A "long" *)
(* address is one of the 16 KiB an address may have: with the nameservers  *)
(* learned for it the record no longer fits its file (mihomo.rs:103).      *)
(*                                                                         *)
(* The manual rules are one record too, a list (manual_rule/store): each   *)
(* rule has the conditions it matches on, none for FINAL, a target and     *)
(* whether it is enabled.  Releases before it kept direct rules in a file  *)
(* of their own, which is read until the list has taken them over.         *)
EXTENDS Naturals, FiniteSets, Sequences
LOCAL Seqs == INSTANCE SequencesExt
CONSTANTS
  Ids,          \* the names of records, numbers in the order of the store
  Absent,       \* no record, no value
  Unreadable,   \* the answer to reading what cannot be read
  Kinds,        \* the kinds of record to choose from
  Left,         \* what older releases may have left: what it says, by kind
  Values,       \* by kind, what a user may enter in each field
  MaxPolicies,  \* MAX_MANAGED_POLICIES
  MaxTargets,   \* MAX_NODE_SELECTION_POLICY_TARGETS
  MaxConditions,\* MAX_CONDITIONS
  Ssh           \* the condition of the direct rule that is there from the start

VARIABLES
  kind,     \* the kind of record this behaviour is about
  records,  \* the entries of the store, by name
  older,    \* policy groups still under the suffix of older releases, or the
            \* direct rules of releases before the manual rules
  listed,   \* what the application lists: by name, the fields of a record
  running   \* "open", "reading" while it starts, "closed"
recordVars == <<kind, records, older, listed, running>>

-----------------------------------------------------------------------------
(* The formats.                                                            *)

\* The fields each version of each kind of record has a line for.
Layout ==
  LET Feed == {"id", "url", "refresh", "last"}
      Rules == Feed \cup {"target", "content", "enabled"}
      Policy == {"id", "name", "icon", "strategy", "interval", "tolerance",
                 "matcher", "filter", "member"}
  IN  [subscription |-> [v3 |-> Feed \cup {"name", "enabled", "dns"},
                         v2 |-> Feed \cup {"dns"}, v1 |-> Feed, line |-> {"url"}],
       rules |-> [v3 |-> Rules \cup {"name"}, v2 |-> Rules, v1 |-> Rules],
       node |-> [v1 |-> {"id", "name", "enabled", "url"},
                 vless |-> {"id", "name", "enabled", "url"}, line |-> {"url"}],
       group |-> [v1 |-> Policy, relay |-> Policy],
       picks |-> [v1 |-> {"global", "policy"}, relay |-> {"global", "policy"}],
       manual |-> [v4 |-> {"rule"}]]
Current == [subscription |-> "v3", rules |-> "v3", node |-> "v1", group |-> "v1",
            picks |-> "v1", manual |-> "v4"]
Fields(k) == Layout[k][Current[k]] \ {"id"}
Required ==
  [subscription |-> {"url"}, rules |-> {"url", "target", "content"},
   node |-> {"url", "enabled"}, group |-> {"name", "icon", "strategy", "matcher", "filter"},
   picks |-> {}]
\* A name is learned from the address, but for rule sources, which need none.
Default(k, x, url) ==
  CASE x = "name" -> IF k = "rules" THEN Absent ELSE url
    [] x = "enabled" -> TRUE
    [] x = "refresh" -> "manual"
    [] x = "last" -> 0
    [] x = "interval" -> 600
    [] x = "tolerance" -> 150
    [] x = "global" -> Absent
    [] x \in {"dns", "member", "policy"} -> {}

\* What is refused although every line of it is understood: a record longer
\* than its file may be, more picks than are kept, a group whose filter and
\* members are not those of its matcher.
ShortEnough(t) == t["url"] = "long" => t["dns"] = {}
FewEnough(t) == Cardinality(t["policy"]) <= MaxTargets
Matches(t) ==
  /\ t["matcher"] # "name" => t["filter"] = ""
  /\ t["matcher"] = "name" => t["filter"] # ""
  /\ t["matcher"] # "explicit" => t["member"] = {}
Fits(k, t) ==
  /\ k = "subscription" => ShortEnough(t)
  /\ k = "picks" => FewEnough(t)
  /\ k = "group" => Matches(t)

\* The lines of manual rules.  The first version knew one condition, the
\* second several, the third disabled rules, the fourth FINAL.
IsFinal(r) == r.match = {}
OneFinal(rules) == Cardinality({n \in DOMAIN rules : IsFinal(rules[n])}) <= 1
FinalLast(rules) == SelectSeq(rules, LAMBDA r : ~IsFinal(r)) \o SelectSeq(rules, IsFinal)
RuleFits(version, r) ==
  IF IsFinal(r) THEN version = "v4"
  ELSE Cardinality(r.match) <= IF version = "v1" THEN 1 ELSE MaxConditions
decode_manual_rules(raw) ==
  LET lines == raw.fields["rule"]
      Enabled(r) == IF raw.version \in {"v1", "v2"} THEN [r EXCEPT !.on = TRUE] ELSE r
  IN  IF OneFinal(lines) /\ \A n \in DOMAIN lines : RuleFits(raw.version, lines[n])
      THEN [rule |-> FinalLast([n \in DOMAIN lines |-> Enabled(lines[n])])]
      ELSE Unreadable

decode(k, i, raw) ==
  LET f == raw.fields
      plain == raw.version = "line"
      Value(x) == IF x \in DOMAIN f THEN f[x]
                  ELSE Default(k, x, IF "url" \in DOMAIN f THEN f["url"] ELSE Absent)
      t == [x \in Fields(k) |-> Value(x)]
  IN  IF /\ raw.version \in DOMAIN Layout[k]
         /\ DOMAIN f \subseteq Layout[k][raw.version]
         /\ plain \/ k = "picks" \/ ("id" \in DOMAIN f /\ f["id"] = i)
         /\ IF plain THEN "url" \in DOMAIN f ELSE Required[k] \subseteq DOMAIN f
         /\ Fits(k, t)
      THEN t ELSE Unreadable

\* Every field gets its line, but for what there is none of.
Lines(k, t) ==
  {x \in Fields(k) : t[x] # Absent /\ (x \in {"dns", "member", "policy"} => t[x] # {})}
encode(k, i, t) ==
  LET named == IF k \in {"picks", "manual"} THEN Lines(k, t) ELSE Lines(k, t) \cup {"id"}
  IN  [version |-> Current[k], fields |-> [x \in named |-> CASE x = "id" -> i
                            [] x = "rule" -> FinalLast(t[x])
                            [] OTHER -> t[x]]]

-----------------------------------------------------------------------------
(* Reading.                                                                *)

Read(store, i) ==
  CASE store[i] = Absent -> Absent
    [] kind = "manual" -> decode_manual_rules(store[i])
    [] OTHER -> decode(kind, i, store[i])

\* The direct rules of older releases, to which the first launch of all
\* counts the one for SSH, come first in a list that has not taken them over;
\* what the list says as well it says once.
DirectRules(old) ==
  LET direct == IF old[1] = Absent THEN <<Ssh>> ELSE old[1]
  IN  [n \in DOMAIN direct |-> [match |-> {direct[n]}, to |-> "DIRECT", on |-> TRUE]]
merge_legacy_direct_rules(rules, direct) ==
  LET fresh == {n \in DOMAIN rules : /\ rules[n] \notin Seqs!Range(direct)
                                    /\ \A m \in 1..(n - 1) : rules[m] # rules[n]}
      places == Seqs!SetToSortSeq(fresh, <)
  IN  direct \o [k \in DOMAIN places |-> rules[places[k]]]
TakenOver(raw) == raw # Absent /\ raw.version # "v1"
load_manual_rules_in(own, raw, old) ==
  CASE own = Unreadable \/ TakenOver(raw) -> own
    [] own = Absent -> [rule |-> merge_legacy_direct_rules(<<>>, DirectRules(old))]
    [] OTHER -> [rule |-> merge_legacy_direct_rules(own["rule"], DirectRules(old))]

\* One record that cannot be read makes the whole kind unreadable; of two
\* subscriptions with one address the first is listed; a group is read from
\* its older name only where it has no newer one.
Hiding(all) ==
  [i \in Ids |-> IF /\ kind = "subscription" /\ all[i] # Absent
                    /\ \E j \in Ids : j < i /\ all[j] # Absent /\ all[j]["url"] = all[i]["url"]
                 THEN Absent ELSE all[i]]
Sound(all) ==
  /\ \A i \in Ids : all[i] # Unreadable
  /\ kind = "group" => Cardinality({i \in Ids : all[i] # Absent}) <= MaxPolicies
load(store, old) ==
  LET both == IF kind = "manual"
              THEN [store EXCEPT ![1] = load_manual_rules_in(Read(store, 1), store[1], old)]
              ELSE [i \in Ids |-> Read(IF store[i] = Absent THEN old ELSE store, i)]
  IN  IF Sound(both) THEN Hiding(both) ELSE Unreadable

\* What an operation rewrites is what it has read from the store.
Loaded == load(records, older)
Reads(i) == Read(records, i) \notin {Absent, Unreadable}
With(i, change) ==
  LET t == Read(records, i)
  IN  [x \in DOMAIN t |-> IF x \in DOMAIN change THEN change[x] ELSE t[x]]

-----------------------------------------------------------------------------
(* Writing.  A change of the sources is compiled before it stands, which   *)
(* reads every record: one that makes the store unreadable is rolled back  *)
(* (mutate_saved_sources).                                                 *)

Free == {i \in Ids : records[i] = Absent /\ older[i] = Absent}
\* A name or a pick is written without compiling anything.
Note(i, t) ==
  /\ records' = [records EXCEPT ![i] = encode(kind, i, t)]
  /\ listed' = [listed EXCEPT ![i] = t]
  /\ UNCHANGED <<kind, older, running>>
\* What every other operation does.
Store(i, t) ==
  /\ load([records EXCEPT ![i] = encode(kind, i, t)], older) # Unreadable
  /\ records' = [records EXCEPT ![i] = encode(kind, i, t)]
  /\ listed' = [listed EXCEPT ![i] = t]
  /\ UNCHANGED <<kind, older, running>>
On(k) == kind = k /\ running = "open"
Enter(x) == Values[kind][x]

\* An import keeps what the record of the same address had learned.
Import(u, n, r, e, d) ==
  LET all == Loaded
      same == {i \in Ids : all[i] # Absent /\ all[i]["url"] = u}
      user == [url |-> u, name |-> n, refresh |-> r, enabled |-> e]
      dns == IF d = {} THEN user ELSE [x \in DOMAIN user \cup {"dns"} |-> IF x = "dns" THEN d ELSE user[x]]
  IN  /\ On("subscription") /\ all # Unreadable
      /\ \/ \E i \in same : Store(i, With(i, dns))
         \/ /\ same = {}
            /\ \E i \in Free : Store(i, [x \in Fields(kind) |->
                 IF x \in DOMAIN user THEN user[x] ELSE IF x = "last" THEN 1 ELSE d])

\* A new address forgets what was learned for the old one; the address of
\* another subscription is refused.
EditSubscription(i, u, n, r, e, d) ==
  LET t == Read(records, i)
      all == Loaded
      moved == t["url"] # u
  IN  /\ On("subscription") /\ Reads(i)
      /\ ~\E j \in Ids \ {i} : all[j] # Absent /\ all[j]["url"] = u
      /\ Store(i, With(i, [url |-> u, name |-> n, refresh |-> r, enabled |-> e,
                           last |-> IF moved THEN 1 ELSE t["last"],
                           dns |-> IF d # {} THEN d ELSE IF moved THEN {} ELSE t["dns"]]))
RefreshSubscription(i, d) ==
  /\ On("subscription") /\ Reads(i)
  /\ Store(i, With(i, [last |-> 1, dns |-> IF d = {} THEN Read(records, i)["dns"] ELSE d]))
SwitchSource(i, e) ==
  /\ running = "open" /\ kind \in {"subscription", "rules", "node"} /\ Reads(i)
  /\ Store(i, With(i, [enabled |-> e]))

\* An address that is already imported is left as it is.
ImportRules(u, n, g, c, r) ==
  /\ On("rules") /\ Loaded # Unreadable
  /\ ~\E i \in Ids : Loaded[i] # Absent /\ Loaded[i]["url"] = u
  /\ \E i \in Free : Store(i, [url |-> u, name |-> n, target |-> g, content |-> c,
                               enabled |-> TRUE, refresh |-> r, last |-> 1])
\* Where only the name changes nothing else is read again; content is fetched
\* for a new address.
EditRules(i, u, n, g, c, r) ==
  LET t == Read(records, i)
      moved == t["url"] # u
  IN  /\ On("rules") /\ Reads(i)
      /\ \/ ~moved /\ t["target"] = g /\ t["refresh"] = r /\ Note(i, With(i, [name |-> n]))
         \/ /\ moved \/ t["target"] # g \/ t["refresh"] # r
            /\ Store(i, With(i, [url |-> u, name |-> n, target |-> g, refresh |-> r,
                                 content |-> IF moved THEN c ELSE t["content"],
                                 last |-> IF moved THEN 1 ELSE t["last"]]))
AimRules(i, g) == On("rules") /\ Reads(i) /\ Store(i, With(i, [target |-> g]))
RefreshRules(i, c) == On("rules") /\ Reads(i) /\ Store(i, With(i, [content |-> c, last |-> 1]))

ImportNode(u, n, e) ==
  LET same == {i \in Ids : Loaded[i] # Absent /\ Loaded[i]["url"] = u}
      t == [url |-> u, name |-> n, enabled |-> e]
  IN  /\ On("node") /\ Loaded # Unreadable
      /\ \E i \in IF same # {} THEN same ELSE Free : Store(i, t)
EditNode(i, u, n, e) ==
  /\ On("node") /\ Reads(i)
  /\ ~\E j \in Ids \ {i} : Loaded[j] # Absent /\ Loaded[j]["url"] = u
  /\ Store(i, [url |-> u, name |-> n, enabled |-> e])

SaveGroup(i, t) ==
  /\ On("group") /\ (i \in Free \/ listed[i] # Absent) /\ Matches(t) /\ Store(i, t)

\* The picks are one record; it is absent until something is picked.
Picks == IF listed[1] = Absent THEN [global |-> Absent, policy |-> {}] ELSE listed[1]
PickGlobal(n) == On("picks") /\ Note(1, [Picks EXCEPT !["global"] = n])
PickTarget(p, n) ==
  LET others == {q \in Picks["policy"] : q[1] # p}
  IN  /\ On("picks")
      /\ others = Picks["policy"] => Cardinality(others) < MaxTargets
      /\ Note(1, [Picks EXCEPT !["policy"] = others \cup {<<p, n>>}])

\* The page saves the list it shows; reading a list that has not taken over
\* the direct rules, for the page or to compile, saves what has been read.
persist_manual_rules(rules) ==
  On("manual") /\ OneFinal(rules) /\ Store(1, [rule |-> rules])
migrate_legacy_direct_rules_in ==
  /\ kind = "manual" /\ running # "closed" /\ ~TakenOver(records[1]) /\ Loaded # Unreadable
  /\ records' = [records EXCEPT ![1] = encode(kind, 1, Loaded[1])]
  /\ UNCHANGED <<kind, older, listed, running>>

Remove(i) ==
  /\ running = "open" /\ kind \notin {"picks", "manual"} /\ listed[i] # Absent
  /\ records' = [records EXCEPT ![i] = Absent]
  /\ older' = [older EXCEPT ![i] = Absent]
  /\ listed' = [listed EXCEPT ![i] = Absent]
  /\ UNCHANGED <<kind, running>>

-----------------------------------------------------------------------------
(* Starting and ending.  Reading the groups moves those under the older    *)
(* suffix; the application may end between two of its steps.               *)

Launch == running = "closed" /\ running' = "reading" /\ UNCHANGED <<kind, records, older, listed>>
Move(i) ==
  /\ kind = "group" /\ running = "reading" /\ older[i] # Absent /\ records[i] = Absent
  /\ decode(kind, i, older[i]) # Unreadable
  /\ records' = [records EXCEPT ![i] = encode(kind, i, decode(kind, i, older[i]))]
  /\ UNCHANGED <<kind, older, listed, running>>
Sweep(i) ==
  /\ kind = "group" /\ running = "reading" /\ older[i] # Absent /\ records[i] # Absent
  /\ older' = [older EXCEPT ![i] = Absent]
  /\ UNCHANGED <<kind, records, listed, running>>
Open ==
  /\ running = "reading" /\ (kind = "group" => \A i \in Ids : older[i] = Absent)
  /\ listed' = IF Loaded = Unreadable THEN [i \in Ids |-> Absent] ELSE Loaded
  /\ running' = "open"
  /\ UNCHANGED <<kind, records, older>>
Close ==
  /\ running # "closed" /\ running' = "closed"
  /\ UNCHANGED <<kind, records, older, listed>>

RecordsInit ==
  /\ kind \in Kinds
  /\ \E w \in Left[kind] :
       records = w.records /\ older = w.older /\ listed = w.says
  /\ running = "closed"
Subscriptions ==
  \E u \in Enter("url"), n \in Enter("name"), r \in Enter("refresh"), e \in BOOLEAN, d \in Enter("dns") :
    Import(u, n, r, e, d) \/ \E i \in Ids : EditSubscription(i, u, n, r, e, d)
RuleSources ==
  \E u \in Enter("url"), n \in Enter("name"), g \in Enter("target"), c \in Enter("content"),
     r \in Enter("refresh") :
    ImportRules(u, n, g, c, r) \/ \E i \in Ids : EditRules(i, u, n, g, c, r)
Nodes ==
  \E u \in Enter("url"), n \in Enter("name"), e \in BOOLEAN :
    ImportNode(u, n, e) \/ \E i \in Ids : EditNode(i, u, n, e)
Single(i) ==
  \/ \E e \in BOOLEAN : SwitchSource(i, e)
  \/ On("subscription") /\ \E d \in Enter("dns") : RefreshSubscription(i, d)
  \/ On("rules") /\ \E g \in Enter("target") : AimRules(i, g)
  \/ On("rules") /\ \E c \in Enter("content") : RefreshRules(i, c)
  \/ On("group") /\ \E t \in Enter("group") : SaveGroup(i, t)
  \/ Remove(i) \/ Move(i) \/ Sweep(i)
RecordsNext ==
  \/ On("subscription") /\ Subscriptions
  \/ On("rules") /\ RuleSources
  \/ On("node") /\ Nodes
  \/ \E i \in Ids : Single(i)
  \/ On("picks") /\ \E n \in Enter("global") : PickGlobal(n)
  \/ On("picks") /\ \E p \in Enter("policy"), n \in Enter("global") : PickTarget(p, n)
  \/ On("manual") /\ \E rules \in Enter("rule") : persist_manual_rules(rules)
  \/ migrate_legacy_direct_rules_in
  \/ Launch \/ Open \/ Close
RecordsSpec == RecordsInit /\ [][RecordsNext]_recordVars

\* What the application lists is what its next launch reads, whatever release
\* wrote the records and whichever operations rewrote them since: no field is
\* lost or invented, no accepted change makes a kind of record unreadable (an
\* address too long for its nameservers, more groups than are read), no
\* record hides another, and direct rules that were removed from the list do
\* not come back.
RecordsAreRead == Loaded = listed
=============================================================================
