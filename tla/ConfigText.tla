------------------------------ MODULE ConfigText ------------------------------
(***************************************************************************)
(* The configuration document and the two texts in which the user sees it. *)
(* On disk it is a list of named entries, each a version line followed by  *)
(* lines of a key and its values, some of them in hexadecimal.  The editor *)
(* shows it as one JSONC document; an export of an older version showed it *)
(* line by line.  The operators translate to_jsonc and from_jsonc and the  *)
(* older pair; punctuation, comments and escapes are left out.             *)
(***************************************************************************)
EXTENDS Naturals, Sequences, FiniteSets
LOCAL INSTANCE Functions
LOCAL Seqs == INSTANCE SequencesExt

\* A value: plain text or a reference to a subscription or a policy group, as
\* it is or in hexadecimal.
Plain(t) == [kind |-> "plain", text |-> t, hex |-> FALSE]
Refers(kind, id) == [kind |-> kind, text |-> id, hex |-> FALSE]
encode_field(v) == [v EXCEPT !.hex = TRUE]
decode_field(v) == [v EXCEPT !.hex = FALSE]
Hex(t) == encode_field(Plain(t))

is_hex_field(key) == key \in {"name", "filter", "url", "target", "proxy-dns"}
decode_field_if(key, v) == IF is_hex_field(key) THEN decode_field(v) ELSE v
encode_field_if(key, v) == IF is_hex_field(key) THEN encode_field(v) ELSE v

Line(key, values) == [key |-> key, values |-> values]
Decoded(l) == Line(l.key, [i \in DOMAIN l.values |-> decode_field_if(l.key, l.values[i])])
Encoded(l) == Line(l.key, [i \in DOMAIN l.values |-> encode_field_if(l.key, l.values[i])])

\* An entry: its name, the first line, and the others.
DocEntry(stem, ext, format, fields) ==
  [name |-> [stem |-> stem, ext |-> ext], format |-> format, fields |-> fields]
Name(stem, ext) == [stem |-> stem, ext |-> ext]
SUBSCRIPTION_KEY == Name("subscription", "url")
ROUTING_MODE_KEY == Name("routing", "mode")
LANGUAGE_KEY == Name("language", "preference")

all(lines, key) == SelectSeq(lines, LAMBDA l : l.key = key)
Has(lines, key) == all(lines, key) # <<>>
field(lines, key) == Head(all(lines, key)).values[1]
FirstOf(lines, key) == IF Has(lines, key) THEN <<Head(all(lines, key))>> ELSE <<>>
Each(seq, Op(_)) == [i \in DOMAIN seq |-> Op(seq[i])]
Joined(keys, Op(_)) == Seqs!FlattenSeq(Each(keys, Op))

kind_of(name) ==
  CASE name.ext \in {"policy", "group"} -> "Group"
    [] name.ext = "qxrules" -> "RuleSource"
    [] name.ext = "vless" -> "Node"
    [] name = SUBSCRIPTION_KEY -> "Subscription"
    [] OTHER -> "State"
OfKind(doc, kind) ==
  SelectSeq(doc, LAMBDA e : /\ e.name \notin {ROUTING_MODE_KEY, LANGUAGE_KEY}
                            /\ kind_of(e.name) = kind)
Named(doc, name) == SelectSeq(doc, LAMBDA e : e.name = name)

-----------------------------------------------------------------------------
(* to_jsonc *)

SubscriptionKeys == <<"id", "name", "enabled", "url", "refresh">>
GroupKeys == <<"id", "name", "icon", "strategy", "interval", "tolerance-ms",
               "matcher", "filter">>
RuleSourceKeys == <<"id", "name", "url", "target", "enabled", "refresh">>

\* Lines without a place of their own follow those that have one.
render_extras(e, known) ==
  Each(SelectSeq(e.fields, LAMBDA l : l.key \notin known), Decoded)
Shown(e, keys) == Each(Joined(keys, LAMBDA k : FirstOf(e.fields, k)), Decoded)

render_subscription(e) ==
  LET dns == all(e.fields, "proxy-dns")
  IN Shown(e, SubscriptionKeys)
     \o (IF dns = <<>> THEN <<>>
         ELSE <<Line("proxyDns", Each(dns, LAMBDA l : decode_field(l.values[1])))>>)
     \o render_extras(e, Range(SubscriptionKeys) \union {"proxy-dns", "last-success"})

\* The source of a member is shown by its name when the name is known.
resolve_source(from, subscriptions, groups) ==
  CASE from.kind = "subscription" /\ from.text \in DOMAIN subscriptions ->
         subscriptions[from.text]
    [] from.kind = "policy" /\ from.text \in DOMAIN groups -> groups[from.text]
    [] OTHER -> from

\* Values that stand for nothing are not shown.
Unshown == {Line("icon", <<Plain("none")>>), Line("matcher", <<Plain("explicit")>>),
            Line("filter", <<Plain("")>>)}
render_group(e, subscriptions, groups) ==
  [fields |-> SelectSeq(Shown(e, GroupKeys), LAMBDA l : l \notin Unshown)
              \o render_extras(e, Range(GroupKeys) \union {"member"}),
   members |-> Each(all(e.fields, "member"), LAMBDA l :
     [from |-> resolve_source(decode_field(l.values[1]), subscriptions, groups),
      node |-> decode_field(l.values[2])])]

\* The rules themselves and the time of the last download are not shown.
render_rule_source(e) ==
  Each(Shown(e, RuleSourceKeys), LAMBDA l :
         IF l.key = "enabled"
         THEN Line("enabled", <<Plain(IF l.values[1].text \in {"1", "true"}
                                      THEN "true" ELSE "false")>>)
         ELSE l)
  \o render_extras(e, Range(RuleSourceKeys) \union {"content", "last-success"})

\* Every other entry: the version, then one member for each line.
render_record(e) == <<Line("format", <<Plain(e.format)>>)>> \o Each(e.fields, Decoded)

\* The names of the entries of one kind, by their ids.
NamesById(doc, kind) ==
  LET known == SelectSeq(OfKind(doc, kind), LAMBDA e :
                           Has(e.fields, "id") /\ Has(e.fields, "name"))
  IN [id \in {field(e.fields, "id").text : e \in Range(known)} |->
        decode_field(field((CHOOSE e \in Range(known) :
                              field(e.fields, "id").text = id).fields, "name"))]

to_jsonc(doc) ==
  LET subscriptions == NamesById(doc, "Subscription")
      groups == NamesById(doc, "Group")
  IN [mode |-> Each(Named(doc, ROUTING_MODE_KEY), LAMBDA e : e.format),
      language |-> Each(Named(doc, LANGUAGE_KEY), LAMBDA e : e.format),
      subscription |-> Each(OfKind(doc, "Subscription"), render_subscription),
      groups |-> Each(OfKind(doc, "Group"),
                      LAMBDA e : render_group(e, subscriptions, groups)),
      ruleSources |-> Each(OfKind(doc, "RuleSource"), render_rule_source),
      nodes |-> Each(OfKind(doc, "Node"), render_record),
      state |-> Each(OfKind(doc, "State"),
                     LAMBDA e : [name |-> e.name, record |-> render_record(e)])]

-----------------------------------------------------------------------------
(* from_jsonc *)

\* A parsed object has one member for each key, at the place of the first with
\* that key and with the value of the last.
Members(object) ==
  LET firsts == Seqs!SetToSortSeq({i \in DOMAIN object :
                  \A j \in 1..(i - 1) : object[j].key # object[i].key}, <)
  IN Each(firsts, LAMBDA i :
       object[CHOOSE j \in DOMAIN object :
                /\ object[j].key = object[i].key
                /\ \A k \in (j + 1)..Len(object) : object[k].key # object[i].key])

Taken(object, keys) ==
  Each(Joined(keys, LAMBDA k : FirstOf(Members(object), k)), Encoded)
Defaulted(object, key, default) ==
  IF Has(object, key) THEN Taken(object, <<key>>) ELSE <<Line(key, <<default>>)>>

\* The ids by name: of two objects with one name the later counts.
collect_ids(objects) ==
  LET known == SelectSeq(objects, LAMBDA o : Has(o, "id") /\ Has(o, "name"))
  IN [name \in {field(o, "name").text : o \in Range(known)} |->
        LET last == CHOOSE i \in DOMAIN known :
              /\ field(known[i], "name").text = name
              /\ \A j \in (i + 1)..Len(known) : field(known[j], "name").text # name
        IN field(known[last], "id").text]

subscription_entry(object) ==
  [name |-> SUBSCRIPTION_KEY, format |-> "manis-subscription-source-v3",
   fields |-> Taken(object, SubscriptionKeys)
     \o Joined(all(object, "proxyDns"), LAMBDA l :
          Each(l.values, LAMBDA v : Line("proxy-dns", <<encode_field(v)>>)))]

\* Mutant: the names of the other groups are not known yet.
ResolvableInSubscriptions(from, subscriptions, groups) ==
  from.kind # "plain" \/ from.text \in {"builtin", "saved"} \union DOMAIN subscriptions

\* A word is a built-in source, else a subscription, else a group; a reference
\* that could not be shown by name stands for itself.
Resolvable(from, subscriptions, groups) ==
  \/ from.kind # "plain" \/ from.text \in {"builtin", "saved"}
  \/ from.text \in DOMAIN subscriptions \union DOMAIN groups
resolve_back(from, subscriptions, groups) ==
  CASE from.kind # "plain" \/ from.text \in {"builtin", "saved"} -> from
    [] from.kind = "plain" /\ from.text \notin {"builtin", "saved"}
         /\ from.text \in DOMAIN subscriptions ->
         Refers("subscription", subscriptions[from.text])
    [] OTHER -> Refers("policy", groups[from.text])

group_entry(group, subscriptions, groups) ==
  [name |-> Name(field(group.fields, "id").text, "policy"),
   format |-> "manis-policy-group-v1",
   fields |->
     Taken(group.fields, <<"id", "name">>)
     \o Defaulted(group.fields, "icon", Plain("none"))
     \o Taken(group.fields, <<"strategy", "interval", "tolerance-ms">>)
     \o Defaulted(group.fields, "matcher", Plain("explicit"))
     \o Defaulted(group.fields, "filter", Hex(""))
     \o Each(group.members, LAMBDA m :
          Line("member", <<encode_field(resolve_back(m.from, subscriptions, groups)),
                           encode_field(m.node)>>))]

\* The rules are downloaded again.
rule_source_entry(object, body) ==
  [name |-> Name(field(object, "id").text, "qxrules"),
   format |-> "manis-qx-rule-source-v3",
   fields |->
     Each(Taken(object, <<"id", "url", "name", "target", "enabled", "refresh">>), LAMBDA l :
            IF l.key = "enabled"
            THEN Line("enabled", <<Plain(IF l.values[1].text = "true" THEN "1" ELSE "0")>>)
            ELSE l)
     \o (IF Has(object, "url") THEN <<Line("content", <<encode_field(body)>>)>> ELSE <<>>)]

record_entry(name, object) ==
  [name |-> name,
   format |-> field(Members(object), "format").text,
   fields |-> Each(SelectSeq(Members(object), LAMBDA l : l.key # "format"), Encoded)]

\* Why the text is refused, "no" when it is not.
JsoncRefused(json, online) ==
  LET subscriptions == collect_ids(json.subscription)
      groups == collect_ids(Each(json.groups, LAMBDA g : g.fields))
  IN CASE \E g \in Range(json.groups) : \E m \in Range(g.members) :
             ~Resolvable(m.from, subscriptions, groups) -> "InvalidConfiguration"
       [] OTHER -> IF ~online /\ \E o \in Range(json.ruleSources) : Has(o, "url")
                   THEN "RemoteSourceUnavailable" ELSE "no"
from_jsonc(json, body) ==
  LET subscriptions == collect_ids(json.subscription)
      groups == collect_ids(Each(json.groups, LAMBDA g : g.fields))
  IN Each(json.mode, LAMBDA m : [name |-> ROUTING_MODE_KEY, format |-> m, fields |-> <<>>])
     \o Each(json.language, LAMBDA l : [name |-> LANGUAGE_KEY, format |-> l, fields |-> <<>>])
     \o Each(json.subscription, subscription_entry)
     \o Each(json.groups, LAMBDA g : group_entry(g, subscriptions, groups))
     \o Each(json.ruleSources, LAMBDA o : rule_source_entry(o, body))
     \o Each(json.nodes, LAMBDA o : record_entry(Name(field(o, "id").text, "vless"), o))
     \o Each(json.state, LAMBDA s : record_entry(s.name, s.record))

-----------------------------------------------------------------------------
(* The text of older exports *)

is_storage_version(format) ==
  format \in {"manis-subscription-source-v3", "manis-policy-group-v1",
              "manis-qx-rule-source-v3", "manis-single-node-source-v1",
              "manis-node-selection-v1", "manis.manual-routing-rules.v4",
              "manis-routing-rule-group-order-v1"}
is_qx_rule_source(name) == name.ext = "qxrules"

readable_line(e, l) ==
  CASE l.key \in {"member", "global", "policy"} /\ Len(l.values) = 2 ->
         Line(l.key, Each(l.values, decode_field))
    [] l.key = "content" -> Line(l.key, Each(l.values, decode_field))
    [] OTHER -> Decoded(l)

\* An entry of one line, one without a version line, and one with lines.
readable_entry(e) ==
  [name |-> e.name, format |-> e.format,
   lines |-> IF ~is_storage_version(e.format) THEN e.fields
             ELSE Each(SelectSeq(e.fields, LAMBDA l :
                                   l.key # "content" \/ ~is_qx_rule_source(e.name)),
                       LAMBDA l : readable_line(e, l))]
to_readable_source(doc) == Each(doc, readable_entry)

storage_line(l) ==
  CASE l.key \in {"member", "global", "policy", "content"} ->
         Line(l.key, Each(l.values, encode_field))
    [] OTHER -> Encoded(l)

\* The rules of a rule source are downloaded and put before its switch.
fetch_missing_rule_content(name, lines, body) ==
  LET place == CHOOSE i \in 1..(Len(lines) + 1) :
        /\ i = Len(lines) + 1 \/ lines[i].key = "enabled"
        /\ \A j \in 1..(i - 1) : lines[j].key # "enabled"
  IN IF is_qx_rule_source(name) /\ ~Has(lines, "content")
     THEN SubSeq(lines, 1, place - 1) \o <<Line("content", <<encode_field(body)>>)>>
          \o SubSeq(lines, place, Len(lines))
     ELSE lines
storage_entry(r, body) ==
  [name |-> r.name, format |-> r.format,
   fields |-> IF ~is_storage_version(r.format) THEN r.lines
              ELSE fetch_missing_rule_content(r.name, Each(r.lines, storage_line), body)]

\* An entry without any line cannot be read back, and a rule source needs the
\* network.
ReadableRefused(text, online) ==
  CASE \E r \in Range(text) : r.format = "" /\ r.lines = <<>> -> "InvalidFormat"
    [] OTHER -> IF ~online /\ \E r \in Range(text) : is_qx_rule_source(r.name)
                THEN "RemoteSourceUnavailable" ELSE "no"
to_storage_source(text, body) == Each(text, LAMBDA r : storage_entry(r, body))
=============================================================================
