------------------------------ MODULE MCStores -------------------------------
(* The ways in which the configuration file changes under its readers: a   *)
(* transaction on its entries (SourceStore, with two entries, so that      *)
(* installing and rolling back stop half-way, and three contents), the     *)
(* editor, which replaces the whole of it (Settings, with the entries and  *)
(* documents below), and the operations that rewrite one record (Records). *)
(* A behaviour is about one of them.                                       *)
EXTENDS SourceStore, Settings, Records
T == INSTANCE ConfigText

VARIABLE part

L(k, v) == T!Line(k, <<v>>)
Mode(m) == T!DocEntry("routing", "mode", m, <<>>)
Airport == T!DocEntry("subscription", "url", "manis-subscription-source-v3",
  <<L("id", T!Plain("s")), L("name", T!Hex("airport")), L("url", T!Hex("u")),
    L("proxy-dns", T!Hex("d1")), L("proxy-dns", T!Hex("d2")), L("last-success", T!Plain("t"))>>)
Group(id, name, members) ==
  T!DocEntry(id, "policy", "manis-policy-group-v1",
    <<L("id", T!Plain(id)), L("name", T!Hex(name)), L("icon", T!Plain("none")),
      L("strategy", T!Plain("url-test")), L("matcher", T!Plain("explicit")),
      L("filter", T!Hex(""))>>
    \o [i \in DOMAIN members |->
          T!Line("member", <<T!encode_field(members[i]), T!Hex("n")>>)])
Auto == Group("p1", "auto", <<T!Refers("subscription", "s"), T!Plain("builtin")>>)
Pick == Group("p2", "pick", <<T!Refers("policy", "p1")>>)
Namesake == Group("p2", "auto", <<T!Refers("policy", "p1")>>)
Ads == T!DocEntry("qx-rule-1", "qxrules", "manis-qx-rule-source-v3",
  <<L("id", T!Plain("qx-rule-1")), L("url", T!Hex("r")), L("name", T!Hex("ads")),
    L("target", T!Hex("auto")), L("content", T!Hex("old")), L("enabled", T!Plain("1"))>>)
Rules(n) == T!DocEntry("manual-routing-rules", "state", "manis.manual-routing-rules.v4",
  [i \in 1..n |-> L("rule", T!Plain(IF i = 1 THEN "r1" ELSE "r2"))])
Folded(g) == T!DocEntry("workspace", "state", g, <<>>)
Node == T!DocEntry("saved-1", "vless", "manis-single-node-source-v1",
  <<L("id", T!Plain("saved-1")), L("name", T!Hex("home"))>>)

MCFirsts == {<<>>, <<Mode("rule"), Auto, Pick>>, <<Airport, Auto, Ads, Rules(1), Node>>}
MCWritable == {Pick, Namesake, Rules(2), Folded("")}
MCExports == {<<Mode("direct"), Airport, Auto, Ads, Rules(2)>>}

\* The records: what earlier releases may have left and what it says, and
\* what a user enters.
NoRecords == [i \in Ids |-> Absent]
Raw(v, f) == [version |-> v, fields |-> f]
OldRecord(raw, t) == [records |-> [NoRecords EXCEPT ![1] = Raw(raw[1], raw[2])], older |-> NoRecords,
                     says |-> [NoRecords EXCEPT ![1] = t]]
MCLeft ==
  LET Empty == [records |-> NoRecords, older |-> NoRecords, says |-> NoRecords]
      Feed(n, r, l, d) == [url |-> "short", name |-> n, enabled |-> TRUE, refresh |-> r, last |-> l, dns |-> d]
      List(n) == [url |-> "v", name |-> n, target |-> "h", content |-> "old", enabled |-> TRUE,
                  refresh |-> "manual", last |-> 0]
      Link == [url |-> "u", name |-> "u", enabled |-> TRUE]
      Old == [name |-> "p", icon |-> "none", strategy |-> "select", interval |-> 600,
              tolerance |-> 150, matcher |-> "explicit", filter |-> "", member |-> {"m"}]
      OldRaw(i) == Raw("relay", [x \in {"id"} \cup (DOMAIN Old \ {"interval", "tolerance"}) |->
                     IF x = "id" THEN i ELSE Old[x]])
  IN  [subscription |->
         {Empty,
          OldRecord(<<"v2", [id |-> 1, url |-> "short", refresh |-> "daily", last |-> 1, dns |-> {"d"}]>>,
                Feed("short", "daily", 1, {"d"})),
          OldRecord(<<"v1", [id |-> 1, url |-> "short", refresh |-> "daily", last |-> 1]>>,
                Feed("short", "daily", 1, {})),
          OldRecord(<<"line", [url |-> "short"]>>, Feed("short", "manual", 0, {}))},
       rules |->
         {Empty,
          OldRecord(<<"v2", [id |-> 1, url |-> "v", target |-> "h", content |-> "old", enabled |-> FALSE]>>,
                [List(Absent) EXCEPT !["enabled"] = FALSE]),
          OldRecord(<<"v1", [id |-> 1, url |-> "v", target |-> "h", content |-> "old"]>>, List(Absent))},
       node |->
         {Empty,
          OldRecord(<<"line", [url |-> "u"]>>, Link),
          OldRecord(<<"vless", [id |-> 1, url |-> "u", enabled |-> FALSE]>>,
                [Link EXCEPT !["enabled"] = FALSE])},
       group |->
         {Empty,
          [records |-> NoRecords, older |-> [NoRecords EXCEPT ![1] = OldRaw(1), ![2] = OldRaw(2)],
           says |-> [NoRecords EXCEPT ![1] = Old, ![2] = Old]]},
       manual |->
         LET R(c, on) == [match |-> c, to |-> "auto", on |-> on]
             D(c) == [match |-> {c}, to |-> "DIRECT", on |-> TRUE]
             Last == [match |-> {}, to |-> "auto", on |-> FALSE]
             Lists(raw, old, says) ==
               [records |-> [NoRecords EXCEPT ![1] = raw], older |-> [NoRecords EXCEPT ![1] = old],
                says |-> [NoRecords EXCEPT ![1] = [rule |-> says]]]
         IN  {Lists(Absent, Absent, <<D(Ssh)>>), Lists(Absent, <<>>, <<>>),
              Lists(Raw("v1", [rule |-> <<R({"a"}, Absent), D("d")>>]), <<"d", Ssh>>,
                    <<D("d"), D(Ssh), R({"a"}, TRUE)>>),
              Lists(Raw("v2", [rule |-> <<R({"a", "b"}, Absent)>>]), <<"d">>, <<R({"a", "b"}, TRUE)>>),
              Lists(Raw("v3", [rule |-> <<R({"a"}, FALSE)>>]), Absent, <<R({"a"}, FALSE)>>),
              Lists(Raw("v4", [rule |-> <<Last, R({"a"}, TRUE)>>]), Absent, <<R({"a"}, TRUE), Last>>)},
       picks |->
         {Empty,
          OldRecord(<<"relay", [policy |-> {<<"p", "a">>}]>>,
                [global |-> Absent, policy |-> {<<"p", "a">>}])}]
MCValues ==
  LET Policy(m, f, s, n) == [name |-> n, icon |-> "none", strategy |-> "url-test", interval |-> 30,
                         tolerance |-> 0, matcher |-> m, filter |-> f, member |-> s]
  IN  [subscription |-> [url |-> {"short", "long"}, name |-> {"a", "b"}, refresh |-> {"manual", "daily"}, dns |-> {{}, {"d"}}],
       rules |-> [url |-> {"u"}, name |-> {"a", Absent}, target |-> {"g", "h"}, content |-> {"c"}, refresh |-> {"daily"}],
       node |-> [url |-> {"u", "v"}, name |-> {"a", "b"}],
       group |-> [group |-> {Policy("all", "", {}, "p"), Policy("name", "f", {}, "p"),
                             Policy("explicit", "", {"m", "n"}, "q")}],
       picks |-> [global |-> {"a", "b"}, policy |-> {"p", "q", "r"}],
       manual |->
         LET R(c, on) == [match |-> c, to |-> "auto", on |-> on]
         IN  [rule |-> {<<>>, <<R({"a"}, FALSE)>>, <<R({"a", "b"}, TRUE), R({}, TRUE)>>}]]

Transaction == part = "transaction" /\ UNCHANGED <<settingsVars, recordVars, part>>
Whole == part = "document" /\ UNCHANGED <<vars, recordVars, part>>
Rewriting == part = "records" /\ UNCHANGED <<vars, settingsVars, part>>
MCInit ==
  /\ part \in {"transaction", "document", "records"}
  /\ SettingsInit /\ (part # "document" => stored.exists /\ stored.doc = <<>>)
  /\ Init /\ (part # "transaction" => entries = [e \in Entry |-> CHOOSE c \in Content : TRUE])
  /\ RecordsInit /\ (part # "records" => kind = "picks" /\ records = NoRecords)
MCNext ==
  \/ Transaction /\ Capture
  \/ Transaction /\ Mutate
  \/ Transaction /\ CheckEnds
  \/ Transaction /\ InstallEnds
  \/ Transaction /\ Applied
  \/ Transaction /\ RollbackEnds
  \/ Transaction /\ AppEnds
  \/ \E e \in Entry : Transaction /\ CheckEntry(e)
  \/ \E e \in Entry : Transaction /\ Install(e)
  \/ \E e \in Entry : Transaction /\ Rollback(e)
  \/ \E e \in Entry, c \in Content : Transaction /\ OtherWrites(e, c)
  \/ Whole /\ FindDataDir
  \/ Whole /\ Migrate
  \/ Whole /\ SweepOld
  \/ Whole /\ load_or_create_document
  \/ Whole /\ RemoveBeside
  \/ Whole /\ End
  \/ Whole /\ WriteEntry
  \/ Whole /\ RemoveEntry
  \/ Whole /\ edit_configuration
  \/ Whole /\ EditorLoads
  \/ Whole /\ SetMode
  \/ Whole /\ RenameGroup
  \/ Whole /\ RemoveGroup
  \/ Whole /\ replace_configuration_from_clipboard
  \/ Whole /\ preview_configuration_edits
  \/ Whole /\ finish_configuration_preview
  \/ Whole /\ resume_configuration_editing
  \/ Whole /\ cancel_configuration_transfer
  \/ Whole /\ replace_configuration
  \/ Whole /\ StopAndRead
  \/ Whole /\ backup_current_store
  \/ Whole /\ replace_source
  \/ Whole /\ validate_store
  \/ Whole /\ RollBack
  \/ Whole /\ finish_configuration_replacement
  \/ Rewriting /\ RecordsNext
MCSpec == MCInit /\ [][MCNext]_<<vars, settingsVars, recordVars, part>>
=============================================================================
