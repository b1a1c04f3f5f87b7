----------------------------- MODULE MCSources -----------------------------
(* The windows of the application: the lists of sources and their tasks      *)
(* (Sources, with a subscription, a rule source that is saved and one that   *)
(* can be added, a single node and the manual rules), the drafts of the      *)
(* editor windows (Editors, with one saved item) and the main window under   *)
(* repeated launches (Instance, with three).  Sources models the window of   *)
(* the rule editor only as far as its tasks go, and Editors the tasks only   *)
(* as far as drafts go: a behaviour is about one module.                     *)
EXTENDS Sources, Editors, Instance

CONSTANTS s1, r1, r2, n1, a, b, l1, l2, l3
VARIABLE part
parts == <<vars, editorVars, instanceVars, part>>

MCManual == "manual"
Rec(i) == [on |-> TRUE, def |-> "d1", body |-> IF i \in {r1, r2} THEN a ELSE Plain, fresh |-> i # s1 /\ i # r1]
MCSaved == [i \in Items |-> IF i = r2 THEN Absent ELSE Rec(i)]
MCImported == [i \in Items |-> IF i \in {r1, n1} THEN Absent ELSE Rec(i)]

Sourced == part = "sources" /\ UNCHANGED <<editorVars, instanceVars, part>>
Edited == part = "editors" /\ UNCHANGED <<vars, instanceVars, part>>
Launched == part = "launches" /\ UNCHANGED <<vars, editorVars, part>>

MCInit ==
  /\ part \in {"sources", "editors", "launches"}
  /\ Init /\ EditorsInit /\ InstanceInit
  /\ part # "launches" => hosted

MCNext ==
  \/ \E how \in {"new", "meta", "url"}, def \in Defs, on \in BOOLEAN, s \in Subs : Sourced /\ ImportSub(s, how, def, on)
  \/ \E how \in {"new", "meta", "url"}, def \in Defs, on \in BOOLEAN, n \in Nodes : Sourced /\ how # "meta" /\ ImportNode(n, how, def, on)
  \/ \E s \in Subs : Sourced /\ RefreshSub(s)
  \/ \E s \in Subs : Sourced /\ ToggleSub(s)
  \/ \E s \in Subs : Sourced /\ RemoveSub(s)
  \/ \E n \in Nodes : Sourced /\ ToggleNode(n)
  \/ \E n \in Nodes : Sourced /\ RemoveNode(n)
  \/ \E def \in Defs : Sourced /\ EditManual(def)
  \/ Sourced /\ OpenNewRule
  \/ Sourced /\ CloseRule
  \/ \E r \in Rules : Sourced /\ OpenRule(r)
  \/ \E r \in Rules : Sourced /\ RefreshRule(r)
  \/ \E r \in Rules : Sourced /\ ToggleRule(r)
  \/ \E r \in Rules : Sourced /\ RemoveRule(r)
  \/ \E r \in Rules, how \in {"new", "name", "meta", "url"}, def \in Defs : Sourced /\ SubmitRule(r, how, def)
  \/ \E r \in Rules, def \in Defs : Sourced /\ TargetRule(r, def)
  \/ Sourced /\ BeginTransfer
  \/ Sourced /\ CancelTransfer
  \/ Sourced /\ Replace
  \/ Sourced /\ Relaunch
  \/ Sourced /\ Tick
  \/ \E k \in Slots : Sourced /\ Read(k)
  \/ \E k \in Slots : Sourced /\ Work(k)
  \/ \E k \in Slots : Sourced /\ Finish(k)
  \/ Sourced /\ ReplaceWork
  \/ Sourced /\ ReplaceFailed
  \/ Sourced /\ Replaced
  \/ \E i \in Items : Sourced /\ Age(i)
  \/ \E k \in Kinds, item \in Listed \cup {Addition} : Edited /\ Open(k, item)
  \/ \E k \in Kinds, item \in Listed \cup {Addition} : Edited /\ OpenFails(k, item)
  \/ \E k \in Kinds : Edited /\ Type(k)
  \/ \E k \in Kinds : Edited /\ Cancel(k)
  \/ \E k \in Kinds : Edited /\ Submit(k)
  \/ \E k \in Kinds : Edited /\ OtherBegins(k)
  \/ \E k \in Kinds, item \in Listed : Edited /\ Remove(k, item)
  \/ \E s \in saves, ok \in BOOLEAN : Edited /\ Completes(s, ok)
  \/ Edited /\ OtherEnds
  \/ Edited /\ LoadText
  \/ Edited /\ TextLoaded
  \/ Edited /\ LoadFails
  \/ Edited /\ Install
  \/ Edited /\ InstallFails
  \/ Edited /\ CloseTransfer
  \/ Edited /\ Restart
  \/ \E l \in Launches : Launched /\ LaunchAgain(l)
  \/ \E l \in Launches : Launched /\ RequestActivation(l)
  \/ \E l \in Launches : Launched /\ NameRequest(l)
  \/ \E l \in Launches : Launched /\ Recheck(l)
  \/ \E l \in Launches : Launched /\ GiveUp(l)
  \/ \E l \in Launches : Launched /\ OpenWindow(l)
  \/ \E l \in Launches : Launched /\ TakeRequests(l)
  \/ \E l \in Launches : Launched /\ Drain(l)
  \/ \E l \in Launches : Launched /\ CloseWindow(l)
  \/ \E l \in Launches : Launched /\ OwnerEnds(l)
  \/ Launched /\ ClickItem
  \/ Launched /\ HostChanges
MCSpec == MCInit /\ [][MCNext]_parts
=============================================================================
