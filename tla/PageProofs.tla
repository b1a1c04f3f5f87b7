----------------------------- MODULE PageProofs -----------------------------
(*****************************************************************************)
(* Windows and lists that outlive what they wait for. For every list of      *)
(* items and any number of user operations: an open editor window keeps      *)
(* what its user opened and typed, and takes input unless a task in flight   *)
(* will end its being busy. For all sources, documents and contents: once    *)
(* no task runs, the lists show what the store holds, and a TUN that was     *)
(* lost is shown as off.                                                     *)
(*                                                                           *)
(* DraftsAreKept alone is not inductive. A completion clears a draft, so     *)
(* it has to be known which tasks can complete under an open window: none    *)
(* of proxies, whose window stays closed while one runs; none that saves a   *)
(* rule source, unless the window was opened over it; and of a group only    *)
(* the one task that its own window waits for (TaskMatchesWindow).           *)
(*                                                                           *)
(* ListsFollowStore and LossIsShown speak of moments without a task.         *)
(* SourcesInv says what holds in between: an item has one task at a time,    *)
(* whose indicator carries its generation (Indicators, OneRouted,            *)
(* OneRuleTask), so that no result is dropped; what a list shows of the      *)
(* item is what the store has, or what it will be once that task's result    *)
(* is merged (InStep); and a lost TUN is shown already or some result is     *)
(* going to tell (LossIsNoticed).                                            *)
(*****************************************************************************)
EXTENDS Editors, Sources, FiniteSetTheorems, TLAPS

(* Editor windows                                                          *)
\* The list of proxy sources removes without a task of this kind.
Save == {s \in [kind : Kinds, op : {"save", "remove"}, gen : Nat] :
           s.kind # "proxy" \/ s.op = "save"}

EditorsTypeOK ==
  /\ host \subseteq Kinds
  /\ draft \in [Kinds -> [item : Listed \cup {Addition}, text : Texts]]
  /\ wanted \in [Kinds -> [item : Listed \cup {Addition}, text : Texts]]
  /\ enabled \in [Kinds -> BOOLEAN] /\ importing \in [Kinds -> BOOLEAN]
  /\ latest \in [Kinds -> Nat] /\ saves \subseteq Save
  /\ raced \in BOOLEAN
  /\ replacing \in {"off", "loading", "open", "installing"}

\* No generation is ahead of the latest, and each belongs to one task.
LatestGenerations ==
  /\ \A s \in saves : s.gen <= latest[s.kind]
  /\ \A s, t \in saves : s.kind = t.kind /\ s.gen = t.gen => s = t

\* While a source of proxies or a group is busy, one task of its kind runs, the
\* latest, and of a group under an open window, of proxies under none.
TaskMatchesWindow ==
  /\ \A s \in saves : s.kind \in {"proxy", "policy"} =>
       /\ importing[s.kind] /\ s.gen = latest[s.kind]
       /\ (s.kind \in host) <=> (s.kind = "policy")
  /\ \A k \in Kinds : importing[k] => \E s \in saves : s.kind = k /\ s.gen = latest[k]

\* Fields that take no input belong to a busy kind; those of rules may stay so
\* after a result was dropped, which a window opened later is marked for.
FieldsComeBack ==
  /\ \A k \in {"proxy", "policy"} : enabled[k] \/ importing[k]
  /\ "rule" \in host /\ ~raced => enabled["rule"] /\ Imports("rule") = {}

HostsKeep == \A k \in host : (k = "rule" /\ raced) \/ draft[k] = wanted[k]
ClosedWhileInstalling == replacing = "installing" => host = {}

EditorsInv ==
  /\ EditorsTypeOK /\ LatestGenerations /\ TaskMatchesWindow /\ FieldsComeBack
  /\ HostsKeep /\ ClosedWhileInstalling

-----------------------------------------------------------------------------
(* The three facts about the invariant                                     *)

\* The initial state satisfies the invariant.
LEMMA EditorsInitInv == EditorsInit => EditorsInv
<1> SUFFICES ASSUME EditorsInit PROVE EditorsInv
  OBVIOUS
<1>1. EditorsTypeOK
  <2>1. Blank \in [item : Listed \cup {Addition}, text : Texts]
    BY DEF Blank, Texts
  <2> QED
    BY <2>1 DEF EditorsInit, EditorsTypeOK, Save
<1>2. LatestGenerations /\ TaskMatchesWindow
  BY DEF EditorsInit, LatestGenerations, TaskMatchesWindow
<1>3. FieldsComeBack /\ HostsKeep /\ ClosedWhileInstalling
  BY DEF EditorsInit, FieldsComeBack, HostsKeep, ClosedWhileInstalling, Kinds
<1> QED
  BY <1>1, <1>2, <1>3 DEF EditorsInv

\* Every step keeps the invariant.
LEMMA EditorsNextInv == EditorsInv /\ [EditorsNext]_editorVars => EditorsInv'
<1> SUFFICES ASSUME EditorsInv, [EditorsNext]_editorVars PROVE EditorsInv'
  OBVIOUS
<1> USE DEF EditorsInv
<1>1. ASSUME NEW k \in Kinds, NEW item \in Listed \cup {Addition}, Open(k, item)
      PROVE EditorsInv'
  <2>1. EditorsTypeOK'
    BY <1>1 DEF Open, OpenDraft, EditorsTypeOK, Texts
  <2>2. LatestGenerations'
    BY <1>1 DEF Open, OpenDraft, LatestGenerations
  <2>3. TaskMatchesWindow'
    BY <1>1 DEF Open, OpenDraft, MayOpen, EditorsTypeOK, TaskMatchesWindow
  <2>4. FieldsComeBack'
    BY <1>1 DEF Open, OpenDraft, MayOpen, EditorsTypeOK, Kinds, FieldsComeBack,
      Imports
  <2>5. HostsKeep'
    BY <1>1 DEF Open, OpenDraft, EditorsTypeOK, HostsKeep
  <2>6. ClosedWhileInstalling'
    BY <1>1 DEF Open, OpenDraft, MayOpen, ClosedWhileInstalling, Pages
  <2> QED BY <2>1, <2>2, <2>3, <2>4, <2>5, <2>6
<1>2. ASSUME NEW k \in Kinds, NEW item \in Listed \cup {Addition}, OpenFails(k, item)
      PROVE EditorsInv'
  <2>1. EditorsTypeOK'
    BY <1>2 DEF OpenFails, Holds, Feedback, EditorsTypeOK, Texts, Blank
  <2>2. LatestGenerations'
    BY <1>2 DEF OpenFails, LatestGenerations
  <2>3. TaskMatchesWindow'
    BY <1>2 DEF OpenFails, MayOpen, Feedback, TaskMatchesWindow
  <2>4. FieldsComeBack'
    BY <1>2 DEF OpenFails, MayOpen, Feedback, TaskMatchesWindow, FieldsComeBack,
      Imports
  <2>5. HostsKeep'
    BY <1>2 DEF OpenFails, Holds, HostsKeep
  <2>6. ClosedWhileInstalling'
    BY <1>2 DEF OpenFails, ClosedWhileInstalling
  <2> QED BY <2>1, <2>2, <2>3, <2>4, <2>5, <2>6
<1>3. ASSUME NEW k \in Kinds, Type(k) PROVE EditorsInv'
  <2>1. EditorsTypeOK'
    <3>1. [draft[k] EXCEPT !.text = "typed"] \in [item : Listed \cup {Addition}, text : Texts]
      BY DEF EditorsTypeOK, Texts
    <3> QED
      BY <1>3, <3>1 DEF Type, Holds, Feedback, EditorsTypeOK
  <2>2. LatestGenerations'
    BY <1>3 DEF Type, LatestGenerations
  <2>3. TaskMatchesWindow'
    BY <1>3 DEF Type, Feedback, EditorsTypeOK, Kinds, TaskMatchesWindow
  <2>4. FieldsComeBack'
    BY <1>3 DEF Type, Feedback, EditorsTypeOK, Kinds, FieldsComeBack, Imports
  <2>5. HostsKeep'
    BY <1>3 DEF Type, Holds, EditorsTypeOK, HostsKeep
  <2>6. ClosedWhileInstalling'
    BY <1>3 DEF Type, ClosedWhileInstalling
  <2> QED BY <2>1, <2>2, <2>3, <2>4, <2>5, <2>6
<1>4. ASSUME NEW k \in Kinds, Cancel(k) PROVE EditorsInv'
  <2>1. EditorsTypeOK'
    BY <1>4 DEF Cancel, Holds, EditorsTypeOK, Texts, Blank
  <2>2. LatestGenerations'
    BY <1>4 DEF Cancel, LatestGenerations
  <2>3. TaskMatchesWindow'
    BY <1>4 DEF Cancel, TaskMatchesWindow
  <2>4. FieldsComeBack'
    BY <1>4 DEF Cancel, FieldsComeBack, Imports
  <2>5. HostsKeep'
    BY <1>4 DEF Cancel, Holds, HostsKeep
  <2>6. ClosedWhileInstalling'
    BY <1>4 DEF Cancel, ClosedWhileInstalling
  <2> QED BY <2>1, <2>2, <2>3, <2>4, <2>5, <2>6
<1>5. ASSUME NEW k \in Kinds, Submit(k) PROVE EditorsInv'
  <2>1. EditorsTypeOK'
    BY <1>5 DEF Submit, Starts, Feedback, EditorsTypeOK, Save
  <2>2. LatestGenerations'
    BY <1>5 DEF Submit, Starts, EditorsTypeOK, Save, LatestGenerations
  <2>3. TaskMatchesWindow'
    <3> DEFINE new == [kind |-> k, op |-> "save", gen |-> latest[k] + 1]
    <3>1. /\ saves' = saves \cup {new} /\ latest' = [latest EXCEPT ![k] = @ + 1]
          /\ importing' = [importing EXCEPT ![k] = TRUE]
      BY <1>5 DEF Submit, Starts, Feedback
    <3>2. k \in {"proxy", "policy"} => \A s \in saves : s.kind # k
      BY <1>5 DEF Submit, SourcesBusy, TaskMatchesWindow
    <3>3. \A x \in Kinds \ {k} : (x \in host') <=> (x \in host)
      BY <1>5 DEF Submit
    <3>4. k = "policy" => k \in host'
      BY <1>5 DEF Submit
    <3>5. k = "proxy" => k \notin host'
      BY <1>5 DEF Submit
    <3>6. ASSUME NEW s \in saves', s.kind \in {"proxy", "policy"}
          PROVE  /\ importing'[s.kind] /\ s.gen = latest'[s.kind]
                 /\ (s.kind \in host') <=> (s.kind = "policy")
      <4>1. CASE s = new
        BY <3>1, <3>4, <3>5, <3>6, <4>1 DEF EditorsTypeOK
      <4>2. CASE s \in saves
        BY <3>1, <3>2, <3>3, <3>6, <4>2 DEF EditorsTypeOK, TaskMatchesWindow, Kinds
      <4> QED BY <3>1, <4>1, <4>2
    <3>7. ASSUME NEW x \in Kinds, importing'[x]
          PROVE  \E s \in saves' : s.kind = x /\ s.gen = latest'[x]
      <4>1. CASE x = k
        <5>1. new \in saves' /\ new.kind = k
          BY <3>1
        <5>2. new.gen = latest'[k]
          BY <3>1 DEF EditorsTypeOK
        <5> QED BY <4>1, <5>1, <5>2
      <4>2. CASE x # k
        BY <3>1, <3>7, <4>2 DEF EditorsTypeOK, TaskMatchesWindow
      <4> QED BY <4>1, <4>2
    <3> QED BY <3>6, <3>7 DEF TaskMatchesWindow
  <2>4. FieldsComeBack'
    BY <1>5 DEF Submit, Starts, Feedback, EditorsTypeOK, FieldsComeBack, Imports
  <2>5. HostsKeep'
    BY <1>5 DEF Submit, HostsKeep
  <2>6. ClosedWhileInstalling'
    BY <1>5 DEF Submit, ClosedWhileInstalling
  <2> QED BY <2>1, <2>2, <2>3, <2>4, <2>5, <2>6
<1>6. ASSUME NEW k \in Kinds, OtherBegins(k) PROVE EditorsInv'
  <2>1. EditorsTypeOK'
    BY <1>6 DEF OtherBegins, EditorsTypeOK
  <2>2. LatestGenerations'
    BY <1>6 DEF OtherBegins, EditorsTypeOK, Save, LatestGenerations
  <2>3. TaskMatchesWindow'
    BY <1>6 DEF OtherBegins, SourcesBusy, TaskMatchesWindow
  <2>4. FieldsComeBack'
    BY <1>6 DEF OtherBegins, FieldsComeBack, Imports
  <2>5. HostsKeep'
    BY <1>6 DEF OtherBegins, HostsKeep
  <2>6. ClosedWhileInstalling'
    BY <1>6 DEF OtherBegins, ClosedWhileInstalling
  <2> QED BY <2>1, <2>2, <2>3, <2>4, <2>5, <2>6
<1>7. ASSUME NEW k \in Kinds, NEW item \in Listed, Remove(k, item) PROVE EditorsInv'
  <2>1. EditorsTypeOK'
    <3>1. [kind |-> k, op |-> "remove", gen |-> latest[k] + 1] \in Save
      BY <1>7 DEF Remove, EditorsTypeOK, Save
    <3>2. enabled' \in [Kinds -> BOOLEAN]
      BY <1>7 DEF Remove, EditorsTypeOK
    <3>3. /\ latest' \in [Kinds -> Nat] /\ saves' \subseteq Save
          /\ importing' \in [Kinds -> BOOLEAN]
      BY <1>7, <3>1 DEF Remove, Starts, Feedback, EditorsTypeOK
    <3> QED
      BY <1>7, <3>2, <3>3 DEF Remove, EditorsTypeOK
  <2>2. LatestGenerations'
    BY <1>7 DEF Remove, Starts, EditorsTypeOK, Save, LatestGenerations
  <2>3. TaskMatchesWindow'
    <3> DEFINE new == [kind |-> k, op |-> "remove", gen |-> latest[k] + 1]
    <3>1. /\ saves' = saves \cup {new} /\ latest' = [latest EXCEPT ![k] = @ + 1]
          /\ importing' = [importing EXCEPT ![k] = TRUE]
      BY <1>7 DEF Remove, Starts, Feedback
    <3>2. k \in {"proxy", "policy"} => \A s \in saves : s.kind # k
      BY <1>7 DEF Remove, SourcesBusy, TaskMatchesWindow
    <3>3. \A x \in Kinds \ {k} : (x \in host') <=> (x \in host)
      BY <1>7 DEF Remove
    <3>4. k = "policy" => k \in host'
      BY <1>7 DEF Remove
    <3>5. k = "proxy" => k \notin host'
      BY <1>7 DEF Remove
    <3>6. ASSUME NEW s \in saves', s.kind \in {"proxy", "policy"}
          PROVE  /\ importing'[s.kind] /\ s.gen = latest'[s.kind]
                 /\ (s.kind \in host') <=> (s.kind = "policy")
      <4>1. CASE s = new
        BY <3>1, <3>4, <3>5, <3>6, <4>1 DEF EditorsTypeOK
      <4>2. CASE s \in saves
        BY <3>1, <3>2, <3>3, <3>6, <4>2 DEF EditorsTypeOK, TaskMatchesWindow, Kinds
      <4> QED BY <3>1, <4>1, <4>2
    <3>7. ASSUME NEW x \in Kinds, importing'[x]
          PROVE  \E s \in saves' : s.kind = x /\ s.gen = latest'[x]
      <4>1. CASE x = k
        <5>1. new \in saves' /\ new.kind = k
          BY <3>1
        <5>2. new.gen = latest'[k]
          BY <3>1 DEF EditorsTypeOK
        <5> QED BY <4>1, <5>1, <5>2
      <4>2. CASE x # k
        BY <3>1, <3>7, <4>2 DEF EditorsTypeOK, TaskMatchesWindow
      <4> QED BY <4>1, <4>2
    <3> QED BY <3>6, <3>7 DEF TaskMatchesWindow
  <2>4. FieldsComeBack'
    BY <1>7 DEF Remove, Starts, Feedback, EditorsTypeOK, Kinds, FieldsComeBack,
      Imports
  <2>5. HostsKeep'
    BY <1>7 DEF Remove, HostsKeep
  <2>6. ClosedWhileInstalling'
    BY <1>7 DEF Remove, ClosedWhileInstalling
  <2> QED BY <2>1, <2>2, <2>3, <2>4, <2>5, <2>6
<1>8. ASSUME NEW s \in saves, NEW ok \in BOOLEAN, Completes(s, ok) PROVE EditorsInv'
  <2>1. EditorsTypeOK'
    <3>0. s \in Save /\ s.kind \in Kinds /\ saves' = saves \ {s}
            /\ UNCHANGED <<latest, raced, replacing>>
      BY <1>8 DEF Completes, EditorsTypeOK, Save
    <3>1. CASE s.gen # latest[s.kind] /\ s.kind # "policy"
      <4>1. UNCHANGED <<host, draft, wanted, enabled, importing>>
        BY <1>8, <3>1 DEF Completes
      <4> QED BY <3>0, <4>1 DEF EditorsTypeOK
    <3>2. CASE ~(s.gen # latest[s.kind] /\ s.kind # "policy")
      <4>1. importing' = [importing EXCEPT ![s.kind] = FALSE]
        BY <1>8, <3>2 DEF Completes, Feedback
      <4>2. enabled' \in [Kinds -> BOOLEAN]
        BY <1>8, <3>2 DEF Completes, EditorsTypeOK
      <4>3. host' \subseteq Kinds
        BY <1>8, <3>2 DEF Completes, EditorsTypeOK
      <4>4. Blank \in [item : Listed \cup {Addition}, text : Texts]
        BY DEF Blank, Texts
      <4>5. /\ draft' \in [Kinds -> [item : Listed \cup {Addition}, text : Texts]]
            /\ wanted' \in [Kinds -> [item : Listed \cup {Addition}, text : Texts]]
        <5>1. /\ draft' = draft \/ draft' = [draft EXCEPT ![s.kind] = Blank]
              /\ wanted' = wanted \/ wanted' = [wanted EXCEPT ![s.kind] = Blank]
          BY <1>8, <3>2 DEF Completes
        <5> QED BY <5>1, <4>4 DEF EditorsTypeOK
      <4> QED BY <3>0, <4>1, <4>2, <4>3, <4>5 DEF EditorsTypeOK
    <3> QED BY <3>1, <3>2
  <2>2. LatestGenerations'
    BY <1>8 DEF Completes, LatestGenerations
  <2>3. TaskMatchesWindow'
    <3>0. s \in Save /\ s.kind \in Kinds /\ saves' = saves \ {s}
            /\ UNCHANGED <<latest, raced, replacing>>
      BY <1>8 DEF Completes, EditorsTypeOK, Save
    <3>1. CASE s.gen # latest[s.kind] /\ s.kind # "policy"
      <4>1. UNCHANGED <<host, draft, wanted, enabled, importing>>
        BY <1>8, <3>1 DEF Completes
      <4> QED BY <3>0, <3>1, <4>1 DEF TaskMatchesWindow
    <3>2. CASE ~(s.gen # latest[s.kind] /\ s.kind # "policy")
      <4>1. importing' = [importing EXCEPT ![s.kind] = FALSE]
        BY <1>8, <3>2 DEF Completes, Feedback
      <4>2. s.gen = latest[s.kind]
        BY <3>2 DEF TaskMatchesWindow
      <4>3. \A t \in saves' : t.kind \in {"proxy", "policy"} => t.kind # s.kind
        BY <3>0, <4>2 DEF LatestGenerations, TaskMatchesWindow
      <4>4. \A x \in Kinds \ {s.kind} : (x \in host') <=> (x \in host)
        BY <1>8, <3>2 DEF Completes
      <4> QED BY <3>0, <4>1, <4>2, <4>3, <4>4 DEF EditorsTypeOK, TaskMatchesWindow, Kinds
    <3> QED BY <3>1, <3>2
  <2>4. FieldsComeBack'
    <3>0. s \in Save /\ s.kind \in Kinds /\ saves' = saves \ {s}
            /\ UNCHANGED <<latest, raced, replacing>>
      BY <1>8 DEF Completes, EditorsTypeOK, Save
    <3>1. CASE s.gen # latest[s.kind] /\ s.kind # "policy"
      <4>1. UNCHANGED <<host, draft, wanted, enabled, importing>>
        BY <1>8, <3>1 DEF Completes
      <4>2. s.kind = "rule"
        BY <3>0, <3>1 DEF TaskMatchesWindow, Kinds
      <4> QED BY <3>0, <4>1, <4>2 DEF FieldsComeBack, Imports
    <3>2. CASE ~(s.gen # latest[s.kind] /\ s.kind # "policy")
      <4>1. importing' = [importing EXCEPT ![s.kind] = FALSE]
        BY <1>8, <3>2 DEF Completes, Feedback
      <4>2. enabled' = [enabled EXCEPT ![s.kind] =
                          IF s.op = "save" \/ s.kind = "policy" THEN TRUE ELSE @]
        BY <1>8, <3>2 DEF Completes
      <4>3. \A x \in {"proxy", "policy"} : enabled'[x] \/ importing'[x]
        BY <3>0, <4>1, <4>2 DEF EditorsTypeOK, FieldsComeBack, Save, Kinds
      <4>4. "rule" \in host' => "rule" \in host
        BY <1>8, <3>2 DEF Completes
      <4>5. "rule" \in host' /\ ~raced' => enabled'["rule"] /\ Imports("rule")' = {}
        BY <3>0, <4>2, <4>4 DEF EditorsTypeOK, FieldsComeBack, Imports, Kinds
      <4> QED BY <4>3, <4>5 DEF FieldsComeBack
    <3> QED BY <3>1, <3>2
  <2>5. HostsKeep'
    <3>0. s \in Save /\ s.kind \in Kinds /\ saves' = saves \ {s}
            /\ UNCHANGED <<latest, raced, replacing>>
      BY <1>8 DEF Completes, EditorsTypeOK, Save
    <3>1. CASE s.gen # latest[s.kind] /\ s.kind # "policy"
      <4>1. UNCHANGED <<host, draft, wanted, enabled, importing>>
        BY <1>8, <3>1 DEF Completes
      <4> QED BY <3>0, <4>1 DEF HostsKeep
    <3>2. CASE ~(s.gen # latest[s.kind] /\ s.kind # "policy")
      <4>1. importing' = [importing EXCEPT ![s.kind] = FALSE]
        BY <1>8, <3>2 DEF Completes, Feedback
      <4>2. host' = host \/ (s.kind = "policy" /\ host' = host \ {s.kind})
        BY <1>8, <3>2 DEF Completes
      <4>3. \A x \in Kinds \ {s.kind} : draft'[x] = draft[x] /\ wanted'[x] = wanted[x]
        BY <1>8, <3>2 DEF Completes, EditorsTypeOK
      <4>4. \/ s.kind \notin host'
            \/ UNCHANGED <<draft, wanted>>
            \/ (s.kind = "rule" /\ s.op = "save")
        BY ZenonT(40), <1>8, <3>0, <3>2 DEF Completes, EditorsTypeOK, TaskMatchesWindow,
          Kinds
      <4>5. s.kind = "rule" /\ s.op = "save" /\ "rule" \in host => raced
        BY DEF FieldsComeBack, Imports
      <4> QED BY <3>0, <4>2, <4>3, <4>4, <4>5 DEF EditorsTypeOK, HostsKeep
    <3> QED BY <3>1, <3>2
  <2>6. ClosedWhileInstalling'
    BY <1>8 DEF Completes, ClosedWhileInstalling
  <2> QED BY <2>1, <2>2, <2>3, <2>4, <2>5, <2>6
<1>9. CASE Restart
  <2>1. EditorsTypeOK'
    BY <1>9 DEF Restart, EditorsTypeOK, Texts, Blank
  <2>2. LatestGenerations'
    BY <1>9 DEF Restart, LatestGenerations
  <2>3. TaskMatchesWindow'
    BY <1>9 DEF Restart, TaskMatchesWindow
  <2>4. FieldsComeBack'
    BY <1>9 DEF Restart, Kinds, FieldsComeBack
  <2>5. HostsKeep'
    BY <1>9 DEF Restart, HostsKeep
  <2>6. ClosedWhileInstalling'
    BY <1>9 DEF Restart, ClosedWhileInstalling
  <2> QED BY <2>1, <2>2, <2>3, <2>4, <2>5, <2>6
<1>10. ASSUME UNCHANGED <<host, draft, wanted, enabled, importing, latest, saves, raced>>,
              replacing' = "installing" => replacing = "installing" \/ host = {},
              replacing' \in {"off", "loading", "open", "installing"}
       PROVE  EditorsInv'
  BY <1>10 DEF EditorsTypeOK, LatestGenerations, TaskMatchesWindow, FieldsComeBack,
    HostsKeep, ClosedWhileInstalling, Imports
<1>11. CASE OtherEnds \/ UNCHANGED editorVars
  BY <1>10, <1>11 DEF OtherEnds, editorVars, EditorsTypeOK
<1>12. CASE LoadText \/ TextLoaded \/ LoadFails \/ Install \/ InstallFails \/ CloseTransfer
  BY <1>10, <1>12 DEF LoadText, TextLoaded, LoadFails, Install, InstallFails,
    CloseTransfer, Transfers, Settles
<1> QED
  BY <1>1, <1>2, <1>3, <1>4, <1>5, <1>6, <1>7, <1>8, <1>9, <1>11, <1>12 DEF
    EditorsNext

-----------------------------------------------------------------------------
(* The theorems                                                            *)

\* The editors keep their types, for every list of items.
THEOREM EditorsTypes == EditorsSpec => []EditorsTypeOK
<1>1. EditorsInv => EditorsTypeOK
  BY DEF EditorsInv
<1> QED
  BY EditorsInitInv, EditorsNextInv, <1>1, PTL DEF EditorsSpec

\* Whatever saves, removals and replacements complete behind it, an open editor
\* window keeps its draft and comes back to taking input (the finish_* handlers).
THEOREM DraftsSurvive == EditorsSpec => []DraftsAreKept
<1>1. EditorsInv => DraftsAreKept
  BY DEF EditorsInv, EditorsTypeOK, TaskMatchesWindow, FieldsComeBack, HostsKeep,
    ClosedWhileInstalling, DraftsAreKept, Kinds
<1> QED
  BY EditorsInitInv, EditorsNextInv, <1>1, PTL DEF EditorsSpec

-----------------------------------------------------------------------------
(* The lists of sources                                                    *)
SubStates == {"None", "Pending", "Ready", "Failed", "Refreshing", "Removing"}
Gens == Slots \cup {0}
Operations == {"save", "refresh", "toggle", "remove", "target", "manual"}
Tasks ==
  [op : Operations, item : Items, how : {"none", "new", "name", "meta", "url"},
   def : Defs \cup {"none"}, on : BOOLEAN, stage : {"read", "work", "done"},
   seen : Record \cup {Absent}, prev : SubStates \cup Record \cup {Absent},
   rec : Record \cup {Absent},
   result : {"none", "committed", "lost", "broken", "rolled", "failed"}]

\* What an operation is about, and what it has written when it was committed.
Done(t) == t.stage = "done" /\ Committed(t)
Sound(t) ==
  /\ t.op = "refresh" => t.item \in Subs \cup Rules
  /\ t.op = "target" => t.item \in Rules
  /\ t.op = "manual" <=> t.item = Manual
  /\ t.op \in {"save", "target", "manual"} => t.def \in Defs
  /\ t.op = "manual" => t.prev \in Record
  /\ t.op = "toggle" /\ t.item \in Subs => t.prev \in SubStates
  /\ Done(t) => (t.rec = Absent <=> t.op = "remove")
ListsTyped ==
  /\ store \in Lists /\ ui \in Lists /\ store[Manual] # Absent /\ ui[Manual] # Absent
TasksTyped ==
  /\ task \in [Slots -> Tasks \cup {NoTask}]
  /\ \A k \in Slots : task[k] # NoTask => Sound(task[k])
WindowTyped ==
  /\ sub \in [Subs -> [state : SubStates, gen : Gens]] /\ proxy \in Gens
  /\ rules \in [importing : BOOLEAN, gen : Gens, editor : Rules \cup {"closed", "new"},
                refreshing : [Rules -> Gens], updating : [Rules -> Gens]]
  /\ routing \in BOOLEAN
  /\ transfer \in {"off", "open", "replacing", "running", "stopped", "replaced"}
  /\ mode \in {"Tun", "Off"} /\ tun \in {"on", "off", "untold"} /\ astray \in BOOLEAN
SourcesTypeOK == ListsTyped /\ TasksTyped /\ WindowTyped

\* The indicator that each task has raised still carries its generation.
Engaged(s) == sub[s].state \in {"Refreshing", "Removing"}
Routed(t) == t.item = Manual \/ (t.item \in Nodes /\ t.op # "save")
Indicated(k, t) ==
  /\ t.item \in Subs \cup Nodes => proxy = IF t.op = "save" THEN k ELSE 0
  /\ t.item \in Subs /\ t.op # "save" =>
       Engaged(t.item) /\ sub[t.item].gen = k /\ ui[t.item] # Absent
  /\ Routed(t) => routing
Indicators == \A k \in Slots : task[k] # NoTask => Indicated(k, task[k])
OneRouted ==
  \A j, k \in Slots :
    task[j] # NoTask /\ task[k] # NoTask /\ Routed(task[j]) /\ Routed(task[k]) => j = k

\* Of rule sources one task runs at a time, unless one went astray.
RuleIndicated(k, t) ==
  /\ rules.gen = k
  /\ t.op = "refresh" => rules.refreshing[t.item] = k
  /\ t.op \in {"toggle", "target"} => rules.updating[t.item] = k
OneRuleTask ==
  ~astray => \A k \in RuleTasks : RuleTasks = {k} /\ RuleIndicated(k, task[k])

\* What the list shows of a task's item is what the store has, or what it will be
\* once the task's result is merged.
Shows(t, shown, kept) ==
  /\ t.op \in {"refresh", "toggle", "target", "remove"} => shown # Absent
  /\ Adds(t) => shown = Absent /\ (t.stage = "done" => t.seen = Absent)
  /\ IF t.op = "manual"
     THEN /\ shown = [t.prev EXCEPT !.def = t.def]
          /\ kept = IF Done(t) THEN shown ELSE t.prev
     ELSE IF Done(t)
     THEN /\ kept = t.rec
          /\ t.item \in Subs /\ t.op = "refresh" => kept = [shown EXCEPT !.fresh = kept.fresh]
          /\ t.item \in Subs /\ t.op = "toggle" => kept = [shown EXCEPT !.on = kept.on]
     ELSE shown = kept
Follows(t) == Shows(t, ui[t.item], store[t.item])
InStep ==
  ~astray /\ transfer # "replaced" =>
    /\ \A k \in Slots : task[k] # NoTask => Follows(task[k])
    /\ \A i \in Items : InFlight(i) = {} => ui[i] = store[i]

\* A TUN that is gone is shown as off, or a task is about to say so; where no result
\* mentions the loss, nothing is claimed.
Losing(t) == t # NoTask /\ t.stage = "done" /\ t.result = "lost"
LossIsNoticed ==
  ~astray /\ tun = "off" /\ transfer \notin {"stopped", "replaced"} =>
    mode = "Off" \/ \E k \in Slots : Losing(task[k])

SourcesInv ==
  /\ SourcesTypeOK /\ Indicators /\ OneRouted /\ OneRuleTask /\ InStep /\ LossIsNoticed

-----------------------------------------------------------------------------
(* What the operators return                                               *)

\* A record of a task is not the mark of a free slot.
LEMMA TaskIsNoTask == ASSUME NEW t \in Tasks PROVE t # NoTask
BY DEF Tasks, NoTask, Operations

\* The lists have no item in common, and every item is in one.
LEMMA ItemsApart ==
  ASSUME NEW i \in Items
  PROVE  /\ i \in Subs => i \notin Rules /\ i \notin Nodes /\ i # Manual
         /\ i \in Rules => i \notin Nodes /\ i # Manual
         /\ i \in Nodes => i # Manual
         /\ i \in Subs \/ i \in Rules \/ i \in Nodes \/ i = Manual
BY SourcesAssumption DEF Items

\* What an operation writes: nothing when it removes, and a record otherwise; of
\* subscriptions and of the manual rules, which fields it changes.
LEMMA WrittenIsSound ==
  ASSUME ListsTyped, NEW t \in Tasks, Sound(t), NEW rec \in Written(t)
  PROVE  /\ rec \in Record \cup {Absent} /\ (rec = Absent <=> t.op = "remove")
         /\ t.op \in {"refresh", "toggle", "manual"} => store[t.item] \in Record
         /\ t.op = "refresh" /\ t.item \in Subs => rec = [store[t.item] EXCEPT !.fresh = TRUE]
         /\ t.op = "toggle" => rec = [store[t.item] EXCEPT !.on = t.on]
         /\ t.op = "manual" => rec = [store[t.item] EXCEPT !.def = t.def]
<1> DEFINE old == store[t.item]
<1>1. t.item \in Items /\ t.op \in Operations /\ t.on \in BOOLEAN /\ t.seen \in Record \cup {Absent}
  BY DEF Tasks
<1>2. old \in Record \cup {Absent}
  BY <1>1 DEF ListsTyped, Lists
<1>n. Absent \notin Record
  BY SourcesAssumption
<1>3. CASE t.op = "remove"
  BY <1>3 DEF Written
<1>4. CASE t.op = "save" /\ t.how = "new"
  <2>1. t.def \in Defs /\ t.item # Manual /\ rec \in Added(t, old)
    BY <1>4 DEF Sound, Written
  <2>2. CASE rec = AddedSub(t, old)
    <3>1. old = Absent => rec \in Record
      BY <1>1, <2>1, <2>2 DEF AddedSub, Record
    <3>2. old \in Record => rec \in Record
      BY <1>1, <1>n, <2>1, <2>2 DEF AddedSub, Record
    <3>3. rec \in Record
      BY <1>2, <3>1, <3>2
    <3> QED BY <1>4, <1>n, <3>3
  <2>3. CASE rec = AddedNode(t, old)
    <3>1. rec \in Record
      BY <1>1, <2>1, <2>3 DEF AddedNode, Record
    <3> QED BY <1>4, <1>n, <3>1
  <2>4. CASE rec \in AddedRule(t, old)
    <3>1. CASE old # Absent
      BY <1>2, <1>4, <2>4, <3>1 DEF AddedRule
    <3>2. CASE old = Absent
      <4>1. PICK b \in Contents : rec = [on |-> TRUE, def |-> t.def, body |-> b, fresh |-> TRUE]
        BY <2>4, <3>2 DEF AddedRule
      <4>2. rec \in Record
        BY <2>1, <4>1 DEF Record
      <4> QED BY <1>4, <1>n, <4>2
    <3> QED BY <3>1, <3>2
  <2> QED BY <2>1, <2>2, <2>3, <2>4 DEF Added
<1>5. CASE ~(t.op = "save" /\ t.how = "new") /\ t.op # "remove"
  <2>1. old # Absent /\ old \in Record /\ rec \in Changed(t, old)
    BY <1>2, <1>5 DEF Written
  <2>2. CASE t.op = "save"
    <3>1. t.def \in Defs /\ t.item # Manual
      BY <2>2 DEF Sound
    <3>2. \/ rec = EditedSub(t, old) \/ rec = EditedNode(t, old) \/ rec = Renamed(t, old)
          \/ rec \in EditedRule(t, old)
      BY <1>1, <2>1, <2>2, <3>1, ItemsApart DEF Changed
    <3>3. CASE rec = EditedSub(t, old)
      BY <1>1, <2>1, <2>2, <3>1, <3>3, <1>n DEF EditedSub, Record
    <3>4. CASE rec = EditedNode(t, old)
      BY <1>1, <2>1, <2>2, <3>1, <3>4, <1>n DEF EditedNode, Record
    <3>5. CASE rec = Renamed(t, old)
      BY <1>1, <2>1, <2>2, <3>1, <3>5, <1>n DEF Renamed, Record
    <3>6. CASE rec \in EditedRule(t, old)
      <4>1. CASE t.how = "meta" /\ t.seen # Absent
        <5>1. rec = [old EXCEPT !.def = t.def, !.body = t.seen.body, !.fresh = t.seen.fresh]
          BY <3>6, <4>1 DEF EditedRule
        <5>2. t.seen \in Record
          BY <1>1, <4>1
        <5>3. rec \in Record
          BY <2>1, <3>1, <5>1, <5>2 DEF Record
        <5> QED BY <1>n, <2>2, <5>3
      <4>2. CASE ~(t.how = "meta" /\ t.seen # Absent)
        <5>1. PICK b \in Contents : rec = [old EXCEPT !.def = t.def, !.body = b, !.fresh = TRUE]
          BY <3>6, <4>2 DEF EditedRule
        <5> QED BY <2>1, <2>2, <3>1, <5>1, <1>n DEF Record
      <4> QED BY <4>1, <4>2
    <3> QED BY <3>2, <3>3, <3>4, <3>5, <3>6
  <2>3. CASE t.op = "toggle"
    <3>1. rec = Switched(t, old)
      BY <2>1, <2>3 DEF Changed
    <3> QED BY <1>1, <2>1, <2>3, <3>1, <1>n DEF Switched, Record
  <2>4. CASE t.op \in {"target", "manual"}
    <3>1. rec = Renamed(t, old)
      BY <2>1, <2>4 DEF Changed
    <3>2. t.def \in Defs
      BY <2>4 DEF Sound
    <3> QED BY <1>1, <2>1, <2>4, <3>1, <3>2, <1>n DEF Renamed, Record
  <2>5. CASE t.op = "refresh"
    <3>1. CASE t.item \in Subs
      <4>1. rec = RefreshedSub(old)
        BY <2>1, <2>5, <3>1 DEF Changed
      <4> QED BY <1>1, <2>1, <2>5, <4>1, <1>n DEF RefreshedSub, Record
    <3>2. CASE t.item \notin Subs
      <4>1. PICK b \in Contents : rec = [old EXCEPT !.body = b, !.fresh = TRUE]
        BY <2>1, <2>5, <3>2 DEF Changed, RefreshedRule
      <4> QED BY <2>1, <2>5, <3>2, <4>1, <1>n DEF Record
    <3> QED BY <3>1, <3>2
  <2> QED BY <1>1, <1>5, <2>2, <2>3, <2>4, <2>5 DEF Operations
<1> QED BY <1>3, <1>4, <1>5

\* An item has one task at a time, unless one went astray.
LEMMA OneTaskOfItem ==
  ASSUME TasksTyped, Indicators, OneRouted, OneRuleTask, ~astray,
         NEW j \in Slots, NEW k \in Slots, task[j] # NoTask, task[k] # NoTask,
         task[j].item = task[k].item
  PROVE  j = k
<1>1. /\ task[j] \in Tasks /\ Sound(task[j]) /\ Indicated(j, task[j])
      /\ task[k] \in Tasks /\ Sound(task[k]) /\ Indicated(k, task[k])
  BY DEF TasksTyped, Indicators
<1>2. task[k].item \in Items /\ j # 0 /\ k # 0
  BY <1>1, SourcesAssumption DEF Tasks
<1>3. CASE task[k].item \in Subs \cup Nodes
  <2>1. (task[j].op = "save") <=> (task[k].op = "save")
    BY <1>1, <1>2, <1>3 DEF Indicated
  <2>2. CASE task[k].op = "save"
    BY <1>1, <1>3, <2>1, <2>2 DEF Indicated
  <2>3. CASE task[k].op # "save" /\ task[k].item \in Subs
    BY <1>1, <2>1, <2>3 DEF Indicated
  <2>4. CASE task[k].op # "save" /\ task[k].item \in Nodes
    BY <2>1, <2>4 DEF OneRouted, Routed
  <2> QED BY <1>3, <2>2, <2>3, <2>4
<1>4. CASE task[k].item = Manual
  BY <1>4 DEF OneRouted, Routed
<1>5. CASE task[k].item \in Rules
  <2>1. j \in RuleTasks /\ k \in RuleTasks
    BY <1>5 DEF RuleTasks, Free
  <2> QED BY <2>1 DEF OneRuleTask
<1> QED BY <1>2, <1>3, <1>4, <1>5, ItemsApart

-----------------------------------------------------------------------------
(* The kinds of steps                                                      *)

\* A task begins in a free slot; only that of the manual rules changes a list.
Begins(k, t) ==
  /\ k \in Slots /\ task[k] = NoTask /\ t \in Tasks /\ Sound(t) /\ t.stage # "done"
  /\ task' = [task EXCEPT ![k] = t]
  /\ astray' = (astray \/ (t.item \in Rules /\ RuleTasks # {}))
  /\ t.op \in {"refresh", "toggle", "target", "remove"} => ui[t.item] # Absent
  /\ Adds(t) => ui[t.item] = Absent
  /\ t.op = "manual" => t.prev = ui[Manual] /\ ui' = [ui EXCEPT ![Manual].def = t.def]
  /\ t.op # "manual" => ui' = ui
  /\ UNCHANGED <<store, transfer, mode, tun>>

\* ... and raises its indicator.
Claims(k, t) ==
  /\ t.item \in Subs /\ t.op # "save" =>
       /\ proxy = 0 /\ ~Engaged(t.item)
       /\ sub'[t.item].state \in {"Refreshing", "Removing"} /\ sub'[t.item].gen = k
  /\ \A s \in Subs : s # t.item \/ t.op = "save" => sub'[s] = sub[s]
  /\ IF t.item \in Subs \cup Nodes /\ t.op = "save" THEN ~Busy /\ ~routing /\ proxy' = k
                                                   ELSE proxy' = proxy
  /\ IF Routed(t) THEN ~routing /\ routing' = TRUE ELSE routing' = routing
  /\ t.item \in Nodes => ~Busy
  /\ t.item \notin Rules => rules' = rules
  /\ t.item \in Rules => /\ rules'.gen = k
                         /\ t.op = "refresh" => rules'.refreshing[t.item] = k
                         /\ t.op \in {"toggle", "target"} => rules'.updating[t.item] = k

\* Where the tasks and the lists stay in step, a list shows what the store has of
\* an item that no task is about.
LEMMA BeginsKeeps ==
  ASSUME SourcesInv, NEW k, NEW t, Begins(k, t), Claims(k, t), WindowTyped'
  PROVE  SourcesInv'
<1> USE DEF SourcesInv, SourcesTypeOK
<1>1. /\ k \in Slots /\ task[k] = NoTask /\ t \in Tasks /\ t # NoTask /\ Sound(t)
      /\ task' = [task EXCEPT ![k] = t] /\ task \in [Slots -> Tasks \cup {NoTask}]
      /\ t.item \in Items /\ k # 0
  BY TaskIsNoTask, SourcesAssumption DEF Begins, TasksTyped, Tasks
<1>2. /\ task'[k] = t /\ \A j \in Slots \ {k} : task'[j] = task[j]
  BY <1>1
<1>3. ASSUME NEW j \in Slots, task'[j] # NoTask, j # k
      PROVE  /\ task'[j] = task[j] /\ task[j] \in Tasks /\ Sound(task[j])
             /\ Indicated(j, task[j]) /\ task[j].item \in Items
  BY <1>1, <1>2, <1>3 DEF TasksTyped, Indicators, Tasks
<1>4. ListsTyped'
  <2>1. CASE t.op # "manual"
    BY <2>1 DEF Begins, ListsTyped
  <2>2. CASE t.op = "manual"
    <3>1. t.def \in Defs /\ Manual \in Items
      BY <2>2, <1>1 DEF Sound, Items
    <3>2. ui[Manual] \in Record
      BY <3>1 DEF ListsTyped, Lists
    <3>3. [ui[Manual] EXCEPT !.def = t.def] \in Record
      BY <3>1, <3>2 DEF Record
    <3>4. ui' = [ui EXCEPT ![Manual] = [ui[Manual] EXCEPT !.def = t.def]] /\ store' = store
      BY <2>2 DEF Begins
    <3> QED BY <3>1, <3>3, <3>4, SourcesAssumption DEF ListsTyped, Lists
  <2> QED BY <2>1, <2>2
<1>5. TasksTyped'
  BY <1>1, <1>2 DEF TasksTyped, Sound, Done, Committed
<1>6. Indicators'
  <2> SUFFICES ASSUME NEW j \in Slots, task'[j] # NoTask PROVE Indicated(j, task[j])'
    BY DEF Indicators
  <2>1. CASE j = k
    <3>1. task'[j] = t
      BY <1>2, <2>1
    <3>2. t.item \in Subs \cup Nodes => proxy' = IF t.op = "save" THEN k ELSE 0
      <4>1. t.item \in Subs \cup Nodes /\ t.op # "save" => proxy = 0
        BY DEF Claims, Busy
      <4> QED BY <4>1 DEF Claims
    <3>3. t.item \in Subs => ui'[t.item] = ui[t.item]
      BY <1>1, ItemsApart DEF Begins, Sound
    <3>4. t.item \in Subs /\ t.op # "save" => ui[t.item] # Absent
      BY <1>1, ItemsApart DEF Begins, Sound, Tasks, Operations
    <3>5. Routed(t) => routing'
      BY DEF Claims
    <3>6. t.item \in Subs /\ t.op # "save" =>
            sub'[t.item].state \in {"Refreshing", "Removing"} /\ sub'[t.item].gen = k
      BY DEF Claims
    <3> QED BY <2>1, <3>1, <3>2, <3>3, <3>4, <3>5, <3>6 DEF Indicated, Engaged, Routed
  <2>2. CASE j # k
    <3>1. task[j] # NoTask /\ j # 0
      BY <1>3, <2>2, SourcesAssumption
    <3>2. task[j].item \in Subs \cup Nodes => proxy' = IF task[j].op = "save" THEN j ELSE 0
      <4>1. CASE t.item \in Subs \cup Nodes /\ t.op = "save"
        BY <1>3, <2>2, <3>1, <4>1 DEF Claims, Busy, Indicated, Engaged, Routed
      <4>2. CASE ~(t.item \in Subs \cup Nodes /\ t.op = "save")
        BY <1>3, <2>2, <4>2 DEF Claims, Indicated
      <4> QED BY <4>1, <4>2
    <3>3. ASSUME task[j].item \in Subs, task[j].op # "save"
          PROVE  /\ sub'[task[j].item] = sub[task[j].item]
                 /\ ui'[task[j].item] = ui[task[j].item]
      <4>1. t.item = task[j].item => t.op = "save"
        BY <1>3, <2>2, <3>3 DEF Claims, Indicated
      <4>2. ui'[task[j].item] = ui[task[j].item]
        BY <1>3, <2>2, <3>3, ItemsApart DEF Begins, ListsTyped, Lists
      <4> QED BY <3>3, <4>1, <4>2 DEF Claims
    <3>4. Routed(task[j]) => routing'
      BY <1>3, <2>2 DEF Claims, Indicated, WindowTyped
    <3> QED BY <1>2, <1>3, <2>2, <3>2, <3>3, <3>4 DEF Indicated, Engaged, Routed
  <2> QED BY <2>1, <2>2
<1>7. OneRouted'
  <2> SUFFICES ASSUME NEW i \in Slots, NEW j \in Slots, i # j, task'[i] # NoTask,
                      task'[j] # NoTask, Routed(task'[i]), Routed(task'[j])
               PROVE  FALSE
    BY DEF OneRouted, Routed
  <2>1. CASE i # k /\ j # k
    BY <1>2, <2>1 DEF OneRouted
  <2>2. ASSUME NEW x \in {i, j}, x # k, Routed(t) PROVE FALSE
    BY <1>3, <2>2 DEF Claims, Indicated
  <2> QED BY <1>2, <2>1, <2>2
<1>8. OneRuleTask'
  <2> SUFFICES ASSUME ~astray'
               PROVE  \A j \in RuleTasks' : RuleTasks' = {j} /\ RuleIndicated(j, task[j])'
    BY DEF OneRuleTask
  <2>1. ~astray /\ (t.item \in Rules => RuleTasks = {})
    BY DEF Begins
  <2>2. CASE t.item \in Rules
    <3>1. RuleTasks' = {k}
      BY <1>1, <1>2, <2>1, <2>2 DEF RuleTasks, Free
    <3> QED BY <1>2, <2>2, <3>1 DEF Claims, RuleIndicated
  <2>3. CASE t.item \notin Rules
    <3>1. RuleTasks' = RuleTasks
      BY <1>1, <1>2, <2>3 DEF RuleTasks, Free
    <3>2. \A j \in RuleTasks : task'[j] = task[j]
      BY <1>1, <1>2 DEF RuleTasks, Free
    <3> QED BY <2>1, <2>3, <3>1, <3>2 DEF Claims, OneRuleTask, RuleIndicated
  <2> QED BY <2>2, <2>3
<1>9. InStep'
  <2> SUFFICES ASSUME ~astray', transfer' # "replaced"
               PROVE  /\ \A j \in Slots : task'[j] # NoTask => Follows(task[j])'
                      /\ \A i \in Items : InFlight(i)' = {} => ui'[i] = store'[i]
    BY DEF InStep
  <2>1. /\ ~astray /\ transfer # "replaced" /\ store' = store
        /\ \A j \in Slots : task[j] # NoTask => Follows(task[j])
        /\ \A i \in Items : InFlight(i) = {} => ui[i] = store[i]
    BY DEF Begins, InStep
  <2>2. \A j \in Slots \ {k} : task[j] # NoTask => task[j].item # t.item
    <3>1. ASSUME NEW j \in Slots \ {k}, task[j] # NoTask, task[j].item = t.item PROVE FALSE
      <4>1. /\ task[j] \in Tasks /\ Sound(task[j]) /\ Indicated(j, task[j]) /\ j # 0
            /\ task[j].op \in Operations
        BY <3>1, TaskIsNoTask, SourcesAssumption DEF TasksTyped, Indicators, Tasks
      <4>2. CASE t.item \in Subs
        BY <3>1, <4>1, <4>2 DEF Claims, Busy, Indicated, Engaged
      <4>3. CASE t.item \in Nodes
        BY <3>1, <4>1, <4>3 DEF Claims, Busy, Indicated, Engaged, Routed
      <4>4. CASE t.item = Manual
        BY <3>1, <4>1, <4>4 DEF Claims, Indicated, Routed
      <4>5. CASE t.item \in Rules
        BY <2>1, <3>1, <4>5 DEF Begins, RuleTasks, Free
      <4> QED BY <1>1, <4>2, <4>3, <4>4, <4>5, ItemsApart
    <3> QED BY <3>1
  <2>3. InFlight(t.item) = {}
    BY <1>1, <2>2 DEF InFlight, Free
  <2>4. \A i \in Items \ {t.item} : ui'[i] = ui[i]
    BY <1>1 DEF Begins, Sound, ListsTyped, Lists
  <2>5. ui[t.item] = store[t.item]
    BY <1>1, <2>1, <2>3
  <2>6. ASSUME NEW j \in Slots, task'[j] # NoTask PROVE Follows(task[j])'
    <3>1. CASE j = k
      <4>1. ~Done(t)
        BY DEF Begins, Done
      <4>2. CASE t.op = "manual"
        <5>1. t.item = Manual /\ t.prev = ui[Manual] /\ Manual \in Items
          BY <1>1, <4>2 DEF Begins, Sound
        <5>2. ui'[Manual] = [t.prev EXCEPT !.def = t.def]
          BY <4>2, <5>1 DEF Begins, ListsTyped, Lists
        <5> QED BY <1>2, <2>1, <2>5, <3>1, <4>1, <4>2, <5>1, <5>2 DEF Follows, Shows, Adds, Done
      <4>3. CASE t.op # "manual"
        <5>1. ui' = ui
          BY <4>3 DEF Begins
        <5> QED BY <1>2, <2>1, <2>5, <3>1, <4>1, <4>3, <5>1 DEF Begins, Follows, Shows, Adds, Done
      <4> QED BY <4>2, <4>3
    <3>2. CASE j # k
      <4>1. task'[j] = task[j] /\ task[j] # NoTask /\ task[j].item \in Items \ {t.item}
        BY <1>3, <2>2, <2>6, <3>2
      <4>2. ui'[task[j].item] = ui[task[j].item]
        BY <2>4, <4>1
      <4> QED BY <2>1, <4>1, <4>2 DEF Follows
    <3> QED BY <3>1, <3>2
  <2>7. ASSUME NEW i \in Items, InFlight(i)' = {} PROVE ui'[i] = store'[i]
    <3>1. k \in InFlight(t.item)'
      BY <1>1, <1>2 DEF InFlight, Free
    <3>2. i # t.item
      BY <2>7, <3>1
    <3>3. InFlight(i) = {}
      BY <1>1, <1>2, <2>7 DEF InFlight, Free
    <3> QED BY <2>1, <2>4, <3>2, <3>3
  <2> QED BY <2>6, <2>7
<1>10. LossIsNoticed'
  BY <1>1, <1>2 DEF Begins, LossIsNoticed, Losing
<1> QED BY <1>4, <1>5, <1>6, <1>7, <1>8, <1>9, <1>10

\* A task ends, releases its indicator, and the list shows what the store has.
Releases(k, t) ==
  /\ \A s \in Subs \ {t.item} : sub'[s] = sub[s]
  /\ proxy' = IF t.item \in Subs \cup Nodes /\ t.op = "save" THEN 0 ELSE proxy
  /\ routing' = IF Routed(t) THEN FALSE ELSE routing
  /\ t.item \notin Rules => rules' = rules
Merges(t) ==
  /\ \A i \in Items \ {t.item} : ui'[i] = ui[i]
  /\ ~astray /\ transfer # "replaced" => ui'[t.item] = store[t.item]
  /\ mode' \in {mode, "Off"}
  /\ ~astray /\ transfer # "replaced" /\ t.result = "lost" => mode' = "Off"

\* A task that ends with its indicator released and its result merged keeps the
\* invariant.
LEMMA EndsKeeps ==
  ASSUME SourcesInv, NEW k \in Slots, task[k] # NoTask, Ends(k),
         ~astray \/ task[k].item \notin Rules => Releases(k, task[k]),
         astray /\ task[k].item \in Rules => UNCHANGED <<sub, proxy, routing>>,
         Merges(task[k]), ListsTyped', WindowTyped'
  PROVE  SourcesInv'
<1> USE DEF SourcesInv, SourcesTypeOK
<1> DEFINE t == task[k]
<1>1. /\ t \in Tasks /\ Sound(t) /\ Indicated(k, t) /\ t.item \in Items /\ k # 0
      /\ task' = [task EXCEPT ![k] = NoTask] /\ task \in [Slots -> Tasks \cup {NoTask}]
      /\ UNCHANGED <<store, tun, astray, transfer>>
  BY SourcesAssumption DEF Ends, TasksTyped, Tasks, Indicators
<1>2. task'[k] = NoTask /\ \A j \in Slots \ {k} : task'[j] = task[j]
  BY <1>1
<1>3. ASSUME NEW j \in Slots, task'[j] # NoTask
      PROVE  /\ j # k /\ task'[j] = task[j] /\ task[j] # NoTask /\ task[j] \in Tasks
             /\ Sound(task[j]) /\ Indicated(j, task[j]) /\ task[j].item \in Items /\ j # 0
  BY <1>1, <1>2, <1>3, SourcesAssumption DEF TasksTyped, Indicators, Tasks
<1>4. TasksTyped'
  BY <1>1, <1>2 DEF TasksTyped, Sound, Done, Committed
<1>5. Indicators'
  <2> SUFFICES ASSUME NEW j \in Slots, task'[j] # NoTask PROVE Indicated(j, task[j])'
    BY DEF Indicators
  <2>1. /\ j # k /\ task'[j] = task[j] /\ task[j] # NoTask /\ task[j] \in Tasks /\ j # 0
        /\ Indicated(j, task[j]) /\ task[j].item \in Items /\ Sound(task[j])
    BY <1>3
  <2>2. task[j].item \in Subs \cup Nodes => proxy' = IF task[j].op = "save" THEN j ELSE 0
    BY <1>1, <2>1 DEF Releases, Indicated
  <2>3. ASSUME task[j].item \in Subs, task[j].op # "save"
        PROVE  /\ sub'[task[j].item] = sub[task[j].item]
               /\ ui'[task[j].item] = ui[task[j].item]
    <3>1. task[j].item # t.item
      BY <1>1, <2>1, <2>3 DEF Indicated
    <3> QED BY <2>1, <2>3, <3>1 DEF Releases, Merges
  <2>4. Routed(task[j]) => routing'
    <3>1. Routed(task[j]) => ~Routed(t)
      BY <2>1 DEF OneRouted
    <3> QED BY <2>1, <3>1 DEF Releases, Indicated
  <2> QED BY <2>1, <2>2, <2>3, <2>4 DEF Indicated, Engaged, Routed
<1>6. OneRouted'
  BY <1>3 DEF OneRouted, Routed
<1>7. OneRuleTask'
  <2> SUFFICES ASSUME ~astray, NEW j \in RuleTasks'
               PROVE  RuleTasks' = {j} /\ RuleIndicated(j, task[j])'
    BY <1>1 DEF OneRuleTask
  <2>1. j \in Slots /\ task'[j] # NoTask /\ task'[j].item \in Rules /\ j \in RuleTasks
    BY <1>3 DEF RuleTasks, Free
  <2>2. RuleTasks = {j} /\ RuleIndicated(j, task[j]) /\ j # k /\ task'[j] = task[j]
    BY <1>3, <2>1 DEF OneRuleTask
  <2>3. t.item \notin Rules
    BY <2>2 DEF RuleTasks, Free
  <2>4. rules' = rules /\ RuleTasks' \subseteq RuleTasks
    BY <1>2, <2>3 DEF Releases, RuleTasks, Free
  <2> QED BY <2>2, <2>4 DEF RuleIndicated
<1>8. InStep'
  <2> SUFFICES ASSUME ~astray, transfer # "replaced"
               PROVE  /\ \A j \in Slots : task'[j] # NoTask => Follows(task[j])'
                      /\ \A i \in Items : InFlight(i)' = {} => ui'[i] = store'[i]
    BY <1>1 DEF InStep
  <2>1. /\ \A j \in Slots : task[j] # NoTask => Follows(task[j])
        /\ \A i \in Items : InFlight(i) = {} => ui[i] = store[i]
    BY DEF InStep
  <2>2. ASSUME NEW j \in Slots, task'[j] # NoTask PROVE Follows(task[j])'
    <3>1. task'[j] = task[j] /\ task[j] # NoTask /\ task[j].item \in Items /\ j # k
      BY <1>3, <2>2
    <3>2. task[j].item # t.item
      BY <3>1, OneTaskOfItem
    <3>3. ui'[task[j].item] = ui[task[j].item]
      BY <3>1, <3>2 DEF Merges
    <3> QED BY <1>1, <2>1, <3>1, <3>3 DEF Follows
  <2>3. ASSUME NEW i \in Items, InFlight(i)' = {} PROVE ui'[i] = store'[i]
    <3>1. CASE i = t.item
      BY <1>1, <3>1 DEF Merges
    <3>2. CASE i # t.item
      <4>1. InFlight(i) = {}
        BY <1>2, <2>3, <3>2 DEF InFlight, Free
      <4> QED BY <1>1, <2>1, <3>2, <4>1 DEF Merges
    <3> QED BY <3>1, <3>2
  <2> QED BY <2>2, <2>3
<1>9. LossIsNoticed'
  <2> SUFFICES ASSUME ~astray, tun = "off", transfer \notin {"stopped", "replaced"}, mode' # "Off"
               PROVE  \E j \in Slots : Losing(task[j])'
    BY <1>1 DEF LossIsNoticed
  <2>1. PICK j \in Slots : Losing(task[j])
    BY DEF LossIsNoticed, Merges, WindowTyped
  <2>2. j # k
    BY <2>1 DEF Losing, Merges
  <2> QED BY <1>2, <2>1, <2>2 DEF Losing
<1> QED BY <1>4, <1>5, <1>6, <1>7, <1>8, <1>9

\* No task begins, works or ends, and the lists and indicators stay.
Rests == UNCHANGED <<store, ui, sub, proxy, routing, task, tun, astray>>
Quietly ==
  /\ rules'.gen = rules.gen
  /\ rules'.refreshing = rules.refreshing /\ rules'.updating = rules.updating

\* ... and so does a step that touches no task, list or indicator.
LEMMA RestsKeeps ==
  ASSUME SourcesInv, Rests, Quietly, WindowTyped',
         transfer = "replaced" => transfer' = "replaced", LossIsNoticed'
  PROVE  SourcesInv'
<1> USE DEF SourcesInv, SourcesTypeOK
<1>1. /\ UNCHANGED <<store, ui, sub, proxy, routing, task, tun, astray>>
      /\ rules'.gen = rules.gen /\ rules'.refreshing = rules.refreshing
      /\ rules'.updating = rules.updating
  BY DEF Rests, Quietly
<1>2. ListsTyped' /\ TasksTyped'
  BY <1>1 DEF ListsTyped, TasksTyped, Sound, Done, Committed
<1>3. Indicators' /\ OneRouted'
  BY <1>1 DEF Indicators, Indicated, OneRouted, Routed, Engaged
<1>4. OneRuleTask'
  BY <1>1 DEF OneRuleTask, RuleTasks, Free, RuleIndicated
<1>5. InStep'
  BY <1>1 DEF InStep, Follows, InFlight, Free
<1> QED BY <1>2, <1>3, <1>4, <1>5

-----------------------------------------------------------------------------
(* The handlers that start a task                                          *)

\* A task as the handlers begin it.
LEMMA TaskIsTyped ==
  ASSUME NEW op \in Operations, NEW i \in Items
  PROVE  /\ Task(op, i) \in Tasks /\ Task(op, i).op = op /\ Task(op, i).item = i
         /\ Task(op, i).stage = "work" /\ Task(op, i).how = "none"
BY DEF Task, Tasks

\* ... a refresh of a subscription, by the user or by the scheduler
LEMMA RefreshSubKeeps ==
  ASSUME SourcesInv, NEW s \in Subs, NEW k \in Slots, StartRefreshSub(s, k)
  PROVE  SourcesInv'
<1> DEFINE t == Task("refresh", s)
<1>1. t \in Tasks /\ t.op = "refresh" /\ t.item = s /\ t.stage = "work" /\ s \in Items
  BY TaskIsTyped DEF Operations, Items
<1>2. Sound(t)
  BY <1>1, ItemsApart DEF Sound, Done
<1> HIDE DEF t
<1>3. Begins(k, t)
  BY <1>1, <1>2 DEF t, StartRefreshSub, MayRefreshSub, Start, NextSlot, Free, Kept, Begins, Adds
<1>4. Claims(k, t) /\ WindowTyped'
  <2>1. /\ sub' = [sub EXCEPT ![s] = [state |-> "Refreshing", gen |-> k]]
        /\ UNCHANGED <<proxy, rules, routing, transfer>> /\ proxy = 0
        /\ sub[s].state \notin {"Refreshing", "Removing"} /\ UNCHANGED <<store, ui, mode, tun>>
    BY DEF StartRefreshSub, Shown, Kept, MayRefreshSub
  <2>2. WindowTyped /\ astray' \in BOOLEAN
    BY <1>3 DEF SourcesInv, SourcesTypeOK, WindowTyped, Begins
  <2>3. WindowTyped'
    BY <2>1, <2>2 DEF WindowTyped, SubStates, Gens
  <2> QED
    BY <1>1, <2>1, <2>2, <2>3, ItemsApart DEF Claims, Engaged, Routed, WindowTyped
<1> QED BY <1>3, <1>4, BeginsKeeps

\* ... and of a rule source
LEMMA RefreshRuleKeeps ==
  ASSUME SourcesInv, NEW r \in Rules, NEW k \in Slots, StartRefreshRule(r, k)
  PROVE  SourcesInv'
<1> DEFINE t == Task("refresh", r)
<1>1. t \in Tasks /\ t.op = "refresh" /\ t.item = r /\ t.stage = "work" /\ r \in Items
  BY TaskIsTyped DEF Operations, Items
<1>2. Sound(t)
  BY <1>1, ItemsApart DEF Sound, Done
<1> HIDE DEF t
<1>3. Begins(k, t)
  BY <1>1, <1>2 DEF t, StartRefreshRule, Start, NextSlot, Free, Kept, Begins, Adds
<1>4. Claims(k, t) /\ WindowTyped'
  <2>1. /\ rules' = [rules EXCEPT !.refreshing[r] = k, !.gen = k]
        /\ UNCHANGED <<sub, proxy, routing, transfer, store, ui, mode, tun>>
    BY DEF StartRefreshRule, Kept
  <2>2. WindowTyped /\ astray' \in BOOLEAN
    BY <1>3 DEF SourcesInv, SourcesTypeOK, WindowTyped, Begins
  <2>3. WindowTyped'
    BY <2>1, <2>2 DEF WindowTyped, Gens
  <2>4. rules'.gen = k /\ rules'.refreshing[r] = k
    BY <2>1, <2>2 DEF WindowTyped
  <2> QED
    BY <1>1, <2>1, <2>3, <2>4, ItemsApart DEF Claims, Routed
<1> QED BY <1>3, <1>4, BeginsKeeps

\* ... an import or an edit of a proxy source
LEMMA SubmitProxyKeeps ==
  ASSUME SourcesInv, NEW i \in Subs \cup Nodes, NEW how, NEW t \in Tasks,
         t.op = "save", t.item = i, t.stage = "work", t.def \in Defs, SubmitProxy(i, how, t)
  PROVE  SourcesInv'
<1>1. PICK k \in Slots : Start(k, t) /\ proxy' = k
  BY DEF SubmitProxy
<1>2. i \in Items /\ i \notin Rules /\ i # Manual
  BY ItemsApart DEF Items
<1>3. Sound(t)
  BY <1>2, ItemsApart DEF Sound, Done
<1>4. Begins(k, t)
  BY <1>1, <1>2, <1>3 DEF SubmitProxy, Start, NextSlot, Free, Kept, Begins, Adds
<1>5. ~Busy /\ ~routing /\ UNCHANGED <<store, ui, mode, tun, sub, rules, routing, transfer>>
  BY DEF SubmitProxy, Idle, Kept
<1>6. WindowTyped'
  BY <1>1, <1>4, <1>5 DEF SourcesInv, SourcesTypeOK, WindowTyped, Gens, Begins
<1>7. Claims(k, t)
  BY <1>1, <1>2, <1>5 DEF Claims, Routed
<1> QED BY <1>4, <1>6, <1>7, BeginsKeeps

\* ... a change of a node
LEMMA ChangeNodeKeeps ==
  ASSUME SourcesInv, NEW n \in Nodes, NEW t \in Tasks,
         t.op \in {"toggle", "remove"}, t.item = n, t.stage = "work", ChangeNode(n, t)
  PROVE  SourcesInv'
<1>1. PICK k \in Slots : Start(k, t)
  BY DEF ChangeNode
<1>2. n \in Items /\ n \notin Rules /\ n \notin Subs /\ n # Manual
  BY ItemsApart DEF Items
<1>3. Sound(t)
  BY <1>2 DEF Sound, Done
<1>4. Begins(k, t)
  BY <1>1, <1>2, <1>3 DEF ChangeNode, Start, NextSlot, Free, Kept, Begins, Adds
<1>5. /\ ~Busy /\ ~routing /\ routing' = TRUE
      /\ UNCHANGED <<store, ui, mode, tun, sub, proxy, rules, transfer>>
  BY DEF ChangeNode, Idle, Kept
<1>6. WindowTyped'
  BY <1>4, <1>5 DEF SourcesInv, SourcesTypeOK, WindowTyped, Begins
<1>7. Claims(k, t)
  BY <1>2, <1>5 DEF Claims, Routed
<1> QED BY <1>4, <1>6, <1>7, BeginsKeeps

\* ... a change of a rule source, given which feedback it raises
LEMMA RuleTaskKeeps ==
  ASSUME SourcesInv, NEW r \in Rules, NEW k \in Slots, NEW t \in Tasks, Start(k, t),
         t.op # "manual", t.item = r, t.stage # "done",
         t.op \in {"save", "target"} => t.def \in Defs,
         t.op \in {"refresh", "toggle", "target", "remove"} => ui[r] # Absent,
         Adds(t) => ui[r] = Absent,
         rules'.gen = k, t.op = "refresh" => rules'.refreshing[r] = k,
         t.op \in {"toggle", "target"} => rules'.updating[r] = k,
         UNCHANGED <<store, ui, mode, tun, sub, proxy, routing, transfer>>, WindowTyped'
  PROVE  SourcesInv'
<1>2. r \in Items /\ r \notin Nodes /\ r \notin Subs /\ r # Manual
  BY ItemsApart DEF Items
<1>3. Sound(t)
  BY <1>2 DEF Sound, Done
<1>4. Begins(k, t)
  BY <1>2, <1>3 DEF Start, NextSlot, Free, Begins
<1>5. Claims(k, t)
  BY <1>2 DEF Claims, Routed
<1> QED BY <1>4, <1>5, BeginsKeeps

-----------------------------------------------------------------------------
(* The worker threads                                                      *)
\* A task that goes on keeps what it is about, and its indicator.
GoesOn(k) ==
  /\ task' \in [Slots -> Tasks \cup {NoTask}] /\ task'[k] # NoTask
  /\ task'[k].op = task[k].op /\ task'[k].item = task[k].item
  /\ task'[k].how = task[k].how /\ task'[k].def = task[k].def /\ task'[k].prev = task[k].prev
  /\ task'[k].on = task[k].on
  /\ \A j \in Slots \ {k} : task'[j] = task[j]

\* While tasks stay and lists lose nothing, the indicators are right.
LEMMA TasksGoOn ==
  ASSUME SourcesInv,
         \A j \in Slots : /\ task'[j] = NoTask <=> task[j] = NoTask
                          /\ task'[j].op = task[j].op /\ task'[j].item = task[j].item,
         \A s \in Subs : ui'[s] = Absent => ui[s] = Absent,
         astray => astray', UNCHANGED <<sub, proxy, rules, routing>>
  PROVE  Indicators' /\ OneRouted' /\ OneRuleTask' /\ \A i \in Items : InFlight(i)' = InFlight(i)
<1> USE DEF SourcesInv
<1>1. Indicators'
  BY DEF Indicators, Indicated, Engaged, Routed
<1>2. OneRouted'
  BY DEF OneRouted, Routed
<1>3. RuleTasks' = RuleTasks /\ \A i \in Items : InFlight(i)' = InFlight(i)
  BY DEF RuleTasks, InFlight, Free
<1>4. OneRuleTask'
  BY <1>3 DEF OneRuleTask, RuleIndicated, RuleTasks
<1> QED BY <1>1, <1>2, <1>3, <1>4

\* ... in particular while one task goes on.
LEMMA GoesOnKeeps ==
  ASSUME SourcesInv, NEW k \in Slots, task[k] # NoTask, GoesOn(k),
         astray => astray', UNCHANGED <<ui, sub, proxy, rules, routing>>
  PROVE  Indicators' /\ OneRouted' /\ OneRuleTask' /\ \A i \in Items : InFlight(i)' = InFlight(i)
<1>1. \A j \in Slots : /\ task'[j] = NoTask <=> task[j] = NoTask
                       /\ task'[j].op = task[j].op /\ task'[j].item = task[j].item
  BY DEF GoesOn
<1> QED BY <1>1, TasksGoOn

\* The saved rules are read outside the transaction.
LEMMA ReadKeeps ==
  ASSUME SourcesInv, NEW k \in Slots, Read(k)
  PROVE  SourcesInv'
<1> USE DEF SourcesInv, SourcesTypeOK
<1> DEFINE t == task[k]
<1>1. /\ t # NoTask /\ t \in Tasks /\ Sound(t) /\ t.stage = "read" /\ t.item \in Items
      /\ task' = [task EXCEPT ![k] = [t EXCEPT !.stage = "work", !.seen = store[t.item]]]
      /\ UNCHANGED <<store, ui, sub, proxy, rules, routing, retry, transfer, mode, tun, astray>>
      /\ task \in [Slots -> Tasks \cup {NoTask}]
  BY DEF Read, volatile, TasksTyped, Tasks
<1>2. store[t.item] \in Record \cup {Absent}
  BY <1>1 DEF ListsTyped, Lists
<1>3. [t EXCEPT !.stage = "work", !.seen = store[t.item]] \in Tasks
  BY <1>1, <1>2, ZenonT(40) DEF Tasks
<1>4. GoesOn(k) /\ task'[k].stage = "work"
  <2> DEFINE new == [t EXCEPT !.stage = "work", !.seen = store[t.item]]
  <2>1. /\ new.op = t.op /\ new.item = t.item /\ new.how = t.how /\ new.def = t.def
        /\ new.prev = t.prev /\ new.on = t.on /\ new.stage = "work"
    BY <1>1 DEF Tasks
  <2>2. new \in Tasks /\ new # NoTask /\ task' = [task EXCEPT ![k] = new]
    BY <1>1, <1>3, TaskIsNoTask
  <2> HIDE DEF new
  <2> QED BY <1>1, <2>1, <2>2 DEF GoesOn
<1>5. TasksTyped'
  <2>1. Sound(task[k])'
    BY <1>1, <1>4 DEF GoesOn, Sound, Done
  <2> QED BY <1>4, <2>1 DEF TasksTyped, GoesOn, Sound, Done, Committed
<1>6. ListsTyped' /\ WindowTyped'
  BY <1>1 DEF ListsTyped, WindowTyped
<1>7. Indicators' /\ OneRouted' /\ OneRuleTask' /\ \A i \in Items : InFlight(i)' = InFlight(i)
  BY <1>1, <1>4, GoesOnKeeps
<1>8. InStep'
  <2>1. ASSUME ~astray, transfer # "replaced", NEW j \in Slots, task'[j] # NoTask
        PROVE  Follows(task[j])'
    <3>1. CASE j = k
      <4>1. Follows(t)
        BY <1>1, <2>1 DEF InStep
      <4> QED BY <1>1, <1>4, <3>1, <4>1 DEF GoesOn, Follows, Shows, Adds, Done
    <3>2. CASE j # k
      <4>1. task'[j] = task[j] /\ Follows(task[j])
        BY <1>4, <2>1, <3>2 DEF GoesOn, InStep
      <4> QED BY <1>1, <4>1 DEF Follows
    <3> QED BY <3>1, <3>2
  <2> QED BY <1>1, <1>7, <2>1 DEF InStep
<1>9. LossIsNoticed'
  BY <1>1, <1>4, SMTT(30) DEF LossIsNoticed, Losing, GoesOn
<1> QED BY <1>5, <1>6, <1>7, <1>8, <1>9

\* The transaction is over, whatever came of it.
LEMMA WorkKeeps ==
  ASSUME SourcesInv, NEW k \in Slots, Work(k)
  PROVE  SourcesInv'
<1> USE DEF SourcesInv, SourcesTypeOK
<1> DEFINE t == task[k]
<1>1. /\ t # NoTask /\ t \in Tasks /\ Sound(t) /\ t.stage = "work" /\ t.item \in Items
      /\ UNCHANGED <<ui, sub, proxy, rules, routing, retry, transfer, mode>>
      /\ task \in [Slots -> Tasks \cup {NoTask}]
  BY DEF Work, volatile, TasksTyped, Tasks
<1>2. WindowTyped'
  <2>1. ASSUME NEW result \in {"committed", "lost", "broken", "rolled", "failed"},
               tun' \in TunAfter(result)
        PROVE  tun' \in {"on", "off", "untold"}
    <3>1. tun \in {"on", "off", "untold"}
      BY DEF WindowTyped
    <3> QED BY <2>1, <3>1 DEF TunAfter
  <2>2. tun' \in {"on", "off", "untold"}
    BY <2>1 DEF Work
  <2>3. astray' \in BOOLEAN
    BY DEF Work, WindowTyped
  <2> QED BY <1>1, <2>2, <2>3 DEF WindowTyped
<1>3. CASE \E result \in {"rolled", "failed"} :
             /\ task' = [task EXCEPT ![k].stage = "done", ![k].result = result, ![k].seen = Absent]
             /\ tun' \in TunAfter(result) /\ UNCHANGED <<store, astray>>
  <2>1. PICK result \in {"rolled", "failed"} :
           task' = [task EXCEPT ![k] =
                      [t EXCEPT !.stage = "done", !.result = result, !.seen = Absent]]
    BY <1>3
  <2> DEFINE new == [t EXCEPT !.stage = "done", !.result = result, !.seen = Absent]
  <2>2. /\ new \in Tasks /\ new # NoTask
        /\ new.stage = "done" /\ new.result \in {"rolled", "failed"} /\ new.seen = Absent
        /\ new.op = t.op /\ new.item = t.item /\ new.def = t.def /\ new.prev = t.prev
        /\ new.how = t.how /\ new.on = t.on
    <3>1. new \in Tasks
      BY <1>1, <2>1, ZenonT(40) DEF Tasks
    <3>2. new # NoTask
      BY <3>1, TaskIsNoTask
    <3>3. /\ new.stage = "done" /\ new.result = result /\ new.seen = Absent
          /\ new.op = t.op /\ new.item = t.item /\ new.def = t.def /\ new.prev = t.prev
          /\ new.how = t.how /\ new.on = t.on
      BY <1>1 DEF Tasks
    <3> HIDE DEF new
    <3> QED BY <2>1, <3>1, <3>2, <3>3
  <2> HIDE DEF new
  <2>3. /\ GoesOn(k) /\ task'[k].stage = "done" /\ task'[k].result \in {"rolled", "failed"}
        /\ task'[k].seen = Absent
    <3>1. task' = [task EXCEPT ![k] = new]
      BY <2>1 DEF new
    <3> QED BY <1>1, <2>2, <3>1 DEF GoesOn
  <2>4. TasksTyped'
    <3>1. Sound(task[k])'
      BY <1>1, <2>3 DEF GoesOn, Sound, Done, Committed
    <3> QED BY <2>3, <3>1 DEF TasksTyped, GoesOn, Sound, Done, Committed
  <2>5. ListsTyped'
    BY <1>1, <1>3 DEF ListsTyped
  <2>6. Indicators' /\ OneRouted' /\ OneRuleTask' /\ \A i \in Items : InFlight(i)' = InFlight(i)
    BY <1>1, <1>3, <2>3, GoesOnKeeps
  <2>7. InStep'
    <3>1. ASSUME ~astray, transfer # "replaced", NEW j \in Slots, task'[j] # NoTask
          PROVE  Follows(task[j])'
      <4>1. CASE j = k
        <5>1. Follows(t)
          BY <1>1, <3>1 DEF InStep
        <5> QED BY <1>1, <1>3, <2>3, <4>1, <5>1 DEF GoesOn, Follows, Shows, Adds, Done, Committed
      <4>2. CASE j # k
        <5>1. task'[j] = task[j] /\ Follows(task[j])
          BY <2>3, <3>1, <4>2 DEF GoesOn, InStep
        <5> QED BY <1>1, <1>3, <5>1 DEF Follows
      <4> QED BY <4>1, <4>2
    <3> QED BY <1>1, <1>3, <2>6, <3>1 DEF InStep
  <2>8. LossIsNoticed'
    BY <1>1, <1>3, <2>3 DEF LossIsNoticed, Losing, GoesOn, TunAfter
  <2> QED BY <1>2, <2>4, <2>5, <2>6, <2>7, <2>8
<1>4. ASSUME NEW result \in {"committed", "lost", "broken"}, NEW rec \in Written(t),
             result = "lost" => tun = "on",
             task' = [task EXCEPT ![k].stage = "done", ![k].result = result,
                        ![k].rec = IF result = "broken" THEN Absent ELSE rec,
                        ![k].seen = IF Adds(t) THEN store[t.item] ELSE Absent],
             store' = [store EXCEPT ![t.item] = rec],
             tun' \in TunAfter(result), astray' = (astray \/ result = "broken")
      PROVE  SourcesInv'
  <2> DEFINE written == IF result = "broken" THEN Absent ELSE rec
             seen == IF Adds(t) THEN store[t.item] ELSE Absent
             new == [t EXCEPT !.stage = "done", !.result = result, !.rec = written, !.seen = seen]
  <2>1. /\ rec \in Record \cup {Absent} /\ (rec = Absent <=> t.op = "remove")
        /\ t.op \in {"refresh", "toggle", "manual"} => store[t.item] \in Record
        /\ t.op = "refresh" /\ t.item \in Subs => rec = [store[t.item] EXCEPT !.fresh = TRUE]
        /\ t.op = "toggle" => rec = [store[t.item] EXCEPT !.on = t.on]
        /\ t.op = "manual" => rec = [store[t.item] EXCEPT !.def = t.def]
    BY <1>1, WrittenIsSound
  <2>2. store[t.item] \in Record \cup {Absent} /\ store' = [store EXCEPT ![t.item] = rec]
    BY <1>1, <1>4 DEF ListsTyped, Lists
  <2>3. new \in Tasks
    <3>1. written \in Record \cup {Absent} /\ seen \in Record \cup {Absent}
      BY <2>1, <2>2
    <3> HIDE DEF written, seen
    <3> QED BY <1>1, <3>1, ZenonT(40) DEF Tasks
  <2>4. task' = [task EXCEPT ![k] = new]
    BY <1>4
  <2>5. /\ new.stage = "done" /\ new.result = result /\ new.rec = written /\ new.seen = seen
        /\ new.op = t.op /\ new.item = t.item /\ new.def = t.def /\ new.prev = t.prev
        /\ new.how = t.how /\ new.on = t.on
    BY <1>1 DEF Tasks
  <2> HIDE DEF new
  <2>6. task'[k] = new /\ new # NoTask /\ GoesOn(k)
    BY <1>1, <2>3, <2>4, <2>5, TaskIsNoTask DEF GoesOn
  <2>7. TasksTyped'
    <3>1. Sound(new)
      BY <1>1, <2>1, <2>5, SourcesAssumption DEF Sound, Done, Committed
    <3>2. Sound(task[k])'
      BY <2>6, <3>1 DEF Sound, Done, Committed
    <3> QED BY <2>6, <3>2 DEF TasksTyped, GoesOn, Sound, Done, Committed
  <2>8. ListsTyped'
    <3>1. t.item = Manual => rec # Absent
      BY <1>1, <2>1 DEF Sound
    <3>2. store \in Lists /\ store' \in Lists
      BY <1>1, <2>1, <2>2 DEF ListsTyped, Lists
    <3>3. store'[Manual] # Absent
      BY <1>1, <2>2, <3>1, <3>2 DEF ListsTyped, Lists, Items
    <3> QED BY <1>1, <3>2, <3>3 DEF ListsTyped
  <2>9. Indicators' /\ OneRouted' /\ OneRuleTask' /\ \A i \in Items : InFlight(i)' = InFlight(i)
    BY <1>1, <1>4, <2>6, GoesOnKeeps
  <2>10. InStep'
    <3> SUFFICES ASSUME ~astray', transfer # "replaced"
                 PROVE  /\ \A j \in Slots : task'[j] # NoTask => Follows(task[j])'
                        /\ \A i \in Items : InFlight(i)' = {} => ui'[i] = store'[i]
      BY <1>1 DEF InStep
    <3>1. /\ ~astray /\ result # "broken" /\ store'[t.item] = rec
          /\ \A i \in Items \ {t.item} : store'[i] = store[i]
      BY <1>1, <1>4, <2>2 DEF ListsTyped, Lists
    <3>2. Follows(t)
      BY <1>1, <3>1 DEF InStep
    <3>3. ASSUME NEW j \in Slots, task'[j] # NoTask PROVE Follows(task[j])'
      <4>1. CASE j = k
        <5>1. Done(new)
          BY <1>4, <2>5, <3>1 DEF Done, Committed
        <5>2. Shows(new, ui[t.item], rec)
          <6>1. Shows(t, ui[t.item], store[t.item]) /\ ~Done(t)
            BY <1>1, <3>2 DEF Follows, Done
          <6>2. /\ t.op \in {"refresh", "toggle", "target", "remove"} => ui[t.item] # Absent
                /\ Adds(new) => ui[t.item] = Absent /\ new.seen = Absent
            BY <2>5, <6>1 DEF Shows, Adds
          <6>3. CASE t.op = "manual"
            BY <2>1, <2>5, <5>1, <6>1, <6>2, <6>3 DEF Shows
          <6>4. CASE t.op # "manual"
            <7>1. ui[t.item] = store[t.item] /\ rec = new.rec
              BY <2>5, <3>1, <6>1, <6>4 DEF Shows
            <7>2. t.item \in Subs /\ t.op = "refresh" =>
                    rec = [ui[t.item] EXCEPT !.fresh = rec.fresh]
              BY <2>1, <7>1 DEF Record
            <7>3. t.item \in Subs /\ t.op = "toggle" => rec = [ui[t.item] EXCEPT !.on = rec.on]
              BY <2>1, <7>1 DEF Record
            <7> QED BY <2>5, <5>1, <6>2, <6>4, <7>1, <7>2, <7>3 DEF Shows
          <6> QED BY <6>3, <6>4
        <5> QED BY <1>1, <2>5, <2>6, <3>1, <4>1, <5>2 DEF Follows
      <4>2. CASE j # k
        <5>1. task'[j] = task[j] /\ task[j] # NoTask /\ task[j].item \in Items
          BY <2>6, <3>3, <4>2 DEF GoesOn, TasksTyped, Tasks
        <5>2. task[j].item # t.item
          BY <1>1, <3>1, <4>2, <5>1, OneTaskOfItem
        <5>3. store'[task[j].item] = store[task[j].item] /\ Follows(task[j])
          BY <3>1, <5>1, <5>2 DEF InStep
        <5> QED BY <1>1, <5>1, <5>3 DEF Follows
      <4> QED BY <4>1, <4>2
    <3>4. ASSUME NEW i \in Items, InFlight(i)' = {} PROVE ui'[i] = store'[i]
      <4>1. k \in InFlight(t.item) /\ InFlight(i) = {}
        BY <1>1, <2>9, <3>4 DEF InFlight, Free
      <4> QED BY <1>1, <3>1, <4>1 DEF InStep
    <3> QED BY <3>3, <3>4
  <2>11. LossIsNoticed'
    <3>1. CASE result = "lost"
      BY <2>5, <2>6, <3>1 DEF LossIsNoticed, Losing
    <3>2. CASE result # "lost"
      BY <1>1, <1>4, <2>6, <3>2 DEF LossIsNoticed, Losing, GoesOn, TunAfter
    <3> QED BY <3>1, <3>2
  <2> QED BY <1>2, <2>7, <2>8, <2>9, <2>10, <2>11
<1> QED BY <1>3, <1>4 DEF Work

-----------------------------------------------------------------------------
(* The passing of time, and launches                                       *)

\* Aging takes nothing from a list and brings nothing into one.
LEMMA StaleIsTyped ==
  ASSUME NEW r \in Record \cup {Absent}
  PROVE  /\ Stale(r) \in Record \cup {Absent} /\ (Stale(r) = Absent <=> r = Absent)
         /\ \A v \in BOOLEAN, q \in Record :
              r = [q EXCEPT !.fresh = v] => Stale(r) = Stale(q)
         /\ \A v \in BOOLEAN, q \in Record :
              r = [q EXCEPT !.on = v] => Stale(r) = [Stale(q) EXCEPT !.on = v]
<1>n. Absent \notin Record
  BY SourcesAssumption
<1>1. CASE r = Absent
  BY <1>n, <1>1 DEF Stale, Record
<1>2. CASE r # Absent
  BY <1>n, <1>2 DEF Stale, Record
<1> QED BY <1>1, <1>2

\* An update interval passes, for the lists, the store and the tasks alike.
LEMMA AgeKeeps ==
  ASSUME SourcesInv, NEW i \in Items, Age(i)
  PROVE  SourcesInv'
<1> USE DEF SourcesInv, SourcesTypeOK
<1>1. /\ i \in Subs \cup Rules /\ i # Manual
      /\ store' = [store EXCEPT ![i] = Stale(store[i])] /\ ui' = [ui EXCEPT ![i] = Stale(ui[i])]
      /\ task' = [k \in Slots |-> IF k \notin InFlight(i) THEN task[k]
                                  ELSE [task[k] EXCEPT !.seen = Stale(@), !.rec = Stale(@)]]
      /\ UNCHANGED <<sub, proxy, rules, routing, transfer, mode, tun, astray>>
      /\ store \in Lists /\ ui \in Lists
  BY SourcesAssumption DEF Age, ListsTyped
<1>2. /\ store'[i] = Stale(store[i]) /\ ui'[i] = Stale(ui[i])
      /\ \A h \in Items \ {i} : store'[h] = store[h] /\ ui'[h] = ui[h]
      /\ store[i] \in Record \cup {Absent} /\ ui[i] \in Record \cup {Absent}
  BY <1>1 DEF Lists
<1>3. ListsTyped'
  <2>1. Stale(store[i]) \in Record \cup {Absent} /\ Stale(ui[i]) \in Record \cup {Absent}
    BY <1>2, StaleIsTyped
  <2>2. store' \in Lists /\ ui' \in Lists
    BY <1>1, <2>1 DEF Lists
  <2>3. Manual \in Items
    BY DEF Items
  <2> QED BY <1>1, <1>2, <2>2, <2>3 DEF ListsTyped
<1>4. ASSUME NEW k \in Slots, task[k] # NoTask
      PROVE  /\ task[k] \in Tasks /\ Sound(task[k]) /\ task[k].item \in Items
             /\ task[k].seen \in Record \cup {Absent} /\ task[k].rec \in Record \cup {Absent}
  BY <1>4 DEF TasksTyped, Tasks
<1>5. ASSUME NEW k \in Slots
      PROVE  IF k \in InFlight(i)
             THEN /\ task[k] # NoTask /\ task[k].item = i
                  /\ task'[k] = [task[k] EXCEPT !.seen = Stale(task[k].seen),
                                                !.rec = Stale(task[k].rec)]
             ELSE task'[k] = task[k] /\ (task[k] # NoTask => task[k].item # i)
  BY <1>1 DEF InFlight, Free
<1>6. ASSUME NEW k \in Slots
      PROVE  /\ task'[k] \in Tasks \cup {NoTask} /\ (task'[k] = NoTask <=> task[k] = NoTask)
             /\ task'[k].op = task[k].op /\ task'[k].item = task[k].item
             /\ task'[k].how = task[k].how /\ task'[k].def = task[k].def
             /\ task'[k].prev = task[k].prev /\ task'[k].on = task[k].on
             /\ task'[k].stage = task[k].stage /\ task'[k].result = task[k].result
             /\ k \in InFlight(i) => /\ task'[k].seen = Stale(task[k].seen)
                                     /\ task'[k].rec = Stale(task[k].rec)
  <2>1. CASE k \notin InFlight(i)
    BY <1>5, <2>1 DEF TasksTyped
  <2>2. CASE k \in InFlight(i)
    <3>1. task[k] \in Tasks /\ task[k] # NoTask
      BY <1>4, <1>5, <2>2
    <3> DEFINE seen == Stale(task[k].seen)
               rec == Stale(task[k].rec)
    <3>2. seen \in Record \cup {Absent} /\ rec \in Record \cup {Absent}
      BY <1>4, <3>1, StaleIsTyped
    <3>3. task'[k] = [task[k] EXCEPT !.seen = seen, !.rec = rec]
      BY <1>5, <2>2
    <3> HIDE DEF seen, rec
    <3>4. task'[k] \in Tasks
      BY <3>1, <3>2, <3>3, ZenonT(40) DEF Tasks
    <3>5. /\ task'[k].op = task[k].op /\ task'[k].item = task[k].item
          /\ task'[k].how = task[k].how /\ task'[k].def = task[k].def
          /\ task'[k].prev = task[k].prev /\ task'[k].on = task[k].on
          /\ task'[k].stage = task[k].stage /\ task'[k].result = task[k].result
          /\ task'[k].seen = seen /\ task'[k].rec = rec
      BY <3>1, <3>3 DEF Tasks
    <3> QED BY <3>1, <3>4, <3>5, TaskIsNoTask DEF seen, rec
  <2> QED BY <2>1, <2>2
<1>7. TasksTyped'
  <2>1. task' \in [Slots -> Tasks \cup {NoTask}]
    <3>1. task' = [k \in Slots |-> task'[k]]
      BY <1>1
    <3> QED BY <1>6, <3>1
  <2>2. ASSUME NEW k \in Slots, task'[k] # NoTask PROVE Sound(task[k])'
    <3>1. task[k] # NoTask /\ Sound(task[k])
      BY <1>4, <1>6, <2>2
    <3>2. task'[k].rec = Absent <=> task[k].rec = Absent
      BY <1>4, <1>5, <1>6, <3>1, StaleIsTyped
    <3> QED BY <1>6, <3>1, <3>2 DEF Sound, Done, Committed
  <2> QED BY <2>1, <2>2 DEF TasksTyped
<1>8. WindowTyped'
  BY <1>1 DEF WindowTyped
<1>9. Indicators' /\ OneRouted' /\ OneRuleTask' /\ \A h \in Items : InFlight(h)' = InFlight(h)
  <2>1. \A s \in Subs : ui'[s] = Absent => ui[s] = Absent
    BY <1>2, StaleIsTyped DEF Items
  <2> QED BY <1>1, <1>6, <2>1, TasksGoOn
<1>10. InStep'
  <2>1. ASSUME ~astray, transfer # "replaced", NEW k \in Slots, task'[k] # NoTask
        PROVE  Follows(task[k])'
    <3>1. task[k] # NoTask /\ Follows(task[k])
      BY <1>6, <2>1 DEF InStep
    <3>2. CASE k \notin InFlight(i)
      <4>1. task'[k] = task[k] /\ task[k].item \in Items \ {i}
        BY <1>4, <1>5, <3>1, <3>2
      <4> QED BY <1>2, <3>1, <4>1 DEF Follows
    <3>3. CASE k \in InFlight(i)
      <4> DEFINE t == task[k]
                 new == task'[k]
      <4>1. t.item = i /\ t.op # "manual" /\ Shows(t, ui[i], store[i])
        BY <1>1, <1>4, <1>5, <3>1, <3>3 DEF Follows, Sound
      <4>2. /\ new.op = t.op /\ new.item = t.item /\ new.how = t.how /\ new.stage = t.stage
            /\ new.result = t.result /\ new.seen = Stale(t.seen) /\ new.rec = Stale(t.rec)
            /\ t.seen \in Record \cup {Absent} /\ t.rec \in Record \cup {Absent}
        BY <1>4, <1>6, <3>1, <3>3
      <4> HIDE DEF t, new
      <4>3. /\ Stale(ui[i]) = Absent <=> ui[i] = Absent
            /\ Stale(t.seen) = Absent <=> t.seen = Absent
        BY <1>2, <4>2, StaleIsTyped
      <4>4. ASSUME t.item \in Subs, t.op = "refresh", Done(t)
            PROVE  Stale(store[i]) = [Stale(ui[i]) EXCEPT !.fresh = Stale(store[i]).fresh]
        <5>1. store[i] = [ui[i] EXCEPT !.fresh = store[i].fresh] /\ ui[i] \in Record
          BY <1>2, <4>1, <4>4 DEF Shows
        <5>2. Absent \notin Record
          BY SourcesAssumption
        <5>3. store[i] \in Record
          BY <1>2, <4>1, <4>4, <5>1, <1>4, <3>1 DEF t, Shows, Sound
        <5> QED BY <5>1, <5>2, <5>3 DEF Stale, Record
      <4>5. ASSUME t.item \in Subs, t.op = "toggle", Done(t)
            PROVE  Stale(store[i]) = [Stale(ui[i]) EXCEPT !.on = Stale(store[i]).on]
        <5>1. store[i] = [ui[i] EXCEPT !.on = store[i].on] /\ ui[i] \in Record
          BY <1>2, <4>1, <4>5 DEF Shows
        <5>2. Absent \notin Record
          BY SourcesAssumption
        <5>3. store[i] \in Record
          BY <1>2, <4>1, <4>5, <5>1, <1>4, <3>1 DEF t, Shows, Sound
        <5> QED BY <5>1, <5>2, <5>3 DEF Stale, Record
      <4>6. Shows(new, Stale(ui[i]), Stale(store[i]))
        <5>1. Done(new) <=> Done(t)
          BY <4>2 DEF Done, Committed
        <5>2. Adds(new) <=> Adds(t)
          BY <4>2 DEF Adds
        <5>3. CASE Done(t)
          BY <4>1, <4>2, <4>3, <4>4, <4>5, <5>1, <5>2, <5>3 DEF Shows
        <5>4. CASE ~Done(t)
          BY <4>1, <4>2, <4>3, <5>1, <5>2, <5>4 DEF Shows
        <5> QED BY <5>3, <5>4
      <4> QED BY <1>2, <1>6, <4>1, <4>6 DEF Follows, t, new
    <3> QED BY <3>2, <3>3
  <2>2. ASSUME ~astray, transfer # "replaced", NEW h \in Items, InFlight(h)' = {}
        PROVE  ui'[h] = store'[h]
    <3>1. ui[h] = store[h]
      BY <1>9, <2>2 DEF InStep
    <3> QED BY <1>2, <3>1
  <2> QED BY <1>1, <2>1, <2>2 DEF InStep
<1>11. LossIsNoticed'
  <2>1. \A k \in Slots : Losing(task[k]) => Losing(task[k])'
    BY <1>6 DEF Losing
  <2> QED BY <1>1, <2>1 DEF LossIsNoticed
<1> QED BY <1>3, <1>7, <1>8, <1>9, <1>10, <1>11

\* There are slots enough to refresh every subscription at once.
LEMMA SlotsForAll ==
  ASSUME NEW pending \in SUBSET Subs
  PROVE  \E f \in [pending -> Slots] : IsInjective(f)
<1> DEFINE n == Cardinality(pending)
           m == Cardinality(Slots)
<1>1. IsFiniteSet(pending) /\ n <= Cardinality(Subs)
  BY SourcesAssumption, FS_Subset
<1>2. n \in Nat /\ m \in Nat /\ Cardinality(Subs) \in Nat /\ n <= m
  BY <1>1, SourcesAssumption, FS_CardinalityType
<1>3. PICK g \in Bijection(1..n, pending) : TRUE
  <2>1. ExistsBijection(1..n, pending)
    BY <1>1, FS_CardinalityType
  <2> QED BY <2>1 DEF ExistsBijection
<1>4. PICK h \in Bijection(1..m, Slots) : TRUE
  <2>1. ExistsBijection(1..m, Slots)
    BY SourcesAssumption, FS_CardinalityType
  <2> QED BY <2>1 DEF ExistsBijection
<1> HIDE DEF n, m
<1>5. /\ g \in [1..n -> pending] /\ \A p \in pending : \E x \in 1..n : g[x] = p
      /\ h \in [1..m -> Slots] /\ \A x, y \in 1..m : h[x] = h[y] => x = y
  <2>1. g \in [1..n -> pending] /\ \A p \in pending : \E x \in 1..n : g[x] = p
    BY <1>3 DEF Bijection, Injection, Surjection
  <2>2. h \in [1..m -> Slots] /\ \A x, y \in 1..m : h[x] = h[y] => x = y
    BY <1>4 DEF Bijection, Injection, IsInjective
  <2> QED BY <2>1, <2>2
<1> DEFINE at(p) == CHOOSE x \in 1..n : g[x] = p
           f == [p \in pending |-> h[at(p)]]
<1>6. \A p \in pending : at(p) \in 1..n /\ g[at(p)] = p
  BY <1>5
<1>7. \A p \in pending : at(p) \in 1..m
  BY <1>2, <1>6
<1> HIDE DEF at
<1>8. f \in [pending -> Slots]
  BY <1>5, <1>7
<1>9. ASSUME NEW p \in pending, NEW q \in pending, f[p] = f[q] PROVE p = q
  <2>1. at(p) = at(q)
    BY <1>5, <1>7, <1>9
  <2> QED BY <1>6, <2>1
<1>10. IsInjective(f)
  BY <1>8, <1>9 DEF IsInjective
<1> QED BY <1>8, <1>10

\* After a launch, every enabled subscription is being refreshed, and nothing else.
LEMMA LaunchKeeps ==
  ASSUME SourcesInv, Launch
  PROVE  SourcesInv'
<1> USE DEF SourcesInv, SourcesTypeOK
<1> DEFINE pending == {s \in Subs : Loaded(store, s) = "Pending"}
           slot == CHOOSE f \in [pending -> Slots] : IsInjective(f)
           owner(k) == CHOOSE s \in pending : slot[s] = k
<1>1. /\ ui' = store /\ store' = store /\ proxy' = 0 /\ rules' = IdleRules /\ routing' = FALSE
      /\ transfer' = "off" /\ mode' = "Off" /\ tun' = "off" /\ astray' = FALSE
      /\ task' = [k \in Slots |-> IF k \in Range(slot) THEN Task("refresh", owner(k)) ELSE NoTask]
      /\ sub' = [s \in Subs |-> IF s \in pending THEN [state |-> "Refreshing", gen |-> slot[s]]
                                                 ELSE IdleSub]
  BY DEF Launch
<1>2. slot \in [pending -> Slots] /\ IsInjective(slot)
  BY SlotsForAll
<1> HIDE DEF slot
<1>3. ASSUME NEW k \in Slots, task'[k] # NoTask
      PROVE  /\ task'[k] = Task("refresh", owner(k)) /\ owner(k) \in pending /\ slot[owner(k)] = k
  BY <1>1, <1>2, <1>3 DEF Range
<1>4. ASSUME NEW s \in pending PROVE s \in Subs /\ s \in Items /\ store[s] # Absent
  BY DEF Loaded, Items
<1> HIDE DEF owner, pending
<1>5. ASSUME NEW k \in Slots, task'[k] # NoTask
      PROVE  LET s == task'[k].item
             IN  /\ task'[k] \in Tasks /\ task'[k].op = "refresh" /\ task'[k].stage = "work"
                 /\ task'[k].how = "none" /\ s \in Subs
                 /\ s # Manual /\ s \notin Nodes /\ s \notin Rules
                 /\ store[s] # Absent /\ sub'[s] = [state |-> "Refreshing", gen |-> k]
  <2>1. PICK s \in pending : task'[k] = Task("refresh", s) /\ slot[s] = k
    BY <1>3, <1>5
  <2>2. s \in Subs /\ s \in Items /\ store[s] # Absent
    BY <1>4
  <2>3. /\ task'[k] \in Tasks /\ task'[k].op = "refresh" /\ task'[k].item = s
        /\ task'[k].stage = "work" /\ task'[k].how = "none"
    BY <2>1, <2>2, TaskIsTyped DEF Operations
  <2>4. sub'[s] = [state |-> "Refreshing", gen |-> k]
    BY <1>1, <2>1, <2>2
  <2> QED BY <2>2, <2>3, <2>4, ItemsApart
<1>6. ListsTyped'
  BY <1>1 DEF ListsTyped
<1>7. TasksTyped'
  <2>1. task' \in [Slots -> Tasks \cup {NoTask}]
    <3>1. task' = [k \in Slots |-> task'[k]]
      BY <1>1
    <3> QED BY <1>5, <3>1
  <2> QED BY <1>5, <2>1 DEF TasksTyped, Sound, Done
<1>8. WindowTyped'
  <2>1. sub' \in [Subs -> [state : SubStates, gen : Gens]]
    BY <1>1, <1>2 DEF SubStates, Gens, IdleSub
  <2>2. 0 \in Gens /\ rules' \in [importing : BOOLEAN, gen : Gens,
              editor : Rules \cup {"closed", "new"},
              refreshing : [Rules -> Gens], updating : [Rules -> Gens]]
    BY <1>1 DEF IdleRules, Gens
  <2> QED BY <1>1, <2>1, <2>2 DEF WindowTyped
<1>9. Indicators' /\ OneRouted'
  <2>1. ASSUME NEW k \in Slots, task'[k] # NoTask PROVE ~Routed(task'[k])
    BY <1>5, <2>1 DEF Routed
  <2>2. OneRouted'
    BY <2>1 DEF OneRouted, Routed
  <2>3. ASSUME NEW k \in Slots, task'[k] # NoTask PROVE Indicated(k, task[k])'
    <3>1. /\ sub'[task'[k].item] = [state |-> "Refreshing", gen |-> k]
          /\ store[task'[k].item] # Absent /\ ui' = store
      BY <1>1, <1>5, <2>3
    <3>2. proxy' = 0 /\ task'[k].op = "refresh"
      BY <1>1, <1>5, <2>3
    <3>3. sub'[task'[k].item].state = "Refreshing" /\ sub'[task'[k].item].gen = k
      BY <3>1
    <3> QED BY <2>1, <2>3, <3>1, <3>2, <3>3 DEF Indicated, Engaged, Routed
  <2> QED BY <2>2, <2>3 DEF Indicators
<1>10. OneRuleTask'
  BY <1>5 DEF OneRuleTask, RuleTasks, Free
<1>11. InStep'
  <2>1. ASSUME NEW k \in Slots, task'[k] # NoTask PROVE Follows(task[k])'
    BY <1>1, <1>5, <2>1 DEF Follows, Shows, Adds, Done
  <2> QED BY <1>1, <2>1 DEF InStep
<1>12. LossIsNoticed'
  BY <1>1 DEF LossIsNoticed
<1> QED BY <1>6, <1>7, <1>8, <1>9, <1>10, <1>11, <1>12

-----------------------------------------------------------------------------
(* The results                                                             *)

\* A record that was committed is shown once it is merged.
LEMMA DoneFollows ==
  ASSUME SourcesInv, NEW k \in Slots, task[k] # NoTask, task[k].stage = "done"
  PROVE  LET t == task[k]
         IN  /\ t \in Tasks /\ Sound(t) /\ t.item \in Items /\ Indicated(k, t) /\ k # 0
             /\ t.rec \in Record \cup {Absent}
             /\ Committed(t) => (t.rec = Absent <=> t.op = "remove")
             /\ ~astray /\ t.item \in Rules => RuleIndicated(k, t)
             /\ ~astray /\ transfer # "replaced" => Shows(t, ui[t.item], store[t.item])
<1> USE DEF SourcesInv, SourcesTypeOK
<1>1. task[k] \in Tasks /\ Sound(task[k]) /\ Indicated(k, task[k])
  BY DEF TasksTyped, Indicators
<1>2. task[k].item \in Rules => k \in RuleTasks
  BY DEF RuleTasks, Free
<1> QED BY <1>1, <1>2, SourcesAssumption DEF Tasks, Sound, Done, OneRuleTask, InStep, Follows

\* A list that takes a record of an item, or none, is still one.
LEMMA MergeIsTyped ==
  ASSUME ListsTyped, NEW i \in Items, NEW rec \in Record \cup {Absent},
         i = Manual => rec # Absent, ui' = [ui EXCEPT ![i] = rec], store' = store
  PROVE  /\ ListsTyped' /\ ui'[i] = rec
         /\ \A h \in Items \ {i} : ui'[h] = ui[h]
BY DEF ListsTyped, Lists, Items

\* finish_subscription_import: no result of an import is dropped, and it is
\* merged.
LEMMA FinishImportSubKeeps ==
  ASSUME SourcesInv, NEW k \in Slots, task[k] # NoTask, task[k].stage = "done",
         FinishImportSub(k, task[k])
  PROVE  SourcesInv'
<1> DEFINE t == task[k]
<1>1. /\ t \in Tasks /\ t.op = "save" /\ t.item \in Subs /\ t.item \in Items /\ t.item # Manual
      /\ t.item \notin Rules /\ t.item \notin Nodes /\ Ends(k) /\ proxy = k
      /\ t.rec \in Record \cup {Absent} /\ (Committed(t) => t.rec # Absent)
      /\ ~astray /\ transfer # "replaced" => Shows(t, ui[t.item], store[t.item])
      /\ ListsTyped /\ WindowTyped /\ UNCHANGED <<store, tun, astray, transfer>>
  BY DoneFollows, ItemsApart DEF FinishImportSub, Indicated, SourcesInv, SourcesTypeOK, Ends
<1>2. proxy' = 0 /\ UNCHANGED <<rules, routing>>
  BY <1>1 DEF FinishImportSub
<1>3. CASE Committed(t)
  <2>1. /\ ui' = [ui EXCEPT ![t.item] = t.rec] /\ Reconciled(t)
        /\ sub' = [sub EXCEPT ![t.item] =
                     [state |-> IF t.rec.on THEN "Ready" ELSE "None", gen |-> 0]]
    BY <1>1, <1>3 DEF FinishImportSub, MergedSub, Merged, Shown
  <2>2. ListsTyped' /\ ui'[t.item] = t.rec /\ \A h \in Items \ {t.item} : ui'[h] = ui[h]
    BY <1>1, <2>1, MergeIsTyped
  <2>3. WindowTyped'
    BY <1>1, <1>2, <2>1 DEF WindowTyped, SubStates, Gens, Reconciled
  <2>4. Releases(k, t)
    BY <1>1, <1>2, <2>1 DEF Releases, WindowTyped, Routed
  <2>5. Merges(t)
    BY <1>1, <1>3, <2>1, <2>2 DEF Merges, Shows, Done, Reconciled
  <2> QED BY <1>1, <2>2, <2>3, <2>4, <2>5, EndsKeeps
<1>4. CASE ~Committed(t)
  <2>1. UNCHANGED <<ui, sub, mode>>
    BY <1>1, <1>4 DEF FinishImportSub
  <2>2. ListsTyped' /\ WindowTyped'
    BY <1>1, <1>2, <2>1 DEF ListsTyped, WindowTyped, Gens
  <2>3. Releases(k, t)
    BY <1>1, <1>2, <2>1 DEF Releases, Routed
  <2>4. Merges(t)
    BY <1>1, <1>4, <2>1 DEF Merges, Shows, Done, Committed
  <2> QED BY <1>1, <2>2, <2>3, <2>4, EndsKeeps
<1> QED BY <1>3, <1>4

\* finish_single_node_import, finish_saved_single_node: the same of nodes.
LEMMA FinishImportNodeKeeps ==
  ASSUME SourcesInv, NEW k \in Slots, task[k] # NoTask, task[k].stage = "done",
         FinishImportNode(k, task[k])
  PROVE  SourcesInv'
<1> DEFINE t == task[k]
<1>1. /\ t \in Tasks /\ t.op = "save" /\ t.item \in Nodes /\ t.item \in Items /\ t.item # Manual
      /\ t.item \notin Rules /\ t.item \notin Subs /\ Ends(k) /\ proxy = k
      /\ t.rec \in Record \cup {Absent}
      /\ ~astray /\ transfer # "replaced" => Shows(t, ui[t.item], store[t.item])
      /\ ListsTyped /\ WindowTyped /\ UNCHANGED <<store, tun, astray, transfer>>
  BY DoneFollows, ItemsApart DEF FinishImportNode, Indicated, SourcesInv, SourcesTypeOK, Ends
<1>2. /\ proxy' = 0 /\ UNCHANGED <<sub, rules, routing>>
      /\ IF Committed(t) THEN ui' = [ui EXCEPT ![t.item] = t.rec] /\ Reconciled(t)
                         ELSE UNCHANGED <<ui, mode>>
  BY <1>1 DEF FinishImportNode, Merged
<1>3. Releases(k, t)
  BY <1>1, <1>2 DEF Releases, Routed
<1>4. WindowTyped'
  BY <1>1, <1>2 DEF WindowTyped, Gens, Reconciled
<1>5. CASE Committed(t)
  <2>1. ListsTyped' /\ ui'[t.item] = t.rec /\ \A h \in Items \ {t.item} : ui'[h] = ui[h]
    BY <1>1, <1>2, <1>5, MergeIsTyped
  <2>2. Merges(t)
    <3> QED BY <1>1, <1>2, <1>5, <2>1 DEF Merges, Shows, Done, Reconciled
  <2> QED BY <1>1, <1>3, <1>4, <2>1, <2>2, EndsKeeps
<1>6. CASE ~Committed(t)
  <2>1. ListsTyped' /\ Merges(t)
    BY <1>1, <1>2, <1>6 DEF ListsTyped, Merges, Shows, Done, Committed
  <2> QED BY <1>1, <1>3, <1>4, <2>1, EndsKeeps
<1> QED BY <1>5, <1>6

\* finish_subscription_refresh merges the update time alone; the rest was in
\* step.
LEMMA FinishRefreshSubKeeps ==
  ASSUME SourcesInv, NEW k \in Slots, task[k] # NoTask, task[k].stage = "done",
         FinishRefreshSub(k, task[k])
  PROVE  SourcesInv'
<1> DEFINE t == task[k]
<1>1. /\ t \in Tasks /\ t.op = "refresh" /\ t.item \in Subs /\ t.item \in Items /\ t.item # Manual
      /\ t.item \notin Rules /\ t.item \notin Nodes /\ Ends(k) /\ sub[t.item].gen = k
      /\ t.rec \in Record \cup {Absent} /\ (Committed(t) => t.rec # Absent) /\ ui[t.item] # Absent
      /\ ~astray /\ transfer # "replaced" => Shows(t, ui[t.item], store[t.item])
      /\ ListsTyped /\ WindowTyped /\ UNCHANGED <<store, tun, astray, transfer>>
  BY DoneFollows, ItemsApart DEF FinishRefreshSub, Indicated, SourcesInv, SourcesTypeOK, Ends
<1>2. UNCHANGED <<proxy, rules, routing>>
  BY <1>1 DEF FinishRefreshSub
<1>3. CASE Committed(t)
  <2> DEFINE new == [ui[t.item] EXCEPT !.fresh = t.rec.fresh]
  <2>1. /\ ui' = [ui EXCEPT ![t.item] = new] /\ Reconciled(t)
        /\ sub' = [sub EXCEPT ![t.item] = [state |-> "Ready", gen |-> 0]]
    BY <1>1, <1>3 DEF FinishRefreshSub, Shown
  <2>2. new \in Record /\ t.rec \in Record
    <3>1. ui[t.item] \in Record /\ t.rec \in Record
      BY <1>1, <1>3 DEF ListsTyped, Lists
    <3> QED BY <3>1 DEF Record
  <2>3. ~astray /\ transfer # "replaced" => new = store[t.item]
    BY <1>1, <1>3 DEF Shows, Done
  <2> HIDE DEF new
  <2>4. ListsTyped' /\ ui'[t.item] = new /\ \A h \in Items \ {t.item} : ui'[h] = ui[h]
    BY <1>1, <2>1, <2>2, MergeIsTyped
  <2>5. WindowTyped'
    BY <1>1, <1>2, <2>1 DEF WindowTyped, SubStates, Gens, Reconciled
  <2>6. Releases(k, t)
    BY <1>1, <1>2, <2>1 DEF Releases, WindowTyped, Routed
  <2>7. Merges(t)
    BY <1>1, <2>1, <2>3, <2>4 DEF Merges, Reconciled
  <2> QED BY <1>1, <2>4, <2>5, <2>6, <2>7, EndsKeeps
<1>4. CASE ~Committed(t)
  <2>1. /\ UNCHANGED <<ui, mode>>
        /\ sub' = [sub EXCEPT ![t.item] =
                     [state |-> IF t.result = "failed" THEN "Failed" ELSE "Pending", gen |-> 0]]
    BY <1>1, <1>4 DEF FinishRefreshSub, Shown
  <2>2. ListsTyped' /\ WindowTyped'
    BY <1>1, <1>2, <2>1 DEF ListsTyped, WindowTyped, SubStates, Gens
  <2>3. Releases(k, t)
    BY <1>1, <1>2, <2>1 DEF Releases, Routed, WindowTyped
  <2>4. Merges(t)
    BY <1>1, <1>4, <2>1 DEF Merges, Shows, Done, Committed
  <2> QED BY <1>1, <2>2, <2>3, <2>4, EndsKeeps
<1> QED BY <1>3, <1>4

\* A subscription that was removed leaves the list, or stays in it.
LEMMA FinishRemoveSubKeeps ==
  ASSUME SourcesInv, NEW k \in Slots, task[k] # NoTask, task[k].stage = "done",
         FinishRemoveSub(k, task[k])
  PROVE  SourcesInv'
<1> DEFINE t == task[k]
<1>1. /\ t \in Tasks /\ t.op = "remove" /\ t.item \in Subs /\ t.item \in Items /\ t.item # Manual
      /\ t.item \notin Rules /\ t.item \notin Nodes /\ Ends(k) /\ sub[t.item].gen = k
      /\ Committed(t) => t.rec = Absent
      /\ ~astray /\ transfer # "replaced" => Shows(t, ui[t.item], store[t.item])
      /\ ListsTyped /\ WindowTyped /\ UNCHANGED <<store, tun, astray, transfer>>
  BY DoneFollows, ItemsApart DEF FinishRemoveSub, Indicated, SourcesInv, SourcesTypeOK, Ends
<1>2. UNCHANGED <<proxy, rules, routing>>
  BY <1>1 DEF FinishRemoveSub
<1>3. CASE Committed(t)
  <2>1. /\ ui' = [ui EXCEPT ![t.item] = Absent] /\ Reconciled(t)
        /\ sub' = [sub EXCEPT ![t.item] = [state |-> "None", gen |-> 0]]
    BY <1>1, <1>3 DEF FinishRemoveSub, Shown, Merged
  <2>2. ListsTyped' /\ ui'[t.item] = Absent /\ \A h \in Items \ {t.item} : ui'[h] = ui[h]
    BY <1>1, <2>1, MergeIsTyped
  <2>3. WindowTyped'
    BY <1>1, <1>2, <2>1 DEF WindowTyped, SubStates, Gens, Reconciled
  <2>4. Releases(k, t)
    BY <1>1, <1>2, <2>1 DEF Releases, WindowTyped, Routed
  <2>5. Merges(t)
    BY <1>1, <1>3, <2>1, <2>2 DEF Merges, Shows, Done, Reconciled
  <2> QED BY <1>1, <2>2, <2>3, <2>4, <2>5, EndsKeeps
<1>4. CASE ~Committed(t)
  <2>1. /\ UNCHANGED <<ui, mode>>
        /\ sub' = [sub EXCEPT ![t.item] =
                     [state |-> IF t.result = "failed" THEN "Failed" ELSE "Ready", gen |-> 0]]
    BY <1>1, <1>4 DEF FinishRemoveSub, Shown
  <2>2. ListsTyped' /\ WindowTyped'
    BY <1>1, <1>2, <2>1 DEF ListsTyped, WindowTyped, SubStates, Gens
  <2>3. Releases(k, t)
    BY <1>1, <1>2, <2>1 DEF Releases, Routed, WindowTyped
  <2>4. Merges(t)
    BY <1>1, <1>4, <2>1 DEF Merges, Shows, Done, Committed
  <2> QED BY <1>1, <2>2, <2>3, <2>4, EndsKeeps
<1> QED BY <1>3, <1>4

\* set_single_node_enabled and remove_saved_single_node, their completions.
LEMMA FinishNodeKeeps ==
  ASSUME SourcesInv, NEW k \in Slots, task[k] # NoTask, task[k].stage = "done",
         FinishNode(k, task[k])
  PROVE  SourcesInv'
<1> DEFINE t == task[k]
<1>1. /\ t \in Tasks /\ t.op \in {"toggle", "remove"} /\ t.item \in Nodes /\ t.item \in Items
      /\ t.item # Manual /\ t.item \notin Rules /\ t.item \notin Subs /\ Ends(k)
      /\ t.rec \in Record \cup {Absent}
      /\ ~astray /\ transfer # "replaced" => Shows(t, ui[t.item], store[t.item])
      /\ ListsTyped /\ WindowTyped /\ UNCHANGED <<store, tun, astray, transfer>>
  BY DoneFollows, ItemsApart DEF FinishNode, SourcesInv, SourcesTypeOK, Ends
<1>2. /\ routing' = FALSE /\ UNCHANGED <<sub, proxy, rules>>
      /\ IF Committed(t) THEN MergedIfShown(t.item, t.rec) /\ Reconciled(t)
                         ELSE UNCHANGED <<ui, mode>>
  BY DEF FinishNode
<1>3. Releases(k, t)
  BY <1>1, <1>2 DEF Releases, Routed
<1>4. WindowTyped'
  BY <1>1, <1>2 DEF WindowTyped, Reconciled
<1>5. CASE Committed(t) /\ ui[t.item] # Absent
  <2>1. ui' = [ui EXCEPT ![t.item] = t.rec]
    BY <1>2, <1>5 DEF MergedIfShown
  <2>2. ListsTyped' /\ ui'[t.item] = t.rec /\ \A h \in Items \ {t.item} : ui'[h] = ui[h]
    BY <1>1, <2>1, MergeIsTyped
  <2>3. Merges(t)
    BY <1>1, <1>2, <1>5, <2>2 DEF Merges, Shows, Done, Reconciled
  <2> QED BY <1>1, <1>3, <1>4, <2>2, <2>3, EndsKeeps
<1>6. CASE ~(Committed(t) /\ ui[t.item] # Absent)
  <2>1. ui' = ui
    BY <1>2, <1>6 DEF MergedIfShown
  <2>2. ListsTyped' /\ Merges(t)
    BY <1>1, <1>2, <1>6, <2>1 DEF ListsTyped, Merges, Shows, Done, Committed, Reconciled
  <2> QED BY <1>1, <1>3, <1>4, <2>2, EndsKeeps
<1> QED BY <1>5, <1>6

\* The manual rules keep the change, or go back to the snapshot.
LEMMA FinishManualKeeps ==
  ASSUME SourcesInv, NEW k \in Slots, task[k] # NoTask, task[k].stage = "done",
         FinishManual(k, task[k])
  PROVE  SourcesInv'
<1> DEFINE t == task[k]
<1>1. /\ t \in Tasks /\ t.op = "manual" /\ t.item = Manual /\ t.item \in Items
      /\ t.item \notin Rules /\ t.item \notin Subs /\ t.item \notin Nodes /\ Ends(k)
      /\ t.prev \in Record
      /\ ~astray /\ transfer # "replaced" => Shows(t, ui[t.item], store[t.item])
      /\ ListsTyped /\ WindowTyped /\ UNCHANGED <<store, tun, astray, transfer>>
  BY DoneFollows, ItemsApart DEF FinishManual, Sound, SourcesInv, SourcesTypeOK, Ends
<1>2. /\ routing' = FALSE /\ UNCHANGED <<sub, proxy, rules>>
      /\ IF Committed(t) THEN Reconciled(t) /\ UNCHANGED ui
                         ELSE ui' = [ui EXCEPT ![Manual] = t.prev] /\ UNCHANGED mode
  BY DEF FinishManual, Merged
<1>3. Releases(k, t)
  BY <1>1, <1>2 DEF Releases, Routed
<1>4. WindowTyped'
  BY <1>1, <1>2 DEF WindowTyped, Reconciled
<1>5. CASE Committed(t)
  <2>1. ListsTyped' /\ Merges(t)
    BY <1>1, <1>2, <1>5 DEF ListsTyped, Merges, Shows, Done, Reconciled
  <2> QED BY <1>1, <1>3, <1>4, <2>1, EndsKeeps
<1>6. CASE ~Committed(t)
  <2>1. ListsTyped' /\ ui'[t.item] = t.prev /\ \A h \in Items \ {t.item} : ui'[h] = ui[h]
    BY <1>1, <1>2, <1>6, MergeIsTyped, SourcesAssumption
  <2>2. Merges(t)
    BY <1>1, <1>2, <1>6, <2>1 DEF Merges, Shows, Done, Committed
  <2> QED BY <1>1, <1>3, <1>4, <2>1, <2>2, EndsKeeps
<1> QED BY <1>5, <1>6

\* What a completed task of a rule source has to show.
LEMMA RuleEndsKeeps ==
  ASSUME SourcesInv, NEW k \in Slots, task[k] # NoTask, task[k].item \in Rules,
         Ends(k), UNCHANGED <<sub, proxy, routing>>,
         Merges(task[k]), ListsTyped', WindowTyped'
  PROVE  SourcesInv'
<1>1. task[k].item \notin Subs \cup Nodes /\ task[k].item # Manual
  BY SourcesAssumption
<1>2. Releases(k, task[k])
  BY <1>1 DEF Releases, Routed
<1> QED BY <1>2, EndsKeeps

\* The result of a rule task is dropped only if another ran beside it.
LEMMA RuleDropsKeeps ==
  ASSUME SourcesInv, NEW k \in Slots, task[k] # NoTask, task[k].item \in Rules,
         astray, Ends(k), Dropped
  PROVE  SourcesInv'
<1>1. ListsTyped' /\ WindowTyped'
  BY DEF SourcesInv, SourcesTypeOK, ListsTyped, WindowTyped, Ends, Dropped
<1>2. Merges(task[k])
  BY DEF Merges, Dropped
<1> QED BY <1>1, <1>2, RuleEndsKeeps DEF Dropped

\* finish_qx_rule_import: an address that the store has already is reported
\* only when a task went astray, and so no loss of TUN goes unnoticed.
LEMMA FinishSaveRuleKeeps ==
  ASSUME SourcesInv, NEW k \in Slots, task[k] # NoTask, task[k].stage = "done",
         FinishSaveRule(k, task[k])
  PROVE  SourcesInv'
<1> DEFINE t == task[k]
<1>1. /\ t \in Tasks /\ t.op = "save" /\ t.item \in Rules /\ t.item \in Items /\ t.item # Manual
      /\ Ends(k) /\ t.rec \in Record \cup {Absent}
      /\ ~astray => rules.gen = k
      /\ ~astray /\ transfer # "replaced" => Shows(t, ui[t.item], store[t.item])
      /\ ListsTyped /\ WindowTyped /\ UNCHANGED <<store, tun, astray, transfer>>
  BY DoneFollows, ItemsApart DEF FinishSaveRule, RuleIndicated, SourcesInv, SourcesTypeOK, Ends
<1>2. CASE rules.gen # k
  BY <1>1, <1>2, RuleDropsKeeps DEF FinishSaveRule
<1>3. CASE rules.gen = k
  <2>1. UNCHANGED <<sub, proxy, routing>>
    BY <1>3 DEF FinishSaveRule
  <2>2. CASE Committed(t) /\ ~Existing(t)
    <3>1. /\ rules' = [rules EXCEPT !.importing = FALSE, !.gen = 0, !.refreshing[t.item] = 0]
          /\ ui' = [ui EXCEPT ![t.item] = t.rec] /\ Reconciled(t)
      BY <1>3, <2>2 DEF FinishSaveRule, Merged
    <3>2. ListsTyped' /\ ui'[t.item] = t.rec /\ \A h \in Items \ {t.item} : ui'[h] = ui[h]
      BY <1>1, <3>1, MergeIsTyped
    <3>3. WindowTyped'
      BY <1>1, <2>1, <3>1 DEF WindowTyped, Gens, Reconciled
    <3>4. Merges(t)
      BY <1>1, <2>2, <3>1, <3>2 DEF Merges, Shows, Done, Reconciled
    <3> QED BY <1>1, <2>1, <3>2, <3>3, <3>4, RuleEndsKeeps
  <2>3. CASE ~(Committed(t) /\ ~Existing(t))
    <3>1. /\ rules' = [rules EXCEPT !.importing = FALSE, !.gen = 0] /\ UNCHANGED mode
          /\ ui' = IF Committed(t) /\ ui[t.item] = Absent THEN [ui EXCEPT ![t.item] = t.rec] ELSE ui
      BY <1>3, <2>3 DEF FinishSaveRule
    <3>2. ListsTyped' /\ \A h \in Items \ {t.item} : ui'[h] = ui[h]
      <4>1. CASE Committed(t) /\ ui[t.item] = Absent
        BY <1>1, <3>1, <4>1, MergeIsTyped
      <4>2. CASE ~(Committed(t) /\ ui[t.item] = Absent)
        BY <1>1, <3>1, <4>2 DEF ListsTyped
      <4> QED BY <4>1, <4>2
    <3>3. WindowTyped'
      BY <1>1, <2>1, <3>1 DEF WindowTyped, Gens
    <3>4. ~astray /\ transfer # "replaced" => ~Committed(t)
      BY <1>1, <2>3 DEF Shows, Existing
    <3>5. Merges(t)
      BY <1>1, <3>1, <3>2, <3>4 DEF Merges, Shows, Done, Committed
    <3> QED BY <1>1, <2>1, <3>2, <3>3, <3>5, RuleEndsKeeps
  <2> QED BY <2>2, <2>3
<1> QED BY <1>2, <1>3

\* ... of a refresh or a change, whose result is merged if the source is shown
LEMMA RuleMergesKeeps ==
  ASSUME SourcesInv, NEW k \in Slots, task[k] # NoTask, task[k].stage = "done",
         task[k].item \in Rules, task[k].op \in {"refresh", "toggle", "target"}, Ends(k),
         UNCHANGED <<sub, proxy, routing>>,
         IF Committed(task[k])
           THEN MergedIfShown(task[k].item, task[k].rec) /\ Reconciled(task[k])
           ELSE UNCHANGED <<ui, mode>>,
         rules' \in [importing : BOOLEAN, gen : Gens, editor : Rules \cup {"closed", "new"},
                     refreshing : [Rules -> Gens], updating : [Rules -> Gens]]
  PROVE  SourcesInv'
<1> DEFINE t == task[k]
<1>1. /\ t \in Tasks /\ t.item \in Items /\ t.item # Manual /\ t.rec \in Record \cup {Absent}
      /\ ~astray /\ transfer # "replaced" => Shows(t, ui[t.item], store[t.item])
      /\ ListsTyped /\ WindowTyped /\ UNCHANGED <<store, tun, astray, transfer>>
  BY DoneFollows, ItemsApart DEF SourcesInv, SourcesTypeOK, Ends
<1>2. WindowTyped'
  BY <1>1 DEF WindowTyped, Reconciled
<1>3. CASE Committed(t) /\ ui[t.item] # Absent
  <2>1. ui' = [ui EXCEPT ![t.item] = t.rec]
    BY <1>3 DEF MergedIfShown
  <2>2. ListsTyped' /\ ui'[t.item] = t.rec /\ \A h \in Items \ {t.item} : ui'[h] = ui[h]
    BY <1>1, <2>1, MergeIsTyped
  <2>3. Merges(t)
    BY <1>1, <1>3, <2>2 DEF Merges, Shows, Done, Reconciled
  <2> QED BY <1>1, <1>2, <2>2, <2>3, RuleEndsKeeps
<1>4. CASE ~(Committed(t) /\ ui[t.item] # Absent)
  <2>1. ui' = ui
    BY <1>4 DEF MergedIfShown
  <2>2. ListsTyped' /\ Merges(t)
    BY <1>1, <1>4, <2>1 DEF ListsTyped, Merges, Shows, Done, Committed, Reconciled
  <2> QED BY <1>1, <1>2, <2>2, RuleEndsKeeps
<1> QED BY <1>3, <1>4

\* finish_qx_rule_source_refresh
LEMMA FinishRefreshRuleKeeps ==
  ASSUME SourcesInv, NEW k \in Slots, task[k] # NoTask, task[k].stage = "done",
         FinishRefreshRule(k, task[k])
  PROVE  SourcesInv'
<1> DEFINE t == task[k]
<1>1. /\ t.op = "refresh" /\ t.item \in Rules /\ Ends(k) /\ WindowTyped
      /\ ~astray => rules.refreshing[t.item] = k
  BY DoneFollows DEF FinishRefreshRule, RuleIndicated, SourcesInv, SourcesTypeOK
<1>2. CASE rules.refreshing[t.item] # k
  BY <1>1, <1>2, RuleDropsKeeps DEF FinishRefreshRule
<1>3. CASE rules.refreshing[t.item] = k
  <2>1. /\ rules' = [rules EXCEPT !.refreshing[t.item] = 0, !.gen = Retired(k)]
        /\ UNCHANGED <<sub, proxy, routing>>
        /\ IF Committed(t) THEN MergedIfShown(t.item, t.rec) /\ Reconciled(t)
                           ELSE UNCHANGED <<ui, mode>>
    BY <1>3 DEF FinishRefreshRule
  <2>2. Retired(k) \in Gens
    BY <1>1 DEF WindowTyped, Retired, Gens
  <2>3. rules' \in [importing : BOOLEAN, gen : Gens, editor : Rules \cup {"closed", "new"},
                    refreshing : [Rules -> Gens], updating : [Rules -> Gens]]
    BY <1>1, <2>1, <2>2 DEF WindowTyped, Gens
  <2> QED BY <1>1, <2>1, <2>3, RuleMergesKeeps
<1> QED BY <1>2, <1>3

\* set_qx_rule_source_enabled, finish_qx_rule_target_update
LEMMA FinishChangeRuleKeeps ==
  ASSUME SourcesInv, NEW k \in Slots, task[k] # NoTask, task[k].stage = "done",
         FinishChangeRule(k, task[k])
  PROVE  SourcesInv'
<1> DEFINE t == task[k]
<1>1. /\ t.op \in {"toggle", "target"} /\ t.item \in Rules /\ Ends(k) /\ WindowTyped
      /\ ~astray => rules.updating[t.item] = k
  BY DoneFollows DEF FinishChangeRule, RuleIndicated, SourcesInv, SourcesTypeOK
<1>2. CASE rules.updating[t.item] # k
  BY <1>1, <1>2, RuleDropsKeeps DEF FinishChangeRule
<1>3. CASE rules.updating[t.item] = k
  <2>1. /\ rules' = [rules EXCEPT !.updating[t.item] = 0, !.gen = Retired(k)]
        /\ UNCHANGED <<sub, proxy, routing>>
        /\ IF Committed(t) THEN MergedIfShown(t.item, t.rec) /\ Reconciled(t)
                           ELSE UNCHANGED <<ui, mode>>
    BY <1>3 DEF FinishChangeRule
  <2>2. Retired(k) \in Gens
    BY <1>1 DEF WindowTyped, Retired, Gens
  <2>3. rules' \in [importing : BOOLEAN, gen : Gens, editor : Rules \cup {"closed", "new"},
                    refreshing : [Rules -> Gens], updating : [Rules -> Gens]]
    BY <1>1, <2>1, <2>2 DEF WindowTyped, Gens
  <2> QED BY <1>1, <2>1, <2>3, RuleMergesKeeps
<1> QED BY <1>2, <1>3

\* remove_qx_rule_source, its completion
LEMMA FinishRemoveRuleKeeps ==
  ASSUME SourcesInv, NEW k \in Slots, task[k] # NoTask, task[k].stage = "done",
         FinishRemoveRule(k, task[k])
  PROVE  SourcesInv'
<1> DEFINE t == task[k]
<1>1. /\ t \in Tasks /\ t.op = "remove" /\ t.item \in Rules /\ t.item \in Items /\ t.item # Manual
      /\ Ends(k) /\ (Committed(t) => t.rec = Absent)
      /\ ~astray => rules.gen = k
      /\ ~astray /\ transfer # "replaced" => Shows(t, ui[t.item], store[t.item])
      /\ ListsTyped /\ WindowTyped /\ UNCHANGED <<store, tun, astray, transfer>>
  BY DoneFollows, ItemsApart DEF FinishRemoveRule, RuleIndicated, SourcesInv, SourcesTypeOK, Ends
<1>2. CASE rules.gen # k
  BY <1>1, <1>2, RuleDropsKeeps DEF FinishRemoveRule
<1>3. CASE rules.gen = k
  <2>1. UNCHANGED <<sub, proxy, routing>>
    BY <1>3 DEF FinishRemoveRule
  <2>2. CASE Committed(t)
    <3>1. /\ rules' = [rules EXCEPT !.importing = FALSE, !.gen = 0, !.refreshing[t.item] = 0]
          /\ ui' = [ui EXCEPT ![t.item] = Absent] /\ Reconciled(t)
      BY <1>3, <2>2 DEF FinishRemoveRule, Merged
    <3>2. ListsTyped' /\ ui'[t.item] = Absent /\ \A h \in Items \ {t.item} : ui'[h] = ui[h]
      BY <1>1, <3>1, MergeIsTyped
    <3>3. WindowTyped'
      BY <1>1, <2>1, <3>1 DEF WindowTyped, Gens, Reconciled
    <3>4. Merges(t)
      BY <1>1, <2>2, <3>1, <3>2 DEF Merges, Shows, Done, Reconciled
    <3> QED BY <1>1, <2>1, <3>2, <3>3, <3>4, RuleEndsKeeps
  <2>3. CASE ~Committed(t)
    <3>1. rules' = [rules EXCEPT !.importing = FALSE, !.gen = 0] /\ UNCHANGED <<ui, mode>>
      BY <1>3, <2>3 DEF FinishRemoveRule
    <3>2. ListsTyped' /\ WindowTyped'
      BY <1>1, <2>1, <3>1 DEF ListsTyped, WindowTyped, Gens
    <3>3. Merges(t)
      BY <1>1, <2>3, <3>1 DEF Merges, Shows, Done, Committed
    <3> QED BY <1>1, <2>1, <3>2, <3>3, RuleEndsKeeps
  <2> QED BY <2>2, <2>3
<1> QED BY <1>2, <1>3

\* Enabling a subscription refreshes it at once, in the slot of the change.
LEMMA RefreshGoesOn ==
  ASSUME SourcesInv, NEW k \in Slots, task[k] # NoTask, task[k].stage = "done",
         task[k].op = "toggle", task[k].item \in Subs, Committed(task[k]), proxy = 0,
         task' = [task EXCEPT ![k] = Task("refresh", task[k].item)],
         sub' = [sub EXCEPT ![task[k].item] = [state |-> "Refreshing", gen |-> k]],
         ui' = [ui EXCEPT ![task[k].item].on = task[k].rec.on], Reconciled(task[k]),
         UNCHANGED <<store, proxy, rules, routing, transfer, tun, astray>>
  PROVE  SourcesInv'
<1> USE DEF SourcesInv, SourcesTypeOK
<1> DEFINE t == task[k]
           next == Task("refresh", t.item)
           new == [ui[t.item] EXCEPT !.on = t.rec.on]
<1>1. /\ t \in Tasks /\ t.item \in Items /\ t.item # Manual /\ t.item \notin Rules
      /\ t.item \notin Nodes /\ k # 0 /\ t.rec \in Record
      /\ ui[t.item] # Absent /\ ui[t.item] \in Record
      /\ ~astray /\ transfer # "replaced" => Shows(t, ui[t.item], store[t.item])
      /\ task \in [Slots -> Tasks \cup {NoTask}]
  BY DoneFollows, ItemsApart DEF Indicated, ListsTyped, Lists, TasksTyped
<1>2. /\ next \in Tasks /\ next # NoTask /\ next.op = "refresh" /\ next.item = t.item
      /\ next.stage = "work" /\ next.how = "none"
  BY <1>1, TaskIsTyped, TaskIsNoTask DEF Operations
<1>3. new \in Record
  BY <1>1 DEF Record
<1>4. ~astray /\ transfer # "replaced" => new = store[t.item]
  BY <1>1 DEF Shows, Done
<1>5. ui' = [ui EXCEPT ![t.item] = new] /\ task' = [task EXCEPT ![k] = next]
  OBVIOUS
<1> HIDE DEF new, next
<1>6. ListsTyped' /\ ui'[t.item] = new /\ \A h \in Items \ {t.item} : ui'[h] = ui[h]
  BY <1>1, <1>3, <1>5, MergeIsTyped
<1>7. task'[k] = next /\ \A j \in Slots \ {k} : task'[j] = task[j]
  BY <1>1, <1>5
<1>8. new # Absent /\ ~Routed(next)
  BY <1>1, <1>2, <1>3, SourcesAssumption DEF Routed
<1>9. TasksTyped'
  <2>1. Sound(next)
    BY <1>1, <1>2 DEF Sound, Done
  <2>2. task' \in [Slots -> Tasks \cup {NoTask}]
    BY <1>1, <1>2, <1>5
  <2> QED BY <1>7, <2>1, <2>2 DEF TasksTyped, Sound, Done, Committed
<1>10. WindowTyped'
  BY DEF WindowTyped, SubStates, Gens, Reconciled
<1>11. ASSUME NEW j \in Slots, j # k, task'[j] # NoTask
       PROVE  /\ task'[j] = task[j] /\ task[j] # NoTask /\ task[j] \in Tasks
              /\ task[j].item \in Items /\ Indicated(j, task[j]) /\ j # 0
  BY <1>7, <1>11, SourcesAssumption DEF TasksTyped, Indicators, Tasks
<1>12. Indicators'
  <2>1. Indicated(k, task[k])'
    <3>1. sub'[t.item].state = "Refreshing" /\ sub'[t.item].gen = k
      BY DEF WindowTyped
    <3> QED BY <1>1, <1>2, <1>6, <1>7, <1>8, <3>1 DEF Indicated, Engaged, Routed
  <2>2. ASSUME NEW j \in Slots, j # k, task'[j] # NoTask PROVE Indicated(j, task[j])'
    <3>1. task'[j] = task[j] /\ Indicated(j, task[j]) /\ task[j].item \in Items
      BY <1>11, <2>2
    <3>2. ASSUME task[j].item \in Subs, task[j].op # "save" PROVE task[j].item # t.item
      BY <2>2, <3>1, <3>2, DoneFollows DEF Indicated
    <3>3. task[j].item \in Subs /\ task[j].op # "save" =>
            sub'[task[j].item] = sub[task[j].item] /\ ui'[task[j].item] = ui[task[j].item]
      BY <1>6, <3>1, <3>2 DEF WindowTyped
    <3> QED BY <3>1, <3>3 DEF Indicated, Engaged, Routed
  <2> QED BY <2>1, <2>2 DEF Indicators
<1>13. OneRouted'
  <2> SUFFICES ASSUME NEW i \in Slots, NEW j \in Slots, task'[i] # NoTask, task'[j] # NoTask,
                      Routed(task'[i]), Routed(task'[j])
               PROVE  i = j
    BY DEF OneRouted, Routed
  <2>1. i # k /\ j # k
    BY <1>7, <1>8
  <2> QED BY <1>7, <2>1 DEF OneRouted
<1>14. OneRuleTask'
  <2>1. RuleTasks' = RuleTasks /\ \A j \in RuleTasks : task'[j] = task[j]
    BY <1>1, <1>2, <1>7 DEF RuleTasks, Free
  <2> QED BY <2>1 DEF OneRuleTask, RuleIndicated
<1>15. InStep'
  <2>1. ASSUME ~astray, transfer # "replaced", NEW j \in Slots, task'[j] # NoTask
        PROVE  Follows(task[j])'
    <3>1. CASE j = k
      <4>1. Shows(next, new, store[t.item])
        BY <1>2, <1>4, <1>8, <2>1 DEF Shows, Adds, Done
      <4> QED BY <1>2, <1>6, <1>7, <3>1, <4>1 DEF Follows
    <3>2. CASE j # k
      <4>1. task'[j] = task[j] /\ task[j] # NoTask /\ task[j].item \in Items /\ Follows(task[j])
        BY <1>11, <2>1, <3>2 DEF InStep
      <4>2. task[j].item # t.item
        BY <2>1, <3>2, <4>1, OneTaskOfItem
      <4> QED BY <1>6, <4>1, <4>2 DEF Follows
    <3> QED BY <3>1, <3>2
  <2>2. ASSUME ~astray, transfer # "replaced", NEW h \in Items, InFlight(h)' = {}
        PROVE  ui'[h] = store'[h]
    <3>1. h # t.item
      BY <1>2, <1>7, <2>2 DEF InFlight, Free
    <3>2. InFlight(h) = {}
      BY <1>2, <1>7, <2>2, <3>1 DEF InFlight, Free
    <3> QED BY <1>6, <2>2, <3>1, <3>2 DEF InStep
  <2> QED BY <2>1, <2>2 DEF InStep
<1>16. LossIsNoticed'
  <2> SUFFICES ASSUME ~astray, tun = "off", transfer \notin {"stopped", "replaced"}, mode' # "Off"
               PROVE  \E j \in Slots : Losing(task[j])'
    BY DEF LossIsNoticed
  <2>1. PICK j \in Slots : Losing(task[j])
    BY DEF LossIsNoticed, WindowTyped, Reconciled
  <2>2. j # k
    BY <2>1 DEF Losing, Reconciled
  <2> QED BY <1>7, <2>1, <2>2 DEF Losing
<1> QED BY <1>6, <1>9, <1>10, <1>12, <1>13, <1>14, <1>15, <1>16

\* finish_subscription_toggle, with or without the refresh that follows.
LEMMA FinishToggleSubKeeps ==
  ASSUME SourcesInv, NEW k \in Slots, task[k] # NoTask, task[k].stage = "done",
         FinishToggleSub(k, task[k])
  PROVE  SourcesInv'
<1> DEFINE t == task[k]
           refresh == Committed(t) /\ t.rec.on /\ transfer = "off" /\ proxy = 0
<1>1. /\ t \in Tasks /\ t.op = "toggle" /\ t.item \in Subs /\ t.item \in Items /\ t.item # Manual
      /\ t.item \notin Rules /\ t.item \notin Nodes /\ sub[t.item].gen = k /\ ui[t.item] # Absent
      /\ t.rec \in Record \cup {Absent} /\ (Committed(t) => t.rec # Absent) /\ t.prev \in SubStates
      /\ ~astray /\ transfer # "replaced" => Shows(t, ui[t.item], store[t.item])
      /\ ListsTyped /\ WindowTyped
  BY DoneFollows, ItemsApart DEF FinishToggleSub, Indicated, Sound, SourcesInv, SourcesTypeOK
<1>2. /\ UNCHANGED <<store, proxy, rules, routing, retry, transfer, tun, ops, astray>>
      /\ IF Committed(t) THEN ui' = [ui EXCEPT ![t.item].on = t.rec.on] /\ Reconciled(t)
                         ELSE UNCHANGED <<ui, mode>>
      /\ IF refresh THEN task' = [task EXCEPT ![k] = Task("refresh", t.item)]
                    ELSE task' = [task EXCEPT ![k] = NoTask]
      /\ Shown(t.item, IF refresh THEN k ELSE 0,
                       IF ~Committed(t) THEN t.prev
                       ELSE IF refresh THEN "Refreshing"
                       ELSE IF t.rec.on THEN "Pending" ELSE "None")
  BY <1>1 DEF FinishToggleSub
<1>3. CASE refresh
  BY <1>1, <1>2, <1>3, RefreshGoesOn DEF Shown
<1>4. CASE ~refresh /\ Committed(t)
  <2> DEFINE new == [ui[t.item] EXCEPT !.on = t.rec.on]
  <2>1. /\ ui' = [ui EXCEPT ![t.item] = new] /\ Reconciled(t) /\ Ends(k)
        /\ sub' = [sub EXCEPT ![t.item] = [state |-> IF t.rec.on THEN "Pending" ELSE "None",
                                           gen |-> 0]]
    BY <1>2, <1>4 DEF Shown, Ends
  <2>2. new \in Record
    <3>1. ui[t.item] \in Record /\ t.rec \in Record
      BY <1>1, <1>4 DEF ListsTyped, Lists
    <3> QED BY <3>1 DEF Record
  <2>3. ~astray /\ transfer # "replaced" => new = store[t.item]
    BY <1>1, <1>4 DEF Shows, Done
  <2> HIDE DEF new
  <2>4. ListsTyped' /\ ui'[t.item] = new /\ \A h \in Items \ {t.item} : ui'[h] = ui[h]
    BY <1>1, <1>2, <2>1, <2>2, MergeIsTyped
  <2>5. WindowTyped'
    BY <1>1, <1>2, <2>1 DEF WindowTyped, SubStates, Gens, Reconciled
  <2>6. Releases(k, t)
    BY <1>1, <1>2, <2>1 DEF Releases, WindowTyped, Routed
  <2>7. Merges(t)
    BY <1>1, <2>1, <2>3, <2>4 DEF Merges, Reconciled
  <2> QED BY <1>1, <2>1, <2>4, <2>5, <2>6, <2>7, EndsKeeps
<1>5. CASE ~Committed(t)
  <2>1. /\ UNCHANGED <<ui, mode>> /\ Ends(k)
        /\ sub' = [sub EXCEPT ![t.item] = [state |-> t.prev, gen |-> 0]]
    BY <1>2, <1>5 DEF Shown, Ends
  <2>2. ListsTyped' /\ WindowTyped'
    BY <1>1, <1>2, <2>1 DEF ListsTyped, WindowTyped, SubStates, Gens
  <2>3. Releases(k, t)
    BY <1>1, <1>2, <2>1 DEF Releases, Routed, WindowTyped
  <2>4. Merges(t)
    BY <1>1, <1>5, <2>1 DEF Merges, Shows, Done, Committed
  <2> QED BY <1>1, <2>1, <2>2, <2>3, <2>4, EndsKeeps
<1> QED BY <1>3, <1>4, <1>5

\* Every result keeps the invariant.
LEMMA FinishKeeps ==
  ASSUME SourcesInv, NEW k \in Slots, Finish(k)
  PROVE  SourcesInv'
BY FinishImportSubKeeps, FinishImportNodeKeeps, FinishRefreshSubKeeps, FinishToggleSubKeeps,
   FinishRemoveSubKeeps, FinishNodeKeeps, FinishManualKeeps, FinishSaveRuleKeeps,
   FinishRefreshRuleKeeps, FinishChangeRuleKeeps, FinishRemoveRuleKeeps
   DEF Finish

-----------------------------------------------------------------------------
(* The invariant                                                           *)

\* import_remote_subscription
LEMMA ImportSubKeeps ==
  ASSUME SourcesInv, NEW s \in Subs, NEW how \in {"new", "meta", "url"}, NEW def \in Defs,
         NEW on \in BOOLEAN, ImportSub(s, how, def, on)
  PROVE  SourcesInv'
<1> DEFINE t == [Task("save", s) EXCEPT !.how = how, !.def = def, !.on = on]
<1>1. Task("save", s) \in Tasks /\ Task("save", s).op = "save" /\ Task("save", s).item = s
      /\ Task("save", s).stage = "work"
  BY TaskIsTyped DEF Operations, Items
<1>2. t \in Tasks /\ t.op = "save" /\ t.item = s /\ t.stage = "work" /\ t.def = def
  BY <1>1, ZenonT(40) DEF Tasks
<1>3. SubmitProxy(s, how, t)
  BY DEF ImportSub
<1> HIDE DEF t
<1> QED BY <1>2, <1>3, SubmitProxyKeeps

\* import_single_node
LEMMA ImportNodeKeeps ==
  ASSUME SourcesInv, NEW n \in Nodes, NEW how \in {"new", "meta", "url"}, NEW def \in Defs,
         NEW on \in BOOLEAN, ImportNode(n, how, def, on)
  PROVE  SourcesInv'
<1> DEFINE t == [Task("save", n) EXCEPT !.how = how, !.def = def, !.on = on]
<1>1. Task("save", n) \in Tasks /\ Task("save", n).op = "save" /\ Task("save", n).item = n
      /\ Task("save", n).stage = "work"
  BY TaskIsTyped DEF Operations, Items
<1>2. t \in Tasks /\ t.op = "save" /\ t.item = n /\ t.stage = "work" /\ t.def = def
  BY <1>1, ZenonT(40) DEF Tasks
<1>3. SubmitProxy(n, how, t)
  BY DEF ImportNode
<1> HIDE DEF t
<1> QED BY <1>2, <1>3, SubmitProxyKeeps

\* set_subscription_enabled
LEMMA ToggleSubKeeps ==
  ASSUME SourcesInv, NEW s \in Subs, ToggleSub(s)
  PROVE  SourcesInv'
<1> DEFINE t == [Task("toggle", s) EXCEPT !.on = ~ui[s].on, !.prev = sub[s].state]
<1>1. /\ s \in Items /\ s # Manual /\ s \notin Rules /\ s \notin Nodes /\ ui[s] # Absent
      /\ WindowTyped /\ ListsTyped
  BY ItemsApart DEF ToggleSub, Items, SourcesInv, SourcesTypeOK
<1>2. Task("toggle", s) \in Tasks /\ Task("toggle", s).op = "toggle"
      /\ Task("toggle", s).item = s /\ Task("toggle", s).stage = "work"
  BY <1>1, TaskIsTyped DEF Operations
<1>3. t \in Tasks /\ t.op = "toggle" /\ t.item = s /\ t.stage = "work" /\ t.prev = sub[s].state
      /\ sub[s].state \in SubStates
  <2>1. sub[s].state \in SubStates
    BY <1>1 DEF WindowTyped
  <2> QED BY <1>2, <2>1 DEF Tasks
<1>4. Sound(t)
  BY <1>1, <1>3 DEF Sound, Done
<1>5. PICK k \in Slots :
        /\ Start(k, t) /\ sub' = [sub EXCEPT ![s] = [state |-> "Refreshing", gen |-> k]] /\ ~Busy
        /\ UNCHANGED <<store, ui, mode, tun, proxy, rules, routing, transfer>>
  BY DEF ToggleSub, Shown, Kept, Idle
<1> HIDE DEF t
<1>6. Begins(k, t)
  BY <1>1, <1>3, <1>4, <1>5 DEF Start, NextSlot, Free, Begins, Adds
<1>7. WindowTyped'
  BY <1>1, <1>5, <1>6 DEF WindowTyped, SubStates, Gens, Begins
<1>8. Claims(k, t)
  BY <1>1, <1>3, <1>5 DEF Claims, Busy, Engaged, Routed, WindowTyped
<1> QED BY <1>6, <1>7, <1>8, BeginsKeeps

\* remove_imported_subscription
LEMMA RemoveSubKeeps ==
  ASSUME SourcesInv, NEW s \in Subs, RemoveSub(s)
  PROVE  SourcesInv'
<1> DEFINE t == Task("remove", s)
<1>1. /\ s \in Items /\ s # Manual /\ s \notin Rules /\ s \notin Nodes /\ ui[s] # Absent
      /\ WindowTyped
  BY ItemsApart DEF RemoveSub, Items, SourcesInv, SourcesTypeOK
<1>2. t \in Tasks /\ t.op = "remove" /\ t.item = s /\ t.stage = "work"
  BY <1>1, TaskIsTyped DEF Operations
<1>3. PICK k \in Slots :
        /\ Start(k, t) /\ sub' = [sub EXCEPT ![s] = [state |-> "Removing", gen |-> k]] /\ ~Busy
        /\ UNCHANGED <<store, ui, mode, tun, proxy, rules, routing, transfer>>
  BY DEF RemoveSub, Shown, Kept, Idle
<1> HIDE DEF t
<1>4. Sound(t)
  BY <1>1, <1>2 DEF Sound, Done
<1>5. Begins(k, t)
  BY <1>1, <1>2, <1>3, <1>4 DEF Start, NextSlot, Free, Begins, Adds
<1>6. WindowTyped'
  BY <1>1, <1>3, <1>5 DEF WindowTyped, SubStates, Gens, Begins
<1>7. Claims(k, t)
  BY <1>1, <1>2, <1>3 DEF Claims, Busy, Engaged, Routed, WindowTyped
<1> QED BY <1>5, <1>6, <1>7, BeginsKeeps

\* set_single_node_enabled, remove_saved_single_node
LEMMA NodesKeep ==
  ASSUME SourcesInv, NEW n \in Nodes, ToggleNode(n) \/ RemoveNode(n)
  PROVE  SourcesInv'
<1> DEFINE t == [Task("toggle", n) EXCEPT !.on = ~ui[n].on]
<1>1. \A op \in {"toggle", "remove"} :
        /\ Task(op, n) \in Tasks /\ Task(op, n).op = op /\ Task(op, n).item = n
        /\ Task(op, n).stage = "work"
  BY TaskIsTyped DEF Operations, Items
<1>2. t \in Tasks /\ t.op = "toggle" /\ t.item = n /\ t.stage = "work"
  BY <1>1, ZenonT(40) DEF Tasks
<1>3. CASE ToggleNode(n)
  <2>1. ChangeNode(n, t)
    BY <1>3 DEF ToggleNode
  <2> HIDE DEF t
  <2> QED BY <1>2, <2>1, ChangeNodeKeeps
<1>4. CASE RemoveNode(n)
  BY <1>1, <1>4, ChangeNodeKeeps DEF RemoveNode
<1> QED BY <1>3, <1>4

\* persist_manual_rules: the list is ahead of the store while its task runs.
LEMMA EditManualKeeps ==
  ASSUME SourcesInv, NEW def \in Defs, EditManual(def)
  PROVE  SourcesInv'
<1> DEFINE t == [Task("manual", Manual) EXCEPT !.def = def, !.prev = ui[Manual]]
<1>1. /\ Manual \in Items /\ Manual \notin Rules \cup Subs \cup Nodes /\ WindowTyped
      /\ ui[Manual] \in Record
  BY SourcesAssumption DEF Items, SourcesInv, SourcesTypeOK, ListsTyped, Lists
<1>2. /\ Task("manual", Manual) \in Tasks /\ Task("manual", Manual).op = "manual"
      /\ Task("manual", Manual).item = Manual /\ Task("manual", Manual).stage = "work"
      /\ Task("manual", Manual).how = "none"
  BY <1>1, TaskIsTyped DEF Operations
<1>3. /\ t \in Tasks /\ t.op = "manual" /\ t.item = Manual /\ t.stage = "work" /\ t.def = def
      /\ t.prev = ui[Manual]
  <2> DEFINE shown == ui[Manual]
  <2>1. shown \in SubStates \cup Record \cup {Absent}
    BY <1>1
  <2> HIDE DEF shown
  <2>2. [Task("manual", Manual) EXCEPT !.def = def, !.prev = shown] \in Tasks
    BY <1>2, <2>1, ZenonT(40) DEF Tasks
  <2> QED BY <1>2, <2>2, SMTT(30) DEF Tasks, shown
<1>4. PICK k \in Slots : Start(k, t)
  BY DEF EditManual
<1>5. /\ ui' = [ui EXCEPT ![Manual].def = def] /\ ~routing /\ routing' = TRUE
      /\ UNCHANGED <<store, sub, proxy, rules, transfer, mode, tun>>
  BY DEF EditManual
<1> HIDE DEF t
<1>6. Sound(t)
  BY <1>1, <1>3 DEF Sound, Done
<1>7. Begins(k, t)
  BY <1>1, <1>3, <1>4, <1>5, <1>6 DEF Start, NextSlot, Free, Begins, Adds
<1>8. WindowTyped'
  BY <1>1, <1>5, <1>7 DEF WindowTyped, Begins
<1>9. Claims(k, t)
  BY <1>1, <1>3, <1>5 DEF Claims, Routed
<1> QED BY <1>7, <1>8, <1>9, BeginsKeeps

\* submit_qx_rule_import
LEMMA SubmitRuleKeeps ==
  ASSUME SourcesInv, NEW r \in Rules, NEW how \in {"new", "name", "meta", "url"},
         NEW def \in Defs, SubmitRule(r, how, def)
  PROVE  SourcesInv'
<1> DEFINE stage == IF how = "new" THEN "work" ELSE "read"
           base == Task("save", r)
           t == [base EXCEPT !.how = how, !.def = def, !.stage = stage]
<1>1. base \in Tasks /\ Task("save", r).op = "save" /\ Task("save", r).item = r
  BY TaskIsTyped DEF Operations, Items
<1>2. stage \in {"work", "read"}
  OBVIOUS
<1>3. PICK k \in Slots :
        /\ Start(k, t)
        /\ rules' = [rules EXCEPT !.importing = TRUE, !.gen = k, !.editor = "closed"]
  BY DEF SubmitRule
<1> HIDE DEF stage
<1>4. /\ t \in Tasks /\ t.op = "save" /\ t.item = r /\ t.stage # "done" /\ t.def = def
      /\ t.how = how
  <2>1. base.op = "save" /\ base.item = r
    BY <1>1
  <2> HIDE DEF base
  <2>2. t \in Tasks
    BY <1>1, <1>2, ZenonT(40) DEF Tasks
  <2>3. t.op = "save" /\ t.item = r /\ t.stage = stage /\ t.def = def /\ t.how = how
    BY <1>1, <2>1 DEF Tasks
  <2> QED BY <1>2, <2>2, <2>3
<1>5. how = "new" => ui[r] = Absent
  BY DEF SubmitRule
<1>6. UNCHANGED <<store, ui, mode, tun, sub, proxy, routing, transfer>>
  BY DEF SubmitRule, Kept
<1> HIDE DEF t
<1>7. WindowTyped' /\ rules'.gen = k
  BY <1>3, <1>6 DEF SourcesInv, SourcesTypeOK, WindowTyped, Gens, Start
<1>8. Adds(t) => ui[r] = Absent
  BY <1>4, <1>5 DEF Adds
<1> QED BY <1>3, <1>4, <1>6, <1>7, <1>8, RuleTaskKeeps

\* A rule source is switched, or gets another target.
LEMMA ChangeRuleKeeps ==
  ASSUME SourcesInv, NEW r \in Rules, NEW t \in Tasks, t.op \in {"toggle", "target"},
         t.item = r, t.stage = "work", t.op = "target" => t.def \in Defs, ChangeRule(r, t)
  PROVE  SourcesInv'
<1>1. PICK k \in Slots : Start(k, t) /\ rules' = [rules EXCEPT !.updating[r] = k, !.gen = k]
  BY DEF ChangeRule
<1>2. ui[r] # Absent /\ UNCHANGED <<store, ui, mode, tun, sub, proxy, routing, transfer>>
  BY DEF ChangeRule, Kept
<1>3. WindowTyped' /\ rules'.gen = k /\ rules'.updating[r] = k
  BY <1>1, <1>2 DEF SourcesInv, SourcesTypeOK, WindowTyped, Gens, Start
<1> QED BY <1>1, <1>2, <1>3, RuleTaskKeeps DEF Adds

\* The changes of a rule source from its card.
LEMMA RulesKeep ==
  ASSUME SourcesInv, NEW r \in Rules,
         \/ ToggleRule(r) \/ RemoveRule(r) \/ RefreshRule(r) \/ \E def \in Defs : TargetRule(r, def)
  PROVE  SourcesInv'
<1>1. \A op \in {"toggle", "target", "remove"} :
        /\ Task(op, r) \in Tasks /\ Task(op, r).op = op /\ Task(op, r).item = r
        /\ Task(op, r).stage = "work"
  BY TaskIsTyped DEF Operations, Items
<1>2. CASE ToggleRule(r)
  <2> DEFINE t == [Task("toggle", r) EXCEPT !.on = ~ui[r].on]
  <2>1. t \in Tasks /\ t.op = "toggle" /\ t.item = r /\ t.stage = "work"
    BY <1>1, ZenonT(40) DEF Tasks
  <2>2. ChangeRule(r, t)
    BY <1>2 DEF ToggleRule
  <2> HIDE DEF t
  <2> QED BY <2>1, <2>2, ChangeRuleKeeps
<1>3. ASSUME NEW def \in Defs, TargetRule(r, def) PROVE SourcesInv'
  <2> DEFINE t == [Task("target", r) EXCEPT !.def = def]
  <2>1. t \in Tasks /\ t.op = "target" /\ t.item = r /\ t.stage = "work" /\ t.def = def
    BY <1>1, ZenonT(40) DEF Tasks
  <2>2. ChangeRule(r, t)
    BY <1>3 DEF TargetRule
  <2> HIDE DEF t
  <2> QED BY <2>1, <2>2, ChangeRuleKeeps
<1>4. CASE RemoveRule(r)
  <2>1. PICK k \in Slots : /\ Start(k, Task("remove", r))
                           /\ rules' = [rules EXCEPT !.importing = TRUE, !.gen = k]
    BY <1>4 DEF RemoveRule
  <2>2. ui[r] # Absent /\ UNCHANGED <<store, ui, mode, tun, sub, proxy, routing, transfer>>
    BY <1>4 DEF RemoveRule, Kept
  <2>3. WindowTyped' /\ rules'.gen = k
    BY <2>1, <2>2 DEF SourcesInv, SourcesTypeOK, WindowTyped, Gens, Start
  <2> QED BY <1>1, <2>1, <2>2, <2>3, RuleTaskKeeps DEF Adds
<1>5. CASE RefreshRule(r)
  BY <1>5, RefreshRuleKeeps DEF RefreshRule
<1> QED BY <1>2, <1>3, <1>4, <1>5

\* No step of the editor window or of a configuration replacement is about a task;
\* the replacement itself leaves the lists behind until the application restarts.
LEMMA OthersKeep ==
  ASSUME SourcesInv,
         \/ OpenNewRule \/ CloseRule \/ \E r \in Rules : OpenRule(r)
         \/ BeginTransfer \/ CancelTransfer \/ Replace \/ ReplaceWork \/ ReplaceFailed
  PROVE  SourcesInv'
<1>1. WindowTyped /\ LossIsNoticed
  BY DEF SourcesInv, SourcesTypeOK
<1>2. CASE OpenNewRule \/ CloseRule \/ \E r \in Rules : OpenRule(r)
  <2>1. Rests /\ UNCHANGED <<transfer, mode>>
    BY <1>2 DEF OpenNewRule, CloseRule, OpenRule, Kept, Rests
  <2>2. ASSUME OpenNewRule PROVE Quietly /\ WindowTyped'
    <3>1. rules' = [rules EXCEPT !.editor = "new", !.importing = FALSE]
      BY <2>2 DEF OpenNewRule
    <3> QED BY <1>1, <2>1, <3>1 DEF Quietly, WindowTyped, Rests
  <2>3. ASSUME NEW e \in Rules \cup {"closed", "new"}, rules' = [rules EXCEPT !.editor = e]
        PROVE  Quietly /\ WindowTyped'
    BY <1>1, <2>1, <2>3 DEF Quietly, WindowTyped, Rests
  <2>4. Quietly /\ WindowTyped'
    <3>1. CASE CloseRule
      BY <2>3, <3>1 DEF CloseRule
    <3>2. CASE \E r \in Rules : OpenRule(r)
      BY <2>3, <3>2 DEF OpenRule
    <3> QED BY <1>2, <2>2, <3>1, <3>2
  <2>5. LossIsNoticed'
    BY <1>1, <2>1 DEF LossIsNoticed, Losing, Rests
  <2> QED BY <2>1, <2>4, <2>5, RestsKeeps
<1>3. CASE BeginTransfer \/ CancelTransfer \/ Replace
  <2>1. Rests /\ Quietly /\ mode' = mode
    BY <1>3 DEF BeginTransfer, CancelTransfer, Replace, Kept, Rests, Quietly
  <2>2. /\ transfer \notin {"stopped", "replaced"}
        /\ transfer' \in {"off", "open", "replacing"} /\ rules' = rules
    BY <1>3 DEF BeginTransfer, CancelTransfer, Replace, Moves
  <2>3. WindowTyped'
    BY <1>1, <2>1, <2>2 DEF WindowTyped, Rests
  <2>4. LossIsNoticed'
    BY <1>1, <2>1, <2>2 DEF LossIsNoticed, Losing, Rests
  <2> QED BY <2>1, <2>2, <2>3, <2>4, RestsKeeps
<1>4. CASE ReplaceFailed
  <2>1. Rests /\ Quietly /\ transfer # "replaced" /\ transfer' = "open" /\ rules' = rules
    BY <1>4 DEF ReplaceFailed, Moves, Rests, Quietly
  <2>2. (transfer = "running" /\ mode' = mode) \/ mode' = "Off"
    BY <1>4 DEF ReplaceFailed, Moves
  <2>3. WindowTyped'
    BY <1>1, <2>1, <2>2 DEF WindowTyped, Rests
  <2>4. LossIsNoticed'
    BY <1>1, <2>1, <2>2 DEF LossIsNoticed, Losing, Rests
  <2> QED BY <2>1, <2>3, <2>4, RestsKeeps
<1>5. CASE ReplaceWork
  <2> USE DEF SourcesInv, SourcesTypeOK
  <2>1. /\ transfer = "replacing" /\ transfer' \in {"running", "stopped", "replaced"}
        /\ UNCHANGED <<ui, sub, proxy, rules, routing, task, mode, astray>>
        /\ store' \in {store, Imported} /\ tun' \in {tun, "off"}
        /\ transfer' = "running" => tun' = tun
        /\ transfer' # "replaced" => store' = store
    BY <1>5 DEF ReplaceWork, Moves
  <2>2. ListsTyped' /\ WindowTyped'
    BY <2>1, SourcesAssumption DEF ListsTyped, WindowTyped
  <2>3. TasksTyped' /\ Indicators' /\ OneRouted' /\ OneRuleTask'
    BY <2>1 DEF TasksTyped, Sound, Done, Committed, Indicators, Indicated, OneRouted, Routed,
                Engaged, OneRuleTask, RuleTasks, Free, RuleIndicated
  <2>4. InStep'
    BY <2>1 DEF InStep, Follows, InFlight, Free
  <2>5. LossIsNoticed'
    BY <2>1 DEF LossIsNoticed, Losing
  <2> QED BY <2>2, <2>3, <2>4, <2>5
<1> QED BY <1>2, <1>3, <1>4, <1>5

\* The scheduler starts a refresh like the user does.
LEMMA TickKeeps ==
  ASSUME SourcesInv, Tick
  PROVE  SourcesInv'
<1>1. CASE /\ retry' = [i \in Items |-> Elapsed(i)]
           /\ Kept /\ UNCHANGED <<sub, proxy, rules, routing, task, transfer, ops, astray>>
  <2>1. Rests /\ Quietly /\ WindowTyped' /\ LossIsNoticed' /\ transfer' = transfer
    BY <1>1 DEF Rests, Quietly, Kept, SourcesInv, SourcesTypeOK, WindowTyped, LossIsNoticed, Losing
  <2> QED BY <2>1, RestsKeeps
<1>2. ASSUME NEW i \in NextDue, NEW k \in Slots,
             IF i \in Subs THEN StartRefreshSub(i, k) ELSE StartRefreshRule(i, k)
      PROVE  SourcesInv'
  <2>1. i \in Subs \cup Rules
    BY SourcesAssumption DEF NextDue, Due
  <2>2. CASE i \in Subs
    BY <1>2, <2>2, RefreshSubKeeps
  <2>3. CASE i \notin Subs
    BY <1>2, <2>1, <2>3, RefreshRuleKeeps
  <2> QED BY <2>2, <2>3
<1> QED BY <1>1, <1>2 DEF Tick

\* The initial state satisfies the invariant.
LEMMA SourcesInitInv == Init => SourcesInv
<1> SUFFICES ASSUME Init PROVE SourcesInv
  OBVIOUS
<1> USE DEF Init
<1>1. ListsTyped
  BY SourcesAssumption DEF ListsTyped
<1>2. \A k \in Slots : task[k] = NoTask
  OBVIOUS
<1>3. TasksTyped
  BY <1>2 DEF TasksTyped
<1>4. WindowTyped
  BY DEF WindowTyped, SubStates, Gens, IdleRules
<1>5. Indicators /\ OneRouted /\ OneRuleTask
  BY <1>2 DEF Indicators, OneRouted, OneRuleTask, RuleTasks, Free
<1>6. InStep /\ LossIsNoticed
  BY <1>2 DEF InStep, LossIsNoticed
<1> QED BY <1>1, <1>3, <1>4, <1>5, <1>6 DEF SourcesInv, SourcesTypeOK

\* Every step of the user, the scheduler and the tasks keeps the invariant.
LEMMA SourcesNextInv == SourcesInv /\ [Next]_vars => SourcesInv'
<1> SUFFICES ASSUME SourcesInv, [Next]_vars PROVE SourcesInv'
  OBVIOUS
<1>1. CASE User
  <2>1. ASSUME NEW how \in {"new", "meta", "url"}, NEW def \in Defs, NEW on \in BOOLEAN,
               \/ \E s \in Subs : ImportSub(s, how, def, on)
               \/ \E n \in Nodes : how # "meta" /\ ImportNode(n, how, def, on)
        PROVE  SourcesInv'
    BY <2>1, ImportSubKeeps, ImportNodeKeeps
  <2>2. ASSUME NEW s \in Subs, RefreshSub(s) \/ ToggleSub(s) \/ RemoveSub(s) PROVE SourcesInv'
    BY <2>2, RefreshSubKeeps, ToggleSubKeeps, RemoveSubKeeps DEF RefreshSub
  <2>3. ASSUME NEW r \in Rules, NEW how \in {"new", "name", "meta", "url"}, NEW def \in Defs,
               SubmitRule(r, how, def)
        PROVE  SourcesInv'
    BY <2>3, SubmitRuleKeeps
  <2>4. ASSUME NEW r \in Rules,
               \/ RefreshRule(r) \/ ToggleRule(r) \/ RemoveRule(r)
               \/ \E def \in Defs : TargetRule(r, def)
        PROVE  SourcesInv'
    BY <2>4, RulesKeep
  <2>5. CASE Relaunch
    BY <2>5, LaunchKeeps DEF Relaunch
  <2> QED BY <1>1, <2>1, <2>2, <2>3, <2>4, <2>5, NodesKeep, EditManualKeeps, OthersKeep DEF User
<1>2. CASE System
  <2>1. CASE Replaced
    BY <2>1, LaunchKeeps DEF Replaced
  <2> QED BY <1>2, <2>1, TickKeeps, ReadKeeps, WorkKeeps, FinishKeeps, AgeKeeps,
    OthersKeep DEF System
<1>3. CASE UNCHANGED vars
  <2>1. Rests /\ Quietly /\ WindowTyped' /\ LossIsNoticed' /\ transfer' = transfer
    BY <1>3 DEF vars, Rests, Quietly, SourcesInv, SourcesTypeOK, WindowTyped, LossIsNoticed, Losing
  <2> QED BY <2>1, RestsKeeps
<1> QED BY <1>1, <1>2, <1>3 DEF Next

\* The inductive invariant of the source lists.
THEOREM SourcesInvariant == Spec => []SourcesInv
BY SourcesInitInv, SourcesNextInv, PTL DEF Spec

\* Once no task runs, the lists show what the store holds, for any number of
\* sources, contents and tasks, unless a rule task went astray or a rollback
\* failed (ListsFollowStore).
THEOREM ListsFollowTheStore == Spec => []ListsFollowStore
<1>1. SourcesInv => ListsFollowStore
  <2> SUFFICES ASSUME SourcesInv, Free = Slots, ~astray, transfer # "replaced" PROVE ui = store
    BY DEF ListsFollowStore
  <2>1. \A i \in Items : ui[i] = store[i]
    BY DEF SourcesInv, InStep, InFlight
  <2> QED BY <2>1 DEF SourcesInv, SourcesTypeOK, ListsTyped, Lists
<1> QED BY <1>1, SourcesInvariant, PTL

\* A TUN that was lost while a change was applied is not shown as on once the
\* tasks are done (LossIsShown), unless a rule task went astray, a rollback
\* failed, or no result mentioned the loss.
THEOREM LostTunIsShown == Spec => []LossIsShown
<1>1. SourcesInv => LossIsShown
  BY DEF SourcesInv, LossIsNoticed, Losing, LossIsShown, Free
<1> QED BY <1>1, SourcesInvariant, PTL
=============================================================================
