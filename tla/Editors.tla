------------------------------- MODULE Editors -------------------------------
(***************************************************************************)
(* The editor windows of proxy sources, rule sources and policy groups     *)
(* (the one of manual rules is in Routing).  The window only presents a    *)
(* draft that the application keeps: its text fields are made once and     *)
(* serve every window of the kind, a submitted source goes on in the       *)
(* background after its window closed, and its completion clears and       *)
(* re-enables the fields.  Beside them the whole configuration can be      *)
(* replaced, which restarts the application and drops every draft.         *)
(***************************************************************************)
EXTENDS Naturals, FiniteSets

CONSTANTS
  Listed,    \* the items that the lists show
  MaxEdits   \* at most this many user operations

Kinds == {"proxy", "rule", "policy"}
Addition == "new"
Texts == {"blank", "saved", "typed"}
Blank == [item |-> Addition, text |-> "blank"]

VARIABLES
  host,       \* the kinds whose window is open
  draft,      \* what the editor of each kind holds
  wanted,     \* what the user opened there when no window was open, or typed
  enabled,    \* the fields of the kind take input
  importing,  \* the feedback of the kind is Importing, or its mutation_state busy
  latest,     \* import_generation
  saves,      \* the saves and removals in flight
  others,     \* another source operation runs
  replacing,  \* the configuration transfer
  raced,      \* the window was opened over an import whose feedback it reset
  edits       \* user operations so far
editorVars == <<host, draft, wanted, enabled, importing, latest, saves, others, replacing, raced, edits>>

EditorsInit ==
  /\ host = {} /\ draft = [k \in Kinds |-> Blank] /\ wanted = [k \in Kinds |-> Blank]
  /\ enabled = [k \in Kinds |-> TRUE] /\ importing = [k \in Kinds |-> FALSE]
  /\ latest = [k \in Kinds |-> 0] /\ saves = {} /\ others = FALSE
  /\ replacing = "off" /\ raced = FALSE /\ edits = 0
-----------------------------------------------------------------------------
SourcesBusy == importing["proxy"] \/ importing["rule"] \/ others
Imports(k) == {s \in saves : s.kind = k /\ s.op = "save"}
UserEdits == edits < MaxEdits /\ edits' = edits + 1

\* The dialog of a transfer covers the pages; while it only loads the text of the
\* configuration they still take clicks.
Pages == replacing \in {"off", "loading"}

Holds(k, d) == draft' = [draft EXCEPT ![k] = d] /\ wanted' = [wanted EXCEPT ![k] = d]
Feedback(k, busy) == importing' = [importing EXCEPT ![k] = busy]

\* The handlers of the pages.  Those of sources ignore an import of proxies, and
\* that of rules resets the feedback; the cards of sources are disabled while busy.
MayOpen(k, item) ==
  /\ Pages
  /\ k = "proxy" => ~importing[k]
  /\ item # Addition => k = "policy" \/ ~SourcesBusy

OpenDraft(k, item) ==
  /\ UserEdits /\ MayOpen(k, item)
  /\ host' = host \cup {k}
  /\ LET d == [item |-> item, text |-> IF item = Addition THEN "blank" ELSE "saved"]
     IN  /\ draft' = [draft EXCEPT ![k] = d]
         /\ wanted' = IF k \in host THEN wanted ELSE [wanted EXCEPT ![k] = d]
  /\ importing' = [importing EXCEPT ![k] = k = "policy" /\ @]
  /\ raced' = IF k = "rule" THEN Imports(k) # {} \/ ~enabled[k] ELSE raced
  /\ UNCHANGED <<enabled, latest, saves, others, replacing>>

\* Mutant: no handler asks whether the window is open.
OpenAnyway(k, item) == OpenDraft(k, item)

\* activate: an open window is brought to the front and keeps its draft.
Open(k, item) == k \notin host /\ OpenDraft(k, item)

\* The window could not be opened: cancel_auxiliary on a draft just prepared.
OpenFails(k, item) ==
  /\ UserEdits /\ MayOpen(k, item) /\ k \notin host
  /\ Holds(k, Blank) /\ Feedback(k, FALSE)
  /\ UNCHANGED <<host, enabled, latest, saves, others, replacing, raced>>

\* A change of a rule source's fields resets the feedback, even of a removal.
Type(k) ==
  /\ UserEdits /\ k \in host /\ enabled[k]
  /\ Holds(k, [draft[k] EXCEPT !.text = "typed"])
  /\ IF k = "rule" THEN Feedback(k, FALSE) ELSE UNCHANGED importing
  /\ UNCHANGED <<host, enabled, latest, saves, others, replacing, raced>>

\* cancel_auxiliary: refused while the kind is busy
Cancel(k) ==
  /\ k \in host /\ ~importing[k]
  /\ host' = host \ {k} /\ Holds(k, Blank)
  /\ UNCHANGED <<enabled, importing, latest, saves, others, replacing, raced, edits>>

Starts(k, op) ==
  /\ latest' = [latest EXCEPT ![k] = @ + 1]
  /\ saves' = saves \cup {[kind |-> k, op |-> op, gen |-> latest[k] + 1]}
  /\ Feedback(k, TRUE)

\* submit_source_import and submit_qx_rule_import close the window, and
\* save_managed_policy_with_dialog keeps it until the group is saved.
Submit(k) ==
  /\ UserEdits /\ k \in host /\ ~importing[k] /\ replacing = "off"
  /\ draft[k].text # "blank"
  /\ k = "proxy" => ~SourcesBusy
  /\ Starts(k, "save")
  /\ enabled' = [enabled EXCEPT ![k] = FALSE]
  /\ host' = IF k = "policy" THEN host ELSE host \ {k}
  /\ UNCHANGED <<draft, wanted, others, replacing, raced>>

\* remove_qx_rule_source leaves the fields enabled, and
\* remove_managed_policy_with_dialog is offered by the group's own window.
Remove(k, item) ==
  /\ UserEdits /\ replacing = "off"
  /\ \/ k = "rule" /\ ~SourcesBusy /\ UNCHANGED enabled
     \/ /\ k = "policy" /\ k \in host /\ ~importing[k] /\ draft[k].item = item
        /\ enabled' = [enabled EXCEPT ![k] = FALSE]
  /\ Starts(k, "remove")
  /\ UNCHANGED <<host, draft, wanted, others, replacing, raced>>

\* finish_subscription_import, finish_single_node_import, finish_qx_rule_import
\* and the completions of a group's save and of the removals.  A result of an
\* older generation is dropped before the fields are enabled.
Completes(s, ok) ==
  LET k == s.kind IN
  /\ s \in saves /\ saves' = saves \ {s}
  /\ IF s.gen # latest[k] /\ k # "policy"
       THEN UNCHANGED <<host, draft, wanted, enabled, importing>>
       ELSE /\ Feedback(k, FALSE)
            /\ enabled' = [enabled EXCEPT ![k] = IF s.op = "save" \/ k = "policy" THEN TRUE ELSE @]
            /\ IF ok /\ (s.op = "save" \/ k = "policy")
                 THEN /\ host' = IF k = "policy" THEN host \ {k} ELSE host
                      /\ draft' = [draft EXCEPT ![k] = Blank]
                      /\ wanted' = IF k = "policy" THEN [wanted EXCEPT ![k] = Blank] ELSE wanted
                 ELSE UNCHANGED <<host, draft, wanted>>
  /\ UNCHANGED <<latest, others, replacing, raced, edits>>

\* A refresh, a toggle or another change of a list; those of rule sources take
\* the next generation of the page.
OtherBegins(k) ==
  /\ UserEdits /\ replacing = "off" /\ ~SourcesBusy
  /\ others' = TRUE
  /\ latest' = IF k = "rule" THEN [latest EXCEPT ![k] = @ + 1] ELSE latest
  /\ UNCHANGED <<host, draft, wanted, enabled, importing, saves, replacing, raced>>

OtherEnds ==
  /\ others /\ others' = FALSE
  /\ UNCHANGED <<host, draft, wanted, enabled, importing, latest, saves, replacing, raced, edits>>
-----------------------------------------------------------------------------
(* The configuration as text: loaded, edited, previewed and installed. *)

\* configuration_mutation_busy and has_editors
Settles == ~SourcesBusy /\ ~importing["policy"] /\ host = {}
Transfers(from, to) ==
  /\ replacing = from /\ replacing' = to
  /\ UNCHANGED <<host, draft, wanted, enabled, importing, latest, saves, others, raced>>

\* edit_configuration
LoadText == UserEdits /\ Settles /\ Transfers("off", "loading")
TextLoaded == Transfers("loading", "open") /\ UNCHANGED edits
LoadFails == Transfers("loading", "off") /\ UNCHANGED edits

\* replace_configuration: what was asked before the text was loaded is asked again.
Install == Settles /\ Transfers("open", "installing") /\ UNCHANGED edits
InstallFails == Transfers("installing", "open") /\ UNCHANGED edits
CloseTransfer == Transfers("open", "off") /\ UNCHANGED edits

\* cx.restart
Restart ==
  /\ replacing = "installing" /\ replacing' = "off"
  /\ host' = {} /\ draft' = [k \in Kinds |-> Blank] /\ wanted' = [k \in Kinds |-> Blank]
  /\ enabled' = [k \in Kinds |-> TRUE] /\ importing' = [k \in Kinds |-> FALSE]
  /\ saves' = {} /\ others' = FALSE /\ latest' = [k \in Kinds |-> 0] /\ raced' = FALSE
  /\ UNCHANGED edits

EditorsNext ==
  \/ \E k \in Kinds, item \in Listed \cup {Addition} : Open(k, item) \/ OpenFails(k, item)
  \/ \E k \in Kinds : Type(k) \/ Cancel(k) \/ Submit(k) \/ OtherBegins(k)
  \/ \E k \in Kinds, item \in Listed : Remove(k, item)
  \/ \E s \in saves, ok \in BOOLEAN : Completes(s, ok)
  \/ OtherEnds
  \/ LoadText \/ TextLoaded \/ LoadFails \/ Install \/ InstallFails \/ CloseTransfer \/ Restart

EditorsSpec == EditorsInit /\ [][EditorsNext]_editorVars
-----------------------------------------------------------------------------

\* An open editor window holds what its user opened and typed, whatever finishes
\* in the background, and takes input unless its own kind is busy, which a task in
\* flight will end; the restart that installs another configuration finds no window
\* open.  Except the window that was opened over an import whose feedback it reset.
DraftsAreKept ==
  /\ \A k \in host :
       \/ k = "rule" /\ raced
       \/ draft[k] = wanted[k] /\ (enabled[k] \/ importing[k])
  /\ \A k \in Kinds : importing[k] => \E s \in saves : s.kind = k /\ s.gen = latest[k]
  /\ replacing = "installing" => host = {}
=============================================================================
