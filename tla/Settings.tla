------------------------------- MODULE Settings -------------------------------
(***************************************************************************)
(* The configuration file as a whole: the launch that gathers the entries  *)
(* of older versions into one document, the entries that the pages write,  *)
(* and the editor, which shows the document as text (ConfigText), checks   *)
(* what the user made of it and replaces the document, keeping a backup.   *)
(***************************************************************************)
EXTENDS Naturals, Sequences, FiniteSets, Filters
LOCAL INSTANCE Functions
LOCAL INSTANCE ConfigText

CONSTANTS
  Firsts,    \* documents that an earlier session may have left
  Writable,  \* entries that the pages write
  Modes,     \* routing modes
  Names,     \* names that the user gives to a policy group
  Exports,   \* documents exported by an older version
  Body,      \* the rules that a download brings
  MaxOps     \* bound on writes and on opened editors

VARIABLES
  stored,    \* config.toml: whether it exists, and its entries
  files,     \* entry files: of the old data directory, and beside config.toml
  launch,    \* the launch: off, migrate, sweep, read, running, storeless
  transfer,  \* ConfigurationTransfer
  job,       \* restore: where it stands, what it has read and backed up
  wanted,    \* history: the configurations that the user may expect
  marred,    \* history: a text or a failure for which more may be lost
  ops        \* user operations so far

settingsVars == <<stored, files, launch, transfer, job, wanted, marred, ops>>

-----------------------------------------------------------------------------
(* What a document means *)

\* The lines of an entry by key, without what a download brings again and
\* without the values that stand for nothing.
Volatile(e) == {"last-success"} \union (IF e.name.ext = "qxrules" THEN {"content"} ELSE {})
Silent == {Line("icon", <<Plain("none")>>), Line("matcher", <<Plain("explicit")>>),
           Line("filter", <<Hex("")>>)}
Meaning(e) ==
  LET lines == SelectSeq(e.fields, LAMBDA l : l.key \notin Volatile(e) /\ l \notin Silent)
  IN [format |-> e.format,
      lines |-> [k \in {lines[i].key : i \in DOMAIN lines} |-> all(lines, k)]]
Config(doc) ==
  [n \in {doc[i].name : i \in DOMAIN doc} |-> Meaning(Named(doc, n)[1])]

\* table.insert and table.remove
Insert(doc, e) ==
  IF Named(doc, e.name) = <<>> THEN Append(doc, e)
  ELSE [i \in DOMAIN doc |-> IF doc[i].name = e.name THEN e ELSE doc[i]]
Without(doc, name) == SelectSeq(doc, LAMBDA e : e.name # name)

Policies(doc) == {doc[i] : i \in {j \in DOMAIN doc : kind_of(doc[j].name) = "Group"}}
IdOf(e) == field(e.fields, "id").text
PolicyRefs(e) ==
  {v.text : v \in {w \in {decode_field(l.values[1]) : l \in Range(all(e.fields, "member"))} :
                     w.kind = "policy"}}

\* validate_managed_policy_references
ReferencesSound(doc) ==
  LET policies == Policies(doc)
  IN /\ \A e \in policies : PolicyRefs(e) \subseteq {IdOf(f) : f \in policies}
     /\ \A S \in SUBSET policies \ {{}} :
          \E e \in S : PolicyRefs(e) \intersect {IdOf(f) : f \in S} = {}

\* validate_store
StoreLoads(doc) ==
  /\ ReferencesSound(doc)
  /\ \A e \in Range(doc) : e.name = ROUTING_MODE_KEY => e.format \in Modes
  /\ \A e \in Range(doc) : e.name = Name("workspace", "state") => e.format # ""

\* The names that an entry, or a file of an older version, can have.
is_config_entry_name(name) ==
  name.ext \in {"url", "vless", "qxrules", "policy", "group", "state", "mode", "kind",
                "preference", "launch_at_login", "auto_connect"}

\* parse_document: a table cannot have a key twice.
Parses(doc) ==
  /\ \A i, j \in DOMAIN doc : doc[i].name = doc[j].name => i = j
  /\ \A i \in DOMAIN doc : is_config_entry_name(doc[i].name)

\* An earlier session has left what parses.
ASSUME SettingsAssumption ==
  \A first \in Firsts : first \in Seq({first[i] : i \in DOMAIN first}) /\ Parses(first)

-----------------------------------------------------------------------------
(* What a text cannot tell *)

Repeats(object) == \E i, j \in DOMAIN object : i # j /\ object[i].key = object[j].key
Crushing(json) ==
  \/ \E i \in DOMAIN json.state : Repeats(json.state[i].record)
  \/ \E i \in DOMAIN json.nodes : Repeats(json.nodes[i])
NamesIn(json) ==
  Each(SelectSeq(json.subscription \o Each(json.groups, LAMBDA g : g.fields),
                 LAMBDA o : Has(o, "name")), LAMBDA o : field(o, "name").text)
Ambiguous(json) ==
  \/ Len(NamesIn(json)) # Cardinality(Range(NamesIn(json)))
  \/ Range(NamesIn(json)) \intersect {"builtin", "saved"} # {}

-----------------------------------------------------------------------------
NoText == [kind |-> "none"]
Jsonc(doc) == [kind |-> "jsonc", json |-> to_jsonc(doc)]
Older(doc) == [kind |-> "older", lines |-> to_readable_source(doc)]
Garbage == [kind |-> "garbage"]
NoTransfer == [active |-> FALSE, progress |-> "Idle", editor |-> NoText, preview |-> <<>>,
               means |-> {}, refused |-> "no", own |-> FALSE]
NoJob == [pc |-> "none", new |-> <<>>, previous |-> <<>>, backup |-> <<>>, was |-> {}]

\* A directory also has files that are no entries; they are never touched.
Stray == [name |-> [stem |-> "manis", ext |-> "lock"], format |-> "", fields |-> <<>>]
NoFiles == [old |-> <<Stray>>, beside |-> <<Stray>>]
read_legacy_entries(held) ==
  Filter(held, {e \in {held[i] : i \in DOMAIN held} : is_config_entry_name(e.name)})

SettingsInit ==
  \E first \in Firsts :
    /\ \/ stored = [exists |-> TRUE, doc |-> first] /\ files = NoFiles
       \/ /\ stored = [exists |-> FALSE, doc |-> <<>>]
          /\ files \in {[NoFiles EXCEPT !.old = first \o @], [NoFiles EXCEPT !.beside = first \o @]}
    /\ launch = "off" /\ transfer = NoTransfer /\ job = NoJob
    /\ wanted = {Config(first)} /\ marred = FALSE /\ ops = 0

-----------------------------------------------------------------------------
(* The launch *)

LaunchStep(from) ==
  /\ launch = from
  /\ UNCHANGED <<transfer, job, wanted, marred, ops>>
OldEntries == read_legacy_entries(files.old)
EntriesBeside == read_legacy_entries(files.beside)
Written(doc) == stored' = [exists |-> TRUE, doc |-> doc]

\* data_dir: none when the directory of the product cannot be used.
FindDataDir ==
  /\ LaunchStep("off")
  /\ launch' \in {"migrate", "storeless"}
  /\ UNCHANGED <<stored, files>>

\* Mutant: the old files are removed before the document is written.
MigrateRemovesFirst ==
  /\ LaunchStep("migrate")
  /\ IF stored.exists \/ OldEntries = <<>>
     THEN launch' = "read" /\ UNCHANGED <<stored, files>>
     ELSE \/ Written(OldEntries) /\ files' = NoFiles /\ launch' = "sweep"
          \/ launch' = "storeless" /\ files' = [files EXCEPT !.old = Tail(@)] /\ UNCHANGED stored

\* migrate_legacy_directory
Migrate ==
  /\ LaunchStep("migrate")
  /\ IF stored.exists \/ OldEntries = <<>>
     THEN launch' = "read" /\ UNCHANGED <<stored, files>>
     ELSE \/ Written(OldEntries) /\ launch' = "sweep" /\ UNCHANGED files
          \/ launch' = "storeless" /\ UNCHANGED <<stored, files>>

SweepOld ==
  /\ LaunchStep("sweep")
  /\ UNCHANGED stored
  /\ \/ /\ OldEntries = <<>> /\ launch' = "read" /\ UNCHANGED files
     \/ OldEntries # <<>> /\ files' = [files EXCEPT !.old = Tail(@)] /\ UNCHANGED launch
     \/ OldEntries # <<>> /\ launch' = "storeless" /\ UNCHANGED files

\* load_or_create_document, by the first read: the files beside the document
\* go into it, and a file that cannot be removed fails that read only.
load_or_create_document ==
  /\ LaunchStep("read")
  /\ IF stored.exists \/ EntriesBeside = <<>>
     THEN launch' = "running" /\ UNCHANGED <<stored, files>>
     ELSE \/ Written(EntriesBeside) /\ UNCHANGED <<files, launch>>
          \/ UNCHANGED <<stored, files, launch>>
RemoveBeside ==
  /\ LaunchStep("read") /\ stored.exists /\ EntriesBeside # <<>>
  /\ files' = [files EXCEPT !.beside = Tail(@)]
  /\ UNCHANGED <<stored, launch>>

\* The application ends, at any step.
End ==
  /\ launch # "off" /\ launch' = "off"
  /\ transfer' = NoTransfer /\ job' = NoJob
  /\ UNCHANGED <<stored, files, wanted, marred, ops>>

-----------------------------------------------------------------------------
(* The pages *)

\* Every page refuses while a transfer is active; a transfer begins only when
\* no page writes.
Page ==
  /\ launch = "running" /\ ~transfer.active /\ ops < MaxOps /\ ops' = ops + 1
  /\ UNCHANGED <<files, launch, transfer, job>>

WriteEntry ==
  \E e \in Writable :
    /\ Page /\ Written(Insert(stored.doc, e))
    /\ wanted' = {Config(Insert(stored.doc, e))} /\ marred' = FALSE

RemoveEntry ==
  \E i \in DOMAIN stored.doc :
    /\ Page /\ Written(Without(stored.doc, stored.doc[i].name))
    /\ wanted' = {Config(Without(stored.doc, stored.doc[i].name))} /\ marred' = FALSE

-----------------------------------------------------------------------------
(* The editor *)

Editing(t) ==
  /\ launch = "running" /\ transfer' = t
  /\ UNCHANGED <<stored, files, launch, wanted>>
Waits == transfer.active /\ transfer.progress = "Idle" /\ job = NoJob

\* edit_configuration
edit_configuration ==
  /\ ~transfer.active /\ ops < MaxOps /\ ops' = ops + 1
  /\ Editing([NoTransfer EXCEPT !.active = TRUE, !.progress = "Loading"])
  /\ UNCHANGED <<job, marred>>

\* The dialog opens with the text, or the status bar tells why it does not.
EditorLoads ==
  /\ transfer.progress = "Loading"
  /\ \/ Editing([transfer EXCEPT !.progress = "Idle", !.editor = Jsonc(stored.doc),
                                 !.means = {Config(stored.doc)}, !.own = TRUE])
     \/ Editing(NoTransfer)
  /\ UNCHANGED <<job, marred, ops>>

\* The user changes the text once.
Types(text, means) ==
  /\ Waits /\ transfer.own /\ transfer.preview = <<>>
  /\ Editing([transfer EXCEPT !.editor = text, !.means = means, !.own = FALSE,
                              !.refused = "no"])
  /\ UNCHANGED <<job, marred, ops>>

SetMode ==
  \E m \in Modes :
    /\ transfer.own /\ transfer.editor.json.mode # <<>>
    /\ Types([transfer.editor EXCEPT !.json.mode = <<m>>],
             {Config(Insert(stored.doc, [name |-> ROUTING_MODE_KEY, format |-> m,
                                       fields |-> <<>>]))})

Renamed(lines, new) ==
  Each(lines, LAMBDA l : IF l.key = "name" THEN Line("name", <<new>>) ELSE l)
\* A group is renamed, with the members that name it or without.
RenameGroup ==
  \E e \in Policies(stored.doc), new \in Names, everywhere \in BOOLEAN :
    LET old == decode_field(field(e.fields, "name"))
        json == transfer.editor.json
    IN /\ transfer.own
       /\ Types([transfer.editor EXCEPT !.json.groups =
            Each(json.groups, LAMBDA g :
              [fields |-> IF field(g.fields, "id").text = IdOf(e)
                          THEN Renamed(g.fields, Plain(new)) ELSE g.fields,
               members |-> IF ~everywhere THEN g.members
                           ELSE Each(g.members, LAMBDA m :
                                  IF m.from = old THEN [m EXCEPT !.from = Plain(new)]
                                  ELSE m)])],
            {Config(Insert(stored.doc, [e EXCEPT !.fields = Renamed(e.fields, Hex(new))]))})

RemoveGroup ==
  \E e \in Policies(stored.doc) :
    /\ transfer.own
    /\ Types([transfer.editor EXCEPT !.json.groups =
                SelectSeq(transfer.editor.json.groups, LAMBDA g :
                            field(g.fields, "id").text # IdOf(e))],
             {Config(Without(stored.doc, e.name))})

\* replace_configuration_from_clipboard: also while a preview is shown.
replace_configuration_from_clipboard ==
  \E old \in Exports, sound \in BOOLEAN :
    /\ Waits /\ transfer.own
    /\ Editing([transfer EXCEPT !.editor = IF sound THEN Older(old) ELSE Garbage,
                  !.means = IF sound THEN {Config(old)} ELSE {}, !.own = FALSE,
                  !.preview = <<>>, !.refused = "no"])
    /\ UNCHANGED <<job, marred, ops>>

preview_configuration_edits ==
  /\ Waits /\ transfer.editor # NoText /\ transfer.preview = <<>>
  /\ Editing([transfer EXCEPT !.progress = "Preparing"])
  /\ UNCHANGED <<job, marred, ops>>

\* prepare_import, in the background: the text becomes a document, and a copy
\* of it in a temporary directory is loaded as a store would be.
Refused(text, online) ==
  CASE text.kind = "garbage" -> "InvalidFormat"
    [] text.kind = "jsonc" -> JsoncRefused(text.json, online)
    [] text.kind = "older" -> ReadableRefused(text.lines, online)
Document(text) ==
  IF text.kind = "jsonc" THEN from_jsonc(text.json, Plain(Body))
  ELSE to_storage_source(text.lines, Plain(Body))
prepare_import(text, online) ==
  IF Refused(text, online) # "no" THEN Refused(text, online)
  ELSE IF ~Parses(Document(text)) THEN "InvalidFormat"
  ELSE IF ~StoreLoads(Document(text)) THEN "InvalidConfiguration"
  ELSE "no"

\* finish_configuration_preview; the temporary copy may fail, too.
finish_configuration_preview ==
  /\ transfer.progress = "Preparing"
  /\ \/ \E online \in BOOLEAN :
          LET refused == prepare_import(transfer.editor, online)
          IN Editing([transfer EXCEPT !.progress = "Idle",
               !.refused = IF refused = "RemoteSourceUnavailable" THEN "no" ELSE refused,
               !.preview = IF refused = "no" THEN <<Document(transfer.editor)>> ELSE <<>>])
     \/ Editing([transfer EXCEPT !.progress = "Idle"])
  /\ UNCHANGED <<job, marred, ops>>

resume_configuration_editing ==
  /\ Waits /\ transfer.editor # NoText /\ transfer.preview # <<>>
  /\ Editing([transfer EXCEPT !.preview = <<>>])
  /\ UNCHANGED <<job, marred, ops>>

\* The dialog is closed, by its button or otherwise.
cancel_configuration_transfer ==
  /\ Waits
  /\ Editing(NoTransfer)
  /\ UNCHANGED <<job, marred, ops>>

-----------------------------------------------------------------------------
(* The replacement *)

Lossy(text) == text.kind = "jsonc" /\ (Crushing(text.json) \/ Ambiguous(text.json))

\* replace_configuration: the editor is gone before the worker starts.
replace_configuration ==
  /\ Waits /\ transfer.preview # <<>> /\ launch = "running"
  /\ LET new == transfer.preview[1]
         means == IF Lossy(transfer.editor) THEN {Config(new)} ELSE transfer.means
     IN /\ job' = [pc |-> "stop", new |-> new, previous |-> <<>>, backup |-> <<>>,
                  was |-> wanted]
        /\ transfer' = [transfer EXCEPT !.progress = "Replacing", !.preview = <<>>,
                                        !.editor = NoText, !.own = FALSE, !.means = means]
        /\ wanted' = wanted \union means
  /\ UNCHANGED <<stored, files, launch, marred, ops>>

Worker(from) == job.pc = from /\ UNCHANGED <<files, launch, transfer, wanted, ops>>
Fails == job' = [job EXCEPT !.pc = "failed"]

\* The stops, then restore's first read and the directory for the backup.
StopAndRead ==
  /\ Worker("stop")
  /\ \/ job' = [job EXCEPT !.pc = "backup", !.previous = stored.doc]
     \/ Fails
  /\ UNCHANGED <<stored, marred>>

\* backup_current_store reads the document once more.
backup_current_store ==
  /\ Worker("backup")
  /\ \/ job' = [job EXCEPT !.pc = "replace", !.backup = <<stored.doc>>]
     \/ Fails
  /\ UNCHANGED <<stored, marred>>

\* replace_source: it may fail before the file is replaced or after it.
replace_source ==
  /\ Worker("replace")
  /\ \/ Written(job.new) /\ job' = [job EXCEPT !.pc = "validate"]
     \/ (UNCHANGED stored \/ Written(job.new)) /\ job' = [job EXCEPT !.pc = "rollback"]
  /\ UNCHANGED marred

\* validate_store reads what was replaced; the document was found valid before,
\* so only reading it can fail.
validate_store ==
  /\ Worker("validate")
  /\ job' \in {[job EXCEPT !.pc = "done"], [job EXCEPT !.pc = "rollback"]}
  /\ UNCHANGED <<stored, marred>>

\* The previous text is written back, unless that fails, too.
RollBack ==
  /\ Worker("rollback") /\ Fails
  /\ \/ Written(job.previous) /\ UNCHANGED marred
     \/ UNCHANGED stored /\ marred' = TRUE

\* finish_configuration_replacement: a success restarts the application, after
\* a failure the dialog tells what happened.
finish_configuration_replacement ==
  /\ \/ /\ job.pc = "done" /\ launch' = "off" /\ transfer' = NoTransfer
        /\ wanted' = transfer.means
     \/ /\ job.pc = "failed" /\ UNCHANGED launch
        /\ transfer' = [transfer EXCEPT !.progress = "Idle", !.means = {}]
        /\ wanted' = job.was
  /\ job' = NoJob
  /\ UNCHANGED <<stored, files, marred, ops>>

-----------------------------------------------------------------------------
LaunchSteps == FindDataDir \/ Migrate \/ SweepOld \/ load_or_create_document \/ RemoveBeside
Pages == WriteEntry \/ RemoveEntry
EditorSteps ==
  \/ edit_configuration \/ EditorLoads \/ SetMode \/ RenameGroup \/ RemoveGroup
  \/ replace_configuration_from_clipboard \/ preview_configuration_edits
  \/ finish_configuration_preview \/ resume_configuration_editing
  \/ cancel_configuration_transfer
Replacement ==
  \/ replace_configuration \/ StopAndRead \/ backup_current_store \/ replace_source
  \/ validate_store \/ RollBack \/ finish_configuration_replacement
SettingsNext == LaunchSteps \/ End \/ Pages \/ EditorSteps \/ Replacement
SettingsSpec == SettingsInit /\ [][SettingsNext]_settingsVars

-----------------------------------------------------------------------------
(* What the launch, or a read, takes for the configuration. *)
InEffect ==
  IF stored.exists THEN stored.doc ELSE IF OldEntries # <<>> THEN OldEntries ELSE EntriesBeside

\* What the user has set survives launches that end anywhere, the editor and
\* failed replacements: the configuration in effect is the one that was
\* written last, or during a replacement the one before or the one typed.
\* Repeated lines of one key, two things of one name and a rollback that could
\* not be written are excepted.
StoredIsKept == marred \/ Config(InEffect) \in wanted

\* "anything unrecognised is carried through verbatim in `state`"
\* (config_jsonc.rs, lines 7 to 13): the text as it was shown becomes a document
\* with the same entries, those without a section of their own included.
CarriedVerbatim ==
  transfer.own /\ transfer.preview # <<>> =>
    \A e \in Range(OfKind(stored.doc, "State")) :
      Config(transfer.preview[1])[e.name] = Meaning(e)

\* The editor understands its texts.  The one that it shows is accepted as it
\* is, unless two things have one name, a group refers to none, or no group is
\* folded on the nodes page.  The preview is the configuration that was typed,
\* but for repeated lines and two things of one name.
TextsAreUnderstood ==
  /\ transfer.own /\ transfer.refused # "no" =>
       \/ Ambiguous(transfer.editor.json)
       \/ ~ReferencesSound(stored.doc)
       \/ \E i \in DOMAIN stored.doc : stored.doc[i].format = ""
  /\ transfer.preview # <<>> /\ ~Lossy(transfer.editor) =>
       Config(transfer.preview[1]) \in transfer.means
=============================================================================
