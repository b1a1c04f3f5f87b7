----------------------------- MODULE SourceStore ------------------------------
(***************************************************************************)
(* One transaction on the entries of config.toml: the entries are copied,  *)
(* the copy is changed in private, the changed entries are installed one   *)
(* by one, and taken back one by one when an entry cannot be installed or  *)
(* the kernel does not accept the result (SourceApply).                    *)
(*                                                                         *)
(* The source lock keeps transactions apart, and the configuration lock    *)
(* makes one read or one replacement of an entry one step.  Preferences,   *)
(* node selections and restored backups are written without the source     *)
(* lock, between any two steps.                                            *)
(***************************************************************************)
CONSTANTS
  Entry,    \* names of entries
  Content,  \* what an entry can hold, and Absent
  Nobody    \* no writer but the transaction

ASSUME NobodyAssumption == Nobody \notin Content

VARIABLES
  entries,     \* the live entries
  before,    \* SourceStoreTransaction.before
  after,     \* the staged copy
  stage,     \* where the transaction stands
  checked,   \* entries that install has found unchanged
  tried,     \* changes[..installed]: entries that install has come to
  undone,    \* of these, the ones that rollback has come to
  conflict,  \* whether rollback met an error
  others,    \* history: what other writers put into an entry since the copy
  late,      \* history: those of them that rollback had been through by then
  failed     \* history: whether reading or writing an entry failed since then

vars == <<entries, before, after, stage, checked, tried, undone, conflict,
          others, late, failed>>
progress == <<checked, tried, undone, conflict>>
history == <<others, late, failed>>

Entries == [Entry -> Content]
Stage == {"idle", "staged", "check", "install", "installed", "rollback",
          "committed", "refused", "rolledBack", "stuck"}
Changed == {e \in Entry : before[e] # after[e]}

Init ==
  /\ entries \in Entries /\ before = entries /\ after = entries
  /\ stage = "idle"
  /\ checked = {} /\ tried = {} /\ undone = {} /\ conflict = FALSE
  /\ others = [e \in Entry |-> Nobody] /\ late = {} /\ failed = FALSE

-----------------------------------------------------------------------------
Resting == {"idle", "committed", "refused", "rolledBack", "stuck"}
Step(s) == stage = s /\ UNCHANGED <<before, after, others, late>>

\* SourceStoreTransaction::begin: the entries are read under one lock.
Fresh ==
  /\ before' = entries /\ after' = entries
  /\ checked' = {} /\ tried' = {} /\ undone' = {} /\ conflict' = FALSE
  /\ others' = [e \in Entry |-> Nobody] /\ late' = {} /\ failed' = FALSE
  /\ UNCHANGED entries

Capture == stage \in Resting /\ stage' = "staged" /\ Fresh

\* The application ends; what is installed by then stays.
AppEnds == stage # "idle" /\ stage' = "idle" /\ Fresh

\* The mutation changes the copy, and changes() compares, or it fails and the
\* copy is dropped.
Mutate ==
  /\ stage = "staged"
  /\ \/ after' \in Entries /\ stage' = "check"
     \/ stage' = "refused" /\ UNCHANGED after
  /\ UNCHANGED <<entries, before, progress, history>>

\* install, first loop: no entry may have been changed since the copy.
CheckEntry(e) ==
  /\ Step("check")
  /\ e \in Changed \ checked
  /\ \/ entries[e] = before[e] /\ checked' = checked \union {e}
        /\ UNCHANGED <<stage, failed>>
     \/ entries[e] # before[e] /\ stage' = "rollback"
        /\ UNCHANGED <<checked, failed>>
     \/ failed' = TRUE /\ stage' = "rollback" /\ UNCHANGED checked
  /\ UNCHANGED <<entries, tried, undone, conflict>>

CheckEnds ==
  /\ Step("check")
  /\ checked = Changed
  /\ stage' = "install"
  /\ UNCHANGED <<entries, progress, failed>>

\* replace_entry_if_unchanged: the comparison and the write are one step.
Replaces(e, expected, new) ==
  /\ entries[e] = expected
  /\ entries' = [entries EXCEPT ![e] = new]

\* Mutant: what another writer has put there meanwhile is overwritten.
InstallBlindly(e) ==
  /\ Step("install")
  /\ e \in Changed \ tried
  /\ tried' = tried \union {e}
  /\ entries' = [entries EXCEPT ![e] = after[e]]
  /\ UNCHANGED <<stage, checked, undone, conflict, failed>>

\* Mutant: an entry whose write failed is not rolled back.
InstallForgetsAttempt(e) ==
  /\ Step("install")
  /\ e \in Changed \ tried
  /\ \/ /\ Replaces(e, before[e], after[e])
        /\ tried' = tried \union {e} /\ UNCHANGED <<stage, failed>>
     \/ /\ Replaces(e, before[e], after[e])
        /\ stage' = "rollback" /\ failed' = TRUE /\ UNCHANGED tried
  /\ UNCHANGED <<checked, undone, conflict>>

\* install, second loop.  A write may fail and take effect all the same.
Install(e) ==
  /\ Step("install")
  /\ e \in Changed \ tried
  /\ tried' = tried \union {e}
  /\ \/ Replaces(e, before[e], after[e]) /\ UNCHANGED <<stage, failed>>
     \/ /\ entries[e] # before[e] /\ stage' = "rollback"
        /\ UNCHANGED <<entries, failed>>
     \/ /\ stage' = "rollback" /\ failed' = TRUE
        /\ Replaces(e, before[e], after[e]) \/ UNCHANGED entries
  /\ UNCHANGED <<checked, undone, conflict>>

InstallEnds ==
  /\ Step("install")
  /\ tried = Changed
  /\ stage' = "installed"
  /\ UNCHANGED <<entries, progress, failed>>

\* The outcome of apply: Failed asks for the rollback, all others commit.
Applied ==
  /\ Step("installed")
  /\ stage' \in {"committed", "rollback"}
  /\ UNCHANGED <<entries, progress, failed>>

\* rollback, one entry.  It is put back if it is as it was installed; if not,
\* it has to be as it was before.
Rollback(e) ==
  /\ Step("rollback")
  /\ e \in tried \ undone
  /\ undone' = undone \union {e}
  /\ \/ Replaces(e, after[e], before[e]) /\ UNCHANGED <<conflict, failed>>
     \/ /\ failed' = TRUE /\ conflict' = TRUE
        /\ Replaces(e, after[e], before[e]) \/ UNCHANGED entries
     \/ /\ entries[e] # after[e]
        /\ conflict' = (conflict \/ entries[e] # before[e])
        /\ UNCHANGED <<entries, failed>>
  /\ UNCHANGED <<stage, checked, tried>>

RollbackEnds ==
  /\ Step("rollback")
  /\ undone = tried
  /\ stage' = IF conflict THEN "stuck" ELSE "rolledBack"
  /\ UNCHANGED <<entries, progress, failed>>

\* Another writer replaces an entry, whatever it holds.
OtherWrites(e, c) ==
  /\ entries' = [entries EXCEPT ![e] = c]
  /\ others' = [others EXCEPT ![e] = c]
  /\ late' = IF e \in undone THEN late \union {e} ELSE late
  /\ UNCHANGED <<before, after, stage, progress, failed>>

Next ==
  \/ Capture \/ Mutate \/ CheckEnds \/ InstallEnds \/ Applied \/ RollbackEnds
  \/ AppEnds
  \/ \E e \in Entry : CheckEntry(e) \/ Install(e) \/ Rollback(e)
  \/ \E e \in Entry, c \in Content : OtherWrites(e, c)

Spec == Init /\ [][Next]_vars

-----------------------------------------------------------------------------
\* Every variable has its type.
TypeOK ==
  /\ entries \in Entries /\ before \in Entries /\ after \in Entries
  /\ stage \in Stage
  /\ checked \subseteq Changed /\ tried \subseteq checked
  /\ undone \subseteq tried
  /\ late \subseteq undone
  /\ conflict \in BOOLEAN /\ failed \in BOOLEAN
  /\ others \in [Entry -> Content \union {Nobody}]

\* "If a file changes again before rollback, Manis preserves its newer
\* contents": what another writer put into an entry stays there, through
\* install, apply and rollback.  An entry that was put back to exactly what
\* the transaction expects to find cannot be told from an untouched one.
OthersKept ==
  \A e \in Entry :
    others[e] \notin {Nobody, before[e], after[e]} => entries[e] = others[e]

\* A transaction ends with all of its change in the store or with none of it,
\* as far as no other writer came in between: also when a write failed in the
\* middle, or failed after it took effect, and unless a conflict is reported.
AllOrNothing ==
  \A e \in Entry : others[e] = Nobody =>
    /\ stage = "committed" => entries[e] = after[e]
    /\ stage \in {"rolledBack", "refused"} => entries[e] = before[e]

\* "... and reports the restore failure": a rollback that reports success has
\* put back every entry it came to, and one that reports a conflict met a
\* failing write or another writer.
HonestRollback ==
  /\ stage = "rolledBack" =>
       \A e \in tried \ late : entries[e] = before[e]
  /\ stage = "stuck" => failed \/ \E e \in tried : others[e] # Nobody
=============================================================================
