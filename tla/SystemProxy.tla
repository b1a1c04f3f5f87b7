---------------------------- MODULE SystemProxy -----------------------------
(***************************************************************************)
(* SystemProxySession and the platform code under it: taking over the      *)
(* desktop's proxy settings, giving them back, and recovering them at the  *)
(* next launch from the recovery file.                                     *)
(*                                                                         *)
(* One step is one networksetup command or one file operation with the     *)
(* code around it; every command may fail, and the application may end     *)
(* between any two of them.  The commands are those of macOS.              *)
(***************************************************************************)
CONSTANTS
  Setting,     \* the proxy settings of the network services
  Server,      \* proxy servers the user may have configured
  Manis,       \* 127.0.0.1 and a port of the managed kernel
  NoServer,    \* a setting without a server
  NoSnapshot,  \* no recovery file, or nothing in memory
  NoSetting

ASSUME DistinctAssumption ==
  /\ Manis \notin Server
  /\ NoServer \notin Server \union {Manis}
  /\ NoSetting \notin Setting

Switch == {"on", "off"}
ProxySetting == [server : Server \union {Manis, NoServer}, enabled : Switch]
UserSetting == {v \in ProxySetting :
                  /\ v.server # Manis
                  /\ v.server = NoServer => v.enabled = "off"}
Snapshot == [Setting -> ProxySetting]

ASSUME NoSnapshotAssumption == NoSnapshot \notin Snapshot

VARIABLES
  sys,       \* the settings as the desktop has them
  user,      \* history: the settings as the user last left them
  file,      \* contents of system-proxy.recovery
  previous,  \* SystemProxySession.previous
  applied,   \* SystemProxySession.applied
  pc,        \* "down" without a running application, "idle" between calls
  purpose,   \* why settings are being restored
  snap,      \* the snapshot that the running call works with
  todo,      \* settings it has not come to yet
  current,   \* the setting whose server is set and whose switch is not
  ported,    \* settings for which the kernel has a listener
  lost       \* history: how the user's settings left the recovery file

vars == <<sys, user, file, previous, applied, pc, purpose, snap, todo,
          current, ported, lost>>
desktop == <<sys, user>>
session == <<previous, applied>>
call == <<purpose, snap, todo, current, ported>>

Stage == {"down", "idle", "read", "write", "apply", "restore", "delete"}
Purpose == {"none", "rollback", "disable", "reenable", "recover"}

\* Two values with the same effect: a dormant server does not matter.
Same(x, y) ==
  /\ x.enabled = y.enabled
  /\ x.enabled = "on" => x.server = y.server

Init ==
  /\ user \in [Setting -> UserSetting]
  /\ sys = user
  /\ file = NoSnapshot
  /\ previous = NoSnapshot
  /\ applied = "no"
  /\ pc = "down"
  /\ purpose = "none"
  /\ snap = NoSnapshot
  /\ todo = {}
  /\ current = NoSetting
  /\ ported = {}
  /\ lost = {}

-----------------------------------------------------------------------------
(* The end of a call, and restoring.                                       *)

Return ==
  /\ pc' = "idle"
  /\ purpose' = "none"
  /\ snap' = NoSnapshot
  /\ todo' = {}
  /\ current' = NoSetting
  /\ ported' = {}

Restore(why, what) ==
  /\ pc' = "restore"
  /\ purpose' = why
  /\ snap' = what
  /\ todo' = Setting
  /\ current' = NoSetting

\* restore_setting, first command: setting a server also switches it on.  A
\* snapshot without a server skips it.
RestoreServer(s) ==
  /\ pc = "restore"
  /\ current = NoSetting
  /\ s \in todo
  /\ current' = s
  /\ sys' = IF snap[s].server = NoServer
              THEN sys
              ELSE [sys EXCEPT ![s] = [server |-> snap[s].server,
                                       enabled |-> "on"]]
  /\ UNCHANGED <<user, file, session, pc, purpose, snap, todo, ported, lost>>

\* Second command: the switch.
RestoreSwitch ==
  /\ pc = "restore"
  /\ current # NoSetting
  /\ sys' = [sys EXCEPT ![current].enabled = snap[current].enabled]
  /\ todo' = todo \ {current}
  /\ current' = NoSetting
  /\ pc' = IF todo' = {} THEN "delete" ELSE "restore"
  /\ UNCHANGED <<user, file, session, purpose, snap, ported, lost>>

\* Mutant: the error of a restoring command is ignored.
RestoreFailsUnnoticed ==
  /\ pc = "restore"
  /\ pc' = "delete"
  /\ UNCHANGED <<desktop, file, session, purpose, snap, todo, current, ported,
                 lost>>

\* A command fails, and the first error ends the call: whatever it wanted to
\* restore, the recovery file and the session stay as they are.
RestoreFails ==
  /\ pc = "restore"
  /\ Return
  /\ UNCHANGED <<desktop, file, session, lost>>

\* The recovery file is deleted after a complete restoration.
DeleteRecovery ==
  /\ pc = "delete"
  /\ file' = NoSnapshot
  /\ applied' = "no"
  /\ IF purpose = "reenable"
       THEN /\ pc' = "read"
            /\ purpose' = "none"
            /\ snap' = NoSnapshot
            /\ UNCHANGED <<todo, current, ported>>
       ELSE Return
  /\ UNCHANGED <<desktop, previous, lost>>

DeleteRecoveryFails ==
  /\ pc = "delete"
  /\ Return
  /\ UNCHANGED <<desktop, file, session, lost>>

-----------------------------------------------------------------------------
(* enable_with_language.                                                   *)

\* A takeover that is still applied is undone first.
EnableBegin(listeners) ==
  /\ pc = "idle"
  /\ listeners # {}
  /\ ported' = listeners
  /\ IF applied = "yes"
       THEN Restore("reenable", previous)
       ELSE /\ pc' = "read"
            /\ UNCHANGED <<purpose, snap, todo, current>>
  /\ UNCHANGED <<desktop, file, session, lost>>

\* Mutant: settings are applied without a recovery file.
ReadSettingsAndApply ==
  /\ pc = "read"
  /\ pc' = "apply"
  /\ snap' = sys
  /\ todo' = Setting
  /\ UNCHANGED <<desktop, file, session, purpose, current, ported, lost>>

ReadSettings ==
  /\ pc = "read"
  /\ \/ Return
     \/ /\ pc' = "write"
        /\ snap' = sys
        /\ UNCHANGED <<purpose, todo, current, ported>>
  /\ UNCHANGED <<desktop, file, session, lost>>

\* write_recovery_snapshot_at: temporary file, flush, rename.
WriteRecovery ==
  /\ pc = "write"
  /\ \/ /\ Return
        /\ UNCHANGED <<file, lost>>
     \/ /\ file' = snap
        /\ pc' = "apply"
        /\ todo' = Setting
        /\ lost' = IF /\ file # NoSnapshot
                      /\ \E s \in Setting : ~Same(file[s], snap[s])
                     THEN lost \union {"overwritten"}
                     ELSE lost
        /\ UNCHANGED <<purpose, snap, current, ported>>
  /\ UNCHANGED <<desktop, session>>

Applied(s) ==
  IF s \in ported THEN [server |-> Manis, enabled |-> "on"]
                  ELSE [sys[s] EXCEPT !.enabled = "off"]

\* apply_service_with_runner, one command; the last one ends the call.
ApplySetting(s) ==
  /\ pc = "apply"
  /\ s \in todo
  /\ sys' = [sys EXCEPT ![s] = Applied(s)]
  /\ IF todo = {s}
       THEN /\ Return
            /\ applied' = "yes"
            /\ previous' = snap
       ELSE /\ todo' = todo \ {s}
            /\ UNCHANGED <<pc, purpose, snap, current, ported, session>>
  /\ UNCHANGED <<user, file, lost>>

ApplyFails ==
  /\ pc = "apply"
  /\ Restore("rollback", snap)
  /\ UNCHANGED <<desktop, file, session, ported, lost>>

-----------------------------------------------------------------------------
(* disable_with_language, recover_stale_with_language, the application.    *)

Disable ==
  /\ pc = "idle"
  /\ applied = "yes"
  /\ Restore("disable", previous)
  /\ UNCHANGED <<desktop, file, session, ported, lost>>

\* The application starts and recovers: there is no file, or it cannot be
\* read or decoded, or the restoration begins.
Launch ==
  /\ pc = "down"
  /\ \/ Return
     \/ /\ file # NoSnapshot
        /\ Restore("recover", file)
        /\ UNCHANGED ported
  /\ UNCHANGED <<desktop, file, session, lost>>

\* The application ends, in the middle of a call or between calls.  What is
\* in memory is gone.
AppEnds ==
  /\ pc # "down"
  /\ pc' = "down"
  /\ purpose' = "none"
  /\ snap' = NoSnapshot
  /\ todo' = {}
  /\ current' = NoSetting
  /\ ported' = {}
  /\ previous' = NoSnapshot
  /\ applied' = "no"
  /\ UNCHANGED <<desktop, file, lost>>

\* The user changes a setting in the desktop's own dialog.
UserEdit(s, v) ==
  /\ pc \in {"idle", "down"}
  /\ sys' = [sys EXCEPT ![s] = v]
  /\ user' = [user EXCEPT ![s] = v]
  /\ lost' = IF file # NoSnapshot THEN lost \union {"edited"} ELSE lost
  /\ UNCHANGED <<file, session, pc, call>>

-----------------------------------------------------------------------------
Next ==
  \/ Launch \/ AppEnds \/ Disable
  \/ \E listeners \in SUBSET Setting : EnableBegin(listeners)
  \/ ReadSettings \/ WriteRecovery \/ ApplyFails
  \/ RestoreSwitch \/ RestoreFails \/ DeleteRecovery \/ DeleteRecoveryFails
  \/ \E s \in Setting : ApplySetting(s) \/ RestoreServer(s)
  \/ \E s \in Setting, v \in UserSetting : UserEdit(s, v)

Spec == Init /\ [][Next]_vars

-----------------------------------------------------------------------------
MaybeSnapshot == Snapshot \union {NoSnapshot}

\* Every variable has its type.
TypeOK ==
  /\ sys \in Snapshot
  /\ user \in [Setting -> UserSetting]
  /\ file \in MaybeSnapshot
  /\ previous \in MaybeSnapshot
  /\ applied \in {"no", "yes"}
  /\ pc \in Stage
  /\ purpose \in Purpose
  /\ snap \in MaybeSnapshot
  /\ todo \subseteq Setting
  /\ current \in Setting \union {NoSetting}
  /\ ported \subseteq Setting
  /\ snap # NoSnapshot <=> pc \in {"write", "apply", "restore", "delete"}
  /\ purpose # "none" <=> pc \in {"restore", "delete"}
  /\ lost \subseteq {"overwritten", "edited"}

\* The user's settings are never out of reach: whenever the application ends,
\* in the middle of whatever call, either the recovery file holds them or
\* they are in effect.  Only two things defeat that: a takeover that starts
\* while an older recovery file was not worked off, and an edit of the user
\* during a takeover.
Restorable ==
  lost \intersect {"overwritten", "edited"} = {} =>
    \A s \in Setting : Same(IF file = NoSnapshot THEN sys[s] ELSE file[s],
                            user[s])

\* While a takeover is applied, what disable would restore and what the next
\* launch would restore are the same.
MemoryMatchesFile == applied = "yes" => previous = file /\ file # NoSnapshot

\* enable reports success only when every setting with a listener points to
\* Manis and every other one is off, all of them.
EnableTakesAll ==
  [][applied = "no" /\ applied' = "yes" =>
       \A s \in Setting :
         IF s \in ported THEN sys'[s] = [server |-> Manis, enabled |-> "on"]
                         ELSE sys'[s].enabled = "off"]_vars

\* The session implements the abstract takeover.
Undo == INSTANCE UndoLog WITH
          Value <- ProxySetting, UserValue <- UserSetting,
          NoRecord <- NoSnapshot, current <- sys, record <- file
Undoable == Undo!UndoLogged
=============================================================================
