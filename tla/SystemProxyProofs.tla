------------------------- MODULE SystemProxyProofs --------------------------
(*****************************************************************************)
(* For every set of settings and servers: the user's proxy settings stay     *)
(* within reach on macOS, and the session implements UndoLog. For every      *)
(* value that a user may have set, they come back on Linux and Windows,      *)
(* too, and running programs notice.                                         *)
(*                                                                           *)
(* Restorable alone is not inductive. Deleting the recovery file keeps it    *)
(* only because a restoration that was not cut short has put back every      *)
(* setting (RestoredSoFar), from the contents of that very file              *)
(* (CallMatchesFile), and because a setting without a server is off, so      *)
(* that restoring it needs no server (WellFormed).                           *)
(*                                                                           *)
(* ProxyComesBack needs the same two facts of the keys that a restoring      *)
(* call has passed (PassedIsRestored) and of the file that it took its       *)
(* snapshot from (CallHasFile), that the file is the user's                  *)
(* (FileIsTheirs), and that programs are out of date only while a file is    *)
(* there from which the keys will be written again (ProgramsKnow).           *)
(*****************************************************************************)
EXTENDS SystemProxy, PlatformProxy, TLAPS

(* macOS                                                                   *)
Formed(settings) ==
  \A s \in Setting : settings[s].server = NoServer => settings[s].enabled = "off"

WellFormed ==
  /\ Formed(sys)
  /\ file # NoSnapshot => Formed(file)
  /\ snap # NoSnapshot => Formed(snap)

CallMatchesFile ==
  /\ pc \in {"read", "write", "apply"} => applied = "no"
  /\ pc = "write" => snap = sys
  /\ pc \in {"apply", "restore", "delete"} => snap = file /\ file # NoSnapshot

RestoredSoFar ==
  /\ pc = "restore" =>
       /\ \A s \in Setting \ todo : Same(sys[s], snap[s])
       /\ current # NoSetting /\ snap[current].server # NoServer =>
            sys[current].server = snap[current].server
  /\ pc = "delete" => \A s \in Setting : Same(sys[s], snap[s])
  /\ current # NoSetting => pc = "restore" /\ current \in todo

TakenOver(s) ==
  IF s \in ported THEN sys[s] = [server |-> Manis, enabled |-> "on"]
                  ELSE sys[s].enabled = "off"

AppliedSoFar == pc = "apply" => \A s \in Setting \ todo : TakenOver(s)

SessionInv ==
  /\ TypeOK
  /\ Restorable
  /\ MemoryMatchesFile
  /\ WellFormed
  /\ CallMatchesFile
  /\ RestoredSoFar
  /\ AppliedSoFar

-----------------------------------------------------------------------------
\* The initial states satisfy the inductive invariant.
LEMMA SessionInit == Init => SessionInv
<1> SUFFICES ASSUME Init PROVE SessionInv
    OBVIOUS
<1> USE DEF Init
<1>1. TypeOK
    BY DistinctAssumption DEF TypeOK, MaybeSnapshot, Snapshot, UserSetting, ProxySetting,
      Stage,
           Purpose
<1>2. Restorable
    BY DEF Restorable, Same
<1>3. WellFormed
    BY DEF WellFormed, Formed, UserSetting
<1>4. MemoryMatchesFile /\ CallMatchesFile /\ RestoredSoFar /\ AppliedSoFar
    BY DEF MemoryMatchesFile, CallMatchesFile, RestoredSoFar, AppliedSoFar
<1> QED
    BY <1>1, <1>2, <1>3, <1>4 DEF SessionInv

\* Every command, every failure, every end of the application and every edit
\* of the user keeps the inductive invariant.
LEMMA SessionStep == SessionInv /\ [Next]_vars => SessionInv'
<1> SUFFICES ASSUME SessionInv, [Next]_vars PROVE SessionInv'
    OBVIOUS
<1> USE DistinctAssumption, NoSnapshotAssumption DEF SessionInv, desktop, session, call
<1>1. ASSUME NEW s \in Setting, RestoreServer(s)
      PROVE  SessionInv'
  <2> USE <1>1 DEF RestoreServer
  <2>1. TypeOK'
      BY DEF TypeOK, Snapshot, ProxySetting, Switch, MaybeSnapshot, Stage
  <2>2. Restorable' /\ MemoryMatchesFile' /\ CallMatchesFile'
      BY DEF Restorable, MemoryMatchesFile, CallMatchesFile, TypeOK
  <2>3. WellFormed'
      BY DEF WellFormed, Formed, TypeOK, Snapshot
  <2>4. RestoredSoFar' /\ AppliedSoFar'
      BY DEF RestoredSoFar, AppliedSoFar, TypeOK, Snapshot, ProxySetting, Same
  <2> QED
      BY <2>1, <2>2, <2>3, <2>4
<1>2. CASE RestoreSwitch
  <2> USE <1>2 DEF RestoreSwitch
  <2>1. TypeOK'
      BY DEF TypeOK, Snapshot, ProxySetting, MaybeSnapshot, Stage, Purpose
  <2>2. Restorable' /\ MemoryMatchesFile' /\ CallMatchesFile'
      BY DEF Restorable, MemoryMatchesFile, CallMatchesFile, TypeOK
  <2>3. WellFormed'
      BY DEF WellFormed, Formed, TypeOK, Snapshot, ProxySetting, RestoredSoFar,
        CallMatchesFile, MaybeSnapshot
  <2>4. Same(sys'[current], snap[current])
      BY DEF RestoredSoFar, WellFormed, Formed, CallMatchesFile, Same, TypeOK, Snapshot,
             ProxySetting, Switch, MaybeSnapshot
  <2>5. \A s \in Setting \ {current} : sys'[s] = sys[s]
      BY DEF TypeOK, Snapshot
  <2>6. RestoredSoFar' /\ AppliedSoFar'
      BY <2>4, <2>5 DEF RestoredSoFar, AppliedSoFar, TypeOK
  <2> QED
      BY <2>1, <2>2, <2>3, <2>6
<1>3. CASE RestoreFails \/ DeleteRecoveryFails
    BY <1>3 DEF RestoreFails, DeleteRecoveryFails, Return, TypeOK, Stage,
       Purpose, MaybeSnapshot, Restorable, MemoryMatchesFile, WellFormed,
       CallMatchesFile, RestoredSoFar, AppliedSoFar
<1>4. CASE DeleteRecovery
  <2> USE <1>4 DEF DeleteRecovery, Return
  <2>1. TypeOK'
      BY DEF TypeOK, Stage, Purpose, MaybeSnapshot
  <2>2. Restorable'
      BY DEF Restorable, RestoredSoFar, CallMatchesFile, Same
  <2>3. /\ MemoryMatchesFile' /\ WellFormed'
        /\ CallMatchesFile' /\ RestoredSoFar' /\ AppliedSoFar'
      BY DEF MemoryMatchesFile, WellFormed, CallMatchesFile, RestoredSoFar,
             AppliedSoFar
  <2> QED
      BY <2>1, <2>2, <2>3
<1>5. ASSUME NEW listeners \in SUBSET Setting, EnableBegin(listeners)
      PROVE  SessionInv'
    BY <1>5 DEF EnableBegin, Restore, TypeOK, Stage,
       Purpose, MaybeSnapshot, Restorable, MemoryMatchesFile, WellFormed,
       CallMatchesFile, RestoredSoFar, AppliedSoFar
<1>6. CASE ReadSettings
    BY <1>6 DEF ReadSettings, Return, TypeOK, Stage,
       Purpose, MaybeSnapshot, Restorable, MemoryMatchesFile, WellFormed,
       CallMatchesFile, RestoredSoFar, AppliedSoFar
<1>7. CASE WriteRecovery
  <2> USE <1>7 DEF WriteRecovery, Return
  <2>1. TypeOK'
      BY DEF TypeOK, Stage, Purpose, MaybeSnapshot
  <2>2. Restorable'
      BY DEF Restorable, CallMatchesFile, Same, TypeOK, MaybeSnapshot
  <2>3. /\ MemoryMatchesFile' /\ WellFormed'
        /\ CallMatchesFile' /\ RestoredSoFar' /\ AppliedSoFar'
      BY DEF MemoryMatchesFile, WellFormed, CallMatchesFile, RestoredSoFar,
             AppliedSoFar, TypeOK
  <2> QED
      BY <2>1, <2>2, <2>3
<1>8. ASSUME NEW s \in Setting, ApplySetting(s)
      PROVE  SessionInv'
  <2> USE <1>8 DEF ApplySetting, Return
  <2>0. Applied(s) \in ProxySetting /\ (Applied(s).server = NoServer
          => Applied(s).enabled = "off")
      BY DEF Applied, TypeOK, Snapshot, ProxySetting, Switch
  <2>1. TypeOK'
      BY <2>0 DEF TypeOK, Stage, Purpose, MaybeSnapshot, Snapshot
  <2>2. Restorable'
      BY DEF Restorable, CallMatchesFile
  <2>3. WellFormed'
      BY <2>0 DEF WellFormed, Formed, TypeOK, Snapshot
  <2>4. MemoryMatchesFile' /\ CallMatchesFile' /\ RestoredSoFar'
      BY DEF MemoryMatchesFile, CallMatchesFile, RestoredSoFar, TypeOK
  <2>5. AppliedSoFar'
      BY DEF AppliedSoFar, TakenOver, Applied, TypeOK, Snapshot, ProxySetting
  <2> QED
      BY <2>1, <2>2, <2>3, <2>4, <2>5
<1>9. CASE ApplyFails \/ Disable
    BY <1>9 DEF ApplyFails, Disable, Restore, TypeOK, Stage,
       Purpose, MaybeSnapshot, Restorable, MemoryMatchesFile, WellFormed,
       CallMatchesFile, RestoredSoFar, AppliedSoFar
<1>10. CASE Launch
    BY <1>10 DEF Launch, Restore, Return, TypeOK, Stage,
       Purpose, MaybeSnapshot, Restorable, MemoryMatchesFile, WellFormed,
       CallMatchesFile, RestoredSoFar, AppliedSoFar
<1>11. CASE AppEnds
    BY <1>11 DEF AppEnds, TypeOK, Stage,
       Purpose, MaybeSnapshot, Restorable, MemoryMatchesFile, WellFormed,
       CallMatchesFile, RestoredSoFar, AppliedSoFar
<1>12. ASSUME NEW s \in Setting, NEW v \in UserSetting, UserEdit(s, v)
       PROVE  SessionInv'
  <2> USE <1>12 DEF UserEdit
  <2>1. TypeOK'
      BY DEF TypeOK, Snapshot, UserSetting
  <2>2. Restorable'
      BY DEF Restorable, Same, TypeOK, Snapshot
  <2>3. WellFormed'
      BY DEF WellFormed, Formed, TypeOK, Snapshot, UserSetting
  <2>4. /\ MemoryMatchesFile' /\ CallMatchesFile' /\ RestoredSoFar'
        /\ AppliedSoFar'
      BY DEF MemoryMatchesFile, CallMatchesFile, RestoredSoFar, AppliedSoFar,
             TypeOK
  <2> QED
      BY <2>1, <2>2, <2>3, <2>4
<1>13. CASE UNCHANGED vars
    BY <1>13 DEF vars, TypeOK, Restorable, MemoryMatchesFile, WellFormed, Formed,
       CallMatchesFile, RestoredSoFar, AppliedSoFar, TakenOver, Same,
       MaybeSnapshot
<1> QED
    BY <1>1, <1>2, <1>3, <1>4, <1>5, <1>6, <1>7, <1>8, <1>9, <1>10, <1>11,
       <1>12, <1>13 DEF Next

\* The inductive invariant holds in every reachable state.
LEMMA SessionInvariant == Spec => []SessionInv
  BY SessionInit, SessionStep, PTL DEF Spec

-----------------------------------------------------------------------------
\* The session's variables always have their types.
THEOREM SystemProxyTypeOK == Spec => []TypeOK
<1>1. SessionInv => TypeOK
    BY DEF SessionInv
<1> QED
    BY <1>1, SessionInvariant, PTL

\* However the application ends, the user's settings are in effect or in the
\* recovery file, save for the two ways of losing them that are recorded.
THEOREM SettingsStayRestorable == Spec => []Restorable
<1>1. SessionInv => Restorable
    BY DEF SessionInv
<1> QED
    BY <1>1, SessionInvariant, PTL

\* An applied session and the recovery file always agree.
THEOREM MemoryAgreesWithFile == Spec => []MemoryMatchesFile
<1>1. SessionInv => MemoryMatchesFile
    BY DEF SessionInv
<1> QED
    BY <1>1, SessionInvariant, PTL

\* enable reports success only with every setting taken over.
THEOREM TakeoverIsComplete == Spec => EnableTakesAll
<1> DEFINE Complete ==
      \A s \in Setting :
        IF s \in ported THEN sys'[s] = [server |-> Manis, enabled |-> "on"]
                        ELSE sys'[s].enabled = "off"
<1>1. SessionInv /\ [Next]_vars
        => [applied = "no" /\ applied' = "yes" => Complete]_vars
  <2> SUFFICES ASSUME SessionInv, Next, applied = "no", applied' = "yes"
               PROVE  Complete
      OBVIOUS
  <2>1. PICK s \in Setting : ApplySetting(s)
      BY DEF Next, Launch, AppEnds, Disable, EnableBegin, ReadSettings,
             WriteRecovery, ApplyFails, RestoreServer, RestoreSwitch,
             RestoreFails, DeleteRecovery, DeleteRecoveryFails, UserEdit,
             session
  <2>2. todo = {s} /\ pc = "apply" /\ sys' = [sys EXCEPT ![s] = Applied(s)]
      BY <2>1 DEF ApplySetting, session
  <2>3. \A t \in Setting \ {s} : TakenOver(t) /\ sys'[t] = sys[t]
      BY <2>2 DEF SessionInv, AppliedSoFar, TypeOK, Snapshot
  <2>4. sys'[s] = Applied(s)
      BY <2>2 DEF SessionInv, TypeOK, Snapshot
  <2>5. s \notin ported => Applied(s).enabled = "off"
      BY DEF SessionInv, Applied, TypeOK, Snapshot, ProxySetting
  <2> QED
      BY <2>3, <2>4, <2>5 DEF TakenOver, Applied
<1> QED
    BY <1>1, SessionInvariant, PTL DEF Spec, EnableTakesAll

\* The session implements the abstract takeover: no setting is changed without
\* a durable record of what it was, and the record goes only when the settings
\* are again what it says.
THEOREM SessionImplementsUndoLog == Spec => Undoable
<1>1. Init => Undo!Start
    BY DEF Init, Undo!Start
<1>2. SessionInv /\ [Next]_vars => [Undo!Step]_(Undo!undoVars)
  <2> SUFFICES ASSUME SessionInv, Next
               PROVE  Undo!Step \/ UNCHANGED Undo!undoVars
      BY DEF vars, Undo!undoVars
  <2> USE DEF SessionInv, desktop, session, call, Undo!undoVars
  <2>0. sys' \in [Setting -> ProxySetting]
      BY SessionStep DEF TypeOK, Snapshot
  <2>1. ASSUME NEW s \in Setting, RestoreServer(s)
        PROVE  Undo!Change
      BY <2>0, <2>1 DEF RestoreServer, Undo!Change, CallMatchesFile
  <2>2. CASE RestoreSwitch
    <3>1. Undo!Change
        BY <2>0, <2>2 DEF RestoreSwitch, Undo!Change, CallMatchesFile
    <3> QED
        BY <3>1 DEF Undo!Step
  <2>3. CASE DeleteRecovery
    <3>1. Undo!Drop
        BY <2>3 DEF DeleteRecovery, Undo!Drop, RestoredSoFar, CallMatchesFile
    <3> QED
        BY <3>1 DEF Undo!Step
  <2>4. CASE WriteRecovery
    <3>1. Undo!WriteDown \/ UNCHANGED Undo!undoVars
        BY <2>4 DEF WriteRecovery, Undo!WriteDown, CallMatchesFile
    <3> QED
        BY <3>1 DEF Undo!Step
  <2>5. ASSUME NEW s \in Setting, ApplySetting(s)
        PROVE  Undo!Change
      BY <2>0, <2>5 DEF ApplySetting, Undo!Change, CallMatchesFile
  <2>6. ASSUME NEW s \in Setting, NEW v \in UserSetting, UserEdit(s, v)
        PROVE  Undo!Edit
      BY <2>6 DEF UserEdit, Undo!Edit
  <2>7. CASE \/ Launch \/ AppEnds \/ Disable \/ ReadSettings \/ ApplyFails
             \/ RestoreFails \/ DeleteRecoveryFails
             \/ \E listeners \in SUBSET Setting : EnableBegin(listeners)
      BY <2>7 DEF Launch, AppEnds, Disable, ReadSettings, ApplyFails,
                  RestoreFails, DeleteRecoveryFails, EnableBegin
  <2> QED
      BY <2>1, <2>2, <2>3, <2>4, <2>5, <2>6, <2>7 DEF Next, Undo!Step
<1> QED
    BY <1>1, <1>2, SessionInvariant, PTL DEF Spec, Undoable, Undo!UndoLogged

-----------------------------------------------------------------------------
(* Linux and Windows                                                       *)
Suffixes ==
  IF platform = "linux"
    THEN {<<"http", "socks", "mode">>, <<"socks", "mode">>, <<"mode">>, <<>>}
    ELSE {<<"ProxyServer", "ProxyEnable">>, <<"ProxyEnable">>, <<>>}
Coming(left) == {left[i] : i \in 1 .. Len(left)}
KeysOf(name) ==
  IF name = "linux" THEN {"http", "socks", "mode"} ELSE {"ProxyServer", "ProxyEnable"}

Settings == [KeysOf(platform) -> Values]
SettingsTyped ==
  /\ platform \in {"linux", "windows"} /\ gone \in BOOLEAN
  /\ registry \in Settings /\ meant \in Settings
FilesTyped ==
  /\ kept \in Settings \union {NoFile}
  /\ took \in [previous : Settings \union {NoFile}, applied : BOOLEAN]
WorkType ==
  [at : {"down", "idle", "read", "write", "set", "delete"},
   why : {"none", "recover", "reenable", "enable", "rollback", "disable"},
   snap : Settings \union {NoFile}, left : Suffixes, ports : SUBSET {"http", "socks"}]
PlatformTypeOK == SettingsTyped /\ FilesTyped /\ work \in WorkType

\* A call that writes settings or a file has a snapshot; one that is about to
\* delete the file was no enable and has passed every key.
CallKnows ==
  /\ work.at \in {"write", "set", "delete"} => work.snap # NoFile
  /\ work.at \in {"set", "delete"} => work.why # "none"
  /\ work.at = "delete" => work.why # "enable" /\ work.left = <<>>

\* Settings change only while there is a recovery file, which the running call
\* took its snapshot from or wrote it to; an applied session remembers it too.
CallHasFile ==
  /\ work.at \in {"set", "delete"} => kept = work.snap
  /\ took.applied => kept # NoFile /\ took.previous = kept
  /\ \/ work.at \in {"down", "read", "write"}
     \/ work.at \in {"set", "delete"} /\ work.why \in {"enable", "rollback", "recover"}
     => ~took.applied

\* Programs know what is set, unless keys are being written or a file is there
\* from which they will be written again.
ProgramsKnow == kept = NoFile \/ work.at = "delete" => noticed = registry

\* The recovery file has what the user left.
FileIsTheirs ==
  ~gone /\ kept # NoFile => \A k \in KeysOf(platform) : kept[k] = Read(meant[k])

\* A key that a restoring call has passed is as its snapshot says; and without
\* a file every key is as the user left it, and so is what was read of it.
Passed == KeysOf(platform) \ Coming(work.left)
PassedIsRestored ==
  /\ ~gone /\ work.at \in {"set", "delete"} /\ work.why # "enable" =>
       \A k \in Passed : registry[k] = work.snap[k]
  /\ ~gone /\ kept = NoFile =>
       \A k \in KeysOf(platform) : Read(registry[k]) = Read(meant[k])
  /\ ~gone /\ work.at = "write" =>
       \A k \in KeysOf(platform) : work.snap[k] = Read(registry[k])

PlatformInv ==
  /\ PlatformTypeOK /\ CallKnows /\ CallHasFile /\ ProgramsKnow /\ FileIsTheirs
      /\ PassedIsRestored
-----------------------------------------------------------------------------
(* Lemmas about the keys and the recovery file                             *)

\* Short lists of keys as sets.
LEMMA ShortLists ==
  /\ Coming(<<>>) = {}
  /\ Coming(<<"http", "socks", "mode">>) = {"http", "socks", "mode"}
  /\ Coming(<<"socks", "mode">>) = {"socks", "mode"}
  /\ Coming(<<"mode">>) = {"mode"}
  /\ Coming(<<"ProxyServer", "ProxyEnable">>) = {"ProxyServer", "ProxyEnable"}
  /\ Coming(<<"ProxyEnable">>) = {"ProxyEnable"}
<1>1. 1 .. 0 = {} /\ 1 .. 1 = {1} /\ 1 .. 2 = {1, 2} /\ 1 .. 3 = {1, 2, 3}
  OBVIOUS
<1>2. Coming(<<>>) = {}
  BY <1>1 DEF Coming
<1>3. Coming(<<"http", "socks", "mode">>) = {"http", "socks", "mode"}
  BY <1>1 DEF Coming
<1>4. Coming(<<"socks", "mode">>) = {"socks", "mode"}
  BY <1>1 DEF Coming
<1>5. Coming(<<"mode">>) = {"mode"}
  BY <1>1 DEF Coming
<1>6. Coming(<<"ProxyServer", "ProxyEnable">>) = {"ProxyServer", "ProxyEnable"}
  BY <1>1 DEF Coming
<1>7. Coming(<<"ProxyEnable">>) = {"ProxyEnable"}
  BY <1>1 DEF Coming
<1> QED
  BY <1>2, <1>3, <1>4, <1>5, <1>6, <1>7

\* The keys of a platform are named in the order of its commands.
LEMMA KeysAreNamed ==
  ASSUME platform \in {"linux", "windows"}
  PROVE  Named = KeysOf(platform) /\ Coming(Keys) = KeysOf(platform)
         /\ Keys \in Suffixes /\ Keys # <<>>
<1>1. Named = Coming(Keys)
  BY DEF Named, Coming
<1>2. Coming(Keys) = KeysOf(platform)
  BY ShortLists DEF Keys, KeysOf
<1> QED
  BY <1>1, <1>2 DEF Keys, Suffixes

\* The keys that are still to come, in turn.
LEMMA KeysInTurn ==
  ASSUME platform \in {"linux", "windows"}, NEW left \in Suffixes, left # <<>>
  PROVE  /\ Head(left) \in KeysOf(platform) /\ Tail(left) \in Suffixes
         /\ Coming(left) = {Head(left)} \union Coming(Tail(left))
<1>1. CASE left = <<"http", "socks", "mode">>
  <2>1. Head(left) = "http" /\ Tail(left) = <<"socks", "mode">>
    BY <1>1
  <2>2. Coming(left) = {"http", "socks", "mode"} /\ Coming(<<"socks",
        "mode">>) = {"socks", "mode"}
    BY <1>1, ShortLists
  <2> QED
    BY <1>1, <2>1, <2>2 DEF KeysOf, Suffixes
<1>2. CASE left = <<"socks", "mode">>
  <2>1. Head(left) = "socks" /\ Tail(left) = <<"mode">>
    BY <1>2
  <2>2. Coming(left) = {"socks", "mode"} /\ Coming(<<"mode">>) = {"mode"}
    BY <1>2, ShortLists
  <2> QED
    BY <1>2, <2>1, <2>2 DEF KeysOf, Suffixes
<1>3. CASE left = <<"mode">>
  <2>1. Head(left) = "mode" /\ Tail(left) = <<>>
    BY <1>3
  <2>2. Coming(left) = {"mode"} /\ Coming(<<>>) = {}
    BY <1>3, ShortLists
  <2> QED
    BY <1>3, <2>1, <2>2 DEF KeysOf, Suffixes
<1>4. CASE left = <<"ProxyServer", "ProxyEnable">>
  <2>1. Head(left) = "ProxyServer" /\ Tail(left) = <<"ProxyEnable">>
    BY <1>4
  <2>2. Coming(left) = {"ProxyServer", "ProxyEnable"}
          /\ Coming(<<"ProxyEnable">>) = {"ProxyEnable"}
    BY <1>4, ShortLists
  <2> QED
    BY <1>4, <2>1, <2>2 DEF KeysOf, Suffixes
<1>5. CASE left = <<"ProxyEnable">>
  <2>1. Head(left) = "ProxyEnable" /\ Tail(left) = <<>>
    BY <1>5
  <2>2. Coming(left) = {"ProxyEnable"} /\ Coming(<<>>) = {}
    BY <1>5, ShortLists
  <2> QED
    BY <1>5, <2>1, <2>2 DEF KeysOf, Suffixes
<1> QED
  BY <1>1, <1>2, <1>3, <1>4, <1>5 DEF Suffixes

\* No settings are no file.
LEMMA SettingsAreAFile ==
  ASSUME platform \in {"linux", "windows"}
  PROVE  NoFile \notin Settings
BY NoFileAssumption DEF Contents, Settings, KeysOf

\* What is read once and what is read twice are the same.
LEMMA ReadTwice == \A v : Read(Read(v)) = Read(v)
BY DEF Read

\* A call that starts to restore: its fields and its type.
LEMMA RestoringCall ==
  ASSUME PlatformTypeOK, NEW why \in {"recover", "rollback", "disable"},
         NEW from \in Settings, Restoring(why, from)
  PROVE  /\ work' \in WorkType
         /\ work'.at = "set" /\ work'.why = why /\ work'.snap = from /\ work'.left = Keys
<1>1. Keys \in Suffixes
  BY KeysAreNamed DEF PlatformTypeOK, SettingsTyped
<1>2. work' = [at |-> "set", why |-> why, snap |-> from, left |-> Keys, ports |-> work.ports]
  BY DEF Restoring, PlatformTypeOK, WorkType
<1> QED
  BY <1>1, <1>2 DEF PlatformTypeOK, WorkType

\* A call that is over, or that the application's end cut off.
LEMMA NoCall ==
  /\ Nowhere \in WorkType /\ Nowhere.at = "idle"
  /\ [Nowhere EXCEPT !.at = "down"] \in WorkType
  /\ [Nowhere EXCEPT !.at = "down"].at = "down"
BY DEF Nowhere, WorkType, Suffixes

\* Every step of the two sessions keeps the invariant.
LEMMA PlatformNextInv == PlatformInv /\ [PlatformNext]_platformVars => PlatformInv'
<1> SUFFICES ASSUME PlatformInv, [PlatformNext]_platformVars PROVE PlatformInv'
  OBVIOUS
<1> USE DEF PlatformInv
<1>a. /\ platform \in {"linux", "windows"} /\ platform' = platform
     /\ Named = KeysOf(platform) /\ Coming(Keys) = KeysOf(platform)
     /\ Keys \in Suffixes /\ Keys # <<>> /\ Coming(<<>>) = {}
     /\ NoFile \notin Settings /\ Settings' = Settings /\ WorkType' = WorkType
  <2>1. platform' = platform
    BY DEF PlatformNext, platformVars, Silently, StartApplication, TakeOver, ReadKeys,
      WriteFile, SetKey, Notify, DeleteFile, GiveBack, UserSets, ApplicationEnds
  <2> QED
    BY <2>1, KeysAreNamed, ShortLists, SettingsAreAFile DEF PlatformTypeOK, SettingsTyped,
      Settings, WorkType, Suffixes
<1>1. CASE StartApplication
  <2>e. /\ work.at = "down" /\ work' \in WorkType
        /\ UNCHANGED <<registry, noticed, meant, kept, took, gone>>
        /\ \/ work'.at = "idle"
           \/ /\ work'.at = "set" /\ work'.why = "recover" /\ work'.snap = kept
              /\ work'.left = Keys /\ kept # NoFile
    <3>1. CASE Over
      BY <1>1, <3>1, NoCall DEF StartApplication, Silently, Over
    <3>2. CASE kept # NoFile /\ Restoring("recover", kept)
      <4>1. kept \in Settings
        BY <3>2 DEF PlatformTypeOK, FilesTyped
      <4> QED
        BY <1>1, <3>2, <4>1, RestoringCall DEF StartApplication, Silently
    <3> QED BY <1>1, <3>1, <3>2 DEF StartApplication
  <2>1. PlatformTypeOK'
    BY <2>e, <1>a DEF PlatformTypeOK, FilesTyped, SettingsTyped
  <2>2. CallKnows' /\ CallHasFile'
    BY <2>e, <1>a DEF CallKnows, CallHasFile, PlatformTypeOK, FilesTyped, SettingsTyped
  <2>3. ProgramsKnow' /\ FileIsTheirs'
    BY <2>e, <1>a DEF ProgramsKnow, FileIsTheirs, PlatformTypeOK, CallKnows,
      CallHasFile, Read, FilesTyped, SettingsTyped
  <2>4. PassedIsRestored'
    BY <2>e, <1>a DEF PassedIsRestored, PlatformTypeOK, CallKnows, CallHasFile,
      ProgramsKnow, FileIsTheirs, Passed, Read, FilesTyped, SettingsTyped
  <2> QED
    BY <2>1, <2>2, <2>3, <2>4
<1>2. CASE TakeOver
  <2>e. /\ work.at = "idle" /\ work' \in WorkType
        /\ UNCHANGED <<registry, noticed, meant, kept, took, gone>>
        /\ \/ /\ took.applied /\ work'.at = "set" /\ work'.why = "reenable"
              /\ work'.snap = took.previous /\ work'.left = Keys
           \/ ~took.applied /\ work'.at = "read"
    <3> PICK ports \in Listening : TakeOver!(ports)
      BY <1>2 DEF TakeOver
    <3>0. ports \in SUBSET {"http", "socks"}
      BY DEF Listening
    <3>1. CASE took.applied
      <4>1. work' = [at |-> "set", why |-> "reenable", snap |-> took.previous,
                     left |-> Keys, ports |-> ports]
        BY <3>1 DEF Nowhere
      <4> QED
        BY <1>a, <3>0, <3>1, <4>1 DEF Silently, PlatformTypeOK, FilesTyped, WorkType
    <3>2. CASE ~took.applied
      <4>1. work' = [at |-> "read", why |-> "none", snap |-> NoFile, left |-> <<>>,
                     ports |-> ports]
        BY <3>2 DEF Nowhere
      <4> QED
        BY <3>0, <3>2, <4>1, NoCall DEF Silently, WorkType, Suffixes
    <3> QED BY <3>1, <3>2, SMTT(30)
  <2>1. PlatformTypeOK'
    BY <2>e, <1>a DEF PlatformTypeOK, FilesTyped, SettingsTyped
  <2>2. CallKnows' /\ CallHasFile'
    BY <2>e, <1>a DEF CallKnows, CallHasFile, PlatformTypeOK, FilesTyped, SettingsTyped
  <2>3. ProgramsKnow' /\ FileIsTheirs'
    BY <2>e, <1>a DEF ProgramsKnow, FileIsTheirs, PlatformTypeOK, CallKnows,
      CallHasFile, Read, FilesTyped, SettingsTyped
  <2>4. PassedIsRestored'
    BY <2>e, <1>a DEF PassedIsRestored, PlatformTypeOK, CallKnows, CallHasFile,
      ProgramsKnow, FileIsTheirs, Passed, Read, FilesTyped, SettingsTyped
  <2> QED
    BY <2>1, <2>2, <2>3, <2>4
<1>3. CASE ReadKeys
  <2>e. /\ work.at = "read" /\ work' \in WorkType /\ gone' \in BOOLEAN
        /\ UNCHANGED <<registry, noticed, meant, kept, took>>
        /\ \/ work'.at = "idle" /\ gone' = gone
           \/ /\ work'.at = "write"
              /\ work'.snap \in Settings
              /\ gone => gone'
              /\ ~gone' => \A k \in KeysOf(platform) : work'.snap[k] = Read(registry[k])
    <3>1. CASE Over /\ UNCHANGED gone
      BY <1>3, <3>1, NoCall DEF ReadKeys, Over, PlatformTypeOK, SettingsTyped
    <3>2. CASE ~(Over /\ UNCHANGED gone)
      <4> PICK unread \in SUBSET Named :
            /\ unread = {} \/ Misreported(unread)
            /\ work' = [work EXCEPT !.at = "write", !.snap = [k \in Named |->
                          IF k \in unread THEN "absent" ELSE Read(registry[k])]]
            /\ gone' = (gone \/ unread # {})
        BY <1>3, <3>2 DEF ReadKeys
      <4> DEFINE from == [k \in KeysOf(platform) |->
                            IF k \in unread THEN "absent" ELSE Read(registry[k])]
      <4>1. unread = {} \/ platform = "windows"
        BY DEF Misreported
      <4>2. \A k \in KeysOf(platform) : Read(registry[k]) \in Values
        BY DEF PlatformTypeOK, SettingsTyped, Settings, Values, Read
      <4>3. from \in Settings
        BY <4>2 DEF Settings, Values
      <4>4. ~gone' => \A k \in KeysOf(platform) : from[k] = Read(registry[k])
        OBVIOUS
      <4>5. work' = [work EXCEPT !.at = "write", !.snap = from]
        BY <1>a
      <4>6. gone' \in BOOLEAN /\ (gone => gone')
        OBVIOUS
      <4> HIDE DEF from
      <4> QED
        BY <1>3, <4>3, <4>4, <4>5, <4>6 DEF ReadKeys, PlatformTypeOK, WorkType
    <3> QED BY <3>1, <3>2
  <2>1. PlatformTypeOK'
    BY <2>e, <1>a DEF PlatformTypeOK, FilesTyped, SettingsTyped
  <2>2. CallKnows' /\ CallHasFile'
    BY <2>e, <1>a DEF CallKnows, CallHasFile, PlatformTypeOK, FilesTyped, SettingsTyped
  <2>3. ProgramsKnow' /\ FileIsTheirs'
    BY <2>e, <1>a DEF ProgramsKnow, FileIsTheirs, PlatformTypeOK, CallKnows,
      CallHasFile, Read, FilesTyped, SettingsTyped
  <2>4. PassedIsRestored'
    BY <2>e, <1>a DEF PassedIsRestored, PlatformTypeOK, CallKnows, CallHasFile,
      ProgramsKnow, FileIsTheirs, Passed, Read, FilesTyped, SettingsTyped
  <2> QED
    BY <2>1, <2>2, <2>3, <2>4
<1>4. CASE WriteFile
  <2>e. /\ work.at = "write" /\ work' \in WorkType /\ gone' \in BOOLEAN
        /\ UNCHANGED <<registry, noticed, meant, took>>
        /\ \/ work'.at = "idle" /\ UNCHANGED <<kept, gone>>
           \/ /\ kept' = work.snap /\ (~gone' => ~gone /\ kept \in {NoFile, work.snap})
              /\ work'.at = "set" /\ work'.why = "enable" /\ work'.snap = work.snap
                  /\ work'.left = Keys
    <3>1. CASE Over /\ UNCHANGED <<kept, gone>>
      BY <1>4, <3>1, NoCall DEF WriteFile, Over, PlatformTypeOK, SettingsTyped
    <3>2. CASE ~(Over /\ UNCHANGED <<kept, gone>>)
      <4>1. work' = [work EXCEPT !.at = "set", !.why = "enable", !.left = Keys]
        BY <1>4, <3>2 DEF WriteFile
      <4>2. work' \in WorkType /\ work'.at = "set" /\ work'.why = "enable"
            /\ work'.snap = work.snap /\ work'.left = Keys
        BY <1>a, <4>1 DEF PlatformTypeOK, WorkType
      <4>3. /\ kept' = work.snap /\ (~gone' => ~gone /\ kept \in {NoFile, work.snap})
            /\ gone' \in BOOLEAN
        BY <1>4, <3>2 DEF WriteFile
      <4> QED
        BY <1>4, <4>2, <4>3 DEF WriteFile
    <3> QED BY <3>1, <3>2
  <2>1. PlatformTypeOK'
    <3>1. work.snap \in Settings
      BY <2>e DEF PlatformTypeOK, WorkType, CallKnows
    <3> QED
      BY <1>a, <2>e, <3>1 DEF PlatformTypeOK, FilesTyped, SettingsTyped
  <2>2. CallKnows' /\ CallHasFile'
    BY <2>e, <1>a DEF CallKnows, CallHasFile, PlatformTypeOK, FilesTyped, SettingsTyped
  <2>3. ProgramsKnow' /\ FileIsTheirs'
    BY <2>e, <1>a DEF ProgramsKnow, FileIsTheirs, PlatformTypeOK, CallKnows,
      CallHasFile, PassedIsRestored, Read, FilesTyped, SettingsTyped, Passed
  <2>4. PassedIsRestored'
    BY <2>e, <1>a DEF PassedIsRestored, PlatformTypeOK, CallKnows, CallHasFile,
      ProgramsKnow, FileIsTheirs, Passed, Read, FilesTyped, SettingsTyped
  <2> QED
    BY <2>1, <2>2, <2>3, <2>4
<1>5. CASE SetKey
  <2>e. /\ work.at = "set" /\ work.left # <<>> /\ work' \in WorkType
        /\ UNCHANGED <<meant, kept, took>>
        /\ gone' \in BOOLEAN /\ (gone => gone')
        /\ \/ /\ UNCHANGED <<registry, noticed>>
              /\ \/ work'.at = "idle" /\ work.why # "enable"
                 \/ /\ work.why = "enable" /\ work'.at = "set" /\ work'.why = "rollback"
                    /\ work'.snap = work.snap /\ work'.left = Keys
           \/ /\ work'.at = "set" /\ work'.why = work.why /\ work'.snap = work.snap
              /\ work'.left = Tail(work.left)
              /\ registry' \in Settings
              /\ work.why # "enable" /\ ~gone' =>
                   registry' = [registry EXCEPT ![Head(work.left)] = work.snap[Head(work.left)]]
    <3> DEFINE key == Head(work.left)
               value == IF work.why = "enable" THEN Ours(key, work.ports) ELSE work.snap[key]
    <3>1. key \in KeysOf(platform) /\ Tail(work.left) \in Suffixes
      BY <1>5, <1>a, KeysInTurn DEF SetKey, PlatformTypeOK, WorkType
    <3>2. CASE registry' = [registry EXCEPT ![key] = value] /\ UNCHANGED <<took, gone>>
               /\ work' = [work EXCEPT !.left = Tail(@)]
      <4>1. value \in Values
        BY <1>5, <3>1 DEF SetKey, CallKnows, PlatformTypeOK, WorkType, Settings, Ours,
          Values
      <4>2. registry' \in Settings
        BY <3>1, <3>2, <4>1 DEF PlatformTypeOK, SettingsTyped, Settings
      <4>3. work' \in WorkType /\ work'.at = work.at /\ work'.why = work.why
            /\ work'.snap = work.snap /\ work'.left = Tail(work.left)
        BY <3>1, <3>2 DEF PlatformTypeOK, WorkType
      <4> QED
        BY <1>5, <3>2, <4>2, <4>3 DEF SetKey, PlatformTypeOK, SettingsTyped
    <3>3. CASE gone' = TRUE /\ UNCHANGED <<registry, noticed, took>>
               /\ work' = [work EXCEPT !.left = Tail(@)]
      <4>1. work' \in WorkType /\ work'.at = work.at /\ work'.why = work.why
            /\ work'.snap = work.snap /\ work'.left = Tail(work.left)
        BY <3>1, <3>3 DEF PlatformTypeOK, WorkType
      <4> QED
        BY <1>5, <3>3, <4>1 DEF SetKey, PlatformTypeOK, SettingsTyped
    <3>4. CASE UNCHANGED <<registry, noticed, gone>> /\ Fails
      <4>1. CASE work.why = "enable"
        <5>1. work.snap \in Settings
          BY <1>5 DEF SetKey, CallKnows, PlatformTypeOK, WorkType
        <5>2. Restoring("rollback", work.snap)
          BY <3>4, <4>1 DEF Fails
        <5> QED
          BY <1>5, <3>4, <4>1, <5>1, <5>2, RestoringCall DEF SetKey, Fails, PlatformTypeOK,
            SettingsTyped
      <4>2. CASE work.why # "enable"
        BY <1>5, <3>4, <4>2, NoCall DEF SetKey, Fails, Over, PlatformTypeOK, SettingsTyped
      <4> QED BY <4>1, <4>2
    <3> QED BY <1>5, <3>2, <3>3, <3>4 DEF SetKey
  <2>1. PlatformTypeOK'
    BY <2>e, <1>a, KeysInTurn DEF PlatformTypeOK, FilesTyped, SettingsTyped
  <2>2. CallKnows' /\ CallHasFile'
    BY <2>e, <1>a, KeysInTurn DEF CallKnows, CallHasFile, PlatformTypeOK, FilesTyped,
      SettingsTyped
  <2>3. ProgramsKnow' /\ FileIsTheirs'
    BY <2>e, <1>a, KeysInTurn DEF ProgramsKnow, FileIsTheirs, PlatformTypeOK, CallKnows,
      CallHasFile, Read, FilesTyped, SettingsTyped
  <2>4. PassedIsRestored'
    <3>1. CASE \/ work'.at = "idle"
               \/ work'.why = "rollback" /\ work'.left = Keys /\ UNCHANGED registry
      BY <1>a, <2>e, <3>1 DEF PassedIsRestored, Passed, CallKnows, CallHasFile, Read
    <3>2. CASE work'.why = work.why /\ work'.left = Tail(work.left)
               /\ work'.at = "set" /\ work'.snap = work.snap
      <4>1. Coming(work.left) = {Head(work.left)} \union Coming(Tail(work.left))
        BY <1>a, <2>e, KeysInTurn DEF PlatformTypeOK, WorkType
      <4>2. kept # NoFile
        BY <2>e DEF CallKnows, CallHasFile
      <4>3. CASE work.why = "enable"
        BY <1>a, <2>e, <3>2, <4>2, <4>3 DEF PassedIsRestored
      <4>4. CASE gone'
        BY <1>a, <2>e, <3>2, <4>2, <4>4 DEF PassedIsRestored
      <4>5. CASE work.why # "enable" /\ ~gone'
        <5>1. registry' = [registry EXCEPT ![Head(work.left)] = work.snap[Head(work.left)]]
          BY <2>e, <3>2, <4>5
        <5>2. \A k \in Passed' : registry'[k] = work.snap[k]
          BY <1>a, <2>e, <3>2, <4>1, <4>5, <5>1 DEF PassedIsRestored, Passed,
            PlatformTypeOK,
            SettingsTyped, Settings
        <5> QED
          BY <1>a, <2>e, <3>2, <4>2, <5>2 DEF PassedIsRestored
      <4> QED BY <4>3, <4>4, <4>5
    <3> QED BY <2>e, <3>1, <3>2
  <2> QED
    BY <2>1, <2>2, <2>3, <2>4
<1>6. CASE Notify
  <2>e. /\ work.at = "set" /\ work.left = <<>> /\ work' \in WorkType
        /\ UNCHANGED <<registry, meant, kept, gone>>
        /\ \/ /\ noticed' = registry
              /\ \/ work.why = "enable" /\ work'.at = "idle" /\ took'.previous = work.snap
                     /\ took'.applied = TRUE
                    /\ took' \in [previous : Settings \union {NoFile}, applied : BOOLEAN]
                 \/ /\ work.why # "enable" /\ work'.at = "delete" /\ work'.why = work.why
                    /\ work'.snap = work.snap /\ work'.left = work.left /\ took' = took
           \/ /\ UNCHANGED <<noticed, took>>
              /\ \/ work'.at = "idle" /\ work.why # "enable"
                 \/ /\ work.why = "enable" /\ work'.at = "set" /\ work'.why = "rollback"
                    /\ work'.snap = work.snap /\ work'.left = Keys
    <3>1. CASE noticed' = registry /\ Finished
      <4>1. CASE work.why = "enable"
        <5>1. work' = Nowhere /\ took' = [previous |-> work.snap, applied |-> TRUE]
          BY <3>1, <4>1 DEF Finished, Over
        <5>2. work.snap \in Settings \union {NoFile}
          BY DEF PlatformTypeOK, WorkType
        <5> QED
          BY <1>6, <3>1, <4>1, <5>1, <5>2, NoCall DEF Notify, Silently
      <4>2. CASE work.why # "enable"
        <5>1. work' = [work EXCEPT !.at = "delete"] /\ UNCHANGED took
          BY <3>1, <4>2 DEF Finished
        <5> QED
          BY <1>6, <3>1, <4>2, <5>1 DEF Notify, Silently, PlatformTypeOK, WorkType
      <4> QED BY <4>1, <4>2
    <3>2. CASE UNCHANGED noticed /\ Fails
      <4>1. CASE work.why = "enable"
        <5>1. work.snap \in Settings
          BY <1>6 DEF Notify, CallKnows, PlatformTypeOK, WorkType
        <5>2. Restoring("rollback", work.snap)
          BY <3>2, <4>1 DEF Fails
        <5> QED
          BY <1>6, <3>2, <4>1, <5>1, <5>2, RestoringCall DEF Notify, Silently, Fails
      <4>2. CASE work.why # "enable"
        BY <1>6, <3>2, <4>2, NoCall DEF Notify, Silently, Fails, Over
      <4> QED BY <4>1, <4>2
    <3> QED BY <1>6, <3>1, <3>2 DEF Notify
  <2>1. PlatformTypeOK'
    BY <2>e, <1>a DEF PlatformTypeOK, FilesTyped, SettingsTyped
  <2>2. CallKnows' /\ CallHasFile'
    BY <2>e, <1>a DEF CallKnows, CallHasFile, PlatformTypeOK, FilesTyped, SettingsTyped
  <2>3. ProgramsKnow' /\ FileIsTheirs'
    BY <2>e, <1>a DEF ProgramsKnow, FileIsTheirs, PlatformTypeOK, CallKnows,
      CallHasFile, Read, FilesTyped, SettingsTyped
  <2>4. PassedIsRestored'
    BY <2>e, <1>a DEF PassedIsRestored, PlatformTypeOK, CallKnows, CallHasFile,
      ProgramsKnow, FileIsTheirs, Passed, Read, FilesTyped, SettingsTyped
  <2> QED
    BY <2>1, <2>2, <2>3, <2>4
<1>7. CASE DeleteFile
  <2>e. /\ work.at = "delete" /\ work' \in WorkType
        /\ UNCHANGED <<registry, noticed, meant, gone>>
        /\ \/ work'.at = "idle" /\ UNCHANGED <<kept, took>>
           \/ /\ kept' = NoFile /\ took'.applied = FALSE
              /\ took' \in [previous : Settings \union {NoFile}, applied : BOOLEAN]
              /\ work'.at \in {"idle", "read"}
    <3>1. CASE Over
      BY <1>7, <3>1, NoCall DEF DeleteFile, Silently, Over, PlatformTypeOK, FilesTyped
    <3>2. CASE ~Over
      <4>1. work' = [at |-> "read", why |-> "none", snap |-> NoFile, left |-> <<>>,
                     ports |-> work.ports]
        BY <1>7, <3>2 DEF DeleteFile, Nowhere, Over
      <4>2. work' \in WorkType /\ work'.at = "read"
        BY <4>1 DEF PlatformTypeOK, WorkType, Suffixes
      <4> QED
        BY <1>7, <3>2, <4>2 DEF DeleteFile, Silently, PlatformTypeOK, FilesTyped, Over
    <3> QED BY <3>1, <3>2
  <2>1. PlatformTypeOK'
    BY <2>e, <1>a DEF PlatformTypeOK, FilesTyped, SettingsTyped
  <2>2. CallKnows' /\ CallHasFile'
    BY <2>e, <1>a DEF CallKnows, CallHasFile, PlatformTypeOK, FilesTyped, SettingsTyped
  <2>3. ProgramsKnow' /\ FileIsTheirs'
    BY <2>e, <1>a DEF ProgramsKnow, FileIsTheirs, PlatformTypeOK, CallKnows,
      CallHasFile, Read, FilesTyped, SettingsTyped
  <2>4. PassedIsRestored'
    BY <2>e, <1>a DEF PassedIsRestored, PlatformTypeOK, CallKnows, CallHasFile,
      ProgramsKnow, FileIsTheirs, Passed, Read, FilesTyped, SettingsTyped
  <2> QED
    BY <2>1, <2>2, <2>3, <2>4
<1>8. CASE GiveBack
  <2>e. /\ work.at = "idle" /\ took.applied /\ work' \in WorkType
        /\ UNCHANGED <<registry, noticed, meant, kept, took, gone>>
        /\ work'.at = "set" /\ work'.why = "disable" /\ work'.snap = took.previous
            /\ work'.left = Keys
    <3>1. took.previous \in Settings /\ Restoring("disable", took.previous)
      BY <1>8 DEF GiveBack, CallHasFile, PlatformTypeOK, FilesTyped
    <3> QED
      BY <1>8, <3>1, RestoringCall DEF GiveBack, Silently
  <2>1. PlatformTypeOK'
    BY <2>e, <1>a DEF PlatformTypeOK, FilesTyped, SettingsTyped
  <2>2. CallKnows' /\ CallHasFile'
    BY <2>e, <1>a DEF CallKnows, CallHasFile, PlatformTypeOK, FilesTyped, SettingsTyped
  <2>3. ProgramsKnow' /\ FileIsTheirs'
    BY <2>e, <1>a DEF ProgramsKnow, FileIsTheirs, PlatformTypeOK, CallKnows,
      CallHasFile, Read, FilesTyped, SettingsTyped
  <2>4. PassedIsRestored'
    BY <2>e, <1>a DEF PassedIsRestored, PlatformTypeOK, CallKnows, CallHasFile,
      ProgramsKnow, FileIsTheirs, Passed, Read, FilesTyped, SettingsTyped
  <2> QED
    BY <2>1, <2>2, <2>3, <2>4
<1>9. CASE UserSets
  <2>e. /\ work.at \in {"down", "idle"}
        /\ registry' \in Settings /\ noticed' = registry' /\ meant' = registry'
        /\ (~gone' => ~gone /\ kept = NoFile) /\ gone' \in BOOLEAN
        /\ UNCHANGED <<kept, took, work>>
    BY <1>9, <1>a DEF UserSets, Possible, Settings, Values
  <2>1. PlatformTypeOK'
    BY <2>e, <1>a DEF PlatformTypeOK, FilesTyped, SettingsTyped
  <2>2. CallKnows' /\ CallHasFile'
    BY <2>e, <1>a DEF CallKnows, CallHasFile, PlatformTypeOK, FilesTyped, SettingsTyped
  <2>3. ProgramsKnow' /\ FileIsTheirs'
    BY <2>e, <1>a DEF ProgramsKnow, FileIsTheirs, PlatformTypeOK, CallKnows,
      CallHasFile, Read, FilesTyped, SettingsTyped
  <2>4. PassedIsRestored'
    BY <2>e, <1>a DEF PassedIsRestored, PlatformTypeOK, CallKnows, CallHasFile,
      ProgramsKnow, FileIsTheirs, Passed, Read, FilesTyped, SettingsTyped
  <2> QED
    BY <2>1, <2>2, <2>3, <2>4
<1>10. CASE ApplicationEnds
  <2>e. /\ work'.at = "down" /\ work' \in WorkType
        /\ took'.applied = FALSE /\ took' \in [previous : Settings \union {NoFile},
           applied : BOOLEAN]
        /\ UNCHANGED <<registry, noticed, meant, kept, gone>>
    BY <1>10, NoCall DEF ApplicationEnds, Silently, Forgotten
  <2>1. PlatformTypeOK'
    BY <2>e, <1>a DEF PlatformTypeOK, FilesTyped, SettingsTyped
  <2>2. CallKnows' /\ CallHasFile'
    BY <2>e, <1>a DEF CallKnows, CallHasFile, PlatformTypeOK, FilesTyped, SettingsTyped
  <2>3. ProgramsKnow' /\ FileIsTheirs'
    BY <2>e, <1>a DEF ProgramsKnow, FileIsTheirs, PlatformTypeOK, CallKnows,
      CallHasFile, Read, FilesTyped, SettingsTyped
  <2>4. PassedIsRestored'
    BY <2>e, <1>a DEF PassedIsRestored, PlatformTypeOK, CallKnows, CallHasFile,
      ProgramsKnow, FileIsTheirs, Passed, Read, FilesTyped, SettingsTyped
  <2> QED
    BY <2>1, <2>2, <2>3, <2>4
<1>11. CASE UNCHANGED platformVars
  <2>1. PlatformTypeOK'
    BY <1>11, <1>a DEF platformVars, PlatformTypeOK, FilesTyped, SettingsTyped
  <2>2. CallKnows' /\ CallHasFile'
    BY <1>11, <1>a DEF platformVars, CallKnows, CallHasFile, PlatformTypeOK, FilesTyped,
      SettingsTyped
  <2>3. ProgramsKnow' /\ FileIsTheirs'
    BY <1>11, <1>a DEF platformVars, ProgramsKnow, FileIsTheirs, PlatformTypeOK,
      CallKnows, CallHasFile, Read, FilesTyped, SettingsTyped
  <2>4. PassedIsRestored'
    BY <1>11, <1>a DEF platformVars, PassedIsRestored, PlatformTypeOK, CallKnows,
      CallHasFile, ProgramsKnow, FileIsTheirs, Passed, Read, FilesTyped, SettingsTyped
  <2> QED
    BY <2>1, <2>2, <2>3, <2>4
<1> QED
  BY <1>1, <1>2, <1>3, <1>4, <1>5, <1>6, <1>7, <1>8, <1>9, <1>10, <1>11 DEF PlatformNext

\* The initial state satisfies the invariant.
LEMMA PlatformInitInv == PlatformInit => PlatformInv
<1> SUFFICES ASSUME PlatformInit PROVE PlatformInv
  OBVIOUS
<1>1. platform \in {"linux", "windows"} /\ Named = KeysOf(platform)
  BY KeysAreNamed DEF PlatformInit
<1>2. registry \in Settings /\ noticed = registry /\ meant = registry
  BY <1>1 DEF PlatformInit, Settings, Possible, Values
<1>3. work \in WorkType /\ work.at = "down" /\ kept = NoFile /\ took = Forgotten
  BY NoCall DEF PlatformInit
<1>4. gone \in BOOLEAN
  BY DEF PlatformInit
<1>5. PlatformTypeOK
  BY <1>1, <1>2, <1>3, <1>4 DEF PlatformTypeOK, SettingsTyped, FilesTyped, Forgotten
<1>6. CallKnows /\ CallHasFile /\ ProgramsKnow
  BY <1>2, <1>3 DEF CallKnows, CallHasFile, ProgramsKnow, Forgotten
<1>7. FileIsTheirs /\ PassedIsRestored
  BY <1>2, <1>3 DEF FileIsTheirs, PassedIsRestored
<1> QED
  BY <1>5, <1>6, <1>7 DEF PlatformInv

\* The inductive invariant of the sessions of Linux and Windows.
LEMMA PlatformInvariant == PlatformSpec => []PlatformInv
<1>1. PlatformInit => PlatformInv
  BY PlatformInitInv
<1>2. PlatformInv /\ [PlatformNext]_platformVars => PlatformInv'
  BY PlatformNextInv
<1> QED
  BY <1>1, <1>2, PTL DEF PlatformSpec

\* The settings, the recovery file and the running call keep their types.
THEOREM PlatformTypes == PlatformSpec => []PlatformTypeOK
<1>1. PlatformInv => PlatformTypeOK
  BY DEF PlatformInv
<1> QED
  BY <1>1, PlatformInvariant, PTL

\* Without a recovery file the keys of gsettings and the values of the registry
\* are as the user left them, and running programs know it; with one, the file
\* says what the user left.  The first holds until a recovery file is made
\* worthless or a failure of `reg` passes for an absent value (ProxyComesBack).
THEOREM SettingsComeBack == PlatformSpec => []ProxyComesBack
<1>1. PlatformInv => ProxyComesBack
  <2>1. SUFFICES ASSUME PlatformInv PROVE ProxyComesBack
    OBVIOUS
  <2>2. Named = KeysOf(platform)
    BY <2>1, KeysAreNamed DEF PlatformInv, PlatformTypeOK, SettingsTyped
  <2> QED
    BY <2>1, <2>2 DEF PlatformInv, ProxyComesBack, FileIsTheirs, PassedIsRestored,
      ProgramsKnow
<1> QED
  BY <1>1, PlatformInvariant, PTL
=============================================================================
