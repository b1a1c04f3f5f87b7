-------------------------- MODULE ConnectionProofs --------------------------
(*****************************************************************************)
(* The kernel under the connected window. For every set of binaries:         *)
(* whatever fails and wherever the application ends, the binary that was     *)
(* in use is in place or has a backup, and what runs is what is installed.   *)
(* For every set of groups, nodes and restorations in flight: what the       *)
(* user has picked is what the kernel uses and what the pages show.          *)
(*                                                                           *)
(* CoreRecoverable alone is not inductive: the publishing rename and the     *)
(* rollback overwrite or remove the binary in place, so while they run the   *)
(* backup by itself has to be enough (Backed), which rests on the hard       *)
(* link made right before (Linked) and on the package having passed          *)
(* verification (Checked). KernelRunsInstalled needs to know of every        *)
(* kernel who may run it (KernelsAreKnown) and of every call and worker      *)
(* whose they are (CallsAreOwn, WorkerIsOwn).                                *)
(*                                                                           *)
(* PicksAreUsed speaks of the end of all the work. SelectionsInv says who    *)
(* is going to bring what is missing there: a worker that is still to send   *)
(* a saved pick (SavedIsServed), one that is still to show a node            *)
(* (ShownIsServed), and before them a reading that is of the groups as       *)
(* they are and of the nodes in use (ReadingsAreCurrent, ReadingsHold).      *)
(* What an update of the core brings to the window is its kernel's, or       *)
(* counted as not fetched (UpdateKnown, UpdatedIsShown).                     *)
(*****************************************************************************)
EXTENDS CoreUpdate, Selections, TLAPS

(* The update of the kernel's binary                                       *)
FilesTyped ==
  /\ target \in Binaries /\ backup \in Binaries /\ orphans \subseteq Cores
  /\ vouched \in Binaries

Checked ==
  /\ job.stage = "stage" => job.asset \in Cores \cup {Corrupt, Foreign}
  /\ job.stage \in {"backup", "publish"} => job.asset \in Cores

Linked == job.stage = "publish" => backup = target

Backed ==
  job.stage \in {"prepare", "sync", "keep", "undo", "restore"} =>
    (vouched # None => vouched \in {backup} \cup orphans)

FilesInv == FilesTyped /\ CoreRecoverable /\ Checked /\ Linked /\ Backed

\* A connect or a switch beside the update is recorded, and nothing else takes the
\* window out of "not connected, proxy off" while the update runs.
Alone ==
  Updating /\ ~meddled =>
    /\ ~proxy.on /\ ~proxy.switching /\ InFlight = {}
    /\ controller \notin {"Connecting", "Connected"}

\* Close gives up the window, its worker and its calls at once.
ClosedIdle ==
  ~Open => /\ InFlight = {} /\ job = NoJob
           /\ ~auto.timer /\ ~proxy.switching /\ ~polling

-----------------------------------------------------------------------------
\* The constants of the records have their types.
LEMMA RecordsTyped ==
  /\ NoJob \in JobType /\ NoCall \in CallType /\ NoProxy \in ProxyType
  /\ \A r \in Runtimes, b \in BOOLEAN : UpdateOf(r, b) \in JobType
      /\ UpdateOf(r, b).stage = "stop"
  /\ NoJob.stage = "none"
  /\ \A b \in BOOLEAN : [NoAuto EXCEPT !.on = b] \in AutoType
<1>1. NoJob \in JobType /\ NoCall \in CallType /\ NoProxy \in ProxyType
    BY DEF NoJob, JobType, NoCall, CallType, NoProxy, ProxyType, Stages, Runtimes, Binaries
<1>2. ASSUME NEW r \in Runtimes, NEW b \in BOOLEAN PROVE UpdateOf(r, b) \in JobType
               /\ UpdateOf(r, b).stage = "stop"
    BY <1>1, <1>2 DEF UpdateOf, JobType, Stages
<1>4. NoJob.stage = "none"
    BY DEF NoJob
<1>3. ASSUME NEW b \in BOOLEAN PROVE [NoAuto EXCEPT !.on = b] \in AutoType
    BY DEF NoAuto, AutoType
<1> QED BY <1>1, <1>2, <1>3, <1>4

\* The bound on the operations.
LEMMA OpTyped == ASSUME TypeOK, Op PROVE ops' \in 0 .. MaxOps
  BY CoreUpdateAssumption DEF TypeOK, Op

\* A connect takes a free place and is recorded beside an update.
LEMMA ConnectsTyped ==
  ASSUME TypeOK, NEW r \in Runtimes, Connects(r)
  PROVE  /\ call' \in [Calls -> CallType]
         /\ controller' = "Connecting" /\ polling' = FALSE
         /\ meddled' \in BOOLEAN /\ (meddled \/ job' # NoJob => meddled')
<1>1. PICK c \in Calls \ InFlight : call' = [call EXCEPT ![c] = [stage |-> "start", rt |-> r]]
    BY DEF Connects
<1>2. call \in [Calls -> CallType] /\ meddled \in BOOLEAN
    BY DEF TypeOK
<1>3. [stage |-> "start", rt |-> r] \in CallType
    BY DEF CallType
<1>4. controller' = "Connecting" /\ polling' = FALSE /\ meddled' = (meddled \/ job' # NoJob)
    BY DEF Connects
<1> QED BY <1>1, <1>2, <1>3, <1>4

\* What maybe_auto_connect leaves: a typed state, and either the connection as it
\* was given or a recorded connect.
LEMMA AutoConnectTyped ==
  ASSUME TypeOK, NEW a \in AutoType, NEW r \in Runtimes, NEW ready,
         NEW k \in ControllerStates, NEW p \in BOOLEAN, MaybeAutoConnect(a, r, ready, k, p)
  PROVE  /\ auto' \in AutoType /\ controller' \in ControllerStates /\ polling' \in BOOLEAN
         /\ call' \in [Calls -> CallType]
         /\ meddled' \in BOOLEAN
         /\ \/ controller' = k /\ UNCHANGED <<call, meddled>>
            \/ meddled \/ job' # NoJob => meddled'
<1>0. call \in [Calls -> CallType] /\ meddled \in BOOLEAN
    BY DEF TypeOK
<1>1. CASE Decision(a, r, ready, k) = "Skip"
    BY <1>0, <1>1 DEF MaybeAutoConnect, NoConnect, AutoType
<1>2. CASE Decision(a, r, ready, k) = "WaitForCore"
    BY <1>0, <1>2 DEF MaybeAutoConnect, NoConnect, AutoType
<1>3. CASE Decision(a, r, ready, k) = "Connect"
  <2>1. auto' = [a EXCEPT !.stage = "Connecting", !.retried = FALSE] /\ Connects(r)
      BY <1>3 DEF MaybeAutoConnect
  <2> QED BY <2>1, ConnectsTyped DEF AutoType, ControllerStates
<1> QED BY <1>1, <1>2, <1>3 DEF Decision

-----------------------------------------------------------------------------
\* Every step keeps the types.
LEMMA TypeStep == TypeOK /\ [Next]_vars => TypeOK'
<1> SUFFICES ASSUME TypeOK, [Next]_vars PROVE TypeOK'
    OBVIOUS
<1> USE CoreUpdateAssumption DEF TypeOK, files, window
<1>1. CASE Launch
  <2>11. job' \in JobType
      BY <1>1, RecordsTyped DEF Launch, Runtimes
  <2>12. proxy' \in ProxyType
      BY <1>1, RecordsTyped DEF Launch
  <2>4. auto' \in AutoType /\ controller' \in ControllerStates /\ polling' \in BOOLEAN
        /\ call' \in [Calls -> CallType] /\ meddled' \in BOOLEAN
    <3>1. [NoAuto EXCEPT !.on = auto.on] \in AutoType
        BY DEF NoAuto, AutoType
    <3>2. MaybeAutoConnect([NoAuto EXCEPT !.on = auto.on], 0, target' # None, "Disconnected",
          FALSE)
        BY <1>1 DEF Launch
    <3> QED BY <3>1, <3>2, AutoConnectTyped DEF ControllerStates, Runtimes
  <2>13. target' \in Binaries \cup {Corrupt, Foreign}
           /\ vouched' \in Binaries \cup {Corrupt, Foreign}
    <3>1. target' \in Binaries \cup {Corrupt, Foreign}
        BY <1>1 DEF Launch, Seeded, Binaries
    <3> QED BY <1>1, <3>1 DEF Launch
  <2>14. runtime' \in Runtimes /\ managed' \subseteq Runtimes
      BY <1>1 DEF Launch, Runtimes
  <2>15. core' \in {"Updating", "Ready"}
      BY <1>1 DEF Launch
  <2> QED BY <1>1, <2>11, <2>12, <2>13, <2>14, <2>15, <2>4, OpTyped DEF Launch
<1>2. CASE Close
  <2>11. job' \in JobType
      BY <1>2, RecordsTyped DEF Close
  <2>12. auto' \in AutoType
      BY <1>2 DEF Close, AutoType, NoAuto
  <2>13. call' \in [Calls -> CallType]
      BY <1>2 DEF Close, CallType, NoCall, Runtimes
  <2>14. proxy' \in ProxyType
      BY <1>2 DEF Close, ProxyType, NoProxy
  <2> QED BY <1>2, <2>11, <2>12, <2>13, <2>14, OpTyped DEF Close, Binaries,
    ControllerStates, Runtimes
<1>3. CASE Connect
  <2>4. controller' \in ControllerStates /\ polling' \in BOOLEAN
        /\ call' \in [Calls -> CallType] /\ meddled' \in BOOLEAN
      BY <1>3, ConnectsTyped DEF Connect, ControllerStates
  <2> QED BY <1>3, <2>4 DEF Connect, Op, Dropped, Binaries, ControllerStates
<1>4. CASE Update
  <2>11. job' \in JobType
      BY <1>4, RecordsTyped DEF Update
  <2> QED BY <1>4, <2>11, OpTyped DEF Update, ControllerStates
<1>5. CASE SetAuto
  <2>1. job' \in JobType
      BY <1>5, RecordsTyped DEF SetAuto
  <2>2. [auto EXCEPT !.on = TRUE] \in AutoType /\ [auto EXCEPT !.on = FALSE] \in AutoType
        /\ \A d \in {"Skip", "WaitForCore", "Connect"} :
             [auto EXCEPT !.on = TRUE,
             !.stage = IF d = "WaitForCore" THEN "WaitingForCore" ELSE @] \in AutoType
      BY DEF AutoType
  <2>3. auto' \in AutoType /\ controller' \in ControllerStates /\ polling' \in BOOLEAN
        /\ call' \in [Calls -> CallType] /\ meddled' \in BOOLEAN
    <3>1. CASE auto.on
        BY <1>5, <2>2, <3>1 DEF SetAuto
    <3>2. CASE ~auto.on /\ core = "Missing" /\ ~proxy.on
      <4>1. Decision([auto EXCEPT !.on = TRUE], runtime, FALSE,
            controller) \in {"Skip", "WaitForCore", "Connect"}
          BY DEF Decision
      <4> QED BY <1>5, <2>2, <3>2, <4>1 DEF SetAuto, ControllerStates
    <3>3. CASE ~auto.on /\ ~(core = "Missing" /\ ~proxy.on)
      <4>1. MaybeAutoConnect([auto EXCEPT !.on = TRUE], runtime, core = "Ready", controller,
            polling)
          BY <1>5, <3>3 DEF SetAuto
      <4>3. TypeOK /\ runtime \in Runtimes /\ controller \in ControllerStates
              /\ polling \in BOOLEAN
          OBVIOUS
      <4> HIDE DEF TypeOK
      <4> QED BY <2>2, <4>1, <4>3, AutoConnectTyped
    <3> QED BY <3>1, <3>2, <3>3
  <2> QED BY <1>5, <2>1, <2>3 DEF SetAuto, Op
<1>6. CASE Switch
  <2>11. proxy' \in ProxyType
      BY <1>6 DEF Switch, ProxyType, NoProxy
  <2> QED BY <1>6, <2>11 DEF Switch, Op, Dropped, Binaries, ControllerStates
<1>7. CASE SwitchEnds
  <2>1. PICK on \in BOOLEAN : proxy' = [on |-> on, switching |-> FALSE]
      BY <1>7 DEF SwitchEnds
  <2>11. proxy' \in ProxyType
      BY <2>1 DEF ProxyType
  <2> QED BY <1>7, <2>11 DEF SwitchEnds, Op, Dropped, Binaries, ControllerStates
<1>8. CASE Poll
  <2>11. proxy' \in ProxyType
      BY <1>8 DEF Poll, ProxyType, NoProxy
  <2> QED BY <1>8, <2>11 DEF Poll, Op, Dropped, Binaries, ControllerStates
<1>9. CASE Retry
  <2>11. auto' \in AutoType
      BY <1>9 DEF Retry, AutoType, NoAuto
  <2>4. controller' \in ControllerStates /\ polling' \in BOOLEAN
        /\ call' \in [Calls -> CallType] /\ meddled' \in BOOLEAN
      BY <1>9, ConnectsTyped DEF Retry, ControllerStates
  <2> QED BY <1>9, <2>11, <2>4 DEF Retry, Op, Dropped, Binaries, ControllerStates
<1>10. ASSUME NEW r \in Runtimes, KernelDies(r) PROVE TypeOK'
  <2> QED BY <1>10 DEF KernelDies, Op, Dropped, Binaries, ControllerStates
<1>11. ASSUME NEW c \in Calls, CallStart(c) PROVE TypeOK'
  <2>11. call' \in [Calls -> CallType]
      BY <1>11 DEF CallStart, CallType, NoCall, Runtimes
  <2> QED BY <1>11, <2>11 DEF CallStart, Op, Dropped, Binaries, ControllerStates
<1>12. ASSUME NEW c \in Calls, CallLoad(c) PROVE TypeOK'
  <2>11. call' \in [Calls -> CallType]
      BY <1>12 DEF CallLoad, CallType, NoCall, Runtimes
  <2> QED BY <1>12, <2>11 DEF CallLoad, Op, Dropped, Binaries, ControllerStates
<1>13. ASSUME NEW c \in Calls, CallLoaded(c) PROVE TypeOK'
  <2>11. call' \in [Calls -> CallType]
      BY <1>13 DEF CallLoaded, CallType, NoCall, Runtimes
  <2>12. auto' \in AutoType
      BY <1>13 DEF CallLoaded, AutoType, NoAuto
  <2> QED BY <1>13, <2>11, <2>12 DEF CallLoaded, Op, Dropped, Binaries, ControllerStates
<1>14. ASSUME NEW c \in Calls, CallFailed(c) PROVE TypeOK'
  <2>11. call' \in [Calls -> CallType]
      BY <1>14 DEF CallFailed, CallType, NoCall, Runtimes
  <2>12. auto' \in AutoType
      BY <1>14 DEF CallFailed, AutoType, NoAuto
  <2> QED BY <1>14, <2>11, <2>12 DEF CallFailed, Op, Dropped, Binaries, ControllerStates
<1>15. CASE Stop
  <2>11. job' \in JobType
      BY <1>15 DEF Stop, Work, JobType, Stages
  <2> QED BY <1>15, <2>11 DEF Stop, Op, Dropped, Binaries, ControllerStates
<1>16. CASE Download
  <2>1. ASSUME Work("download", "recover") PROVE job' \in JobType
      BY <2>1 DEF Work, JobType, Stages
  <2>2. ASSUME NEW p \in Packages, job' = [job EXCEPT !.stage = "stage", !.asset = p]
        PROVE  job' \in JobType
      BY <2>2 DEF Packages, JobType, Stages, Binaries
  <2>11. job' \in JobType
      BY <1>16, <2>1, <2>2 DEF Download
  <2> QED BY ZenonT(40), <1>16, <2>11 DEF Download, Op, Dropped, Binaries, ControllerStates
<1>17. CASE Stage
  <2>11. job' \in JobType
      BY <1>17 DEF Stage, Work, JobType, Stages
  <2> QED BY <1>17, <2>11 DEF Stage, Op, Dropped, Binaries, ControllerStates
<1>18. CASE Backup
  <2>11. job' \in JobType
      BY <1>18 DEF Backup, Work, JobType, Stages
  <2> QED BY <1>18, <2>11 DEF Backup, Op, Dropped, Binaries, ControllerStates
<1>19. CASE Publish
  <2>11. job' \in JobType
      BY <1>19 DEF Publish, Work, JobType, Stages
  <2> QED BY <1>19, <2>11 DEF Publish, Work, JobType, Binaries
<1>20. CASE Prepare
  <2>11. job' \in JobType
      BY <1>20 DEF Prepare, Work, JobType, Stages
  <2>12. New \in Runtimes
      BY DEF New, Runtimes, JobType
  <2>13. managed' \subseteq Runtimes
           /\ kernel' \in [Runtimes -> Binaries \cup {Corrupt, Foreign}]
      BY <1>20, <2>12 DEF Prepare, Binaries
  <2> QED BY <1>20, <2>11, <2>13 DEF Prepare
<1>21. CASE Sync
  <2>11. job' \in JobType
      BY <1>21 DEF Sync, Work, JobType, Stages
  <2> QED BY <1>21, <2>11 DEF Sync, Op, Dropped, Binaries, ControllerStates
<1>22. CASE Keep
  <2>11. job' \in JobType
      BY <1>22 DEF Keep, Work, JobType, Stages
  <2> QED BY <1>22, <2>11 DEF Keep, Op, Dropped, Binaries, ControllerStates
<1>23. CASE Undo
  <2>11. job' \in JobType
      BY <1>23 DEF Undo, Work, JobType, Stages
  <2> QED BY <1>23, <2>11 DEF Undo, Op, Dropped, Binaries, ControllerStates
<1>24. CASE Restore
  <2>11. job' \in JobType
      BY <1>24 DEF Restore, Work, JobType, Stages
  <2> QED BY <1>24, <2>11 DEF Restore, Op, Dropped, Binaries, ControllerStates
<1>25. CASE Recover
  <2>11. job' \in JobType
      BY <1>25 DEF Recover, Work, JobType, Stages
  <2> QED BY <1>25, <2>11 DEF Recover, Op, Dropped, Binaries, ControllerStates
<1>26. CASE Finish
  <2>11. job' \in JobType
      BY <1>26, RecordsTyped DEF Finish
  <2>3. runtime' \in Runtimes
      BY <1>26 DEF Finish, New, Runtimes, JobType
  <2>4. auto' \in AutoType /\ controller' \in ControllerStates /\ polling' \in BOOLEAN
        /\ call' \in [Calls -> CallType] /\ meddled' \in BOOLEAN
    <3>1. PICK p \in BOOLEAN :
            LET k == IF job.snapshot THEN "Connected" ELSE controller IN
            \/ MaybeAutoConnect(auto, runtime', core' = "Ready", k, p)
            \/ NoConnect(k, p) /\ UNCHANGED auto
        BY <1>26 DEF Finish
    <3>2. (IF job.snapshot THEN "Connected" ELSE controller) \in ControllerStates
        BY DEF ControllerStates
    <3>4. TypeOK /\ auto \in AutoType /\ UNCHANGED <<call, meddled>>
            => call' \in [Calls -> CallType] /\ meddled' \in BOOLEAN
        OBVIOUS
    <3>5. TypeOK /\ auto \in AutoType
        OBVIOUS
    <3> HIDE DEF TypeOK
    <3>6. CASE NoConnect(IF job.snapshot THEN "Connected" ELSE controller, p) /\ UNCHANGED auto
        BY <3>2, <3>4, <3>5, <3>6 DEF NoConnect
    <3>7. CASE MaybeAutoConnect(auto, runtime', core' = "Ready",
               IF job.snapshot THEN "Connected" ELSE controller, p)
        BY <2>3, <3>2, <3>5, <3>7, AutoConnectTyped
    <3> QED BY <3>1, <3>6, <3>7
  <2> QED BY <1>26, <2>11, <2>3, <2>4 DEF Finish, Dropped, Binaries
<1>27. CASE UNCHANGED vars
    BY <1>27 DEF vars
<1> QED BY <1>1, <1>2, <1>3, <1>4, <1>5, <1>6, <1>7, <1>8, <1>9, <1>10, <1>11, <1>12,
  <1>13, <1>14, <1>15, <1>16, <1>17, <1>18, <1>19, <1>20, <1>21, <1>22, <1>23, <1>24,
  <1>25, <1>26, <1>27 DEF Next, Worker, Connecting

-----------------------------------------------------------------------------
\* Every step keeps the files recoverable.
LEMMA FilesStep == TypeOK /\ FilesInv /\ [Next]_vars => FilesInv'
<1> SUFFICES ASSUME TypeOK, FilesInv, [Next]_vars PROVE FilesInv'
    OBVIOUS
<1>0. job \in JobType
    BY DEF TypeOK
<1> USE DEF FilesInv, FilesTyped, CoreRecoverable, Checked, Linked, Backed
<1>1. ASSUME UNCHANGED <<target, backup, orphans, vouched, job>> PROVE FilesInv'
    BY <1>1
<1>2. CASE Connect \/ Switch \/ SwitchEnds \/ Poll \/ Retry
    BY <1>1, <1>2 DEF Connect, Switch, SwitchEnds, Poll, Retry, files
<1>3. ASSUME NEW r \in Runtimes, KernelDies(r) PROVE FilesInv'
    BY <1>1, <1>3 DEF KernelDies, files
<1>4. ASSUME NEW c \in Calls, CallStart(c) \/ CallLoad(c) \/ CallLoaded(c) \/ CallFailed(c)
      PROVE FilesInv'
    BY <1>1, <1>4 DEF CallStart, CallLoad, CallLoaded, CallFailed, files
<1>5. CASE Launch
  <2>1. job'.stage \in {"stop", "none"}
      BY <1>5, RecordsTyped DEF Launch, Runtimes
  <2>2. target' \in Binaries /\ UNCHANGED <<backup, orphans>>
        /\ vouched' = (IF target' # None THEN target' ELSE vouched)
        /\ (target # None => target' = target)
      BY <1>5 DEF Launch, Seeded, Binaries
  <2> QED BY <2>1, <2>2 DEF Binaries
<1>6. CASE Close
  <2>1. job'.stage = "none"
      BY <1>6 DEF Close, NoJob
  <2>2. backup' = None /\ orphans' = orphans \cup ({backup} \ {None})
          /\ UNCHANGED <<target, vouched>>
      BY <1>6 DEF Close
  <2> QED BY <2>1, <2>2 DEF Binaries
<1>7. CASE Update
  <2>1. job'.stage = "stop"
      BY <1>7 DEF Update, UpdateOf, NoJob
  <2> QED BY <1>7, <2>1 DEF Update, Binaries
<1>8. CASE SetAuto
  <2>1. UNCHANGED job \/ job'.stage = "stop"
      BY <1>8 DEF SetAuto, UpdateOf, NoJob
  <2>2. UNCHANGED <<target, backup, orphans, vouched>>
      BY <1>8 DEF SetAuto, files
  <2> QED BY <1>1, <2>1, <2>2
<1>9. CASE Stop
    BY <1>0, <1>9 DEF Stop, Work, JobType, Binaries, files
<1>10. CASE Download
    BY <1>0, <1>10 DEF Download, Packages, Work, JobType, Binaries, files
<1>11. CASE Stage
    BY <1>0, <1>11 DEF Stage, Unpacks, Genuine, Work, JobType, Binaries, files
<1>12. CASE Backup
    BY <1>0, <1>12 DEF Backup, Work, JobType, Binaries, files
<1>13. CASE Publish
    BY <1>0, <1>13 DEF Publish, Work, JobType, Binaries, files
<1>14. CASE Prepare
    BY <1>0, <1>14 DEF Prepare, Work, JobType, Binaries, files
<1>15. CASE Sync
    BY <1>0, <1>15 DEF Sync, Work, JobType, Binaries, files
<1>16. CASE Keep
    BY <1>0, <1>16 DEF Keep, Work, JobType, Binaries, files
<1>17. CASE Undo
    BY <1>0, <1>17 DEF Undo, Work, JobType, Binaries, files
<1>18. CASE Restore
    BY <1>0, <1>18 DEF Restore, Work, JobType, Binaries, files
<1>19. CASE Recover
    BY <1>0, <1>19 DEF Recover, Work, JobType, Binaries, files
<1>20. CASE Finish
    BY <1>0, <1>20 DEF Finish, NoJob, files
<1>21. CASE UNCHANGED vars
    BY <1>1, <1>21 DEF vars, files
<1> QED BY <1>2, <1>3, <1>4, <1>5, <1>6, <1>7, <1>8, <1>9, <1>10, <1>11, <1>12, <1>13,
  <1>14, <1>15, <1>16, <1>17, <1>18, <1>19, <1>20, <1>21 DEF Next, Worker, Connecting

\* The initial states have the types, and their files are in order.
LEMMA CoreInit == Init => TypeOK /\ FilesInv
<1> SUFFICES ASSUME Init PROVE TypeOK /\ FilesInv
    OBVIOUS
<1>1. auto \in AutoType
    BY DEF Init, AutoType
<1>2. call \in [Calls -> CallType] /\ job \in JobType /\ proxy \in ProxyType
        /\ job.stage = "none"
    BY RecordsTyped DEF Init
<1>3. TypeOK
  <2>1. ops \in 0 .. MaxOps
      BY CoreUpdateAssumption DEF Init
  <2>2. kernel \in [Runtimes -> Binaries \cup {Corrupt, Foreign}]
      BY DEF Init, Binaries
  <2>3. target \in Binaries \cup {Corrupt, Foreign}
          /\ backup \in Binaries \cup {Corrupt, Foreign}
        /\ orphans \subseteq Cores \cup {Corrupt, Foreign}
            /\ vouched \in Binaries \cup {Corrupt, Foreign}
      BY DEF Init, Binaries
  <2>4. /\ managed \subseteq Runtimes /\ runtime \in Runtimes /\ controller \in ControllerStates
        /\ polling \in BOOLEAN /\ core \in {"Missing", "Ready", "Updating"}
            /\ meddled \in BOOLEAN
      BY DEF Init, ControllerStates, Runtimes
  <2> QED BY <1>1, <1>2, <2>1, <2>2, <2>3, <2>4 DEF TypeOK
<1>4. FilesInv
    BY <1>2 DEF Init, FilesInv, FilesTyped, CoreRecoverable, Checked, Linked, Backed,
      Binaries
<1> QED BY <1>3, <1>4

\* With no application nothing is in flight, and no step brings the window back to
\* "Closed" but Close.
LEMMA ClosedStep == TypeOK /\ ClosedIdle /\ [Next]_vars => ClosedIdle'
<1> SUFFICES ASSUME TypeOK, ClosedIdle, [Next]_vars, controller' = "Closed"
             PROVE  InFlight' = {} /\ job' = NoJob /\ ~auto'.timer /\ ~proxy'.switching
                      /\ ~polling'
    BY DEF ClosedIdle, Open
<1>0. /\ job \in JobType /\ call \in [Calls -> CallType] /\ auto \in AutoType
          /\ proxy \in ProxyType
    BY DEF TypeOK
<1>1. ASSUME controller = "Closed", UNCHANGED <<call, job, auto, proxy, polling>>
      PROVE  InFlight' = {} /\ job' = NoJob /\ ~auto'.timer /\ ~proxy'.switching /\ ~polling'
    BY <1>1 DEF ClosedIdle, Open, InFlight
<1>2. CASE Close
    BY <1>2 DEF Close, InFlight, NoAuto, NoProxy
<1>3. CASE Connect \/ Update \/ SetAuto \/ Switch \/ Poll \/ Retry
  <2>1. CASE Connect \/ Retry
      BY <2>1 DEF Connect, Retry, Connects, ClosedIdle, Open
  <2>2. CASE Update \/ Switch \/ Poll
      BY <2>2 DEF Update, Switch, Poll, Open
  <2>3. CASE SetAuto
    <3>1. controller # "Closed"
        BY <2>3 DEF SetAuto, Open
    <3>2. \/ controller' \in {controller, "Disconnected"}
          \/ \E a, r, b : MaybeAutoConnect(a, r, b, controller, polling)
        BY <2>3 DEF SetAuto
    <3> QED BY <3>1, <3>2 DEF MaybeAutoConnect, NoConnect, Connects
  <2> QED BY <1>3, <2>1, <2>2, <2>3
<1>4. CASE Launch
  <2>1. PICK a, r, b : MaybeAutoConnect(a, r, b, "Disconnected", FALSE)
      BY <1>4 DEF Launch
  <2> QED BY <2>1 DEF MaybeAutoConnect, NoConnect, Connects
<1>5. CASE SwitchEnds
    BY <1>5 DEF SwitchEnds, ClosedIdle, Open
<1>6. ASSUME NEW r \in Runtimes, KernelDies(r)
      PROVE  InFlight' = {} /\ job' = NoJob /\ ~auto'.timer /\ ~proxy'.switching /\ ~polling'
    BY <1>1, <1>6 DEF KernelDies, window
<1>7. ASSUME NEW c \in Calls, CallStart(c) \/ CallLoad(c) \/ CallLoaded(c) \/ CallFailed(c)
      PROVE FALSE
  <2>1. c \in InFlight
      BY <1>7 DEF CallStart, CallLoad, CallLoaded, CallFailed, InFlight, NoCall
  <2>2. controller = "Closed"
      BY <1>7 DEF CallStart, CallLoad, CallLoaded, CallFailed, window
  <2> QED BY <2>1, <2>2 DEF ClosedIdle, Open
<1>8. CASE Worker
  <2>1. job.stage # "none"
      BY <1>8 DEF Worker, Stop, Download, Stage, Backup, Publish, Prepare, Sync, Keep,
        Undo, Restore,
                  Recover, Finish, Work
  <2>2. controller # "Closed"
      BY <2>1 DEF ClosedIdle, Open, NoJob
  <2>3. CASE UNCHANGED window
      BY <2>2, <2>3 DEF window
  <2>4. CASE Finish
    <3>1. PICK k, p, a, r, b : /\ k # "Closed"
                               /\ MaybeAutoConnect(a, r, b, k, p) \/ NoConnect(k, p)
        BY <2>2, <2>4 DEF Finish
    <3> QED BY <3>1 DEF MaybeAutoConnect, NoConnect, Connects
  <2> QED BY <1>8, <2>3, <2>4
      DEF Worker, Stop, Download, Stage, Backup, Publish, Prepare, Sync, Keep, Undo,
        Restore, Recover
<1>9. CASE UNCHANGED vars
    BY <1>1, <1>9 DEF vars, window
<1> QED BY <1>2, <1>3, <1>4, <1>5, <1>6, <1>7, <1>8, <1>9 DEF Next, Connecting

\* Every step of an update that nothing was in flight beside finds the window not
\* connected and the proxy off, and leaves it so.
LEMMA AloneStep == TypeOK /\ ClosedIdle /\ Alone /\ [Next]_vars => Alone'
<1> DEFINE Still == /\ ~proxy.on /\ ~proxy.switching /\ InFlight = {}
                    /\ controller \notin {"Connecting", "Connected"}
<1> SUFFICES ASSUME TypeOK, ClosedIdle, Alone, [Next]_vars, job'.stage # "none", ~meddled'
             PROVE  Still'
    BY DEF Alone, Updating
<1>0. /\ job \in JobType /\ call \in [Calls -> CallType] /\ meddled \in BOOLEAN
          /\ proxy \in ProxyType
      /\ job' # NoJob
    BY DEF TypeOK, NoJob
<1>1. ASSUME job.stage # "none", ~meddled PROVE Still
    BY <1>1 DEF Alone, Updating
<1>2. ASSUME job.stage # "none", UNCHANGED <<proxy, call, controller, meddled>> PROVE Still'
    BY <1>1, <1>2 DEF InFlight
<1>3. ASSUME NEW r, Connects(r) PROVE FALSE
    BY <1>0, <1>3 DEF Connects
<1>4. CASE Launch
  <2>1. target' = None /\ proxy' = NoProxy /\ managed' = {}
      BY <1>0, <1>4 DEF Launch
  <2>2. PICK a, b : MaybeAutoConnect(a, 0, b, "Disconnected", FALSE)
      BY <1>4 DEF Launch
  <2>3. controller' = "Disconnected" /\ call' = call
      BY <1>3, <2>2 DEF MaybeAutoConnect, NoConnect
  <2>4. InFlight = {}
      BY <1>4 DEF Launch, ClosedIdle
  <2> QED BY <2>1, <2>3, <2>4 DEF NoProxy, InFlight
<1>5. CASE Close
    BY <1>0, <1>5 DEF Close
<1>6. CASE Connect
    BY <1>3, <1>6 DEF Connect
<1>7. CASE Update
    BY <1>0, <1>7 DEF Update, InFlight
<1>8. CASE SetAuto
  <2>1. CASE /\ controller' = "Disconnected" /\ ~proxy.on /\ UNCHANGED <<call, proxy>>
             /\ meddled' = (meddled \/ InFlight # {} \/ proxy.switching)
      BY <2>1 DEF InFlight
  <2>2. CASE UNCHANGED <<controller, polling, call, meddled, job, proxy>>
      BY <1>2, <2>2
  <2>3. CASE /\ UNCHANGED <<job, proxy>>
             /\ \E a, r, b : MaybeAutoConnect(a, r, b, controller, polling)
    <3>1. controller' = controller /\ UNCHANGED <<call, meddled>>
        BY <1>3, <2>3 DEF MaybeAutoConnect, NoConnect
    <3> QED BY <1>2, <2>3, <3>1
  <2> QED BY <1>8, <2>1, <2>2, <2>3 DEF SetAuto
<1>9. CASE Switch
    BY <1>1, <1>9 DEF Switch
<1>10. CASE SwitchEnds
    BY <1>1, <1>10 DEF SwitchEnds
<1>11. CASE Poll
  <2>1. /\ controller' = "Failed" /\ UNCHANGED <<call, job, meddled>>
        /\ proxy' = proxy \/ proxy' = [proxy EXCEPT !.on = FALSE]
      BY <1>11 DEF Poll
  <2>2. Still
      BY <1>1, <2>1
  <2> QED BY <1>0, <2>1, <2>2 DEF InFlight, ProxyType
<1>12. CASE Retry
    BY <1>2, <1>3, <1>12 DEF Retry
<1>13. ASSUME NEW r \in Runtimes, KernelDies(r) PROVE Still'
    BY <1>2, <1>13 DEF KernelDies, window
<1>14. ASSUME NEW c \in Calls, CallStart(c) \/ CallLoad(c) \/ CallLoaded(c) \/ CallFailed(c)
       PROVE FALSE
  <2>1. c \in InFlight
      BY <1>14 DEF CallStart, CallLoad, CallLoaded, CallFailed, InFlight, NoCall
  <2>2. UNCHANGED <<job, meddled>>
      BY <1>14 DEF CallStart, CallLoad, CallLoaded, CallFailed
  <2> QED BY <1>1, <2>1, <2>2
<1>15. CASE Worker
  <2>1. job.stage # "none"
      BY <1>15 DEF Worker, Stop, Download, Stage, Backup, Publish, Prepare, Sync, Keep,
        Undo, Restore,
                   Recover, Finish, Work
  <2>2. CASE UNCHANGED <<window, call, meddled>>
      BY <1>2, <2>1, <2>2 DEF window
  <2>3. CASE Finish
      BY <1>0, <2>3 DEF Finish
  <2> QED BY <1>15, <2>2, <2>3
      DEF Worker, Stop, Download, Stage, Backup, Publish, Prepare, Sync, Keep, Undo,
        Restore, Recover
<1>16. CASE UNCHANGED vars
    BY <1>2, <1>16 DEF vars, window
<1> QED BY <1>4, <1>5, <1>6, <1>7, <1>8, <1>9, <1>10, <1>11, <1>12, <1>13, <1>14, <1>15,
  <1>16
        DEF Next, Connecting

\* The kernel is not taken from under the system proxy by update_mihomo_core, unless
\* a connect or a switch was in flight beside the update.
THEOREM UpdateLeavesTheProxy == Spec => []UpdateLeavesProxy
<1>1. Init => TypeOK /\ ClosedIdle /\ Alone
  <2> SUFFICES ASSUME Init PROVE TypeOK /\ ClosedIdle /\ Alone
      OBVIOUS
  <2>1. TypeOK /\ job.stage = "none"
      BY CoreInit, RecordsTyped DEF Init
  <2>2. ClosedIdle
      BY DEF Init, ClosedIdle, InFlight, NoProxy
  <2> QED BY <2>1, <2>2 DEF Alone, Updating
<1>2. TypeOK /\ ClosedIdle /\ Alone /\ [Next]_vars => TypeOK' /\ ClosedIdle' /\ Alone'
    BY TypeStep, ClosedStep, AloneStep
<1>3. Alone => UpdateLeavesProxy
    BY DEF Alone, UpdateLeavesProxy
<1> QED BY <1>1, <1>2, <1>3, PTL DEF Spec

\* The binary that was in use before an update, or that passed its check, stays
\* reachable through every failure, rollback, crash and restart of an update, and
\* nothing unverified is ever in place: publish_staged_core and its callers.
THEOREM CoreIsRecoverable == Spec => []CoreRecoverable
<1>1. Init => TypeOK /\ FilesInv
    BY CoreInit
<1>2. TypeOK /\ FilesInv /\ [Next]_vars => TypeOK' /\ FilesInv'
    BY TypeStep, FilesStep
<1>3. FilesInv => CoreRecoverable
    BY DEF FilesInv
<1> QED BY <1>1, <1>2, <1>3, PTL DEF Spec

\* Type correctness of the window, the worker, the connects and the files.
THEOREM CoreUpdateTypes == Spec => []TypeOK
<1>1. Init => TypeOK
    BY CoreInit
<1> QED BY <1>1, TypeStep, PTL DEF Spec

-----------------------------------------------------------------------------
\* The runtimes whose kernel may run, by how far the update is: the window's until
\* the update has stopped it, and the one that was prepared until it is given up.
MayRun ==
  IF job.stage \in {"sync", "keep"} \/ (job.stage = "done" /\ job.ok) THEN {New}
  ELSE IF job.stage \in {"none", "stop", "done"} THEN {runtime} ELSE {}
KernelsAreKnown ==
  Open /\ ~meddled =>
    \A r \in Runtimes : kernel[r] # None => r \in MayRun /\ kernel[r] = target

\* The connects are the window's, and so is the runtime that the update began with.
CallsAreOwn == ~meddled => \A c \in InFlight : call[c].rt = runtime
WorkerIsOwn ==
  Updating => core = "Updating" /\ job.prev = runtime /\ (job.ok => job.stage = "done")
NothingRunsClosed == ~Open => \A r \in Runtimes : kernel[r] = None

KernelInv == KernelsAreKnown /\ CallsAreOwn /\ WorkerIsOwn /\ NothingRunsClosed

\* Nothing about the update changes, kernels at most end, and connects at most end
\* or begin for the window's runtime.
LEMMA KernelsStay ==
  ASSUME KernelInv, UNCHANGED <<target, runtime, core, job>>, Open' <=> Open,
         \A r \in Runtimes : kernel'[r] \in {None, kernel[r]}, meddled => meddled',
         \A c \in InFlight' : \/ call'[c].rt = runtime
                              \/ c \in InFlight /\ call'[c].rt = call[c].rt
  PROVE  KernelInv'
<1>1. KernelsAreKnown'
    BY DEF KernelInv, KernelsAreKnown, MayRun, New
<1>2. CallsAreOwn'
    BY DEF KernelInv, CallsAreOwn
<1>3. WorkerIsOwn' /\ NothingRunsClosed'
    BY DEF KernelInv, WorkerIsOwn, NothingRunsClosed, Updating
<1> QED BY <1>1, <1>2, <1>3 DEF KernelInv

\* A connect that begins is the window's, and beside an update it is recorded.
LEMMA ConnectsKnown ==
  ASSUME TypeOK, NEW r \in Runtimes, Connects(r)
  PROVE  /\ \A c \in InFlight' : \/ call'[c].rt = r
                                 \/ c \in InFlight /\ call'[c].rt = call[c].rt
         /\ controller' = "Connecting" /\ (meddled \/ job' # NoJob => meddled')
<1>1. PICK c \in Calls \ InFlight : call' = [call EXCEPT ![c] = [stage |-> "start", rt |-> r]]
    BY DEF Connects
<1>2. call \in [Calls -> CallType]
    BY DEF TypeOK
<1>3. call'[c].rt = r /\ \A d \in Calls \ {c} : call'[d] = call[d]
    BY <1>1, <1>2
<1> QED BY <1>3 DEF Connects, InFlight

\* maybe_auto_connect leaves the connects as they are, or begins one.
LEMMA AutoConnectKnown ==
  ASSUME TypeOK, NEW a, NEW r \in Runtimes, NEW ready, NEW k, NEW p,
         MaybeAutoConnect(a, r, ready, k, p)
  PROVE  /\ \A c \in InFlight' : \/ call'[c].rt = r
                                 \/ c \in InFlight /\ call'[c].rt = call[c].rt
         /\ controller' \in {k, "Connecting"} /\ (meddled => meddled')
<1>1. CASE NoConnect(k, p)
    BY <1>1 DEF NoConnect, InFlight
<1>2. CASE Connects(r)
    BY <1>2, ConnectsKnown
<1> QED BY <1>1, <1>2 DEF MaybeAutoConnect

\* A worker's step: what is left to show is that the kernel it may leave running is
\* the one that may run next.
LEMMA WorkersStay ==
  ASSUME TypeOK, ClosedIdle, KernelInv, Updating, Updating',
         UNCHANGED <<runtime, core, controller, call, meddled>>,
         job'.prev = job.prev, job'.ok => job'.stage = "done",
         KernelsAreKnown'
  PROVE  KernelInv'
<1>1. CallsAreOwn'
    BY DEF KernelInv, CallsAreOwn, InFlight
<1>2. WorkerIsOwn'
    BY DEF KernelInv, WorkerIsOwn
<1>3. NothingRunsClosed'
    BY DEF ClosedIdle, NothingRunsClosed, Updating, NoJob, Open
<1> QED BY <1>1, <1>2, <1>3 DEF KernelInv

\* An update begins with the window's runtime.
LEMMA UpdateBegun ==
  ASSUME TypeOK, KernelInv, ~Updating, NEW b \in BOOLEAN, job' = UpdateOf(runtime, b),
         core' = "Updating", UNCHANGED <<kernel, target, runtime, call>>,
         meddled => meddled', Open, Open'
  PROVE  KernelInv'
<1>1. job'.stage = "stop" /\ job'.prev = runtime /\ ~job'.ok
    BY DEF UpdateOf, NoJob, Stages
<1>2. MayRun = {runtime} /\ MayRun' = {runtime}
    BY <1>1 DEF MayRun, Updating
<1>3. KernelsAreKnown' /\ CallsAreOwn'
    BY <1>2 DEF KernelInv, KernelsAreKnown, CallsAreOwn, InFlight
<1>4. WorkerIsOwn' /\ NothingRunsClosed'
    BY <1>1 DEF WorkerIsOwn, NothingRunsClosed
<1> QED BY <1>3, <1>4 DEF KernelInv

\* Every step keeps what is known about the kernels.
LEMMA KernelStep == TypeOK /\ ClosedIdle /\ Alone /\ KernelInv /\ [Next]_vars => KernelInv'
<1> SUFFICES ASSUME TypeOK, ClosedIdle, Alone, KernelInv, [Next]_vars PROVE KernelInv'
    OBVIOUS
<1>0. /\ job \in JobType /\ call \in [Calls -> CallType] /\ runtime \in Runtimes
      /\ kernel \in [Runtimes -> Binaries \cup {Corrupt, Foreign}]
      /\ NoJob.stage = "none" /\ ~NoJob.ok
    BY RecordsTyped DEF TypeOK, NoJob
<1>1. CASE Launch
  <2>1. PICK a, b : MaybeAutoConnect(a, 0, b, "Disconnected", FALSE)
      BY <1>1 DEF Launch
  <2>2. ~Open /\ runtime' = 0 /\ kernel' = kernel
      BY <1>1 DEF Launch
  <2>3. Open' /\ \A c \in InFlight' : call'[c].rt = 0
      BY <1>0, <2>1, <2>2, AutoConnectKnown DEF ClosedIdle, Open, Runtimes
  <2>4. \A r \in Runtimes : kernel'[r] = None
      BY <2>2 DEF KernelInv, NothingRunsClosed
  <2>5. job' = NoJob \/ (job' = UpdateOf(0, FALSE) /\ core' = "Updating")
      BY <1>1 DEF Launch
  <2>6. WorkerIsOwn'
      BY <1>0, <2>2, <2>5 DEF WorkerIsOwn, Updating, UpdateOf, NoJob
  <2> QED BY <2>2, <2>3, <2>4, <2>6 DEF KernelInv, KernelsAreKnown, CallsAreOwn,
    NothingRunsClosed
<1>2. CASE Close
  <2>1. /\ \A r \in Runtimes : kernel'[r] = None
        /\ InFlight' = {} /\ job' = NoJob
      BY <1>2 DEF Close, InFlight
  <2> QED BY <1>0, <2>1 DEF KernelInv, KernelsAreKnown, CallsAreOwn, WorkerIsOwn,
    Updating, NothingRunsClosed
<1>3. ASSUME Connects(runtime), Open, UNCHANGED <<target, kernel, runtime, core, job>>
      PROVE KernelInv'
  <2>1. /\ \A c \in InFlight' : \/ call'[c].rt = runtime
                                \/ c \in InFlight /\ call'[c].rt = call[c].rt
        /\ Open' /\ (meddled => meddled')
      BY <1>0, <1>3, ConnectsKnown DEF Open
  <2> QED BY <1>3, <2>1, KernelsStay
<1>4. CASE Connect
    BY <1>3, <1>4 DEF Connect, files
<1>5. CASE Update
  <2>1. ~Updating
      BY <1>5 DEF Update, KernelInv, WorkerIsOwn
  <2>2. Open /\ Open'
      BY <1>5 DEF Update, Open
  <2> QED BY <1>5, <2>1, <2>2, UpdateBegun DEF Update
<1>6. CASE SetAuto
  <2>1. Open /\ UNCHANGED <<target, kernel, runtime>>
      BY <1>6 DEF SetAuto, files
  <2>2. CASE /\ core = "Missing" /\ core' = "Updating" /\ job' = UpdateOf(runtime,
                controller = "Connected")
             /\ controller' = "Disconnected" /\ meddled' = (meddled \/ InFlight # {}
                 \/ proxy.switching)
             /\ UNCHANGED call
    <3>1. ~Updating
        BY <2>2 DEF KernelInv, WorkerIsOwn
    <3>2. Open'
        BY <2>2 DEF Open
    <3> QED BY <2>1, <2>2, <3>1, <3>2, UpdateBegun
  <2>3. CASE UNCHANGED <<controller, call, meddled, core, job>>
      BY <2>1, <2>3, KernelsStay DEF InFlight, Open
  <2>4. CASE /\ UNCHANGED <<core, job>>
             /\ \E a, b : MaybeAutoConnect(a, runtime, b, controller, polling)
    <3>1. /\ \A c \in InFlight' : \/ call'[c].rt = runtime
                                  \/ c \in InFlight /\ call'[c].rt = call[c].rt
          /\ controller' \in {controller, "Connecting"} /\ (meddled => meddled')
        BY <1>0, <2>4, AutoConnectKnown
    <3>2. Open'
        BY <2>1, <3>1 DEF Open
    <3> QED BY <2>1, <2>4, <3>1, <3>2, KernelsStay
  <2> QED BY <1>6, <2>2, <2>3, <2>4 DEF SetAuto
<1>7. CASE Switch \/ SwitchEnds
    BY <1>7, KernelsStay DEF Switch, SwitchEnds, files, InFlight, Open
<1>8. CASE Poll
  <2>1. Open /\ Open'
      BY <1>8 DEF Poll, ClosedIdle, Open
  <2> QED BY <1>8, <2>1, KernelsStay DEF Poll, files, InFlight
<1>9. CASE Retry
  <2>1. Open
      BY <1>9 DEF Retry, ClosedIdle
  <2>2. CASE UNCHANGED <<controller, call, job, meddled>>
      BY <1>9, <2>2, KernelsStay DEF Retry, files, InFlight, Open
  <2> QED BY <1>3, <1>9, <2>1, <2>2 DEF Retry, files
<1>10. ASSUME NEW r \in Runtimes, KernelDies(r) PROVE KernelInv'
    BY <1>0, <1>10, KernelsStay DEF KernelDies, files, window, InFlight, Open
<1>11. ASSUME NEW c \in Calls, call[c].stage # "none" PROVE c \in InFlight /\ Open
    BY <1>11 DEF InFlight, NoCall, ClosedIdle
<1>12. ASSUME NEW c \in Calls, call' = [call EXCEPT ![c] = NoCall]
                \/ \E s : call' = [call EXCEPT ![c].stage = s],
              call[c].stage # "none"
       PROVE  \A d \in InFlight' : d \in InFlight /\ call'[d].rt = call[d].rt
  <2>1. c \in InFlight
      BY <1>11, <1>12
  <2> QED BY <1>0, <1>12, <2>1 DEF InFlight, CallType
<1>13. ASSUME NEW c \in Calls, CallStart(c) PROVE KernelInv'
  <2>1. /\ call[c].stage # "none" /\ UNCHANGED <<target, runtime, core, job, controller,
           meddled>>
        /\ \E s : call' = [call EXCEPT ![c].stage = s]
      BY <1>13 DEF CallStart, files, window
  <2>2. c \in InFlight /\ Open /\ Open'
      BY <1>11, <2>1 DEF Open
  <2>3. \A d \in InFlight' : d \in InFlight /\ call'[d].rt = call[d].rt
      BY <1>12, <2>1
  <2>4. CASE kernel' = kernel
      BY <2>1, <2>2, <2>3, <2>4, KernelsStay
  <2>5. CASE kernel' = [kernel EXCEPT ![call[c].rt] = target]
    <3>1. CASE meddled
        BY <2>1, <2>2, <3>1 DEF KernelInv, KernelsAreKnown, CallsAreOwn, WorkerIsOwn,
          NothingRunsClosed, Updating
    <3>2. CASE ~meddled
      <4>1. ~Updating /\ call[c].rt = runtime
          BY <2>2, <3>2 DEF Alone, KernelInv, CallsAreOwn
      <4>2. MayRun' = {runtime}
          BY <2>1, <4>1 DEF MayRun, Updating
      <4>3. KernelsAreKnown'
          BY <1>0, <2>1, <2>2, <2>5, <3>2, <4>1, <4>2 DEF KernelInv, KernelsAreKnown,
            MayRun, Updating
      <4> QED BY <2>1, <2>2, <2>3, <3>2, <4>3 DEF KernelInv, CallsAreOwn, WorkerIsOwn,
        NothingRunsClosed, Updating
    <3> QED BY <3>1, <3>2
  <2> QED BY <1>13, <2>4, <2>5 DEF CallStart
<1>14. ASSUME NEW c \in Calls, CallLoad(c) \/ CallLoaded(c) \/ CallFailed(c) PROVE KernelInv'
  <2>1. /\ call[c].stage # "none" /\ UNCHANGED <<target, runtime, core, job, meddled>>
        /\ call' = [call EXCEPT ![c] = NoCall] \/ \E s : call' = [call EXCEPT ![c].stage = s]
        /\ controller' \in {controller, "Connected", "Failed"}
      BY <1>14 DEF CallLoad, CallLoaded, CallFailed, files, window
  <2>2. \A r \in Runtimes : kernel'[r] \in {None, kernel[r]}
      BY <1>0, <1>14 DEF CallLoad, CallLoaded, CallFailed, Dropped
  <2>3. Open /\ Open'
      BY <1>11, <2>1 DEF Open
  <2>4. \A d \in InFlight' : d \in InFlight /\ call'[d].rt = call[d].rt
      BY <1>12, <2>1
  <2> QED BY <2>1, <2>2, <2>3, <2>4, KernelsStay
<1>15. CASE Stop
  <2>1. /\ Updating /\ Updating' /\ UNCHANGED <<runtime, core, controller, call, meddled>>
        /\ job'.prev = job.prev /\ (job'.ok => job'.stage = "done")
      BY <1>0, <1>15 DEF Stop, Work, files, window, Updating, JobType, KernelInv,
        WorkerIsOwn
  <2>2. KernelsAreKnown'
      BY <1>0, <1>15, <2>1 DEF Stop, Work, files, window, Updating, JobType, Runtimes,
        KernelInv, WorkerIsOwn,
        KernelsAreKnown, MayRun, New, Open
  <2> QED BY <2>1, <2>2, WorkersStay
<1>16. CASE Download
  <2>1. /\ Updating /\ Updating' /\ UNCHANGED <<runtime, core, controller, call, meddled>>
        /\ job'.prev = job.prev /\ (job'.ok => job'.stage = "done")
      BY <1>0, <1>16 DEF Download, Work, files, window, Updating, JobType, KernelInv,
        WorkerIsOwn
  <2>2. job.stage = "download" /\ job'.stage \in {"stage", "recover"}
          /\ UNCHANGED <<kernel, target>>
      BY <1>0, <1>16 DEF Download, Work, files, JobType
  <2>3. MayRun = {} /\ MayRun' = {}
      BY <2>2 DEF MayRun
  <2>4. KernelsAreKnown'
      BY <2>1, <2>2, <2>3 DEF KernelInv, KernelsAreKnown, Open
  <2> QED BY <2>1, <2>4, WorkersStay
<1>17. CASE Stage
  <2>1. /\ Updating /\ Updating' /\ UNCHANGED <<runtime, core, controller, call, meddled>>
        /\ job'.prev = job.prev /\ (job'.ok => job'.stage = "done")
      BY <1>0, <1>17 DEF Stage, Work, files, window, Updating, JobType, KernelInv,
        WorkerIsOwn
  <2>2. KernelsAreKnown'
      BY <1>0, <1>17, <2>1 DEF Stage, Work, files, window, Updating, JobType, Runtimes,
        KernelInv, WorkerIsOwn,
        KernelsAreKnown, MayRun, New, Open
  <2> QED BY <2>1, <2>2, WorkersStay
<1>18. CASE Backup
  <2>1. /\ Updating /\ Updating' /\ UNCHANGED <<runtime, core, controller, call, meddled>>
        /\ job'.prev = job.prev /\ (job'.ok => job'.stage = "done")
      BY <1>0, <1>18 DEF Backup, Work, files, window, Updating, JobType, KernelInv,
        WorkerIsOwn
  <2>2. KernelsAreKnown'
      BY <1>0, <1>18, <2>1 DEF Backup, Work, files, window, Updating, JobType, Runtimes,
        KernelInv, WorkerIsOwn,
        KernelsAreKnown, MayRun, New, Open
  <2> QED BY <2>1, <2>2, WorkersStay
<1>19. CASE Publish
  <2>1. /\ Updating /\ Updating' /\ UNCHANGED <<runtime, core, controller, call, meddled>>
        /\ job'.prev = job.prev /\ (job'.ok => job'.stage = "done")
      BY <1>0, <1>19 DEF Publish, Work, files, window, Updating, JobType, KernelInv,
        WorkerIsOwn
  <2>2. KernelsAreKnown'
      BY <1>0, <1>19, <2>1 DEF Publish, Work, files, window, Updating, JobType, Runtimes,
        KernelInv, WorkerIsOwn,
        KernelsAreKnown, MayRun, New, Open
  <2> QED BY <2>1, <2>2, WorkersStay
<1>20. CASE Prepare
  <2>1. /\ Updating /\ Updating' /\ UNCHANGED <<runtime, core, controller, call, meddled>>
        /\ job'.prev = job.prev /\ (job'.ok => job'.stage = "done")
      BY <1>0, <1>20 DEF Prepare, Work, files, window, Updating, JobType, KernelInv,
        WorkerIsOwn
  <2>2. KernelsAreKnown'
      BY <1>0, <1>20, <2>1 DEF Prepare, Work, files, window, Updating, JobType, Runtimes,
        KernelInv, WorkerIsOwn,
        KernelsAreKnown, MayRun, New, Open
  <2> QED BY <2>1, <2>2, WorkersStay
<1>21. CASE Sync
  <2>1. /\ Updating /\ Updating' /\ UNCHANGED <<runtime, core, controller, call, meddled>>
        /\ job'.prev = job.prev /\ (job'.ok => job'.stage = "done")
      BY <1>0, <1>21 DEF Sync, Work, files, window, Updating, JobType, KernelInv,
        WorkerIsOwn
  <2>2. KernelsAreKnown'
      BY <1>0, <1>21, <2>1 DEF Sync, Work, files, window, Updating, JobType, Runtimes,
        KernelInv, WorkerIsOwn,
        KernelsAreKnown, MayRun, New, Open
  <2> QED BY <2>1, <2>2, WorkersStay
<1>22. CASE Keep
  <2>1. /\ Updating /\ Updating' /\ UNCHANGED <<runtime, core, controller, call, meddled>>
        /\ job'.prev = job.prev /\ (job'.ok => job'.stage = "done")
      BY <1>0, <1>22 DEF Keep, Work, files, window, Updating, JobType, KernelInv,
        WorkerIsOwn
  <2>2. KernelsAreKnown'
      BY <1>0, <1>22, <2>1 DEF Keep, Work, files, window, Updating, JobType, Runtimes,
        KernelInv, WorkerIsOwn,
        KernelsAreKnown, MayRun, New, Open
  <2> QED BY <2>1, <2>2, WorkersStay
<1>23. CASE Undo
  <2>1. /\ Updating /\ Updating' /\ UNCHANGED <<runtime, core, controller, call, meddled>>
        /\ job'.prev = job.prev /\ (job'.ok => job'.stage = "done")
      BY <1>0, <1>23 DEF Undo, Work, files, window, Updating, JobType, KernelInv,
        WorkerIsOwn
  <2>2. KernelsAreKnown'
      BY <1>0, <1>23, <2>1 DEF Undo, Work, files, window, Updating, JobType, Runtimes,
        KernelInv, WorkerIsOwn,
        KernelsAreKnown, MayRun, New, Open
  <2> QED BY <2>1, <2>2, WorkersStay
<1>24. CASE Restore
  <2>1. /\ Updating /\ Updating' /\ UNCHANGED <<runtime, core, controller, call, meddled>>
        /\ job'.prev = job.prev /\ (job'.ok => job'.stage = "done")
      BY <1>0, <1>24 DEF Restore, Work, files, window, Updating, JobType, KernelInv,
        WorkerIsOwn
  <2>2. KernelsAreKnown'
      BY <1>0, <1>24, <2>1 DEF Restore, Work, files, window, Updating, JobType, Runtimes,
        KernelInv, WorkerIsOwn,
        KernelsAreKnown, MayRun, New, Open
  <2> QED BY <2>1, <2>2, WorkersStay
<1>25. CASE Recover
  <2>1. /\ Updating /\ Updating' /\ UNCHANGED <<runtime, core, controller, call, meddled>>
        /\ job'.prev = job.prev /\ (job'.ok => job'.stage = "done")
      BY <1>0, <1>25 DEF Recover, Work, files, window, Updating, JobType, KernelInv,
        WorkerIsOwn
  <2>2. /\ job.stage = "recover" /\ job'.stage = "done" /\ ~job'.ok /\ job.prev = runtime
        /\ UNCHANGED target /\ kernel' \in {kernel, [kernel EXCEPT ![runtime] = target]}
      BY <1>0, <1>25, <2>1 DEF Recover, files, JobType, KernelInv, WorkerIsOwn
  <2>3. MayRun = {} /\ MayRun' = {runtime}
      BY <2>1, <2>2 DEF MayRun
  <2>4. KernelsAreKnown'
      BY <1>0, <2>1, <2>2, <2>3 DEF KernelInv, KernelsAreKnown, Open
  <2> QED BY <2>1, <2>4, WorkersStay
<1>26. CASE Finish
  <2>p. PICK p : \E k \in {"Connected", controller} :
          \/ MaybeAutoConnect(auto, runtime', core' = "Ready", k, p)
          \/ NoConnect(k, p)
      BY <1>26 DEF Finish
  <2>1. PICK k \in {"Connected", controller} :
          \/ MaybeAutoConnect(auto, runtime', core' = "Ready", k, p)
          \/ NoConnect(k, p)
      BY <2>p
  <2>2. /\ job.stage = "done" /\ job' = NoJob /\ runtime' = (IF job.ok THEN New ELSE runtime)
        /\ UNCHANGED target /\ Dropped(kernel)
      BY <1>26 DEF Finish, files
  <2>3. Updating /\ Open /\ job.prev = runtime /\ runtime' \in Runtimes
      BY <1>0, <2>2 DEF Updating, ClosedIdle, KernelInv, WorkerIsOwn, New, Runtimes
  <2>4. /\ \A c \in InFlight' : \/ call'[c].rt = runtime'
                                \/ c \in InFlight /\ call'[c].rt = call[c].rt
        /\ controller' \in {k, "Connecting"} /\ (meddled => meddled')
      BY <2>1, <2>3, AutoConnectKnown DEF NoConnect, InFlight
  <2>5. Open'
      BY <2>1, <2>3, <2>4 DEF Open
  <2>6. CallsAreOwn'
      BY <2>3, <2>4 DEF CallsAreOwn, Alone
  <2>7. MayRun = {runtime'} /\ MayRun' = {runtime'}
      BY <1>0, <2>2 DEF MayRun, New
  <2>8. \A r \in Runtimes : kernel'[r] \in {None, kernel[r]}
      BY <2>2 DEF Dropped
  <2>9. KernelsAreKnown'
      BY <2>2, <2>3, <2>4, <2>7, <2>8 DEF KernelInv, KernelsAreKnown
  <2> QED BY <1>0, <2>2, <2>5, <2>6, <2>9 DEF KernelInv, WorkerIsOwn, Updating,
    NothingRunsClosed
<1>27. CASE UNCHANGED vars
    BY <1>27, KernelsStay DEF vars, files, window, InFlight, Open
<1> QED BY <1>1, <1>2, <1>4, <1>5, <1>6, <1>7, <1>8, <1>9, <1>10, <1>13, <1>14, <1>15,
  <1>16, <1>17, <1>18, <1>19, <1>20, <1>21, <1>22, <1>23, <1>24, <1>25, <1>26, <1>27 DEF
  Next, Worker, Connecting

\* A kernel that runs while nothing is in flight is the window's and of the installed
\* binary: perform_mihomo_core_update, its rollback and apply_mihomo_core_update_outcome
\* leave none behind, unless a connect or a switch was in flight beside the update.
THEOREM KernelIsInstalled == Spec => []KernelRunsInstalled
<1>1. Init => TypeOK /\ ClosedIdle /\ Alone /\ KernelInv
  <2> SUFFICES ASSUME Init PROVE TypeOK /\ ClosedIdle /\ Alone /\ KernelInv
      OBVIOUS
  <2>1. TypeOK /\ job.stage = "none"
      BY CoreInit, RecordsTyped DEF Init
  <2>2. InFlight = {} /\ \A r \in Runtimes : kernel[r] = None
      BY DEF Init, InFlight
  <2>3. ClosedIdle
      BY <2>2 DEF Init, ClosedIdle, NoProxy
  <2>4. Alone /\ KernelInv
      BY <2>1, <2>2 DEF Alone, Updating, KernelInv, KernelsAreKnown, CallsAreOwn,
        WorkerIsOwn, NothingRunsClosed
  <2> QED BY <2>1, <2>3, <2>4
<1>2. TypeOK /\ ClosedIdle /\ Alone /\ KernelInv /\ [Next]_vars
        => TypeOK' /\ ClosedIdle' /\ Alone' /\ KernelInv'
    BY TypeStep, ClosedStep, AloneStep, KernelStep
<1>3. KernelInv => KernelRunsInstalled
    BY DEF KernelInv, KernelsAreKnown, KernelRunsInstalled, MayRun, Updating
<1> QED BY <1>1, <1>2, <1>3, PTL DEF Spec

-----------------------------------------------------------------------------
(* Picks of nodes                                                          *)
KernelTyped == mihomo \in Kernels /\ store \in Nat
  /\ saved \in [Selectors -> Nodes \cup {Nothing}]
ViewsTyped ==
  /\ snapshot \in Views \cup {Nothing} /\ catalog \in Views \cup {Nothing}
  /\ retry \in Chains \cup {Nothing} /\ (retry # Nothing /\ retry.stage = "read"
      => retry.view # Nothing)
  /\ retry # Nothing /\ retry.stage # "waiting" => retry.left > 0
WorkTyped ==
  /\ picks \in [Selectors -> Sends \cup {Nothing}]
      /\ syncs \in [Syncs -> Restorations \cup {Nothing}]
  /\ \A s \in Syncs : syncs[s] # Nothing
      => syncs[s].left \cup syncs[s].got \subseteq DOMAIN syncs[s].to
  /\ test \in Tests \cup {Nothing}
FlagsTyped ==
  /\ session \in {"off", "connecting", "connected"} /\ edit \in {"idle", "saving", "saved"}
  /\ transfer \in {"shut", "refused", "open"} /\ unfetched \in BOOLEAN
  /\ calling \in BOOLEAN /\ update \in Updates \cup {Nothing}
  /\ astray \subseteq Selectors /\ misshown \subseteq Policies
SelectionsTypeOK == KernelTyped /\ ViewsTyped /\ WorkTyped /\ FlagsTyped

\* A snapshot belongs to a connect in flight, the retries to a connection.
ReadingsHaveOwner ==
  /\ snapshot # Nothing => calling
  /\ retry # Nothing => session = "connected"

\* What was read is of the groups as they are, unless an edit is about to end
\* or has ended without a snapshot after it.
Current(v) ==
  v # Nothing => v.rev <= store /\ (edit # "saved" /\ ~unfetched => v.rev = store)
ReadingsAreCurrent ==
  /\ Current(snapshot) /\ (session = "connected" => Current(catalog))
  /\ retry # Nothing => Current(retry.view)

\* A reading with candidates has them still, and the nodes in use of the groups
\* without a saved one, unless an edit, a restart or a failure came after it.
Holds(v) ==
  v # Nothing /\ v.listed /\ v.rev = store /\ mihomo.up =>
    /\ mihomo.listed \/ astray = Selectors
    /\ \A p \in Policies \ astray : saved[p] # Nothing \/ v.target[p] = mihomo.current[p]
ReadingsHold ==
  ~unfetched => Holds(snapshot) /\ (retry # Nothing => Holds(retry.view))

\* What the worker of an update has read is not newer than the groups; a kernel that
\* it has installed and not connected to does not run.
UpdateKnown ==
  update # Nothing =>
    /\ update.view # Nothing => update.view.rev <= store
    /\ update.kernel # Nothing /\ update.view = Nothing => ~update.kernel.up
    /\ update.stage # "done" => update.kernel = Nothing

\* A catalog that is shown as complete and is not about to be fetched again.
Complete ==
  /\ session = "connected" /\ mihomo.up /\ edit # "saved" /\ ~unfetched /\ retry = Nothing
  /\ catalog # Nothing /\ catalog.listed /\ ~calling
Sends0(s, g) == syncs[s] # Nothing /\ g \in syncs[s].left /\ syncs[s].to[g] = saved[g]
ToBeSent(g) ==
  \/ picks[g] # Nothing /\ picks[g].stage = "sent" /\ picks[g].to = saved[g]
  \/ \E s \in Syncs : Sends0(s, g)
ToBeShown(g) ==
  \/ picks[g] # Nothing /\ picks[g].stage # "failed"
  \/ \E s \in Syncs : syncs[s] # Nothing /\ g \in syncs[s].left \cup syncs[s].got

\* Behind a complete catalog, what is saved is used or about to be sent, and
\* what is shown is used or about to be shown again.
CandidatesAreThere == Complete => mihomo.listed \/ astray = Selectors
SavedIsServed ==
  Complete => \A g \in Selectors \ astray : saved[g] \in {Nothing, mihomo.current[g]}
    \/ ToBeSent(g)
ShownIsServed ==
  Complete => \A p \in Policies \ (astray \cup misshown) :
                catalog.target[p] = mihomo.current[p] \/ ToBeShown(p)

SelectionsInv ==
  /\ SelectionsTypeOK /\ ReadingsHaveOwner /\ ReadingsAreCurrent /\ ReadingsHold
  /\ UpdateKnown /\ CandidatesAreThere /\ SavedIsServed /\ ShownIsServed

\* A controller that takes a candidate, or does not, moves that selector only,
\* which then is as saved, strayed, or could not be moved for want of candidates.
Took(g, n, ok) ==
  /\ mihomo' \in Kernels /\ mihomo'.up = mihomo.up /\ mihomo'.listed = mihomo.listed
  /\ astray' \subseteq Selectors
  /\ \A h \in Selectors \ {g} : mihomo'.current[h] = mihomo.current[h]
      /\ (h \in astray' <=> h \in astray)
  /\ \/ g \in astray'
     \/ ok /\ mihomo.listed /\ mihomo'.current[g] = saved[g] /\ saved[g] = n
     \/ ~mihomo.listed /\ mihomo'.current[g] = mihomo.current[g]
         /\ (g \in astray' <=> g \in astray)

LEMMA SentIsTaken ==
  ASSUME KernelTyped, FlagsTyped, NEW g \in Selectors, NEW n \in Nodes,
         NEW out \in Outcomes(g, n), Sent(g, n, out)
  PROVE  out.ok \in BOOLEAN /\ Took(g, n, out.ok)
<1>1. out.ok \in BOOLEAN /\ out.current \in Nodes
  <2>1. mihomo.current[g] \in Nodes
    BY DEF KernelTyped, Kernels, Targets
  <2>2. CASE mihomo.up /\ mihomo.listed
    <3>1. out \in {[ok |-> TRUE, current |-> n], [ok |-> FALSE, current |-> n],
                   [ok |-> FALSE, current |-> mihomo.current[g]]}
      BY <2>2 DEF Outcomes
    <3>2. CASE out = [ok |-> TRUE, current |-> n]
      BY <3>2
    <3>3. CASE out = [ok |-> FALSE, current |-> n]
      BY <3>3
    <3>4. CASE out = [ok |-> FALSE, current |-> mihomo.current[g]]
      BY <2>1, <3>4
    <3> QED
      BY <3>1, <3>2, <3>3, <3>4
  <2>3. CASE ~(mihomo.up /\ mihomo.listed)
    <3>1. out = [ok |-> FALSE, current |-> mihomo.current[g]]
      BY <2>3 DEF Outcomes
    <3> QED
      BY <2>1, <3>1
  <2> QED
    BY <2>2, <2>3
<1>2. out.ok => mihomo.up /\ mihomo.listed /\ out.current = n
  BY DEF Outcomes
<1>3. ~mihomo.listed => out.current = mihomo.current[g]
  BY DEF Outcomes
<1>4. /\ mihomo' \in Kernels /\ mihomo'.up = mihomo.up /\ mihomo'.listed = mihomo.listed
      /\ mihomo'.current[g] = out.current
      /\ \A h \in Selectors \ {g} : mihomo'.current[h] = mihomo.current[h]
  BY <1>1 DEF Sent, KernelTyped, Kernels, Targets
<1>5. CASE out.ok /\ n = saved[g]
  <2>1. astray' = astray \ {g}
    BY <1>5 DEF Sent
  <2> QED
    BY <1>1, <1>2, <1>4, <1>5, <2>1 DEF Took, FlagsTyped
<1>6. CASE ~out.ok /\ ~mihomo.listed
  <2>1. astray' = astray
    BY <1>6 DEF Sent
  <2> QED
    BY <1>1, <1>3, <1>4, <1>6, <2>1 DEF Took, FlagsTyped
<1>7. CASE ~(out.ok /\ n = saved[g]) /\ ~(~out.ok /\ ~mihomo.listed)
  <2>1. astray' = astray \cup {g}
    BY <1>7 DEF Sent
  <2> QED
    BY <1>1, <1>4, <2>1 DEF Took, FlagsTyped
<1> QED
  BY <1>1, <1>5, <1>6, <1>7

\* A reading that arrives is what is shown of its groups, and misleads unless
\* it is the node in use.
Showed(read) ==
  /\ catalog' \in Views \cup {Nothing} /\ misshown' \subseteq Policies
  /\ catalog = Nothing => catalog' = Nothing
  /\ catalog # Nothing => catalog' # Nothing /\ catalog'.listed = catalog.listed
      /\ catalog'.rev = catalog.rev
  /\ \A p \in Policies \ misshown' :
       IF p \in read THEN catalog # Nothing /\ catalog.listed
         => catalog'.target[p] = mihomo.current[p]
                     ELSE p \notin misshown /\ (catalog # Nothing
                       => catalog'.target[p] = catalog.target[p])

LEMMA ReadingIsShown ==
  ASSUME ViewsTyped, FlagsTyped, SelectionsAssumption, NEW D \in SUBSET Selectors,
         NEW got \in [D -> Nodes \cup {Nothing}], Arrives(got)
  PROVE  Showed(D)
<1>1. DOMAIN got = D /\ catalog' = Shown(got) /\ misshown' = (misshown \ D) \cup Misread(got)
  BY DEF Arrives
<1>2. misshown' \subseteq Policies
  BY <1>1 DEF Misread, FlagsTyped
<1>3. \A p \in Policies \ misshown' :
        IF p \in D THEN got[p] = mihomo.current[p] ELSE p \notin misshown
  BY <1>1 DEF Misread
<1>4. CASE catalog # Nothing /\ catalog.listed
  <2>1. catalog \in Views
    BY <1>4 DEF ViewsTyped
  <2>2. /\ catalog' \in Views /\ catalog'.listed = catalog.listed /\ catalog'.rev = catalog.rev
        /\ \A p \in Policies :
             catalog'.target[p] = IF p \in D THEN got[p] ELSE catalog.target[p]
    BY <1>1, <1>4, <2>1 DEF Shown, Views
  <2> QED
    BY <1>2, <1>3, <1>4, <2>2 DEF Showed, SelectionsAssumption
<1>5. CASE ~(catalog # Nothing /\ catalog.listed)
  <2>1. catalog' = catalog
    BY <1>1, <1>5 DEF Shown
  <2> QED
    BY <1>2, <1>3, <1>5, <2>1 DEF Showed, ViewsTyped
<1> QED
  BY <1>4, <1>5

\* A restoration begins to send what is saved, or leaves it astray.
Restores(s) ==
  /\ syncs' \in [Syncs -> Restorations \cup {Nothing}]
  /\ \A t \in Syncs : syncs'[t] # Nothing
      => syncs'[t].left \cup syncs'[t].got \subseteq DOMAIN syncs'[t].to
  /\ astray \subseteq astray' /\ astray' \subseteq Selectors
  /\ \A g \in Selectors \ astray' : saved[g] = Nothing \/ Sends0(s, g)'

LEMMA SyncStarted ==
  ASSUME KernelTyped, WorkTyped, FlagsTyped, SelectionsAssumption, saved' = saved,
         NEW s \in Syncs, Free(s), SyncStarts(s)
  PROVE  Restores(s)
<1> DEFINE asked == {g \in Selectors : saved[g] # Nothing}
           entry == [to |-> [g \in asked |-> saved[g]], left |-> asked, got |-> {}]
<1>1. entry \in Restorations /\ entry.left \cup entry.got \subseteq DOMAIN entry.to
  <2>1. [g \in asked |-> saved[g]] \in [asked -> Nodes]
    BY DEF KernelTyped
  <2>2. [g \in asked |-> saved[g]] \in Asked
    BY <2>1 DEF Asked
  <2> QED
    BY <2>2 DEF Restorations
<1>2. entry # Nothing /\ entry.left = asked /\ \A g \in asked : entry.to[g] = saved[g]
  BY <1>1 DEF SelectionsAssumption
<1>3. astray \subseteq astray' /\ astray' \subseteq Selectors
  BY DEF SyncStarts, FlagsTyped
<1>4. syncs' = IF asked = {} \/ ~Shut THEN syncs ELSE [syncs EXCEPT ![s] = entry]
  BY DEF SyncStarts
<1>5. ~Shut => asked \subseteq astray'
  BY DEF SyncStarts
<1> HIDE DEF entry
<1>6. CASE asked = {} \/ ~Shut
  BY <1>3, <1>4, <1>5, <1>6 DEF Restores, WorkTyped
<1>7. CASE asked # {} /\ Shut
  <2>1. syncs'[s] = entry /\ \A t \in Syncs \ {s} : syncs'[t] = syncs[t]
    BY <1>4, <1>7 DEF WorkTyped
  <2>2. syncs' \in [Syncs -> Restorations \cup {Nothing}]
    BY <1>1, <1>4, <1>7 DEF WorkTyped
  <2>3. \A t \in Syncs : syncs'[t] # Nothing
          => syncs'[t].left \cup syncs'[t].got \subseteq DOMAIN syncs'[t].to
    BY <1>1, <2>1 DEF WorkTyped
  <2>4. \A g \in asked : Sends0(s, g)'
    BY <1>2, <2>1 DEF Sends0
  <2> QED
    BY <1>3, <2>2, <2>3, <2>4 DEF Restores
<1> QED
  BY <1>6, <1>7

LEMMA Viewed ==
  ASSUME mihomo' \in Kernels, store \in Nat
  PROVE  /\ View \in Views /\ View.listed = mihomo'.listed /\ View.rev = store
         /\ mihomo'.listed => \A p \in Policies : View.target[p] = mihomo'.current[p]
BY DEF View, ViewOf, Views, Kernels, Targets, Selectors

\* The same of any kernel that a worker has read.
LEMMA ViewedOf ==
  ASSUME NEW k \in Kernels, store \in Nat
  PROVE  ViewOf(k) \in Views /\ ViewOf(k).rev = store
BY DEF ViewOf, Views, Kernels, Targets, Selectors

\* A worker that may start the kernel behind a connection or a reading.
LEMMA StartedBehind ==
  ASSUME KernelTyped, FlagsTyped, StartsBehind
  PROVE  /\ mihomo' \in Kernels /\ astray \subseteq astray' /\ astray' \subseteq Selectors
         /\ mihomo.up => UNCHANGED <<mihomo, astray>>
         /\ session = "connected" \/ snapshot # Nothing
              => UNCHANGED <<mihomo, astray>> \/ astray' = Selectors
BY DEF StartsBehind, StartsIfDown, KernelTyped, FlagsTyped

\* What is shown of a reading: its own nodes, but for the groups with a saved one.
LEMMA SavedIsShown ==
  ASSUME KernelTyped, SelectionsAssumption, NEW v \in Views
  PROVE  /\ WithSaved(v) \in Views /\ WithSaved(v).listed = v.listed
         /\ WithSaved(v).rev = v.rev
         /\ v.listed => \A p \in Policies : saved[p] = Nothing
              => WithSaved(v).target[p] = v.target[p]
<1> DEFINE over == [p \in Policies |-> IF v.listed /\ saved[p] # Nothing THEN saved[p]
                                       ELSE v.target[p]]
<1>1. over \in [Policies -> Nodes \cup {Nothing}]
  <2>1. v.target \in [Policies -> Nodes \cup {Nothing}]
    BY DEF Views
  <2> QED
    BY <2>1 DEF KernelTyped, Selectors
<1>2. WithSaved(v) = [v EXCEPT !.target = over]
  BY DEF WithSaved
<1>3. \A p \in Policies : saved[p] = Nothing => over[p] = v.target[p]
  OBVIOUS
<1> HIDE DEF over
<1> QED
  BY <1>1, <1>2, <1>3 DEF Views

LEMMA RetriesBegin ==
  ASSUME SelectionsAssumption, NEW v \in Views
  PROVE  /\ RetriesOf(v) \in Chains \cup {Nothing}
         /\ RetriesOf(v) # Nothing
              => RetriesOf(v).stage = "waiting" /\ RetriesOf(v).view = Nothing
         /\ RetriesOf(v) = Nothing => v.listed
<1>1. /\ [left |-> Attempts, stage |-> "waiting", view |-> Nothing] \in Chains
      /\ [left |-> Attempts, stage |-> "waiting", view |-> Nothing] # Nothing
  BY SelectionsAssumption DEF Chains
<1> QED
  BY <1>1 DEF RetriesOf

\* After an update of the core nothing is sent: what is saved is astray, and what is not
\* is shown as it was read.
LEMMA UpdatedIsShown ==
  ASSUME KernelTyped, FlagsTyped, SelectionsAssumption, UNCHANGED <<store, saved>>,
         mihomo' \in Kernels, NEW v \in Views, v.rev <= store, ShowsUpdated(v),
         unfetched' \in BOOLEAN, ~unfetched' => ~Outdated(v)
  PROVE  /\ session' = "connected" /\ catalog' \in Views /\ misshown' = {}
         /\ retry' \in Chains \cup {Nothing}
         /\ retry' # Nothing => retry'.stage = "waiting" /\ retry'.view = Nothing
         /\ astray \subseteq astray' /\ astray' \subseteq Selectors
         /\ Current(catalog)'
         /\ CandidatesAreThere' /\ SavedIsServed' /\ ShownIsServed'
<1>1. /\ session' = "connected" /\ misshown' = {} /\ catalog' = WithSaved(v)
      /\ retry' = RetriesOf(v)
      /\ astray' = astray \cup {g \in Selectors : saved[g] # Nothing}
  BY DEF ShowsUpdated
<1>2. /\ catalog' \in Views /\ catalog'.listed = v.listed /\ catalog'.rev = v.rev
      /\ v.listed => \A p \in Policies : saved[p] = Nothing => catalog'.target[p] = v.target[p]
  BY <1>1, SavedIsShown
<1>3. /\ retry' \in Chains \cup {Nothing}
      /\ retry' # Nothing => retry'.stage = "waiting" /\ retry'.view = Nothing
  BY <1>1, RetriesBegin
<1>4. astray \subseteq astray' /\ astray' \subseteq Selectors
  BY <1>1 DEF FlagsTyped
<1>5. Current(catalog)'
  BY <1>2, SelectionsAssumption DEF Current, Outdated
<1>6. Complete' => /\ mihomo'.listed
                   /\ \A p \in Policies : v.target[p] = mihomo'.current[p]
  <2> SUFFICES ASSUME Complete'
               PROVE  mihomo'.listed /\ \A p \in Policies : v.target[p] = mihomo'.current[p]
    OBVIOUS
  <2>1. v.listed /\ mihomo'.up /\ ~Outdated(v)
    BY <1>2 DEF Complete
  <2>2. v.rev = store /\ [v EXCEPT !.rev = store] = View
    BY <2>1 DEF Outdated
  <2>3. v.listed = View.listed /\ v.target = View.target
    BY <2>2 DEF Views
  <2> QED
    BY <2>1, <2>3, Viewed DEF KernelTyped
<1>7. CandidatesAreThere'
  BY <1>6 DEF CandidatesAreThere
<1>8. SavedIsServed'
  BY <1>1 DEF SavedIsServed
<1>9. ShownIsServed'
  <2> SUFFICES ASSUME Complete', NEW p \in Policies \ (astray' \cup misshown')
               PROVE  catalog'.target[p] = mihomo'.current[p]
    BY DEF ShownIsServed
  <2>1. saved[p] = Nothing
    BY <1>1 DEF Selectors
  <2>2. v.listed
    BY <1>2 DEF Complete
  <2> QED
    BY <1>2, <1>6, <2>1, <2>2
<1> QED
  BY <1>1, <1>2, <1>3, <1>4, <1>5, <1>7, <1>8, <1>9

\* The workers of a previous runtime are done, whatever has become of it.
LEMMA FormerWorkersEnd ==
  ASSUME KernelTyped, ViewsTyped, WorkTyped, SelectionsAssumption, FormerWorkers
  PROVE  /\ picks' \in [Selectors -> Sends \cup {Nothing}]
         /\ syncs' \in [Syncs -> Restorations \cup {Nothing}]
         /\ \A s \in Syncs : syncs'[s] # Nothing
              => syncs'[s].left \cup syncs'[s].got \subseteq DOMAIN syncs'[s].to
         /\ test' \in Tests \cup {Nothing}
         /\ snapshot' \in Views \cup {Nothing}
         /\ \/ snapshot' = snapshot
            \/ calling /\ snapshot' # Nothing /\ snapshot'.rev = store
<1>1. PICK taken \in SUBSET Selectors :
        /\ picks' = [g \in Selectors |->
              IF picks[g] = Nothing \/ picks[g].stage # "sent" THEN picks[g]
              ELSE [picks[g] EXCEPT !.stage = IF g \in taken THEN "applied" ELSE "failed"]]
        /\ syncs' = [s \in Syncs |->
              IF Free(s) THEN Nothing
              ELSE [syncs[s] EXCEPT !.left = {}, !.got = @ \cup (syncs[s].left \cap taken)]]
  BY DEF FormerWorkers
<1>2. picks' \in [Selectors -> Sends \cup {Nothing}]
  <2>1. ASSUME NEW g \in Selectors PROVE picks'[g] \in Sends \cup {Nothing}
    BY <1>1 DEF WorkTyped, Sends
  <2> QED
    BY <1>1, <2>1
<1>3. ASSUME NEW s \in Syncs
      PROVE  /\ syncs'[s] \in Restorations \cup {Nothing}
             /\ syncs'[s] # Nothing
                  => syncs'[s].left \cup syncs'[s].got \subseteq DOMAIN syncs'[s].to
  <2>1. CASE Free(s)
    BY <1>1, <2>1
  <2>2. CASE ~Free(s)
    <3>1. /\ syncs[s] \in Restorations
          /\ syncs[s].left \cup syncs[s].got \subseteq DOMAIN syncs[s].to
      BY <2>2 DEF WorkTyped, Free
    <3>2. syncs'[s] = [syncs[s] EXCEPT !.left = {},
                                       !.got = @ \cup (syncs[s].left \cap taken)]
      BY <1>1, <2>2
    <3>3. /\ syncs'[s] \in Restorations /\ syncs'[s].to = syncs[s].to
          /\ syncs'[s].left = {} /\ syncs'[s].got \subseteq syncs[s].got \cup syncs[s].left
      BY <3>1, <3>2 DEF Restorations
    <3> QED
      BY <3>1, <3>3
  <2> QED
    BY <2>1, <2>2
<1>4. syncs' \in [Syncs -> Restorations \cup {Nothing}]
  BY <1>1, <1>3
<1>5. test' \in Tests \cup {Nothing}
  BY DEF FormerWorkers, WorkTyped, Tests
<1>6. /\ snapshot' \in Views \cup {Nothing}
      /\ \/ snapshot' = snapshot
         \/ calling /\ snapshot' # Nothing /\ snapshot'.rev = store
  <2>1. CASE calling /\ snapshot = Nothing
    <3>1. PICK k \in Kernels : snapshot' = ViewOf(k)
      BY <2>1 DEF FormerWorkers
    <3> QED
      BY <2>1, <3>1, ViewedOf, SelectionsAssumption DEF KernelTyped
  <2>2. CASE ~(calling /\ snapshot = Nothing)
    BY <2>2 DEF FormerWorkers, ViewsTyped
  <2> QED
    BY <2>1, <2>2
<1> QED
  BY <1>2, <1>3, <1>4, <1>5, <1>6

LEMMA RetriedAgain ==
  ASSUME retry \in Chains, retry.left > 0, SelectionsAssumption
  PROVE  /\ RetryAgain \in Chains /\ RetryAgain # Nothing
         /\ RetryAgain.stage = "waiting" /\ RetryAgain.view = Nothing
<1>1. retry.left - 1 \in Nat
  BY DEF Chains
<1>2. RetryAgain \in Chains /\ RetryAgain.stage = "waiting" /\ RetryAgain.view = Nothing
  BY <1>1 DEF RetryAgain, Chains
<1> QED
  BY <1>2, SelectionsAssumption

LEMMA SelectionsStep == SelectionsInv /\ [SelectionsNext]_selectionsVars => SelectionsInv'
<1> SUFFICES ASSUME SelectionsInv, [SelectionsNext]_selectionsVars PROVE SelectionsInv'
  OBVIOUS
<1>i. /\ KernelTyped /\ ViewsTyped /\ WorkTyped /\ FlagsTyped
      /\ ReadingsHaveOwner /\ ReadingsAreCurrent /\ ReadingsHold /\ UpdateKnown
      /\ CandidatesAreThere /\ SavedIsServed /\ ShownIsServed
  BY DEF SelectionsInv, SelectionsTypeOK
<1>1. CASE connect_mihomo
  <2>e. /\ UNCHANGED <<update, mihomo, store, saved, catalog, picks, syncs, edit, astray,
           misshown>>
        /\ session' = "connecting" /\ snapshot' = Nothing /\ retry' = Nothing
            /\ unfetched' = FALSE
        /\ ~calling /\ calling' = TRUE /\ ~Complete'
        /\ transfer' \in {"shut", "refused", "open"} /\ test' \in Tests \cup {Nothing}
    BY <1>1, <1>i DEF connect_mihomo, ConnectBegins, Complete, FlagsTyped, WorkTyped
  <2>1. SelectionsTypeOK'
    BY <1>i, <2>e, SelectionsAssumption DEF SelectionsTypeOK, KernelTyped, ViewsTyped,
      WorkTyped, FlagsTyped, Chains, Views
  <2>2. ReadingsHaveOwner' /\ ReadingsAreCurrent' /\ UpdateKnown'
    BY <1>i, <2>e, SelectionsAssumption DEF UpdateKnown, ReadingsHaveOwner,
      ReadingsAreCurrent, Current,
      KernelTyped
  <2>3. ReadingsHold'
    BY <1>i, <2>e, SelectionsAssumption DEF ReadingsHold, Holds, KernelTyped, Selectors
  <2>4. CandidatesAreThere' /\ SavedIsServed' /\ ShownIsServed'
    BY <2>e DEF CandidatesAreThere, SavedIsServed, ShownIsServed
  <2> QED
    BY <2>1, <2>2, <2>3, <2>4 DEF SelectionsInv
<1>2. CASE ConnectRead
  <2>e. /\ UNCHANGED <<calling, update, store, saved, session, catalog, retry, picks, syncs,
           edit,
           misshown, unfetched>>
        /\ calling /\ snapshot = Nothing /\ snapshot' \in Views /\ ~Complete'
        /\ mihomo' \in Kernels /\ astray \subseteq astray' /\ astray' \subseteq Selectors
        /\ session = "connected" => UNCHANGED <<mihomo, astray>> \/ astray' = Selectors
        /\ snapshot'.listed = mihomo'.listed /\ snapshot'.rev = store
        /\ mihomo'.listed => \A p \in Policies : snapshot'.target[p] = mihomo'.current[p]
        /\ transfer' \in {"shut", "refused", "open"} /\ test' \in Tests \cup {Nothing}
    <3>1. /\ mihomo' \in Kernels /\ astray \subseteq astray' /\ astray' \subseteq Selectors
          /\ session = "connected" => UNCHANGED <<mihomo, astray>> \/ astray' = Selectors
      BY <1>2, <1>i, StartedBehind DEF ConnectRead
    <3>2. /\ snapshot' \in Views /\ snapshot'.listed = mihomo'.listed /\ snapshot'.rev = store
          /\ mihomo'.listed => \A p \in Policies : snapshot'.target[p] = mihomo'.current[p]
      BY <1>2, <1>i, <3>1, Viewed DEF ConnectRead, KernelTyped
    <3> QED
      BY <1>2, <1>i, <3>1, <3>2 DEF ConnectRead, Complete, FlagsTyped, WorkTyped
  <2>1. SelectionsTypeOK'
    BY <1>i, <2>e, SelectionsAssumption DEF SelectionsTypeOK, KernelTyped, ViewsTyped,
      WorkTyped, FlagsTyped, Chains, Views
  <2>2. ReadingsHaveOwner' /\ ReadingsAreCurrent' /\ UpdateKnown'
    BY <1>i, <2>e, SelectionsAssumption DEF UpdateKnown, ReadingsHaveOwner,
      ReadingsAreCurrent, Current,
      KernelTyped
  <2>3. ReadingsHold'
    BY <1>i, <2>e, SelectionsAssumption DEF ReadingsHold, Holds, KernelTyped, Selectors,
      ReadingsHaveOwner
  <2>4. CandidatesAreThere' /\ SavedIsServed' /\ ShownIsServed'
    BY <2>e DEF CandidatesAreThere, SavedIsServed, ShownIsServed
  <2> QED
    BY <2>1, <2>2, <2>3, <2>4 DEF SelectionsInv
<1>3. CASE ConnectFails
  <2>e. /\ UNCHANGED <<update, mihomo, store, saved, catalog, picks, syncs, edit, astray,
           misshown, unfetched>>
        /\ session' = "off" /\ snapshot' = Nothing /\ retry' = Nothing /\ calling' = FALSE
        /\ ~Complete'
        /\ transfer' \in {"shut", "refused", "open"} /\ test' \in Tests \cup {Nothing}
    BY <1>3, <1>i DEF ConnectFails, Complete, ReadingsHaveOwner, FlagsTyped, WorkTyped
  <2>1. SelectionsTypeOK'
    BY <1>i, <2>e, SelectionsAssumption DEF SelectionsTypeOK, KernelTyped, ViewsTyped,
      WorkTyped, FlagsTyped, Chains, Views
  <2>2. ReadingsHaveOwner' /\ ReadingsAreCurrent' /\ UpdateKnown'
    BY <1>i, <2>e, SelectionsAssumption DEF UpdateKnown, ReadingsHaveOwner,
      ReadingsAreCurrent, Current,
      KernelTyped
  <2>3. ReadingsHold'
    BY <1>i, <2>e, SelectionsAssumption DEF ReadingsHold, Holds, KernelTyped, Selectors
  <2>4. CandidatesAreThere' /\ SavedIsServed' /\ ShownIsServed'
    BY <2>e DEF CandidatesAreThere, SavedIsServed, ShownIsServed
  <2> QED
    BY <2>1, <2>2, <2>3, <2>4 DEF SelectionsInv
<1>4. ASSUME NEW s \in Syncs, ConnectSucceeds(s) PROVE SelectionsInv'
  <2>e. /\ UNCHANGED <<update, mihomo, store, saved, picks, edit, unfetched>>
        /\ snapshot # Nothing /\ session' = "connected" /\ snapshot' = Nothing
        /\ calling' = FALSE
        /\ retry' \in Chains \cup {Nothing} /\ (retry' # Nothing => retry'.stage = "waiting"
            /\ retry'.view = Nothing)
        /\ Restores(s)
        /\ catalog' \in Views /\ catalog'.listed = snapshot.listed
            /\ catalog'.rev = snapshot.rev /\ misshown' = {}
        /\ snapshot.listed => \A p \in Policies : saved[p] = Nothing
            => catalog'.target[p] = snapshot.target[p]
        /\ transfer' \in {"shut", "refused", "open"} /\ test' \in Tests \cup {Nothing}
    <3>1. snapshot \in Views
      BY <1>4, <1>i DEF ConnectSucceeds, ViewsTyped
    <3>2. /\ catalog' \in Views /\ catalog'.listed = snapshot.listed
              /\ catalog'.rev = snapshot.rev
          /\ snapshot.listed => \A p \in Policies : saved[p] = Nothing
              => catalog'.target[p] = snapshot.target[p]
      BY <1>4, <1>i, <3>1, SavedIsShown, SelectionsAssumption DEF ConnectSucceeds
    <3>3. /\ retry' \in Chains \cup {Nothing}
          /\ retry' # Nothing => retry'.stage = "waiting" /\ retry'.view = Nothing
      BY <1>4, <3>1, RetriesBegin, SelectionsAssumption DEF ConnectSucceeds
    <3>4. Restores(s)
      BY <1>4, <1>i, SyncStarted, SelectionsAssumption DEF ConnectSucceeds
    <3> QED
      BY <1>4, <1>i, <3>2, <3>3, <3>4 DEF ConnectSucceeds, FlagsTyped, WorkTyped
  <2>1. SelectionsTypeOK'
    BY <1>i, <2>e, SelectionsAssumption DEF SelectionsTypeOK, KernelTyped, ViewsTyped,
      WorkTyped, FlagsTyped, Chains, Views, Restores
  <2>2. ReadingsHaveOwner' /\ ReadingsAreCurrent' /\ UpdateKnown'
    BY <1>i, <2>e, SelectionsAssumption DEF UpdateKnown, ReadingsHaveOwner,
      ReadingsAreCurrent, Current,
      KernelTyped, ViewsTyped
  <2>3. ReadingsHold'
    BY <1>i, <2>e, SelectionsAssumption DEF ReadingsHold, Holds, KernelTyped, Selectors,
      Restores, ViewsTyped
  <2>4. CandidatesAreThere'
    BY <1>i, <2>e, SelectionsAssumption DEF CandidatesAreThere, Complete, Restores,
      ReadingsHold, Holds, ReadingsAreCurrent, Current, ViewsTyped
  <2>5. SavedIsServed'
    BY <1>i, <2>e, SelectionsAssumption DEF SavedIsServed, Complete, ToBeSent, Restores
  <2>6. ShownIsServed'
    BY <1>i, <2>e, SelectionsAssumption DEF ShownIsServed, CandidatesAreThere, Complete,
      ToBeShown, Selectors, ReadingsHold, Holds, ReadingsAreCurrent, Current, ViewsTyped,
      Restores, Sends0
  <2> QED
    BY <2>1, <2>2, <2>3, <2>4, <2>5, <2>6 DEF SelectionsInv
<1>5. CASE RetryRead
  <2>e. /\ UNCHANGED <<calling, update, mihomo, store, saved, session, snapshot, catalog,
           picks, syncs, edit,
           astray, misshown, unfetched>>
        /\ retry # Nothing /\ retry' \in Chains /\ retry' # Nothing /\ retry'.left > 0
            /\ ~Complete'
        /\ retry'.stage = "read" => retry'.view # Nothing
        /\ \/ retry'.view = retry.view
           \/ /\ retry'.view \in Views /\ retry'.view.listed = mihomo.listed
                  /\ retry'.view.rev = store
              /\ mihomo.listed => \A p \in Policies : retry'.view.target[p] = mihomo.current[p]
        /\ transfer' \in {"shut", "refused", "open"} /\ test' \in Tests \cup {Nothing}
    <3>1. retry \in Chains /\ retry.left \in Nat /\ retry.left > 0
      BY <1>5, <1>i DEF RetryRead, ViewsTyped, Chains
    <3>2. UNCHANGED <<calling, update, mihomo, store, saved, session, snapshot, catalog,
           picks, syncs, edit,
          astray,
                      misshown, unfetched, transfer, test>>
      BY <1>5, <1>i DEF RetryRead
    <3>3. CASE retry' = [retry EXCEPT !.stage = "failed"]
      <4>1. /\ retry' \in Chains /\ retry'.left = retry.left /\ retry'.stage = "failed"
            /\ retry'.view = retry.view
        BY <3>1, <3>3 DEF Chains
      <4> QED
        BY <1>5, <1>i, <3>1, <3>2, <4>1, SelectionsAssumption DEF RetryRead, Complete,
          FlagsTyped, WorkTyped
    <3>4. CASE retry' = [retry EXCEPT !.stage = "read", !.view = View]
      <4>1. /\ View \in Views /\ View.listed = mihomo'.listed /\ View.rev = store
            /\ mihomo'.listed => \A p \in Policies : View.target[p] = mihomo'.current[p]
        BY <1>i, <3>2, Viewed DEF KernelTyped
      <4> DEFINE view == View
      <4> HIDE DEF view
      <4>2. view \in Views
        BY <4>1 DEF view
      <4>3. retry' \in Chains /\ retry'.left = retry.left /\ retry'.view = view
        BY <3>1, <3>4, <4>2 DEF Chains, view
      <4>4. retry'.view = View
        BY <4>3 DEF view
      <4>5. view # Nothing
        BY <4>2, SelectionsAssumption
      <4> QED
        BY <1>5, <1>i, <3>1, <3>2, <4>1, <4>3, <4>4, <4>5, SelectionsAssumption
           DEF RetryRead, Complete, FlagsTyped, WorkTyped
    <3> QED
      BY <1>5, <1>i, <3>3, <3>4 DEF RetryRead
  <2>1. SelectionsTypeOK'
    BY <1>i, <2>e, SelectionsAssumption DEF SelectionsTypeOK, KernelTyped, ViewsTyped,
      WorkTyped, FlagsTyped, Chains, Views
  <2>2. ReadingsHaveOwner' /\ ReadingsAreCurrent' /\ UpdateKnown'
    BY <1>i, <2>e, SelectionsAssumption DEF UpdateKnown, ReadingsHaveOwner,
      ReadingsAreCurrent, Current,
      KernelTyped
  <2>3. ReadingsHold'
    BY <1>i, <2>e, SelectionsAssumption DEF ReadingsHold, Holds, KernelTyped, Selectors
  <2>4. CandidatesAreThere' /\ SavedIsServed' /\ ShownIsServed'
    BY <2>e DEF CandidatesAreThere, SavedIsServed, ShownIsServed
  <2> QED
    BY <2>1, <2>2, <2>3, <2>4 DEF SelectionsInv
<1>6. CASE RetryFailed
  <2>e. /\ UNCHANGED <<calling, update, mihomo, store, saved, session, snapshot, catalog,
           picks, syncs, edit,
           astray, misshown, unfetched>>
        /\ retry # Nothing /\ retry' \in Chains /\ retry' # Nothing
            /\ retry'.stage = "waiting" /\ retry'.view = Nothing /\ ~Complete'
        /\ transfer' \in {"shut", "refused", "open"} /\ test' \in Tests \cup {Nothing}
    BY <1>6, <1>i, RetriedAgain, SelectionsAssumption DEF RetryFailed, Complete, FlagsTyped,
      WorkTyped, ViewsTyped
  <2>1. SelectionsTypeOK'
    BY <1>i, <2>e, SelectionsAssumption DEF SelectionsTypeOK, KernelTyped, ViewsTyped,
      WorkTyped, FlagsTyped, Chains, Views
  <2>2. ReadingsHaveOwner' /\ ReadingsAreCurrent' /\ UpdateKnown'
    BY <1>i, <2>e, SelectionsAssumption DEF UpdateKnown, ReadingsHaveOwner,
      ReadingsAreCurrent, Current,
      KernelTyped
  <2>3. ReadingsHold'
    BY <1>i, <2>e, SelectionsAssumption DEF ReadingsHold, Holds, KernelTyped, Selectors
  <2>4. CandidatesAreThere' /\ SavedIsServed' /\ ShownIsServed'
    BY <2>e DEF CandidatesAreThere, SavedIsServed, ShownIsServed
  <2> QED
    BY <2>1, <2>2, <2>3, <2>4 DEF SelectionsInv
<1>7. ASSUME NEW s \in Syncs, RetryApply(s) PROVE SelectionsInv'
  <2>e. /\ UNCHANGED <<calling, update, mihomo, store, saved, session, snapshot, picks, edit,
           unfetched>>
        /\ retry # Nothing /\ catalog' = retry.view /\ catalog' \in Views /\ misshown' = {}
        /\ \/ retry' = Nothing /\ Restores(s)
           \/ retry' \in Chains /\ retry' # Nothing /\ retry'.stage = "waiting"
               /\ retry'.view = Nothing
              /\ UNCHANGED <<syncs, astray>> /\ ~Complete'
        /\ transfer' \in {"shut", "refused", "open"} /\ test' \in Tests \cup {Nothing}
    <3>1. retry.view \in Views /\ retry \in Chains
      BY <1>7, <1>i DEF RetryApply, ViewsTyped, Chains
    <3>2. CASE retry.view.listed
      BY <1>7, <1>i, <3>1, <3>2, SyncStarted, SelectionsAssumption DEF RetryApply,
        FlagsTyped, WorkTyped
    <3>3. CASE ~retry.view.listed
      BY <1>7, <1>i, <3>1, <3>3, RetriedAgain, SelectionsAssumption DEF RetryApply,
        Complete, FlagsTyped, WorkTyped, ViewsTyped
    <3> QED
      BY <3>2, <3>3
  <2>1. SelectionsTypeOK'
    BY <1>i, <2>e, SelectionsAssumption DEF SelectionsTypeOK, KernelTyped, ViewsTyped,
      WorkTyped, FlagsTyped, Chains, Views, Restores
  <2>2. ReadingsHaveOwner' /\ ReadingsAreCurrent' /\ UpdateKnown'
    BY <1>i, <2>e, SelectionsAssumption DEF UpdateKnown, ReadingsHaveOwner,
      ReadingsAreCurrent, Current,
      KernelTyped, ViewsTyped
  <2>3. ReadingsHold'
    BY <1>i, <2>e, SelectionsAssumption DEF ReadingsHold, Holds, KernelTyped, Selectors,
      Restores, ViewsTyped
  <2>4. CandidatesAreThere'
    BY <1>i, <2>e, SelectionsAssumption DEF CandidatesAreThere, Complete, Restores,
      ReadingsHold, Holds, ReadingsAreCurrent, Current, ViewsTyped
  <2>5. SavedIsServed'
    BY <1>i, <2>e, SelectionsAssumption DEF SavedIsServed, Complete, ToBeSent, Restores
  <2>6. ShownIsServed'
    BY <1>i, <2>e, SelectionsAssumption DEF ShownIsServed, CandidatesAreThere, Complete,
      ToBeShown, Selectors, ReadingsHold, Holds, ReadingsAreCurrent, Current, ViewsTyped,
      Restores, Sends0
  <2> QED
    BY <2>1, <2>2, <2>3, <2>4, <2>5, <2>6 DEF SelectionsInv
<1>8. ASSUME NEW s \in Syncs, NEW g \in Selectors, SyncSend(s, g) PROVE SelectionsInv'
  <2>e. /\ UNCHANGED <<calling, update, store, saved, session, snapshot, catalog, retry,
           picks, edit, misshown,
           unfetched>>
        /\ \E n \in Nodes, ok \in BOOLEAN : Took(g, n, ok) /\ (ok => ToBeShown(g)')
        /\ \A h \in Selectors \ {g} : (ToBeSent(h) => ToBeSent(h)')
            /\ (ToBeShown(h) => ToBeShown(h)')
        /\ syncs' \in [Syncs -> Restorations \cup {Nothing}]
        /\ \A t \in Syncs : syncs'[t] # Nothing
            => syncs'[t].left \cup syncs'[t].got \subseteq DOMAIN syncs'[t].to
        /\ transfer' \in {"shut", "refused", "open"} /\ test' \in Tests \cup {Nothing}
    <3>1. /\ syncs[s] \in Restorations /\ g \in syncs[s].left /\ g \in DOMAIN syncs[s].to
          /\ syncs[s].left \cup syncs[s].got \subseteq DOMAIN syncs[s].to
      BY <1>8, <1>i DEF SyncSend, Free, WorkTyped
    <3>2. syncs[s].to[g] \in Nodes
      BY <3>1 DEF Restorations, Asked
    <3>3. PICK out \in Outcomes(g, syncs[s].to[g]) :
            /\ Sent(g, syncs[s].to[g], out)
            /\ syncs' = [syncs EXCEPT ![s].left = @ \ {g},
                                      ![s].got = IF out.ok THEN @ \cup {g} ELSE @]
      BY <1>8, <1>i DEF SyncSend
    <3>4. Took(g, syncs[s].to[g], out.ok) /\ out.ok \in BOOLEAN
      BY <1>i, <3>2, <3>3, SentIsTaken
    <3> DEFINE rest == [syncs[s] EXCEPT !.left = @ \ {g},
    !.got = IF out.ok THEN @ \cup {g} ELSE @]
    <3>5. /\ rest \in Restorations /\ rest.to = syncs[s].to /\ rest.left = syncs[s].left \ {g}
          /\ rest.got = IF out.ok THEN syncs[s].got \cup {g} ELSE syncs[s].got
      BY <3>1 DEF Restorations
    <3>6. syncs' = [syncs EXCEPT ![s] = rest]
      BY <3>3, <3>1 DEF WorkTyped, Restorations
    <3> HIDE DEF rest
    <3>7. syncs'[s] = rest /\ \A t \in Syncs \ {s} : syncs'[t] = syncs[t]
      BY <1>i, <3>6 DEF WorkTyped
    <3>8. rest # Nothing
      BY <3>5, SelectionsAssumption
    <3>9. syncs' \in [Syncs -> Restorations \cup {Nothing}]
      BY <1>i, <3>5, <3>6 DEF WorkTyped
    <3>10. \A t \in Syncs : syncs'[t] # Nothing
             => syncs'[t].left \cup syncs'[t].got \subseteq DOMAIN syncs'[t].to
      BY <1>i, <3>1, <3>5, <3>7 DEF WorkTyped, Free
    <3>11. UNCHANGED <<calling, update, store, saved, session, snapshot, catalog, retry,
           picks, edit, misshown,
           unfetched, transfer, test>>
      BY <1>8, <1>i DEF SyncSend
    <3>12. ASSUME NEW h \in Selectors \ {g} PROVE (ToBeSent(h) => ToBeSent(h)')
                    /\ (ToBeShown(h) => ToBeShown(h)')
      BY <3>5, <3>7, <3>8, <3>11 DEF ToBeSent, ToBeShown, Sends0
    <3>13. out.ok => ToBeShown(g)'
      BY <3>5, <3>7, <3>8 DEF ToBeShown
    <3> QED
      BY <1>i, <3>2, <3>4, <3>9, <3>10, <3>11, <3>12, <3>13 DEF FlagsTyped, WorkTyped
  <2>1. SelectionsTypeOK'
    BY <1>i, <2>e, SelectionsAssumption DEF SelectionsTypeOK, KernelTyped, ViewsTyped,
      WorkTyped, FlagsTyped, Chains, Views, Took
  <2>2. ReadingsHaveOwner' /\ ReadingsAreCurrent' /\ UpdateKnown'
    BY <1>i, <2>e, SelectionsAssumption DEF UpdateKnown, ReadingsHaveOwner,
      ReadingsAreCurrent, Current,
      KernelTyped, Took
  <2>3. ReadingsHold'
    BY <1>i, <2>e, SelectionsAssumption DEF ReadingsHold, Holds, KernelTyped, Selectors,
      Took
  <2>4. CandidatesAreThere'
    BY <1>i, <2>e, SelectionsAssumption DEF CandidatesAreThere, Complete, Took
  <2>5. SavedIsServed'
    <3> SUFFICES ASSUME Complete', NEW h \in Selectors \ astray'
                 PROVE  saved'[h] \in {Nothing, mihomo'.current[h]} \/ ToBeSent(h)'
      BY DEF SavedIsServed
    <3>1. PICK n \in Nodes, ok \in BOOLEAN : Took(g, n, ok)
      BY <2>e
    <3>2. Complete /\ saved' = saved
      BY <2>e, <3>1 DEF Complete, Took
    <3>3. CASE h # g
      BY <1>i, <2>e, <3>1, <3>2, <3>3 DEF SavedIsServed, Took
    <3>4. CASE h = g
      BY <1>i, <3>1, <3>2, <3>4 DEF CandidatesAreThere, Took
    <3> QED
      BY <3>3, <3>4
  <2>6. ShownIsServed'
    <3> SUFFICES ASSUME Complete', NEW p \in Policies \ (astray' \cup misshown')
                 PROVE  catalog'.target[p] = mihomo'.current[p] \/ ToBeShown(p)'
      BY DEF ShownIsServed
    <3>1. PICK n \in Nodes, ok \in BOOLEAN : Took(g, n, ok) /\ (ok => ToBeShown(g)')
      BY <2>e
    <3>2. Complete /\ UNCHANGED <<catalog, misshown>> /\ p \in Selectors
      BY <2>e, <3>1 DEF Complete, Took, Selectors
    <3>3. CASE p # g
      BY <1>i, <2>e, <3>1, <3>2, <3>3 DEF ShownIsServed, Took
    <3>4. CASE p = g
      BY <1>i, <3>1, <3>2, <3>4 DEF CandidatesAreThere, Took
    <3> QED
      BY <3>3, <3>4
  <2> QED
    BY <2>1, <2>2, <2>3, <2>4, <2>5, <2>6 DEF SelectionsInv
<1>9. ASSUME NEW s \in Syncs, SyncFinish(s) PROVE SelectionsInv'
  <2>e. /\ UNCHANGED <<calling, update, mihomo, store, saved, session, snapshot, retry,
           picks, edit, astray,
           unfetched>>
        /\ syncs[s] # Nothing /\ syncs[s].left = {} /\ syncs[s].got \subseteq Selectors
        /\ Showed(syncs[s].got)
        /\ syncs' \in [Syncs -> Restorations \cup {Nothing}] /\ syncs'[s] = Nothing
        /\ \A t \in Syncs \ {s} : syncs'[t] = syncs[t]
        /\ transfer' \in {"shut", "refused", "open"} /\ test' \in Tests \cup {Nothing}
    <3>1. syncs[s] \in Restorations /\ syncs[s].got \subseteq DOMAIN syncs[s].to
      BY <1>9, <1>i DEF SyncFinish, Free, WorkTyped
    <3>2. [g \in syncs[s].got |-> syncs[s].to[g]] \in [syncs[s].got -> Nodes \cup {Nothing}]
      BY <3>1 DEF Restorations, Asked
    <3>3. syncs[s].got \subseteq Selectors
      BY <3>1 DEF Restorations
    <3>4. Showed(syncs[s].got)
      BY <1>9, <1>i, <3>2, <3>3, ReadingIsShown, SelectionsAssumption DEF SyncFinish
    <3> QED
      BY <1>9, <1>i, <3>3, <3>4 DEF SyncFinish, Free, FlagsTyped, WorkTyped
  <2>1. SelectionsTypeOK'
    BY <1>i, <2>e, SelectionsAssumption DEF SelectionsTypeOK, KernelTyped, ViewsTyped,
      WorkTyped, FlagsTyped, Chains, Views, Showed
  <2>2. ReadingsHaveOwner' /\ ReadingsAreCurrent' /\ UpdateKnown'
    BY <1>i, <2>e, SelectionsAssumption DEF UpdateKnown, ReadingsHaveOwner,
      ReadingsAreCurrent, Current,
      KernelTyped, Showed
  <2>3. ReadingsHold'
    BY <1>i, <2>e, SelectionsAssumption DEF ReadingsHold, Holds, KernelTyped, Selectors
  <2>4. CandidatesAreThere'
    BY <1>i, <2>e, SelectionsAssumption DEF CandidatesAreThere, Complete, Showed
  <2>5. SavedIsServed'
    <3> SUFFICES ASSUME Complete', NEW h \in Selectors \ astray'
                 PROVE  saved'[h] \in {Nothing, mihomo'.current[h]} \/ ToBeSent(h)'
      BY DEF SavedIsServed
    <3>1. Complete
      BY <2>e DEF Complete, Showed
    <3>2. ASSUME NEW t \in Syncs, Sends0(t, h) PROVE Sends0(t, h)'
      BY <2>e, <3>2 DEF Sends0
    <3>3. ToBeSent(h) => ToBeSent(h)'
      BY <2>e, <3>2 DEF ToBeSent
    <3> QED
      BY <1>i, <2>e, <3>1, <3>3 DEF SavedIsServed
  <2>6. ShownIsServed'
    <3> SUFFICES ASSUME Complete', NEW p \in Policies \ (astray' \cup misshown')
                 PROVE  catalog'.target[p] = mihomo'.current[p] \/ ToBeShown(p)'
      BY DEF ShownIsServed
    <3>1. Complete /\ catalog # Nothing /\ catalog.listed
      BY <2>e DEF Complete, Showed
    <3>2. CASE p \in syncs[s].got
      BY <2>e, <3>1, <3>2 DEF Showed
    <3>3. CASE p \notin syncs[s].got
      <4>1. p \in Policies \ (astray \cup misshown) /\ catalog'.target[p] = catalog.target[p]
        BY <2>e, <3>1, <3>3 DEF Showed
      <4>2. ToBeShown(p) => ToBeShown(p)'
        BY <2>e, <3>3 DEF ToBeShown
      <4> QED
        BY <1>i, <2>e, <3>1, <4>1, <4>2 DEF ShownIsServed
    <3> QED
      BY <3>2, <3>3
  <2> QED
    BY <2>1, <2>2, <2>3, <2>4, <2>5, <2>6 DEF SelectionsInv
<1>10. ASSUME NEW g \in Selectors, NEW n \in Nodes, Pick(g, n) PROVE SelectionsInv'
  <2>e. /\ UNCHANGED <<calling, update, mihomo, store, session, snapshot, retry, syncs, edit,
           astray, unfetched>>
        /\ saved' \in [Selectors -> Nodes \cup {Nothing}] /\ saved'[g] = n
        /\ \A h \in Selectors \ {g} : saved'[h] = saved[h] /\ picks'[h] = picks[h]
        /\ picks' \in [Selectors -> Sends \cup {Nothing}]
        /\ session = "connected" => picks'[g] # Nothing /\ picks'[g].to = n
            /\ picks'[g].stage = "sent"
        /\ misshown' = misshown \ {g} /\ catalog' \in Views \cup {Nothing}
            /\ (catalog = Nothing => catalog' = Nothing)
        /\ catalog # Nothing =>
             /\ catalog' # Nothing /\ catalog'.listed = catalog.listed
                 /\ catalog'.rev = catalog.rev
             /\ \A p \in Policies \ {g} : catalog'.target[p] = catalog.target[p]
        /\ transfer' \in {"shut", "refused", "open"} /\ test' \in Tests \cup {Nothing}
    <3>1. catalog \in Views =>
             /\ Showing(catalog, g, n) \in Views
             /\ Showing(catalog, g, n).listed = catalog.listed
                 /\ Showing(catalog, g, n).rev = catalog.rev
             /\ \A p \in Policies \ {g} : Showing(catalog, g, n).target[p] = catalog.target[p]
      BY DEF Showing, Views
    <3>2. catalog = Nothing => Showing(catalog, g, n) = Nothing
      BY DEF Showing
    <3>3. catalog' = catalog \/ catalog' = Showing(catalog, g, n)
      BY <1>10, <1>i DEF Pick
    <3>4. /\ catalog' \in Views \cup {Nothing} /\ (catalog = Nothing => catalog' = Nothing)
          /\ catalog # Nothing =>
               /\ catalog' # Nothing /\ catalog'.listed = catalog.listed
                   /\ catalog'.rev = catalog.rev
               /\ \A p \in Policies \ {g} : catalog'.target[p] = catalog.target[p]
      BY <1>i, <3>1, <3>2, <3>3, SelectionsAssumption DEF ViewsTyped
    <3> DEFINE entry == [to |-> n, stage |-> "sent"]
    <3>5. entry \in Sends /\ entry # Nothing /\ entry.to = n /\ entry.stage = "sent"
      BY SelectionsAssumption DEF Sends
    <3>6. picks' = [picks EXCEPT ![g] = IF session = "connected" THEN entry ELSE Nothing]
      BY <1>10, <1>i DEF Pick
    <3> HIDE DEF entry
    <3>7. /\ picks' \in [Selectors -> Sends \cup {Nothing}] /\ (session = "connected"
              => picks'[g] = entry)
          /\ \A h \in Selectors \ {g} : picks'[h] = picks[h]
      BY <1>i, <3>5, <3>6 DEF WorkTyped
    <3>8. /\ saved' \in [Selectors -> Nodes \cup {Nothing}] /\ saved'[g] = n
          /\ \A h \in Selectors \ {g} : saved'[h] = saved[h]
      BY <1>10, <1>i DEF Pick, KernelTyped
    <3> QED
      BY <1>10, <1>i, <3>4, <3>5, <3>7, <3>8 DEF Pick, FlagsTyped, WorkTyped
  <2>1. SelectionsTypeOK'
    BY <1>i, <2>e, SelectionsAssumption DEF SelectionsTypeOK, KernelTyped, ViewsTyped,
      WorkTyped, FlagsTyped, Chains, Views
  <2>2. ReadingsHaveOwner' /\ ReadingsAreCurrent' /\ UpdateKnown'
    BY <1>i, <2>e, SelectionsAssumption DEF UpdateKnown, ReadingsHaveOwner,
      ReadingsAreCurrent, Current,
      KernelTyped
  <2>3. ReadingsHold'
    BY <1>i, <2>e, SelectionsAssumption DEF ReadingsHold, Holds, KernelTyped, Selectors
  <2>4. CandidatesAreThere'
    BY <1>i, <2>e, SelectionsAssumption DEF CandidatesAreThere, Complete
  <2>5. SavedIsServed'
    <3> SUFFICES ASSUME Complete', NEW h \in Selectors \ astray'
                 PROVE  saved'[h] \in {Nothing, mihomo'.current[h]} \/ ToBeSent(h)'
      BY DEF SavedIsServed
    <3>1. Complete /\ session = "connected"
      BY <2>e DEF Complete
    <3>2. CASE h # g
      <4>1. ToBeSent(h) => ToBeSent(h)'
        BY <2>e, <3>2 DEF ToBeSent, Sends0
      <4> QED
        BY <1>i, <2>e, <3>1, <3>2, <4>1 DEF SavedIsServed
    <3>3. CASE h = g
      BY <2>e, <3>1, <3>3 DEF ToBeSent
    <3> QED
      BY <3>2, <3>3
  <2>6. ShownIsServed'
    BY ZenonT(40), <1>i, <2>e, SelectionsAssumption DEF ShownIsServed, CandidatesAreThere,
      Complete,
      ToBeShown, Selectors
  <2> QED
    BY <2>1, <2>2, <2>3, <2>4, <2>5, <2>6 DEF SelectionsInv
<1>11. ASSUME NEW g \in Selectors, PickSend(g) PROVE SelectionsInv'
  <2>e. /\ UNCHANGED <<calling, update, store, saved, session, snapshot, catalog, retry,
           syncs, edit, misshown,
           unfetched>>
        /\ \E n \in Nodes, ok \in BOOLEAN : Took(g, n, ok) /\ (ok => ToBeShown(g)')
        /\ \A h \in Selectors \ {g} : (ToBeSent(h) => ToBeSent(h)')
            /\ (ToBeShown(h) => ToBeShown(h)')
        /\ picks' \in [Selectors -> Sends \cup {Nothing}]
        /\ transfer' \in {"shut", "refused", "open"} /\ test' \in Tests \cup {Nothing}
    <3>1. picks[g] \in Sends /\ picks[g].to \in Nodes
      BY <1>11, <1>i DEF PickSend, WorkTyped, Sends
    <3>2. PICK out \in Outcomes(g, picks[g].to) :
            /\ Sent(g, picks[g].to, out)
            /\ picks' = [picks EXCEPT ![g].stage = IF out.ok THEN "applied" ELSE "failed"]
      BY <1>11, <1>i DEF PickSend
    <3>3. Took(g, picks[g].to, out.ok) /\ out.ok \in BOOLEAN
      BY <1>i, <3>1, <3>2, SentIsTaken
    <3> DEFINE entry == [picks[g] EXCEPT !.stage = IF out.ok THEN "applied" ELSE "failed"]
    <3>4. entry \in Sends /\ (out.ok => entry.stage = "applied")
      BY <3>1 DEF Sends
    <3>5. picks' = [picks EXCEPT ![g] = entry]
      BY <3>2, <3>1 DEF WorkTyped, Sends
    <3> HIDE DEF entry
    <3>6. /\ picks' \in [Selectors -> Sends \cup {Nothing}] /\ picks'[g] = entry
          /\ \A h \in Selectors \ {g} : picks'[h] = picks[h]
      BY <1>i, <3>4, <3>5 DEF WorkTyped
    <3>7. UNCHANGED <<calling, update, store, saved, session, snapshot, catalog, retry,
           syncs, edit, misshown,
          unfetched, transfer, test>>
      BY <1>11, <1>i DEF PickSend
    <3>8. ASSUME NEW h \in Selectors \ {g} PROVE (ToBeSent(h) => ToBeSent(h)')
                   /\ (ToBeShown(h) => ToBeShown(h)')
      BY <3>6, <3>7 DEF ToBeSent, ToBeShown, Sends0
    <3>9. out.ok => ToBeShown(g)'
      BY <3>4, <3>6, SelectionsAssumption DEF ToBeShown
    <3> QED
      BY <1>i, <3>1, <3>3, <3>6, <3>7, <3>8, <3>9 DEF FlagsTyped, WorkTyped
  <2>1. SelectionsTypeOK'
    BY <1>i, <2>e, SelectionsAssumption DEF SelectionsTypeOK, KernelTyped, ViewsTyped,
      WorkTyped, FlagsTyped, Chains, Views, Took
  <2>2. ReadingsHaveOwner' /\ ReadingsAreCurrent' /\ UpdateKnown'
    BY <1>i, <2>e, SelectionsAssumption DEF UpdateKnown, ReadingsHaveOwner,
      ReadingsAreCurrent, Current,
      KernelTyped, Took
  <2>3. ReadingsHold'
    BY <1>i, <2>e, SelectionsAssumption DEF ReadingsHold, Holds, KernelTyped, Selectors,
      Took
  <2>4. CandidatesAreThere'
    BY <1>i, <2>e, SelectionsAssumption DEF CandidatesAreThere, Complete, Took
  <2>5. SavedIsServed'
    <3> SUFFICES ASSUME Complete', NEW h \in Selectors \ astray'
                 PROVE  saved'[h] \in {Nothing, mihomo'.current[h]} \/ ToBeSent(h)'
      BY DEF SavedIsServed
    <3>1. PICK n \in Nodes, ok \in BOOLEAN : Took(g, n, ok)
      BY <2>e
    <3>2. Complete /\ saved' = saved
      BY <2>e, <3>1 DEF Complete, Took
    <3>3. CASE h # g
      BY <1>i, <2>e, <3>1, <3>2, <3>3 DEF SavedIsServed, Took
    <3>4. CASE h = g
      BY <1>i, <3>1, <3>2, <3>4 DEF CandidatesAreThere, Took
    <3> QED
      BY <3>3, <3>4
  <2>6. ShownIsServed'
    <3> SUFFICES ASSUME Complete', NEW p \in Policies \ (astray' \cup misshown')
                 PROVE  catalog'.target[p] = mihomo'.current[p] \/ ToBeShown(p)'
      BY DEF ShownIsServed
    <3>1. PICK n \in Nodes, ok \in BOOLEAN : Took(g, n, ok) /\ (ok => ToBeShown(g)')
      BY <2>e
    <3>2. Complete /\ UNCHANGED <<catalog, misshown>> /\ p \in Selectors
      BY <2>e, <3>1 DEF Complete, Took, Selectors
    <3>3. CASE p # g
      BY <1>i, <2>e, <3>1, <3>2, <3>3 DEF ShownIsServed, Took
    <3>4. CASE p = g
      BY <1>i, <3>1, <3>2, <3>4 DEF CandidatesAreThere, Took
    <3> QED
      BY <3>3, <3>4
  <2> QED
    BY <2>1, <2>2, <2>3, <2>4, <2>5, <2>6 DEF SelectionsInv
<1>12. ASSUME NEW g \in Selectors, PickFinish(g) PROVE SelectionsInv'
  <2>e. /\ UNCHANGED <<calling, update, mihomo, store, saved, session, snapshot, retry,
           syncs, edit, astray,
           unfetched>>
        /\ picks[g] # Nothing /\ picks[g].stage # "sent"
        /\ IF picks[g].stage = "applied" THEN Showed({g}) ELSE picks[g].stage = "failed"
            /\ UNCHANGED <<catalog, misshown>>
        /\ picks' \in [Selectors -> Sends \cup {Nothing}]
        /\ \A h \in Selectors \ {g} : picks'[h] = picks[h]
        /\ transfer' \in {"shut", "refused", "open"} /\ test' \in Tests \cup {Nothing}
    <3>1. picks[g] \in Sends /\ picks[g].to \in Nodes
      BY <1>12, <1>i DEF PickFinish, WorkTyped, Sends
    <3>2. [h \in {g} |-> picks[g].to] \in [{g} -> Nodes \cup {Nothing}]
      BY <3>1
    <3>3. picks[g].stage = "applied" => Showed({g})
      BY <1>12, <1>i, <3>2, ReadingIsShown, SelectionsAssumption DEF PickFinish
    <3> QED
      BY <1>12, <1>i, <3>3 DEF PickFinish, FlagsTyped, WorkTyped
  <2>1. SelectionsTypeOK'
    BY <1>i, <2>e, SelectionsAssumption DEF SelectionsTypeOK, KernelTyped, ViewsTyped,
      WorkTyped, FlagsTyped, Chains, Views, Showed
  <2>2. ReadingsHaveOwner' /\ ReadingsAreCurrent' /\ UpdateKnown'
    BY <1>i, <2>e, SelectionsAssumption DEF UpdateKnown, ReadingsHaveOwner,
      ReadingsAreCurrent, Current,
      KernelTyped, Showed
  <2>3. ReadingsHold'
    BY <1>i, <2>e, SelectionsAssumption DEF ReadingsHold, Holds, KernelTyped, Selectors
  <2>4. CandidatesAreThere'
    BY <1>i, <2>e, SelectionsAssumption DEF CandidatesAreThere, Complete, Showed
  <2>5. SavedIsServed'
    BY <1>i, <2>e, SelectionsAssumption DEF SavedIsServed, CandidatesAreThere, Complete,
      ToBeSent, Sends0, Showed
  <2>6. ShownIsServed'
    BY <1>i, <2>e, SelectionsAssumption DEF ShownIsServed, CandidatesAreThere, Complete,
      ToBeShown, Selectors, Showed
  <2> QED
    BY <2>1, <2>2, <2>3, <2>4, <2>5, <2>6 DEF SelectionsInv
<1>13. CASE EditBegins
  <2>e. /\ UNCHANGED <<calling, update, mihomo, store, saved, session, snapshot, catalog,
           retry, picks, syncs,
           astray, misshown, unfetched>>
        /\ edit = "idle" /\ edit' = "saving"
        /\ transfer' \in {"shut", "refused", "open"} /\ test' \in Tests \cup {Nothing}
    BY <1>13, <1>i DEF EditBegins, FlagsTyped, WorkTyped
  <2>1. SelectionsTypeOK'
    BY <1>i, <2>e, SelectionsAssumption DEF SelectionsTypeOK, KernelTyped, ViewsTyped,
      WorkTyped, FlagsTyped, Chains, Views
  <2>2. ReadingsHaveOwner' /\ ReadingsAreCurrent' /\ UpdateKnown'
    BY <1>i, <2>e, SelectionsAssumption DEF UpdateKnown, ReadingsHaveOwner,
      ReadingsAreCurrent, Current,
      KernelTyped
  <2>3. ReadingsHold'
    BY <1>i, <2>e, SelectionsAssumption DEF ReadingsHold, Holds, KernelTyped, Selectors
  <2>4. CandidatesAreThere'
    BY <1>i, <2>e, SelectionsAssumption DEF CandidatesAreThere, Complete
  <2>5. SavedIsServed'
    BY <1>i, <2>e, SelectionsAssumption DEF SavedIsServed, CandidatesAreThere, Complete,
      ToBeSent, Sends0
  <2>6. ShownIsServed'
    BY <1>i, <2>e, SelectionsAssumption DEF ShownIsServed, CandidatesAreThere, Complete,
      ToBeShown, Selectors
  <2> QED
    BY <2>1, <2>2, <2>3, <2>4, <2>5, <2>6 DEF SelectionsInv
<1>14. CASE EditCommits
  <2>e. /\ UNCHANGED <<calling, update, saved, session, snapshot, catalog, retry, picks,
           syncs, astray,
           misshown, unfetched>>
        /\ edit' = "saved" /\ store' = store + 1 /\ mihomo' \in Kernels /\ ~Complete'
        /\ transfer' \in {"shut", "refused", "open"} /\ test' \in Tests \cup {Nothing}
    BY <1>14, <1>i DEF EditCommits, Complete, KernelTyped, FlagsTyped, WorkTyped
  <2>1. SelectionsTypeOK'
    BY <1>i, <2>e, SelectionsAssumption DEF SelectionsTypeOK, KernelTyped, ViewsTyped,
      WorkTyped, FlagsTyped, Chains, Views
  <2>2. ReadingsHaveOwner' /\ ReadingsAreCurrent' /\ UpdateKnown'
    <3>1. /\ store \in Nat /\ (snapshot # Nothing => snapshot.rev \in Nat)
              /\ (catalog # Nothing => catalog.rev \in Nat)
          /\ retry # Nothing /\ retry.view # Nothing => retry.view.rev \in Nat
      BY <1>i DEF KernelTyped, ViewsTyped, Views, Chains
    <3>2. ReadingsHaveOwner' /\ ReadingsAreCurrent'
      BY <1>i, <2>e, <3>1 DEF ReadingsHaveOwner, ReadingsAreCurrent, Current
    <3>3. update # Nothing /\ update.view # Nothing => update.view.rev \in Nat
      BY <1>i DEF FlagsTyped, Updates, Views
    <3>4. UpdateKnown'
      BY <1>i, <2>e, <3>1, <3>3 DEF UpdateKnown
    <3> QED
      BY <3>2, <3>4
  <2>3. ReadingsHold'
    <3>1. /\ store \in Nat /\ (snapshot # Nothing => snapshot.rev \in Nat)
              /\ (catalog # Nothing => catalog.rev \in Nat)
          /\ retry # Nothing /\ retry.view # Nothing => retry.view.rev \in Nat
      BY <1>i DEF KernelTyped, ViewsTyped, Views, Chains
    <3> QED
      BY <1>i, <2>e, <3>1 DEF ReadingsAreCurrent, Current, ReadingsHold, Holds
  <2>4. CandidatesAreThere' /\ SavedIsServed' /\ ShownIsServed'
    BY <2>e DEF CandidatesAreThere, SavedIsServed, ShownIsServed
  <2> QED
    BY <2>1, <2>2, <2>3, <2>4 DEF SelectionsInv
<1>15. CASE EditRefused
  <2>e. /\ UNCHANGED <<calling, update, mihomo, store, saved, session, snapshot, catalog,
           retry, picks, syncs,
           astray, misshown, unfetched>>
        /\ edit = "saving" /\ edit' = "idle"
        /\ transfer' \in {"shut", "refused", "open"} /\ test' \in Tests \cup {Nothing}
    BY <1>15, <1>i DEF EditRefused, FlagsTyped, WorkTyped
  <2>1. SelectionsTypeOK'
    BY <1>i, <2>e, SelectionsAssumption DEF SelectionsTypeOK, KernelTyped, ViewsTyped,
      WorkTyped, FlagsTyped, Chains, Views
  <2>2. ReadingsHaveOwner' /\ ReadingsAreCurrent' /\ UpdateKnown'
    BY <1>i, <2>e, SelectionsAssumption DEF UpdateKnown, ReadingsHaveOwner,
      ReadingsAreCurrent, Current,
      KernelTyped
  <2>3. ReadingsHold'
    BY <1>i, <2>e, SelectionsAssumption DEF ReadingsHold, Holds, KernelTyped, Selectors
  <2>4. CandidatesAreThere'
    BY <1>i, <2>e, SelectionsAssumption DEF CandidatesAreThere, Complete
  <2>5. SavedIsServed'
    BY <1>i, <2>e, SelectionsAssumption DEF SavedIsServed, CandidatesAreThere, Complete,
      ToBeSent, Sends0
  <2>6. ShownIsServed'
    BY <1>i, <2>e, SelectionsAssumption DEF ShownIsServed, CandidatesAreThere, Complete,
      ToBeShown, Selectors
  <2> QED
    BY <2>1, <2>2, <2>3, <2>4, <2>5, <2>6 DEF SelectionsInv
<1>16. CASE EditFinish
  <2>e. /\ UNCHANGED <<update, mihomo, store, saved, picks, syncs, astray>>
        /\ edit = "saved" /\ edit' = "idle" /\ catalog' = Nothing /\ misshown' = {}
            /\ ~Complete'
        /\ \/ session' = "connecting" /\ snapshot' = Nothing /\ retry' = Nothing
               /\ unfetched' = FALSE /\ calling' = TRUE
           \/ /\ UNCHANGED <<session, calling, snapshot, retry>> /\ unfetched' \in BOOLEAN
              /\ ~unfetched' => ~unfetched /\ session # "connected" /\ (snapshot # Nothing
                  => snapshot.rev = store)
        /\ transfer' \in {"shut", "refused", "open"} /\ test' \in Tests \cup {Nothing}
    BY <1>16, <1>i DEF EditFinish, ConnectBegins, Complete, FlagsTyped, WorkTyped
  <2>1. SelectionsTypeOK'
    BY <1>i, <2>e, SelectionsAssumption DEF SelectionsTypeOK, KernelTyped, ViewsTyped,
      WorkTyped, FlagsTyped, Chains, Views
  <2>2. ReadingsHaveOwner' /\ ReadingsAreCurrent' /\ UpdateKnown'
    BY <1>i, <2>e, SelectionsAssumption DEF UpdateKnown, ReadingsHaveOwner,
      ReadingsAreCurrent, Current,
      KernelTyped
  <2>3. ReadingsHold'
    BY <1>i, <2>e, SelectionsAssumption DEF ReadingsHold, Holds, KernelTyped, Selectors
  <2>4. CandidatesAreThere' /\ SavedIsServed' /\ ShownIsServed'
    BY <2>e DEF CandidatesAreThere, SavedIsServed, ShownIsServed
  <2> QED
    BY <2>1, <2>2, <2>3, <2>4 DEF SelectionsInv
<1>17. ASSUME NEW p \in Policies, TestBegins(p) PROVE SelectionsInv'
  <2>e. /\ UNCHANGED <<calling, update, mihomo, store, saved, session, snapshot, catalog,
           retry, picks, syncs,
           edit, astray, misshown, unfetched>>
        /\ transfer' \in {"shut", "refused", "open"} /\ test' \in Tests \cup {Nothing}
    BY <1>17, <1>i DEF TestBegins, Tests, FlagsTyped, WorkTyped
  <2>1. SelectionsTypeOK'
    BY <1>i, <2>e, SelectionsAssumption DEF SelectionsTypeOK, KernelTyped, ViewsTyped,
      WorkTyped, FlagsTyped, Chains, Views
  <2>2. ReadingsHaveOwner' /\ ReadingsAreCurrent' /\ UpdateKnown'
    BY <1>i, <2>e, SelectionsAssumption DEF UpdateKnown, ReadingsHaveOwner,
      ReadingsAreCurrent, Current,
      KernelTyped
  <2>3. ReadingsHold'
    BY <1>i, <2>e, SelectionsAssumption DEF ReadingsHold, Holds, KernelTyped, Selectors
  <2>4. CandidatesAreThere'
    BY <1>i, <2>e, SelectionsAssumption DEF CandidatesAreThere, Complete
  <2>5. SavedIsServed'
    BY <1>i, <2>e, SelectionsAssumption DEF SavedIsServed, CandidatesAreThere, Complete,
      ToBeSent, Sends0
  <2>6. ShownIsServed'
    BY <1>i, <2>e, SelectionsAssumption DEF ShownIsServed, CandidatesAreThere, Complete,
      ToBeShown, Selectors
  <2> QED
    BY <2>1, <2>2, <2>3, <2>4, <2>5, <2>6 DEF SelectionsInv
<1>18. CASE TestReads
  <2>e. /\ UNCHANGED <<calling, update, store, saved, session, snapshot, catalog, retry,
           picks, syncs, edit,
           misshown, unfetched>>
        /\ mihomo' \in Kernels /\ astray \subseteq astray' /\ astray' \subseteq Selectors
        /\ session = "connected" \/ snapshot # Nothing
             => UNCHANGED <<mihomo, astray>> \/ astray' = Selectors
        /\ transfer' \in {"shut", "refused", "open"} /\ test' \in Tests \cup {Nothing}
    <3>1. /\ mihomo' \in Kernels /\ astray \subseteq astray' /\ astray' \subseteq Selectors
          /\ session = "connected" \/ snapshot # Nothing
               => UNCHANGED <<mihomo, astray>> \/ astray' = Selectors
      BY <1>18, <1>i, StartedBehind DEF TestReads
    <3>2. test' \in Tests
      <4>1. test \in Tests
        BY <1>18, <1>i DEF TestReads, WorkTyped
      <4>2. mihomo'.current[test.group] \in Nodes
        BY <3>1, <4>1 DEF Tests, Kernels, Targets, Selectors
      <4> DEFINE node == mihomo'.current[test.group]
      <4>3. test' = [test EXCEPT !.current = node]
        BY <1>18, <1>i DEF TestReads
      <4> HIDE DEF node
      <4>4. node \in Nodes
        BY <4>2 DEF node
      <4> QED
        BY <4>1, <4>3, <4>4 DEF Tests
    <3> QED
      BY <1>18, <1>i, <3>1, <3>2 DEF TestReads, FlagsTyped
  <2>1. SelectionsTypeOK'
    BY <1>i, <2>e, SelectionsAssumption DEF SelectionsTypeOK, KernelTyped, ViewsTyped,
      WorkTyped, FlagsTyped, Chains, Views
  <2>2. ReadingsHaveOwner' /\ ReadingsAreCurrent' /\ UpdateKnown'
    BY <1>i, <2>e, SelectionsAssumption DEF UpdateKnown, ReadingsHaveOwner,
      ReadingsAreCurrent, Current,
      KernelTyped
  <2>3. ReadingsHold'
    BY <1>i, <2>e, SelectionsAssumption DEF ReadingsHold, Holds, KernelTyped, Selectors,
      ReadingsHaveOwner
  <2>4. CandidatesAreThere'
    BY <1>i, <2>e, SelectionsAssumption DEF CandidatesAreThere, Complete
  <2>5. SavedIsServed'
    BY <1>i, <2>e, SelectionsAssumption DEF SavedIsServed, CandidatesAreThere, Complete,
      ToBeSent, Sends0
  <2>6. ShownIsServed'
    BY <1>i, <2>e, SelectionsAssumption DEF ShownIsServed, CandidatesAreThere, Complete,
      ToBeShown, Selectors
  <2> QED
    BY <2>1, <2>2, <2>3, <2>4, <2>5, <2>6 DEF SelectionsInv
<1>19. ASSUME NEW n \in Nodes \cup {Nothing}, TestShows(n) PROVE SelectionsInv'
  <2>e. /\ UNCHANGED <<calling, update, mihomo, store, saved, session, snapshot, retry,
           picks, syncs, edit,
           astray, unfetched>>
        /\ \E p \in Policies : Showed({p})
        /\ transfer' \in {"shut", "refused", "open"} /\ test' \in Tests \cup {Nothing}
    <3>1. test.group \in Policies
      BY <1>19, <1>i DEF TestShows, WorkTyped, Tests
    <3>2. [p \in {test.group} |-> n] \in [{test.group} -> Nodes \cup {Nothing}]
      OBVIOUS
    <3>3. Showed({test.group})
      BY <1>19, <1>i, <3>1, <3>2, ReadingIsShown, SelectionsAssumption DEF TestShows,
        Selectors
    <3> QED
      BY <1>19, <1>i, <3>1, <3>3 DEF TestShows, FlagsTyped
  <2>1. SelectionsTypeOK'
    BY <1>i, <2>e, SelectionsAssumption DEF SelectionsTypeOK, KernelTyped, ViewsTyped,
      WorkTyped, FlagsTyped, Chains, Views, Showed
  <2>2. ReadingsHaveOwner' /\ ReadingsAreCurrent' /\ UpdateKnown'
    BY <1>i, <2>e, SelectionsAssumption DEF UpdateKnown, ReadingsHaveOwner,
      ReadingsAreCurrent, Current,
      KernelTyped, Showed
  <2>3. ReadingsHold'
    BY <1>i, <2>e, SelectionsAssumption DEF ReadingsHold, Holds, KernelTyped, Selectors
  <2>4. CandidatesAreThere'
    BY <1>i, <2>e, SelectionsAssumption DEF CandidatesAreThere, Complete, Showed
  <2>5. SavedIsServed'
    BY <1>i, <2>e, SelectionsAssumption DEF SavedIsServed, CandidatesAreThere, Complete,
      ToBeSent, Sends0, Showed
  <2>6. ShownIsServed'
    BY <1>i, <2>e, SelectionsAssumption DEF ShownIsServed, CandidatesAreThere, Complete,
      ToBeShown, Selectors, Showed
  <2> QED
    BY <2>1, <2>2, <2>3, <2>4, <2>5, <2>6 DEF SelectionsInv
<1>20. CASE TestFails
  <2>e. /\ UNCHANGED <<calling, update, mihomo, store, saved, session, snapshot, catalog,
           retry, picks, syncs,
           edit, astray, misshown, unfetched>>
        /\ transfer' \in {"shut", "refused", "open"} /\ test' \in Tests \cup {Nothing}
    BY <1>20, <1>i DEF TestFails, FlagsTyped
  <2>1. SelectionsTypeOK'
    BY <1>i, <2>e, SelectionsAssumption DEF SelectionsTypeOK, KernelTyped, ViewsTyped,
      WorkTyped, FlagsTyped, Chains, Views
  <2>2. ReadingsHaveOwner' /\ ReadingsAreCurrent' /\ UpdateKnown'
    BY <1>i, <2>e, SelectionsAssumption DEF UpdateKnown, ReadingsHaveOwner,
      ReadingsAreCurrent, Current,
      KernelTyped
  <2>3. ReadingsHold'
    BY <1>i, <2>e, SelectionsAssumption DEF ReadingsHold, Holds, KernelTyped, Selectors
  <2>4. CandidatesAreThere'
    BY <1>i, <2>e, SelectionsAssumption DEF CandidatesAreThere, Complete
  <2>5. SavedIsServed'
    BY <1>i, <2>e, SelectionsAssumption DEF SavedIsServed, CandidatesAreThere, Complete,
      ToBeSent, Sends0
  <2>6. ShownIsServed'
    BY <1>i, <2>e, SelectionsAssumption DEF ShownIsServed, CandidatesAreThere, Complete,
      ToBeShown, Selectors
  <2> QED
    BY <2>1, <2>2, <2>3, <2>4, <2>5, <2>6 DEF SelectionsInv
<1>21. CASE CandidatesLoad
  <2>e. /\ UNCHANGED <<calling, update, store, saved, session, snapshot, catalog, retry,
           picks, syncs, edit,
           astray, misshown, unfetched>>
        /\ mihomo' \in Kernels /\ mihomo'.up = mihomo.up /\ mihomo'.listed = TRUE
            /\ mihomo'.current = mihomo.current
        /\ transfer' \in {"shut", "refused", "open"} /\ test' \in Tests \cup {Nothing}
    BY <1>21, <1>i DEF CandidatesLoad, KernelTyped, Kernels, FlagsTyped, WorkTyped
  <2>1. SelectionsTypeOK'
    BY <1>i, <2>e, SelectionsAssumption DEF SelectionsTypeOK, KernelTyped, ViewsTyped,
      WorkTyped, FlagsTyped, Chains, Views
  <2>2. ReadingsHaveOwner' /\ ReadingsAreCurrent' /\ UpdateKnown'
    BY <1>i, <2>e, SelectionsAssumption DEF UpdateKnown, ReadingsHaveOwner,
      ReadingsAreCurrent, Current,
      KernelTyped
  <2>3. ReadingsHold'
    BY <1>i, <2>e, SelectionsAssumption DEF ReadingsHold, Holds, KernelTyped, Selectors
  <2>4. CandidatesAreThere'
    BY <1>i, <2>e, SelectionsAssumption DEF CandidatesAreThere, Complete
  <2>5. SavedIsServed'
    BY <1>i, <2>e, SelectionsAssumption DEF SavedIsServed, CandidatesAreThere, Complete,
      ToBeSent, Sends0
  <2>6. ShownIsServed'
    BY <1>i, <2>e, SelectionsAssumption DEF ShownIsServed, CandidatesAreThere, Complete,
      ToBeShown, Selectors
  <2> QED
    BY <2>1, <2>2, <2>3, <2>4, <2>5, <2>6 DEF SelectionsInv
<1>22. CASE KernelExits
  <2>e. /\ UNCHANGED <<calling, update, store, saved, session, snapshot, catalog, retry,
           picks, syncs, edit,
           astray, misshown, unfetched>>
        /\ mihomo' \in Kernels /\ mihomo'.up = FALSE /\ ~Complete'
        /\ transfer' \in {"shut", "refused", "open"} /\ test' \in Tests \cup {Nothing}
    BY <1>22, <1>i DEF KernelExits, Complete, KernelTyped, Kernels, FlagsTyped, WorkTyped
  <2>1. SelectionsTypeOK'
    BY <1>i, <2>e, SelectionsAssumption DEF SelectionsTypeOK, KernelTyped, ViewsTyped,
      WorkTyped, FlagsTyped, Chains, Views
  <2>2. ReadingsHaveOwner' /\ ReadingsAreCurrent' /\ UpdateKnown'
    BY <1>i, <2>e, SelectionsAssumption DEF UpdateKnown, ReadingsHaveOwner,
      ReadingsAreCurrent, Current,
      KernelTyped
  <2>3. ReadingsHold'
    BY <1>i, <2>e, SelectionsAssumption DEF ReadingsHold, Holds, KernelTyped, Selectors
  <2>4. CandidatesAreThere' /\ SavedIsServed' /\ ShownIsServed'
    BY <2>e DEF CandidatesAreThere, SavedIsServed, ShownIsServed
  <2> QED
    BY <2>1, <2>2, <2>3, <2>4 DEF SelectionsInv
<1>23. CASE LossNoticed
  <2>e. /\ UNCHANGED <<calling, update, mihomo, store, saved, snapshot, catalog, picks,
           syncs, edit, astray,
           misshown, unfetched>>
        /\ session' = "off" /\ retry' = Nothing /\ ~Complete'
        /\ transfer' \in {"shut", "refused", "open"} /\ test' \in Tests \cup {Nothing}
    BY <1>23, <1>i DEF LossNoticed, Complete, ReadingsHaveOwner, FlagsTyped, WorkTyped
  <2>1. SelectionsTypeOK'
    BY <1>i, <2>e, SelectionsAssumption DEF SelectionsTypeOK, KernelTyped, ViewsTyped,
      WorkTyped, FlagsTyped, Chains, Views
  <2>2. ReadingsHaveOwner' /\ ReadingsAreCurrent' /\ UpdateKnown'
    BY <1>i, <2>e, SelectionsAssumption DEF UpdateKnown, ReadingsHaveOwner,
      ReadingsAreCurrent, Current,
      KernelTyped
  <2>3. ReadingsHold'
    BY <1>i, <2>e, SelectionsAssumption DEF ReadingsHold, Holds, KernelTyped, Selectors
  <2>4. CandidatesAreThere' /\ SavedIsServed' /\ ShownIsServed'
    BY <2>e DEF CandidatesAreThere, SavedIsServed, ShownIsServed
  <2> QED
    BY <2>1, <2>2, <2>3, <2>4 DEF SelectionsInv
<1>24. CASE TransferOpens
  <2>e. /\ UNCHANGED <<calling, update, mihomo, store, saved, session, snapshot, catalog,
           retry, picks, syncs,
           edit, astray, misshown, unfetched>>
        /\ transfer' \in {"shut", "refused", "open"} /\ test' \in Tests \cup {Nothing}
    BY <1>24, <1>i DEF TransferOpens, WorkTyped
  <2>1. SelectionsTypeOK'
    BY <1>i, <2>e, SelectionsAssumption DEF SelectionsTypeOK, KernelTyped, ViewsTyped,
      WorkTyped, FlagsTyped, Chains, Views
  <2>2. ReadingsHaveOwner' /\ ReadingsAreCurrent' /\ UpdateKnown'
    BY <1>i, <2>e, SelectionsAssumption DEF UpdateKnown, ReadingsHaveOwner,
      ReadingsAreCurrent, Current,
      KernelTyped
  <2>3. ReadingsHold'
    BY <1>i, <2>e, SelectionsAssumption DEF ReadingsHold, Holds, KernelTyped, Selectors
  <2>4. CandidatesAreThere'
    BY <1>i, <2>e, SelectionsAssumption DEF CandidatesAreThere, Complete
  <2>5. SavedIsServed'
    BY <1>i, <2>e, SelectionsAssumption DEF SavedIsServed, CandidatesAreThere, Complete,
      ToBeSent, Sends0
  <2>6. ShownIsServed'
    BY <1>i, <2>e, SelectionsAssumption DEF ShownIsServed, CandidatesAreThere, Complete,
      ToBeShown, Selectors
  <2> QED
    BY <2>1, <2>2, <2>3, <2>4, <2>5, <2>6 DEF SelectionsInv
<1>25. CASE TransferCloses
  <2>e. /\ UNCHANGED <<calling, update, mihomo, store, saved, session, snapshot, catalog,
           retry, picks, syncs,
           edit, astray, misshown, unfetched>>
        /\ transfer' \in {"shut", "refused", "open"} /\ test' \in Tests \cup {Nothing}
    BY <1>25, <1>i DEF TransferCloses, WorkTyped
  <2>1. SelectionsTypeOK'
    BY <1>i, <2>e, SelectionsAssumption DEF SelectionsTypeOK, KernelTyped, ViewsTyped,
      WorkTyped, FlagsTyped, Chains, Views
  <2>2. ReadingsHaveOwner' /\ ReadingsAreCurrent' /\ UpdateKnown'
    BY <1>i, <2>e, SelectionsAssumption DEF UpdateKnown, ReadingsHaveOwner,
      ReadingsAreCurrent, Current,
      KernelTyped
  <2>3. ReadingsHold'
    BY <1>i, <2>e, SelectionsAssumption DEF ReadingsHold, Holds, KernelTyped, Selectors
  <2>4. CandidatesAreThere'
    BY <1>i, <2>e, SelectionsAssumption DEF CandidatesAreThere, Complete
  <2>5. SavedIsServed'
    BY <1>i, <2>e, SelectionsAssumption DEF SavedIsServed, CandidatesAreThere, Complete,
      ToBeSent, Sends0
  <2>6. ShownIsServed'
    BY <1>i, <2>e, SelectionsAssumption DEF ShownIsServed, CandidatesAreThere, Complete,
      ToBeShown, Selectors
  <2> QED
    BY <2>1, <2>2, <2>3, <2>4, <2>5, <2>6 DEF SelectionsInv
<1>26. CASE TransferStops
  <2>e. /\ UNCHANGED <<calling, update, store, saved, snapshot, catalog, picks, syncs, edit,
           astray, misshown,
           unfetched>>
        /\ mihomo' \in Kernels /\ mihomo'.up = FALSE /\ session' = "off" /\ retry' = Nothing
            /\ ~Complete'
        /\ transfer' \in {"shut", "refused", "open"} /\ test' \in Tests \cup {Nothing}
    BY <1>26, <1>i DEF TransferStops, MutationBusy, Complete, ReadingsHaveOwner,
      KernelTyped, Kernels, FlagsTyped, WorkTyped
  <2>1. SelectionsTypeOK'
    BY <1>i, <2>e, SelectionsAssumption DEF SelectionsTypeOK, KernelTyped, ViewsTyped,
      WorkTyped, FlagsTyped, Chains, Views
  <2>2. ReadingsHaveOwner' /\ ReadingsAreCurrent' /\ UpdateKnown'
    BY <1>i, <2>e, SelectionsAssumption DEF UpdateKnown, ReadingsHaveOwner,
      ReadingsAreCurrent, Current,
      KernelTyped
  <2>3. ReadingsHold'
    BY <1>i, <2>e, SelectionsAssumption DEF ReadingsHold, Holds, KernelTyped, Selectors
  <2>4. CandidatesAreThere' /\ SavedIsServed' /\ ShownIsServed'
    BY <2>e DEF CandidatesAreThere, SavedIsServed, ShownIsServed
  <2> QED
    BY <2>1, <2>2, <2>3, <2>4 DEF SelectionsInv
<1>27. CASE UNCHANGED selectionsVars
  <2>e. /\ UNCHANGED <<calling, update, mihomo, store, saved, session, snapshot, catalog,
           retry, picks, syncs,
           edit, astray, misshown, unfetched>>
        /\ transfer' \in {"shut", "refused", "open"} /\ test' \in Tests \cup {Nothing}
    BY <1>27, <1>i DEF selectionsVars, FlagsTyped, WorkTyped
  <2>1. SelectionsTypeOK'
    BY <1>i, <2>e, SelectionsAssumption DEF SelectionsTypeOK, KernelTyped, ViewsTyped,
      WorkTyped, FlagsTyped, Chains, Views
  <2>2. ReadingsHaveOwner' /\ ReadingsAreCurrent' /\ UpdateKnown'
    BY <1>i, <2>e, SelectionsAssumption DEF UpdateKnown, ReadingsHaveOwner,
      ReadingsAreCurrent, Current,
      KernelTyped
  <2>3. ReadingsHold'
    BY <1>i, <2>e, SelectionsAssumption DEF ReadingsHold, Holds, KernelTyped, Selectors
  <2>4. CandidatesAreThere'
    BY <1>i, <2>e, SelectionsAssumption DEF CandidatesAreThere, Complete
  <2>5. SavedIsServed'
    BY <1>i, <2>e, SelectionsAssumption DEF SavedIsServed, CandidatesAreThere, Complete,
      ToBeSent, Sends0
  <2>6. ShownIsServed'
    BY <1>i, <2>e, SelectionsAssumption DEF ShownIsServed, CandidatesAreThere, Complete,
      ToBeShown, Selectors
  <2> QED
    BY <2>1, <2>2, <2>3, <2>4, <2>5, <2>6 DEF SelectionsInv
<1>28. CASE UpdateBegins
  <2>e. /\ UNCHANGED <<calling, mihomo, store, saved, snapshot, catalog, picks, syncs, edit,
           astray, misshown, unfetched>>
        /\ session' = "off" /\ retry' = Nothing /\ ~Complete'
        /\ update' \in Updates /\ update'.view = Nothing /\ update'.kernel = Nothing
        /\ transfer' \in {"shut", "refused", "open"} /\ test' \in Tests \cup {Nothing}
    <3>1. update' \in Updates /\ update'.view = Nothing /\ update'.kernel = Nothing
      BY <1>28 DEF UpdateBegins, Updates
    <3> QED
      BY <1>28, <1>i, <3>1 DEF UpdateBegins, Complete, FlagsTyped, WorkTyped
  <2>1. SelectionsTypeOK'
    BY <1>i, <2>e, SelectionsAssumption DEF SelectionsTypeOK, KernelTyped, ViewsTyped,
      WorkTyped, FlagsTyped, Chains, Views
  <2>2. ReadingsHaveOwner' /\ ReadingsAreCurrent' /\ UpdateKnown'
    BY <1>i, <2>e, SelectionsAssumption DEF UpdateKnown, ReadingsHaveOwner,
      ReadingsAreCurrent, Current, KernelTyped
  <2>3. ReadingsHold'
    BY <1>i, <2>e, SelectionsAssumption DEF ReadingsHold, Holds, KernelTyped, Selectors,
      ReadingsHaveOwner
  <2>4. CandidatesAreThere' /\ SavedIsServed' /\ ShownIsServed'
    BY <2>e DEF CandidatesAreThere, SavedIsServed, ShownIsServed
  <2> QED
    BY <2>1, <2>2, <2>3, <2>4 DEF SelectionsInv
<1>29. CASE UpdateStops
  <2>e. /\ UNCHANGED <<calling, store, saved, session, snapshot, catalog, retry, picks, syncs,
           edit, astray, misshown, unfetched>>
        /\ mihomo' \in Kernels /\ (mihomo'.up => mihomo' = mihomo)
        /\ update # Nothing /\ update' \in Updates
        /\ update'.view = update.view /\ update'.kernel = update.kernel
        /\ update.kernel = Nothing
        /\ transfer' \in {"shut", "refused", "open"} /\ test' \in Tests \cup {Nothing}
    <3>1. update \in Updates /\ update # Nothing /\ update.kernel = Nothing
      BY <1>29, <1>i DEF UpdateStops, UpdateAt, FlagsTyped, UpdateKnown
    <3>2. /\ update' \in Updates
          /\ update'.view = update.view /\ update'.kernel = update.kernel
      BY <1>29, <3>1 DEF UpdateStops, Updates
    <3>3. mihomo' \in Kernels /\ (mihomo'.up => mihomo' = mihomo)
      BY <1>29, <1>i DEF UpdateStops, KernelTyped, Kernels
    <3> QED
      BY <1>29, <1>i, <3>1, <3>2, <3>3 DEF UpdateStops, FlagsTyped, WorkTyped
  <2>1. SelectionsTypeOK'
    BY <1>i, <2>e, SelectionsAssumption DEF SelectionsTypeOK, KernelTyped, ViewsTyped,
      WorkTyped, FlagsTyped, Chains, Views
  <2>2. ReadingsHaveOwner' /\ ReadingsAreCurrent' /\ UpdateKnown'
    BY <1>i, <2>e, SelectionsAssumption DEF UpdateKnown, ReadingsHaveOwner,
      ReadingsAreCurrent, Current, KernelTyped
  <2>3. ReadingsHold'
    BY <1>i, <2>e, SelectionsAssumption DEF ReadingsHold, Holds, KernelTyped, Selectors,
      ReadingsHaveOwner
  <2>4. CandidatesAreThere'
    BY <1>i, <2>e, SelectionsAssumption DEF CandidatesAreThere, Complete
  <2>5. SavedIsServed'
    BY <1>i, <2>e, SelectionsAssumption DEF SavedIsServed, CandidatesAreThere, Complete,
      ToBeSent, Sends0
  <2>6. ShownIsServed'
    BY <1>i, <2>e, SelectionsAssumption DEF ShownIsServed, CandidatesAreThere, Complete,
      ToBeShown, Selectors
  <2> QED
    BY <2>1, <2>2, <2>3, <2>4, <2>5, <2>6 DEF SelectionsInv
<1>30. CASE UpdateInstalls
  <2>e. /\ UNCHANGED <<calling, mihomo, store, saved, session, snapshot, catalog, retry, picks,
           syncs, edit, astray, misshown, unfetched>>
        /\ update' \in Updates /\ update'.stage = "done"
        /\ update'.view # Nothing => update'.view.rev = store
        /\ update'.kernel # Nothing /\ update'.view = Nothing => ~update'.kernel.up
        /\ transfer' \in {"shut", "refused", "open"} /\ test' \in Tests \cup {Nothing}
    <3>1. update \in Updates
      BY <1>30, <1>i DEF UpdateInstalls, UpdateAt, FlagsTyped
    <3>2. PICK k \in Kernels :
            update' = [update EXCEPT !.stage = "done", !.kernel = k,
                                     !.view = IF k.up THEN ViewOf(k) ELSE Nothing]
      BY <1>30 DEF UpdateInstalls
    <3> DEFINE view == IF k.up THEN ViewOf(k) ELSE Nothing
    <3>3. /\ view \in Views \cup {Nothing} /\ (view # Nothing => view.rev = store)
          /\ view = Nothing => ~k.up
      BY <1>i, ViewedOf, SelectionsAssumption DEF KernelTyped
    <3>4. update' = [update EXCEPT !.stage = "done", !.kernel = k, !.view = view]
      BY <3>2
    <3> HIDE DEF view
    <3>5. /\ update' \in Updates /\ update'.stage = "done"
          /\ update'.kernel = k /\ update'.view = view
      BY <3>1, <3>4, <3>3 DEF Updates
    <3> QED
      BY <1>30, <1>i, <3>3, <3>5 DEF UpdateInstalls, FlagsTyped, WorkTyped
  <2>1. SelectionsTypeOK'
    BY <1>i, <2>e, SelectionsAssumption DEF SelectionsTypeOK, KernelTyped, ViewsTyped,
      WorkTyped, FlagsTyped, Chains, Views
  <2>2. ReadingsHaveOwner' /\ ReadingsAreCurrent' /\ UpdateKnown'
    BY <1>i, <2>e, SelectionsAssumption DEF UpdateKnown, ReadingsHaveOwner,
      ReadingsAreCurrent, Current, KernelTyped
  <2>3. ReadingsHold'
    BY <1>i, <2>e, SelectionsAssumption DEF ReadingsHold, Holds, KernelTyped, Selectors,
      ReadingsHaveOwner
  <2>4. CandidatesAreThere'
    BY <1>i, <2>e, SelectionsAssumption DEF CandidatesAreThere, Complete
  <2>5. SavedIsServed'
    BY <1>i, <2>e, SelectionsAssumption DEF SavedIsServed, CandidatesAreThere, Complete,
      ToBeSent, Sends0
  <2>6. ShownIsServed'
    BY <1>i, <2>e, SelectionsAssumption DEF ShownIsServed, CandidatesAreThere, Complete,
      ToBeShown, Selectors
  <2> QED
    BY <2>1, <2>2, <2>3, <2>4, <2>5, <2>6 DEF SelectionsInv
<1>31. CASE UpdateFails
  <2>e. /\ UNCHANGED <<calling, store, saved, session, snapshot, catalog, retry, picks, syncs,
           edit, misshown, unfetched>>
        /\ mihomo' \in Kernels /\ astray \subseteq astray' /\ astray' \subseteq Selectors
        /\ session = "connected" \/ snapshot # Nothing
             => UNCHANGED <<mihomo, astray>> \/ astray' = Selectors
        /\ update' \in Updates /\ update'.kernel = Nothing
        /\ update'.view # Nothing => update'.view.rev = store
        /\ transfer' \in {"shut", "refused", "open"} /\ test' \in Tests \cup {Nothing}
    <3>1. /\ mihomo' \in Kernels /\ astray \subseteq astray' /\ astray' \subseteq Selectors
          /\ session = "connected" \/ snapshot # Nothing
               => UNCHANGED <<mihomo, astray>> \/ astray' = Selectors
      <4>1. CASE StartsBehind
        BY <1>i, <4>1, StartedBehind
      <4>2. CASE UNCHANGED <<mihomo, astray>>
        BY <1>i, <4>2 DEF KernelTyped, FlagsTyped
      <4> QED
        BY <1>31, <4>1, <4>2 DEF UpdateFails
    <3>2. update \in Updates /\ update # Nothing /\ update.kernel = Nothing
      BY <1>31, <1>i DEF UpdateFails, UpdateAt, FlagsTyped, UpdateKnown
    <3>3. PICK v \in {Nothing, View} : update' = [update EXCEPT !.stage = "done", !.view = v]
      BY <1>31 DEF UpdateFails
    <3>4. v \in Views \cup {Nothing} /\ (v # Nothing => v.rev = store)
      BY <1>i, <3>1, Viewed DEF KernelTyped
    <3>5. update' \in Updates /\ update'.kernel = Nothing /\ update'.view = v
      BY <3>2, <3>3, <3>4 DEF Updates
    <3> QED
      BY <1>31, <1>i, <3>1, <3>4, <3>5 DEF UpdateFails, FlagsTyped, WorkTyped
  <2>1. SelectionsTypeOK'
    BY <1>i, <2>e, SelectionsAssumption DEF SelectionsTypeOK, KernelTyped, ViewsTyped,
      WorkTyped, FlagsTyped, Chains, Views
  <2>2. ReadingsHaveOwner' /\ ReadingsAreCurrent' /\ UpdateKnown'
    BY <1>i, <2>e, SelectionsAssumption DEF UpdateKnown, ReadingsHaveOwner,
      ReadingsAreCurrent, Current, KernelTyped
  <2>3. ReadingsHold'
    BY <1>i, <2>e, SelectionsAssumption DEF ReadingsHold, Holds, KernelTyped, Selectors,
      ReadingsHaveOwner
  <2>4. CandidatesAreThere'
    BY <1>i, <2>e, SelectionsAssumption DEF CandidatesAreThere, Complete
  <2>5. SavedIsServed'
    BY <1>i, <2>e, SelectionsAssumption DEF SavedIsServed, CandidatesAreThere, Complete,
      ToBeSent, Sends0
  <2>6. ShownIsServed'
    BY <1>i, <2>e, SelectionsAssumption DEF ShownIsServed, CandidatesAreThere, Complete,
      ToBeShown, Selectors
  <2> QED
    BY <2>1, <2>2, <2>3, <2>4, <2>5, <2>6 DEF SelectionsInv
<1>32. CASE UpdateInstalled
  <2>1. /\ UNCHANGED <<calling, store, saved, edit, transfer>>
        /\ update' = Nothing /\ update # Nothing /\ update \in Updates
        /\ mihomo' = update.kernel /\ mihomo' \in Kernels
    BY <1>32, <1>i DEF UpdateInstalled, UpdateAt, FlagsTyped, Updates
  <2>2. /\ picks' \in [Selectors -> Sends \cup {Nothing}]
        /\ syncs' \in [Syncs -> Restorations \cup {Nothing}]
        /\ \A s \in Syncs : syncs'[s] # Nothing
             => syncs'[s].left \cup syncs'[s].got \subseteq DOMAIN syncs'[s].to
        /\ test' \in Tests \cup {Nothing} /\ snapshot' \in Views \cup {Nothing}
        /\ \/ snapshot' = snapshot
           \/ calling /\ snapshot' # Nothing /\ snapshot'.rev = store
    BY <1>32, <1>i, FormerWorkersEnd, SelectionsAssumption DEF UpdateInstalled
  <2>3. CASE update.view # Nothing
    <3>1. /\ ShowsUpdated(update.view)
          /\ unfetched' = (calling \/ Outdated(update.view))
      BY <1>32, <2>3 DEF UpdateInstalled
    <3>2. update.view \in Views /\ update.view.rev <= store
      BY <1>i, <2>1, <2>3 DEF Updates, UpdateKnown
    <3>3. unfetched' \in BOOLEAN /\ (~unfetched' => ~calling /\ ~Outdated(update.view))
      BY <1>i, <3>1 DEF FlagsTyped, Outdated
    <3>4. /\ session' = "connected" /\ catalog' \in Views /\ misshown' = {}
          /\ retry' \in Chains \cup {Nothing}
          /\ retry' # Nothing => retry'.stage = "waiting" /\ retry'.view = Nothing
          /\ astray \subseteq astray' /\ astray' \subseteq Selectors
          /\ Current(catalog)'
          /\ CandidatesAreThere' /\ SavedIsServed' /\ ShownIsServed'
      BY <1>i, <2>1, <3>1, <3>2, <3>3, UpdatedIsShown, SelectionsAssumption
    <3>5. SelectionsTypeOK'
      BY <1>i, <2>1, <2>2, <3>3, <3>4 DEF SelectionsTypeOK, KernelTyped, ViewsTyped,
        WorkTyped, FlagsTyped
    <3>6. ~unfetched' => snapshot' = Nothing
      BY <1>i, <2>2, <3>3 DEF ReadingsHaveOwner
    <3>7. ReadingsHaveOwner' /\ UpdateKnown'
      BY <1>i, <2>1, <2>2, <3>4 DEF ReadingsHaveOwner, UpdateKnown
    <3>8. ReadingsAreCurrent'
      BY <1>i, <2>1, <2>2, <3>4, <3>6 DEF ReadingsAreCurrent, Current, KernelTyped
    <3>9. ReadingsHold'
      BY <3>4, <3>6 DEF ReadingsHold, Holds
    <3> QED
      BY <3>4, <3>5, <3>7, <3>8, <3>9 DEF SelectionsInv
  <2>4. CASE update.view = Nothing
    <3>1. /\ unfetched' = (unfetched \/ calling) /\ retry' \in {retry} \cup FormerReadings
          /\ UNCHANGED <<session, catalog, misshown, astray>>
      BY <1>32, <2>4 DEF UpdateInstalled
    <3>2. ~mihomo'.up
      BY <1>32, <1>i, <2>1, <2>4 DEF UpdateInstalled, UpdateKnown
    <3>3. \/ retry' = retry
          \/ /\ retry # Nothing /\ retry' \in Chains /\ retry' # Nothing
             /\ retry'.left > 0 /\ retry'.view \in Views /\ retry'.view.rev = store
      <4>1. CASE retry' = retry
        BY <4>1
      <4>2. CASE retry' \in FormerReadings
        <5>1. /\ retry # Nothing /\ retry \in Chains /\ retry.left # 0
          BY <1>i, <4>2 DEF FormerReadings, ViewsTyped
        <5>2. PICK k \in Kernels : retry' = [retry EXCEPT !.stage = "read", !.view = ViewOf(k)]
          BY <4>2, <5>1 DEF FormerReadings
        <5> DEFINE view == ViewOf(k)
        <5>3. view \in Views /\ view.rev = store
          BY <1>i, ViewedOf DEF KernelTyped
        <5>4. retry' = [retry EXCEPT !.stage = "read", !.view = view]
          BY <5>2
        <5> HIDE DEF view
        <5>5. retry' \in Chains /\ retry'.left = retry.left /\ retry'.view = view
          BY <5>1, <5>3, <5>4 DEF Chains
        <5>6. retry.left > 0 /\ retry' # Nothing
          BY <5>1, <5>5, SelectionsAssumption DEF Chains
        <5> QED
          BY <5>1, <5>3, <5>5, <5>6
      <4> QED
        BY <3>1, <4>1, <4>2
    <3>4. SelectionsTypeOK'
      <4>1. retry' \in Chains \cup {Nothing}
            /\ (retry' # Nothing /\ retry'.stage = "read" => retry'.view # Nothing)
            /\ (retry' # Nothing /\ retry'.stage # "waiting" => retry'.left > 0)
        BY <1>i, <3>3, SelectionsAssumption DEF ViewsTyped
      <4> QED
        BY <1>i, <2>1, <2>2, <3>1, <4>1 DEF SelectionsTypeOK, KernelTyped, ViewsTyped,
          WorkTyped, FlagsTyped
    <3>5. ReadingsHaveOwner' /\ UpdateKnown'
      BY <1>i, <2>1, <2>2, <3>1, <3>3 DEF ReadingsHaveOwner, UpdateKnown
    <3>6. ReadingsAreCurrent'
      <4>1. store \in Nat /\ (~unfetched' => ~unfetched /\ ~calling)
        BY <1>i, <3>1 DEF KernelTyped, FlagsTyped
      <4>2. Current(snapshot)'
        BY <1>i, <2>1, <2>2, <4>1 DEF ReadingsAreCurrent, Current
      <4>3. (session = "connected" => Current(catalog))'
        BY <1>i, <2>1, <3>1, <4>1 DEF ReadingsAreCurrent, Current
      <4>4. (retry # Nothing => Current(retry.view))'
        BY <1>i, <2>1, <3>1, <3>3, <4>1 DEF ReadingsAreCurrent, Current
      <4> QED
        BY <4>2, <4>3, <4>4 DEF ReadingsAreCurrent
    <3>7. ReadingsHold'
      BY <3>2 DEF ReadingsHold, Holds
    <3>8. CandidatesAreThere' /\ SavedIsServed' /\ ShownIsServed'
      BY <3>2 DEF CandidatesAreThere, SavedIsServed, ShownIsServed, Complete
    <3> QED
      BY <3>4, <3>5, <3>6, <3>7, <3>8 DEF SelectionsInv
  <2> QED
    BY <2>3, <2>4
<1>33. CASE UpdateFailed
  <2>1. /\ UNCHANGED <<calling, mihomo, store, saved, edit, transfer, snapshot, picks, syncs,
           test>>
        /\ update' = Nothing /\ update # Nothing /\ update \in Updates
    BY <1>33, <1>i DEF UpdateFailed, UpdateAt, FlagsTyped
  <2>2. CASE update.view # Nothing
    <3>1. /\ ShowsUpdated(update.view)
          /\ unfetched' = (Outdated(update.view) \/ (calling /\ unfetched))
      BY <1>33, <2>2 DEF UpdateFailed
    <3>2. update.view \in Views /\ update.view.rev <= store
      BY <1>i, <2>1, <2>2 DEF Updates, UpdateKnown
    <3>3. /\ unfetched' \in BOOLEAN
          /\ ~unfetched' => (~calling \/ ~unfetched) /\ ~Outdated(update.view)
      BY <1>i, <3>1 DEF FlagsTyped, Outdated
    <3>4. /\ session' = "connected" /\ catalog' \in Views /\ misshown' = {}
          /\ retry' \in Chains \cup {Nothing}
          /\ retry' # Nothing => retry'.stage = "waiting" /\ retry'.view = Nothing
          /\ astray \subseteq astray' /\ astray' \subseteq Selectors
          /\ Current(catalog)'
          /\ CandidatesAreThere' /\ SavedIsServed' /\ ShownIsServed'
      <4>1. mihomo' \in Kernels
        BY <1>i, <2>1 DEF KernelTyped
      <4> QED
        BY <1>i, <2>1, <3>1, <3>2, <3>3, <4>1, UpdatedIsShown, SelectionsAssumption
    <3>5. SelectionsTypeOK'
      BY <1>i, <2>1, <3>3, <3>4 DEF SelectionsTypeOK, KernelTyped, ViewsTyped, WorkTyped,
        FlagsTyped
    <3>6. ReadingsHaveOwner' /\ UpdateKnown'
      BY <1>i, <2>1, <3>4 DEF ReadingsHaveOwner, UpdateKnown
    <3>7. ReadingsAreCurrent'
      BY <1>i, <2>1, <3>3, <3>4 DEF ReadingsAreCurrent, Current, ReadingsHaveOwner
    <3>8. ReadingsHold'
      BY <1>i, <2>1, <3>3, <3>4, SelectionsAssumption DEF ReadingsHold, Holds,
        ReadingsHaveOwner, KernelTyped, Selectors
    <3> QED
      BY <3>4, <3>5, <3>6, <3>7, <3>8 DEF SelectionsInv
  <2>3. CASE update.view = Nothing
    <3>e. UNCHANGED <<session, catalog, misshown, retry, astray, unfetched>>
      BY <1>33, <2>3 DEF UpdateFailed
    <3>1. SelectionsTypeOK'
      BY <1>i, <2>1, <3>e DEF SelectionsTypeOK, KernelTyped, ViewsTyped, WorkTyped, FlagsTyped
    <3>2. ReadingsHaveOwner' /\ ReadingsAreCurrent' /\ UpdateKnown'
      BY <1>i, <2>1, <3>e DEF UpdateKnown, ReadingsHaveOwner, ReadingsAreCurrent, Current
    <3>3. ReadingsHold'
      BY <1>i, <2>1, <3>e DEF ReadingsHold, Holds
    <3>4. CandidatesAreThere'
      BY <1>i, <2>1, <3>e DEF CandidatesAreThere, Complete
    <3>5. SavedIsServed'
      BY <1>i, <2>1, <3>e DEF SavedIsServed, Complete, ToBeSent, Sends0
    <3>6. ShownIsServed'
      BY <1>i, <2>1, <3>e DEF ShownIsServed, Complete, ToBeShown
    <3> QED
      BY <3>1, <3>2, <3>3, <3>4, <3>5, <3>6 DEF SelectionsInv
  <2> QED
    BY <2>2, <2>3
<1> QED
  BY <1>1, <1>2, <1>3, <1>4, <1>5, <1>6, <1>7, <1>8, <1>9, <1>10, <1>11, <1>12, <1>13,
    <1>14, <1>15, <1>16, <1>17, <1>18, <1>19, <1>20, <1>21, <1>22, <1>23, <1>24, <1>25,
    <1>26, <1>27, <1>28, <1>29, <1>30, <1>31, <1>32, <1>33
    DEF SelectionsNext, User, ConnectWork, RetryWork, SyncWork, PickWork, UpdateWork, EditWork,
      TestWork, Kernel

LEMMA SelectionsStart == SelectionsInit => SelectionsInv
<1> SUFFICES ASSUME SelectionsInit PROVE SelectionsInv
  OBVIOUS
<1>1. mihomo \in Kernels /\ ~mihomo.up
  <2>1. PICK n \in Nodes : TRUE
    BY SelectionsAssumption
  <2>2. [g \in Selectors |-> n] \in Targets
    BY DEF Targets
  <2>3. [up |-> FALSE, listed |-> FALSE,
        current |-> [g \in Selectors |-> n]] \in {k \in Kernels : ~k.up /\ ~k.listed}
    BY <2>2 DEF Kernels
  <2>4. mihomo \in {k \in Kernels : ~k.up /\ ~k.listed}
    BY <2>3 DEF SelectionsInit
  <2> QED
    BY <2>4
<1>2. SelectionsTypeOK
  BY <1>1 DEF SelectionsInit, SelectionsTypeOK, KernelTyped, ViewsTyped, WorkTyped,
    FlagsTyped
<1>3. ReadingsHaveOwner /\ ReadingsAreCurrent /\ ReadingsHold /\ UpdateKnown
  BY DEF SelectionsInit, ReadingsHaveOwner, ReadingsAreCurrent, ReadingsHold, Current, Holds,
    UpdateKnown
<1>4. ~Complete
  BY DEF SelectionsInit, Complete
<1> QED
  BY <1>2, <1>3, <1>4 DEF SelectionsInv, CandidatesAreThere, SavedIsServed, ShownIsServed

\* The inductive invariant of the picks, of what is shown and of what is on its way.
THEOREM SelectionsInvariant == SelectionsSpec => []SelectionsInv
<1> QED
  BY SelectionsStart, SelectionsStep, PTL DEF SelectionsSpec

\* With nothing in flight a connected kernel uses the nodes that are saved
\* (sync_saved_node_selections), but for what failed, was overtaken or, after an update
\* of the core, was only shown (PicksAreUsed).
THEOREM SavedPicksAreUsed == SelectionsSpec => []PicksAreUsed
<1>1. SelectionsInv => PicksAreUsed
  <2> SUFFICES ASSUME SelectionsInv, Quiet, catalog # Nothing, catalog.listed, ~unfetched,
                      NEW g \in Selectors \ astray
               PROVE  saved[g] \in {Nothing, mihomo.current[g]}
    BY DEF PicksAreUsed
  <2>1. Complete
    BY DEF Quiet, Complete
  <2>2. ~ToBeSent(g)
    BY DEF Quiet, Free, ToBeSent, Sends0
  <2> QED
    BY <2>1, <2>2 DEF SelectionsInv, SavedIsServed
<1> QED
  BY <1>1, SelectionsInvariant, PTL

\* Then a group shows the node in use, with the same exceptions and that of an older
\* reading that arrived last (ShownIsUsed).
THEOREM ShownNodesAreUsed == SelectionsSpec => []ShownIsUsed
<1>1. SelectionsInv => ShownIsUsed
  <2> SUFFICES ASSUME SelectionsInv, Quiet, catalog # Nothing, catalog.listed, ~unfetched,
                      NEW p \in Policies \ (astray \cup misshown)
               PROVE  catalog.target[p] = mihomo.current[p]
    BY DEF ShownIsUsed
  <2>1. Complete
    BY DEF Quiet, Complete
  <2>2. ~ToBeShown(p)
    BY DEF Quiet, Free, ToBeShown, Selectors
  <2> QED
    BY <2>1, <2>2 DEF SelectionsInv, ShownIsServed
<1> QED
  BY <1>1, SelectionsInvariant, PTL
=============================================================================
