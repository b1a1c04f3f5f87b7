-------------------------- MODULE SourceApplyProofs --------------------------
(***************************************************************************)
(* For every set of sources: what a transaction reports is what it has     *)
(* done.  A change reported as applied is served; a refused one has left   *)
(* store, file and kernel as they were; a lost TUN is reported; and the    *)
(* store it leaves can be loaded again.                                    *)
(*                                                                         *)
(* All of this speaks of the end of a transaction.  ApplyInv says stage by *)
(* stage which of the store, the file and the kernel are old or new by     *)
(* then, and that revive remembers the TUN of the beginning.  What it says *)
(* of the kernel it says of undisturbed transactions only.                 *)
(*                                                                         *)
(* The last part is about Settings: what is on disk, or in the files that  *)
(* the next launch takes over, is a configuration that the user may        *)
(* expect, while the texts of the editor are understood.                   *)
(***************************************************************************)
EXTENDS SourceApply, Settings, SequenceTheorems, WellFoundedInduction, TLAPS

Untouched == {"prepare", "write", "inspect", "reload"}
Replaced == {"inspect", "reload", "stop", "create", "start", "rollback"}
Stopped == {"create", "start", "rollback", "restart"}
Retuning == {"retune", "retunePut"}
Applied == outcome \in {"Updated", "Restarted"}
Aborted == stage \in {"undo", "done"} /\ outcome = "Failed"

\* The two halves of TypeOK: what is there, and how far the transaction is.
WorldTyped ==
  /\ store \in Source /\ file \in Source
  /\ kernel \in {"up", "exited", "down", "none"}
  /\ running \in Source \union {NoSource}
  /\ running # NoSource <=> kernel = "up"
  /\ tun \in {"on", "off"} /\ privileged \in {"yes", "no"}
  /\ toggle \in {"idle", "compiled", "aimed", "release"}
  /\ want \in {"on", "off"} /\ payload \in Source \union {NoSource}

TransactionTyped ==
  /\ stage \in Stage
  /\ lock = IF stage \in Unlocked THEN "free" ELSE "held"
  /\ before \in Situation \union {NoSource}
  /\ before = NoSource <=> stage = "idle"
  /\ revive \in {"nothing", "kernel", "tun"}
  /\ outcome \in {"none", "Updated", "Restarted", "Failed", "Lost"}
  /\ marks \subseteq {"disturbed", "halfway", "notStopped", "storeError"}

\* The outcome is known once apply_saved_sources returns, and before that
\* only while TUN is restored.
OutcomeByStage ==
  /\ stage \notin Retuning \union {"undo", "done"} => outcome = "none"
  /\ stage \in Retuning => outcome \in {"Restarted", "Failed"}
  /\ stage = "undo" => outcome = "Failed"
  /\ stage = "done" => outcome # "none"

\* The store is validated before anything else happens, and is either kept
\* or rolled back at the end.
StoreByStage ==
  /\ stage \in Replaced \union Retuning \union {"write", "restart"} =>
       store \in Valid
  /\ stage = "done" /\ outcome # "Failed" => store \in Valid
  /\ stage = "done" /\ outcome = "Failed" /\ "storeError" \notin marks =>
       store = before.store

\* The generated file is replaced by the write and put back by the rollback.
FileByStage ==
  /\ stage \in {"prepare", "write", "restart"} => file = before.file
  /\ stage \in Replaced => file = store
  /\ stage \in Retuning =>
       file = IF outcome = "Restarted" THEN store ELSE before.file
  /\ Aborted /\ "halfway" \notin marks => file = before.file
  /\ stage = "done" /\ Applied => file = store

\* What the kernel serves, unless something else has stepped in.
KernelByStage ==
  /\ stage \in Untouched => running = before.running /\ tun = before.tun
  /\ stage \in Stopped => kernel = "down"
  /\ stage \in {"reload", "stop"} \union Stopped \union Retuning =>
       (revive = "tun" <=> before.tun = "on")
  /\ stage \in Retuning => revive = "tun"
  /\ Aborted => /\ "halfway" \notin marks /\ kernel = "up" =>
                     running \in {before.running, before.file}
                /\ before.tun = "on" => tun = "on" \/ "notStopped" \in marks
  /\ stage = "done" /\ Applied =>
       /\ kernel = "up" => running = store /\ tun = before.tun
       /\ before.tun = "on" => tun = "on"

ApplyInv ==
  /\ TypeOK
  /\ kernel # "up" => tun = "off"
  /\ OutcomeByStage
  /\ StoreByStage
  /\ FileByStage
  /\ Undisturbed => KernelByStage

-----------------------------------------------------------------------------
\* The initial states satisfy the inductive invariant.
LEMMA ApplyInit == Init => ApplyInv
  BY SourceAssumption, SituationAssumption
     DEF Init, ApplyInv, TypeOK, OutcomeByStage, StoreByStage, FileByStage,
         KernelByStage, Untouched, Replaced, Stopped, Retuning, Applied,
         Aborted, Stage, Unlocked, Situation, Undisturbed

\* Every step of a transaction keeps the inductive invariant.
LEMMA TransactionKeeps ==
  ASSUME ApplyInv, (\E new \in Source : Begin(new)) \/ TransactionSteps
  PROVE  ApplyInv'
<1> USE SourceAssumption, SituationAssumption
    DEF ApplyInv, Untouched, Replaced, Stopped, Retuning, Applied, Aborted,
        Undisturbed, disk, core, toggling, Step, Go, Return, Forget, KernelIs,
        KernelStarts
<1>1. ASSUME NEW new \in Source, Begin(new)
      PROVE  ApplyInv'
  <2>1. WorldTyped'
      BY <1>1 DEF Begin, Now, TypeOK, WorldTyped
  <2>2. TransactionTyped'
      BY <1>1 DEF Begin, Now, TypeOK, TransactionTyped, Stage, Unlocked,
                  Situation
  <2>3. (kernel # "up" => tun = "off")'
      BY <1>1 DEF Begin, Now, TypeOK
  <2>4. OutcomeByStage'
      BY <1>1 DEF Begin, Now, OutcomeByStage
  <2>5. StoreByStage'
      BY <1>1 DEF Begin, Now, TypeOK, OutcomeByStage, StoreByStage,
                  FileByStage
  <2>6. FileByStage'
      BY <1>1 DEF Begin, Now, TypeOK, OutcomeByStage, StoreByStage,
                  FileByStage
  <2>7. (Undisturbed => KernelByStage)'
      BY <1>1 DEF Begin, Now, TypeOK, Situation, OutcomeByStage, FileByStage,
                  KernelByStage
  <2> QED
      BY <2>1, <2>2, <2>3, <2>4, <2>5, <2>6, <2>7
         DEF TypeOK, WorldTyped, TransactionTyped
<1>2. CASE Prepare
  <2>1. WorldTyped'
      BY <1>2 DEF Prepare, TypeOK, WorldTyped
  <2>2. TransactionTyped'
      BY <1>2 DEF Prepare, TypeOK, TransactionTyped, Stage, Unlocked
  <2>3. (kernel # "up" => tun = "off")'
      BY <1>2 DEF Prepare, TypeOK
  <2>4. OutcomeByStage'
      BY <1>2 DEF Prepare, OutcomeByStage
  <2>5. StoreByStage'
      BY <1>2 DEF Prepare, TypeOK, OutcomeByStage, StoreByStage, FileByStage
  <2>6. FileByStage'
      BY <1>2 DEF Prepare, TypeOK, OutcomeByStage, StoreByStage, FileByStage
  <2>7. (Undisturbed => KernelByStage)'
      BY <1>2 DEF Prepare, TypeOK, OutcomeByStage, FileByStage, KernelByStage
  <2> QED
      BY <2>1, <2>2, <2>3, <2>4, <2>5, <2>6, <2>7
         DEF TypeOK, WorldTyped, TransactionTyped
<1>3. CASE Write
  <2>1. WorldTyped'
      BY <1>3 DEF Write, TypeOK, WorldTyped
  <2>2. TransactionTyped'
      BY <1>3 DEF Write, TypeOK, TransactionTyped, Stage, Unlocked
  <2>3. (kernel # "up" => tun = "off")'
      BY <1>3 DEF Write, TypeOK
  <2>4. OutcomeByStage'
      BY <1>3 DEF Write, OutcomeByStage
  <2>5. StoreByStage'
      BY <1>3 DEF Write, TypeOK, OutcomeByStage, StoreByStage, FileByStage
  <2>6. FileByStage'
      BY <1>3 DEF Write, TypeOK, OutcomeByStage, StoreByStage, FileByStage
  <2>7. (Undisturbed => KernelByStage)'
      BY <1>3 DEF Write, TypeOK, OutcomeByStage, FileByStage, KernelByStage
  <2> QED
      BY <2>1, <2>2, <2>3, <2>4, <2>5, <2>6, <2>7
         DEF TypeOK, WorldTyped, TransactionTyped
<1>4. CASE Inspect
  <2>1. WorldTyped'
      BY <1>4 DEF Inspect, TypeOK, WorldTyped
  <2>2. TransactionTyped'
      BY <1>4 DEF Inspect, TypeOK, TransactionTyped, Stage, Unlocked
  <2>3. (kernel # "up" => tun = "off")'
      BY <1>4 DEF Inspect, TypeOK
  <2>4. OutcomeByStage'
      BY <1>4 DEF Inspect, OutcomeByStage
  <2>5. StoreByStage'
      BY <1>4 DEF Inspect, TypeOK, OutcomeByStage, StoreByStage, FileByStage
  <2>6. FileByStage'
      BY <1>4 DEF Inspect, TypeOK, OutcomeByStage, StoreByStage, FileByStage
  <2>7. (Undisturbed => KernelByStage)'
      BY <1>4 DEF Inspect, TypeOK, OutcomeByStage, FileByStage, KernelByStage
  <2> QED
      BY <2>1, <2>2, <2>3, <2>4, <2>5, <2>6, <2>7
         DEF TypeOK, WorldTyped, TransactionTyped
<1>5. CASE Reload
  <2>1. WorldTyped'
      BY <1>5 DEF Reload, ReloadHolds, ReloadFails, TypeOK, WorldTyped
  <2>2. TransactionTyped'
      BY <1>5 DEF Reload, ReloadHolds, ReloadFails, TypeOK, TransactionTyped,
                  Stage, Unlocked
  <2>3. (kernel # "up" => tun = "off")'
      BY <1>5 DEF Reload, ReloadHolds, ReloadFails, TypeOK
  <2>4. OutcomeByStage'
      BY <1>5 DEF Reload, ReloadHolds, ReloadFails, OutcomeByStage
  <2>5. StoreByStage'
      BY <1>5 DEF Reload, ReloadHolds, ReloadFails, TypeOK, OutcomeByStage,
                  StoreByStage, FileByStage
  <2>6. FileByStage'
      BY <1>5 DEF Reload, ReloadHolds, ReloadFails, TypeOK, OutcomeByStage,
                  StoreByStage, FileByStage
  <2>7. (Undisturbed => KernelByStage)'
      BY <1>5 DEF Reload, ReloadHolds, ReloadFails, TypeOK, Situation,
                  OutcomeByStage, FileByStage, KernelByStage
  <2> QED
      BY <2>1, <2>2, <2>3, <2>4, <2>5, <2>6, <2>7
         DEF TypeOK, WorldTyped, TransactionTyped
<1>6. CASE Stop
  <2>1. WorldTyped'
      BY <1>6 DEF Stop, TypeOK, WorldTyped
  <2>2. TransactionTyped'
      BY <1>6 DEF Stop, TypeOK, TransactionTyped, Stage, Unlocked
  <2>3. (kernel # "up" => tun = "off")'
      BY <1>6 DEF Stop, TypeOK
  <2>4. OutcomeByStage'
      BY <1>6 DEF Stop, OutcomeByStage
  <2>5. StoreByStage'
      BY <1>6 DEF Stop, TypeOK, OutcomeByStage, StoreByStage, FileByStage
  <2>6. FileByStage'
      BY <1>6 DEF Stop, TypeOK, OutcomeByStage, StoreByStage, FileByStage
  <2>7. (Undisturbed => KernelByStage)'
      BY <1>6 DEF Stop, TypeOK, OutcomeByStage, FileByStage, KernelByStage
  <2> QED
      BY <2>1, <2>2, <2>3, <2>4, <2>5, <2>6, <2>7
         DEF TypeOK, WorldTyped, TransactionTyped
<1>7. CASE Create
  <2>1. WorldTyped'
      BY <1>7 DEF Create, FailsRevive, TypeOK, WorldTyped
  <2>2. TransactionTyped'
      BY <1>7 DEF Create, FailsRevive, TypeOK, TransactionTyped, Stage,
                  Unlocked
  <2>3. (kernel # "up" => tun = "off")'
      BY <1>7 DEF Create, FailsRevive, TypeOK
  <2>4. OutcomeByStage'
      BY <1>7 DEF Create, FailsRevive, OutcomeByStage
  <2>5. StoreByStage'
      BY <1>7 DEF Create, FailsRevive, TypeOK, OutcomeByStage, StoreByStage,
                  FileByStage
  <2>6. FileByStage'
      BY <1>7 DEF Create, FailsRevive, TypeOK, OutcomeByStage, StoreByStage,
                  FileByStage
  <2>7. (Undisturbed => KernelByStage)'
      BY <1>7 DEF Create, FailsRevive, TypeOK, OutcomeByStage, FileByStage,
                  KernelByStage
  <2> QED
      BY <2>1, <2>2, <2>3, <2>4, <2>5, <2>6, <2>7
         DEF TypeOK, WorldTyped, TransactionTyped
<1>8. CASE Start
  <2>1. WorldTyped'
      BY <1>8 DEF Start, Revived, TypeOK, WorldTyped
  <2>2. TransactionTyped'
      BY <1>8 DEF Start, Revived, TypeOK, TransactionTyped, Stage, Unlocked
  <2>3. (kernel # "up" => tun = "off")'
      BY <1>8 DEF Start, Revived, TypeOK
  <2>4. OutcomeByStage'
      BY <1>8 DEF Start, Revived, OutcomeByStage
  <2>5. StoreByStage'
      BY <1>8 DEF Start, Revived, TypeOK, OutcomeByStage, StoreByStage,
                  FileByStage
  <2>6. FileByStage'
      BY <1>8 DEF Start, Revived, TypeOK, OutcomeByStage, StoreByStage,
                  FileByStage
  <2>7. (Undisturbed => KernelByStage)'
      BY <1>8 DEF Start, Revived, TypeOK, Situation, OutcomeByStage,
                  FileByStage, KernelByStage
  <2> QED
      BY <2>1, <2>2, <2>3, <2>4, <2>5, <2>6, <2>7
         DEF TypeOK, WorldTyped, TransactionTyped
<1>9. CASE Rollback
  <2>1. WorldTyped'
      BY <1>9 DEF Rollback, FailsRevive, TypeOK, WorldTyped, Situation
  <2>2. TransactionTyped'
      BY <1>9 DEF Rollback, FailsRevive, TypeOK, TransactionTyped, Stage,
                  Unlocked
  <2>3. (kernel # "up" => tun = "off")'
      BY <1>9 DEF Rollback, FailsRevive, TypeOK
  <2>4. OutcomeByStage'
      BY <1>9 DEF Rollback, FailsRevive, OutcomeByStage
  <2>5. StoreByStage'
      BY <1>9 DEF Rollback, FailsRevive, TypeOK, OutcomeByStage, StoreByStage,
                  FileByStage
  <2>6. FileByStage'
      BY <1>9 DEF Rollback, FailsRevive, TypeOK, OutcomeByStage, StoreByStage,
                  FileByStage
  <2>7. (Undisturbed => KernelByStage)'
      BY <1>9 DEF Rollback, FailsRevive, TypeOK, OutcomeByStage, FileByStage,
                  KernelByStage
  <2> QED
      BY <2>1, <2>2, <2>3, <2>4, <2>5, <2>6, <2>7
         DEF TypeOK, WorldTyped, TransactionTyped
<1>10. CASE Restart
  <2>1. WorldTyped'
      BY <1>10 DEF Restart, Revived, FailsRevive, TypeOK, WorldTyped
  <2>2. TransactionTyped'
      BY <1>10 DEF Restart, Revived, FailsRevive, TypeOK, TransactionTyped,
                   Stage, Unlocked
  <2>3. (kernel # "up" => tun = "off")'
      BY <1>10 DEF Restart, Revived, FailsRevive, TypeOK
  <2>4. OutcomeByStage'
      BY <1>10 DEF Restart, Revived, FailsRevive, OutcomeByStage
  <2>5. StoreByStage'
      BY <1>10 DEF Restart, Revived, FailsRevive, TypeOK, OutcomeByStage,
                   StoreByStage, FileByStage
  <2>6. FileByStage'
      BY <1>10 DEF Restart, Revived, FailsRevive, TypeOK, OutcomeByStage,
                   StoreByStage, FileByStage
  <2>7. (Undisturbed => KernelByStage)'
      BY <1>10 DEF Restart, Revived, FailsRevive, TypeOK, OutcomeByStage,
                   FileByStage, KernelByStage
  <2> QED
      BY <2>1, <2>2, <2>3, <2>4, <2>5, <2>6, <2>7
         DEF TypeOK, WorldTyped, TransactionTyped
<1>11. CASE Retune
  <2>1. WorldTyped'
      BY <1>11 DEF Retune, TypeOK, WorldTyped
  <2>2. TransactionTyped'
      BY <1>11 DEF Retune, TypeOK, TransactionTyped, Stage, Unlocked
  <2>3. (kernel # "up" => tun = "off")'
      BY <1>11 DEF Retune, TypeOK
  <2>4. OutcomeByStage'
      BY <1>11 DEF Retune, OutcomeByStage
  <2>5. StoreByStage'
      BY <1>11 DEF Retune, TypeOK, OutcomeByStage, StoreByStage, FileByStage
  <2>6. FileByStage'
      BY <1>11 DEF Retune, TypeOK, OutcomeByStage, StoreByStage, FileByStage
  <2>7. (Undisturbed => KernelByStage)'
      BY <1>11 DEF Retune, TypeOK, OutcomeByStage, FileByStage, KernelByStage
  <2> QED
      BY <2>1, <2>2, <2>3, <2>4, <2>5, <2>6, <2>7
         DEF TypeOK, WorldTyped, TransactionTyped
<1>12. CASE RetunePut
  <2>1. WorldTyped'
      BY <1>12 DEF RetunePut, ReloadHolds, ReloadFails, TypeOK, WorldTyped
  <2>2. TransactionTyped'
      BY <1>12 DEF RetunePut, ReloadHolds, ReloadFails, TypeOK,
                   TransactionTyped, Stage, Unlocked
  <2>3. (kernel # "up" => tun = "off")'
      BY <1>12 DEF RetunePut, ReloadHolds, ReloadFails, TypeOK
  <2>4. OutcomeByStage'
      BY <1>12 DEF RetunePut, ReloadHolds, ReloadFails, OutcomeByStage
  <2>5. StoreByStage'
      BY <1>12 DEF RetunePut, ReloadHolds, ReloadFails, TypeOK, OutcomeByStage,
                   StoreByStage, FileByStage
  <2>6. FileByStage'
      BY <1>12 DEF RetunePut, ReloadHolds, ReloadFails, TypeOK, OutcomeByStage,
                   StoreByStage, FileByStage
  <2>7. (Undisturbed => KernelByStage)'
      BY <1>12 DEF RetunePut, ReloadHolds, ReloadFails, TypeOK, Situation,
                   OutcomeByStage, FileByStage, KernelByStage
  <2> QED
      BY <2>1, <2>2, <2>3, <2>4, <2>5, <2>6, <2>7
         DEF TypeOK, WorldTyped, TransactionTyped
<1>13. CASE Undo
  <2>1. WorldTyped'
      BY <1>13 DEF Undo, TypeOK, WorldTyped, Situation
  <2>2. TransactionTyped'
      BY <1>13 DEF Undo, TypeOK, TransactionTyped, Stage, Unlocked
  <2>3. (kernel # "up" => tun = "off")'
      BY <1>13 DEF Undo, TypeOK
  <2>4. OutcomeByStage'
      BY <1>13 DEF Undo, OutcomeByStage
  <2>5. StoreByStage'
      BY <1>13 DEF Undo, TypeOK, OutcomeByStage, StoreByStage, FileByStage
  <2>6. FileByStage'
      BY <1>13 DEF Undo, TypeOK, OutcomeByStage, StoreByStage, FileByStage
  <2>7. (Undisturbed => KernelByStage)'
      BY <1>13 DEF Undo, TypeOK, OutcomeByStage, FileByStage, KernelByStage
  <2> QED
      BY <2>1, <2>2, <2>3, <2>4, <2>5, <2>6, <2>7
         DEF TypeOK, WorldTyped, TransactionTyped
<1>14. CASE Acknowledge
  <2>1. WorldTyped'
      BY <1>14 DEF Acknowledge, TypeOK, WorldTyped
  <2>2. TransactionTyped'
      BY <1>14 DEF Acknowledge, TypeOK, TransactionTyped, Stage, Unlocked
  <2>3. (kernel # "up" => tun = "off")'
      BY <1>14 DEF Acknowledge, TypeOK
  <2>4. OutcomeByStage'
      BY <1>14 DEF Acknowledge, OutcomeByStage
  <2>5. StoreByStage'
      BY <1>14 DEF Acknowledge, TypeOK, OutcomeByStage, StoreByStage,
                   FileByStage
  <2>6. FileByStage'
      BY <1>14 DEF Acknowledge, TypeOK, OutcomeByStage, StoreByStage,
                   FileByStage
  <2>7. (Undisturbed => KernelByStage)'
      BY <1>14 DEF Acknowledge, TypeOK, OutcomeByStage, FileByStage,
                   KernelByStage
  <2> QED
      BY <2>1, <2>2, <2>3, <2>4, <2>5, <2>6, <2>7
         DEF TypeOK, WorldTyped, TransactionTyped
<1> QED
    BY <1>1, <1>2, <1>3, <1>4, <1>5, <1>6, <1>7, <1>8, <1>9, <1>10, <1>11,
       <1>12, <1>13, <1>14
       DEF TransactionSteps

\* Every step of a TUN switch, of the kernel and of the application does.
LEMMA OthersKeep ==
  ASSUME ApplyInv,
         \/ \E enabled \in {"on", "off"} : ToggleBegin(enabled)
         \/ ToggleSteps \/ Connect \/ KernelExits \/ Relaunch
         \/ UNCHANGED vars
  PROVE  ApplyInv'
<1> USE SourceAssumption, SituationAssumption
    DEF ApplyInv, TypeOK, OutcomeByStage, StoreByStage, FileByStage,
        KernelByStage, Untouched, Replaced, Stopped, Retuning, Applied,
        Aborted, Stage, Unlocked, Situation, Undisturbed, disk, core,
        transaction, toggling, Forget, KernelIs, KernelStarts, ToggleEnds,
        ToggleGoes, Disturb
<1>1. ASSUME NEW enabled \in {"on", "off"}, ToggleBegin(enabled)
      PROVE  ApplyInv'
    BY <1>1 DEF ToggleBegin
<1>2. CASE ToggleAim
    BY <1>2 DEF ToggleAim
<1>3. CASE TogglePut
    BY <1>3 DEF TogglePut, ReloadHolds, ReloadFails
<1>4. CASE ToggleRelease
    BY <1>4 DEF ToggleRelease
<1>5. CASE Connect
    BY <1>5 DEF Connect
<1>6. CASE KernelExits
    BY <1>6 DEF KernelExits
<1>7. CASE Relaunch
    BY <1>7 DEF Relaunch
<1>8. CASE UNCHANGED vars
    BY <1>8 DEF vars
<1> QED
    BY <1>1, <1>2, <1>3, <1>4, <1>5, <1>6, <1>7, <1>8 DEF ToggleSteps

\* So does every step.
LEMMA ApplyStep == ApplyInv /\ [Next]_vars => ApplyInv'
  BY TransactionKeeps, OthersKeep DEF Next

\* The inductive invariant holds in every reachable state.
LEMMA ApplyInvariance == Spec => []ApplyInv
  BY ApplyInit, ApplyStep, PTL DEF Spec

-----------------------------------------------------------------------------
\* The variables keep their types, and the manager's lock is held in the
\* stages between its inspection and the end of the restart, and there only.
THEOREM ApplyTypeOK == Spec => []TypeOK
<1>1. ApplyInv => TypeOK
    BY DEF ApplyInv
<1> QED
    BY <1>1, ApplyInvariance, PTL

\* A change reported as applied is on disk and served, with TUN as it was,
\* after a reload and after a restart alike.
THEOREM AppliedIsServed == Spec => []AppliedMeansServing
<1>1. ApplyInv => AppliedMeansServing
    BY DEF ApplyInv, AppliedMeansServing, FileByStage, KernelByStage, Applied,
           Undisturbed
<1> QED
    BY <1>1, ApplyInvariance, PTL

\* A change that was refused, or that did not start and was rolled back, has
\* left store, file and kernel as they were, but for the paths that break off
\* halfway.
THEOREM RefusedIsRestored == Spec => []FailedMeansRestored
<1>1. ApplyInv => FailedMeansRestored
    BY DEF ApplyInv, FailedMeansRestored, StoreByStage, FileByStage,
           KernelByStage, Aborted, Undisturbed
<1> QED
    BY <1>1, ApplyInvariance, PTL

\* A transaction that costs the user TUN is reported as ProxyModeLost.
THEOREM LostTunIsReported == Spec => []TunLossReported
<1>1. ApplyInv => TunLossReported
    BY DEF ApplyInv, TypeOK, TunLossReported, OutcomeByStage, KernelByStage,
           Applied, Aborted, Undisturbed
<1> QED
    BY <1>1, ApplyInvariance, PTL

\* A transaction that ends leaves a store that the next launch can load.
THEOREM StoreStaysBootable == Spec => []BootableStore
<1>1. ApplyInv => BootableStore
    BY DEF ApplyInv, BootableStore, StoreByStage
<1> QED
    BY <1>1, ApplyInvariance, PTL

-----------------------------------------------------------------------------
(* The configuration file and its replacement (Settings) *)

\* Induction without an operator: over the least number that is not in a set
LEMMA SetOfAll == ASSUME NEW T, 0 \in T, \A n \in Nat : n \in T => n + 1 \in T PROVE Nat \subseteq T
<1> SUFFICES ASSUME ~(Nat \subseteq T) PROVE FALSE
  OBVIOUS
<1> DEFINE U == Nat \ T
<1>1. U \subseteq Nat /\ U # {}
  OBVIOUS
<1>2. IsWellFoundedOn(OpToRel(<, Nat), Nat)
  BY NatLessThanWellFounded
<1>3. PICK m \in U : \A k \in U : ~(<<k, m>> \in OpToRel(<, Nat))
  BY <1>1, <1>2, WFMin
<1>4. \A k \in U : ~(k < m)
  BY <1>1, <1>3 DEF OpToRel
<1>5. m \in Nat /\ m \notin T /\ m # 0
  OBVIOUS
<1>6. m - 1 \in Nat /\ m - 1 < m
  BY <1>5
<1>7. m - 1 \in T
  BY <1>4, <1>6
<1>8. (m - 1) + 1 \in T
  BY <1>6, <1>7
<1> QED BY <1>5, <1>8

\* What Filter counts
IsKept(f, s, S) ==
  f = [n \in 0..Len(s) |-> IF n = 0 THEN <<>>
                           ELSE IF s[n] \in S THEN Append(f[n - 1], s[n]) ELSE f[n - 1]]

\* Of entries and one file that is none, the entries are read.
LEMMA EntriesAreRead ==
  ASSUME NEW A, NEW s \in Seq(A), NEW S, \A i \in DOMAIN s : s[i] \in S, NEW x, x \notin S
  PROVE  Filter(s \o <<x>>, S) = s
<1> DEFINE w == s \o <<x>>
           n == Len(s)
           f == CHOOSE f : IsKept(f, w, S)
           g == [k \in 0..(n + 1) |-> IF k <= n THEN SubSeq(s, 1, k) ELSE s]
<1>1. n \in Nat /\ Len(w) = n + 1 /\ (\A k \in 1..n : w[k] = s[k] /\ w[k] \in S) /\ w[n + 1] = x
  <2>1. s \in Seq(A \cup {x}) /\ <<x>> \in Seq(A \cup {x}) /\ Len(<<x>>) = 1 /\ <<x>>[1] = x
    OBVIOUS
  <2>2. n \in Nat /\ DOMAIN s = 1..n
    OBVIOUS
  <2>3. Len(w) = n + 1 /\ \A k \in 1..(n + 1) : w[k] = IF k <= n THEN s[k] ELSE <<x>>[k - n]
    BY <2>1
  <2> HIDE DEF n, w
  <2>4. \A k \in 1..n : k \in 1..(n + 1) /\ k <= n
    BY <2>2
  <2>5. n + 1 \in 1..(n + 1) /\ ~(n + 1 <= n) /\ (n + 1) - n = 1
    BY <2>2
  <2>6. w[n + 1] = x
    BY <2>1, <2>3, <2>5
  <2> QED BY <2>2, <2>3, <2>4, <2>6
<1>2. SubSeq(s, 1, 0) = <<>> /\ SubSeq(s, 1, n) = s
      /\ \A k \in 1..n : SubSeq(s, 1, k) = Append(SubSeq(s, 1, k - 1), s[k])
  <2>1. SubSeq(s, 1, 0) = <<>> /\ SubSeq(s, 1, n) = s
    OBVIOUS
  <2>2. ASSUME NEW k \in 1..n PROVE SubSeq(s, 1, k) = Append(SubSeq(s, 1, k - 1), s[k])
    OBVIOUS
  <2> QED BY <2>1, <2>2
<1> HIDE DEF n, w
<1>3. IsKept(g, w, S)
  <2>1. ASSUME NEW k \in 0..(n + 1)
        PROVE  g[k] = IF k = 0 THEN <<>> ELSE IF w[k] \in S THEN Append(g[k - 1], w[k]) ELSE g[k - 1]
    <3>1. CASE k = 0
      BY <1>1, <1>2, <3>1
    <3>2. CASE k \in 1..n
      <4>1. g[k] = SubSeq(s, 1, k) /\ g[k - 1] = SubSeq(s, 1, k - 1)
        BY <1>1, <3>2
      <4> QED BY <1>1, <1>2, <3>2, <4>1
    <3>3. CASE k = n + 1
      <4>1. /\ ~(n + 1 <= n) /\ (n + 1) - 1 = n /\ n <= n /\ n \in 0..(n + 1) /\ n + 1 \in 0..(n + 1)
            /\ n + 1 # 0
        BY <1>1
      <4>2. g[n + 1] = s /\ g[n] = SubSeq(s, 1, n)
        BY <4>1
      <4>3. w[n + 1] \notin S /\ SubSeq(s, 1, n) = s
        BY <1>1, <1>2
      <4> HIDE DEF g
      <4> QED BY <3>3, <4>1, <4>2, <4>3
    <3> QED BY <1>1, <3>1, <3>2, <3>3
  <2>2. g = [k \in 0..(n + 1) |-> g[k]]
    OBVIOUS
  <2> HIDE DEF g
  <2> QED BY <1>1, <2>1, <2>2 DEF IsKept
<1>4. IsKept(f, w, S)
  BY <1>3
<1> HIDE DEF f, g
<1>5. /\ f[0] = <<>>
      /\ \A k \in 1..(n + 1) : f[k] = IF w[k] \in S THEN Append(f[k - 1], w[k]) ELSE f[k - 1]
  <2>1. f = [k \in 0..(n + 1) |-> IF k = 0 THEN <<>>
                                  ELSE IF w[k] \in S THEN Append(f[k - 1], w[k]) ELSE f[k - 1]]
    BY <1>1, <1>4, Zenon DEF IsKept
  <2>2. 0 \in 0..(n + 1) /\ \A k \in 1..(n + 1) : k \in 0..(n + 1) /\ k # 0
    BY <1>1
  <2> QED BY <2>1, <2>2
<1> DEFINE T == {k \in Nat : k <= n => f[k] = SubSeq(s, 1, k)}
<1>6. 0 \in T
  BY <1>2, <1>5
<1>7. ASSUME NEW k \in Nat, k \in T PROVE k + 1 \in T
  <2>1. SUFFICES ASSUME k + 1 <= n PROVE f[k + 1] = SubSeq(s, 1, k + 1)
    OBVIOUS
  <2>2. k <= n /\ k + 1 \in 1..n /\ k + 1 \in 1..(n + 1) /\ (k + 1) - 1 = k
    BY <1>1, <2>1
  <2>3. f[k] = SubSeq(s, 1, k)
    BY <1>7, <2>2
  <2>4. f[k + 1] = Append(f[k], w[k + 1]) /\ w[k + 1] = s[k + 1]
    BY <1>1, <1>5, <2>2
  <2>5. SubSeq(s, 1, k + 1) = Append(SubSeq(s, 1, k), s[k + 1])
    BY <1>2, <2>2
  <2> QED BY <2>3, <2>4, <2>5
<1>8. Nat \subseteq T
  <2> HIDE DEF T
  <2> QED BY <1>6, <1>7, SetOfAll
<1>9. f[n] = s
  BY <1>1, <1>2, <1>8
<1>10. f[n + 1] = s
  <2>1. n + 1 \in 1..(n + 1) /\ (n + 1) - 1 = n
    BY <1>1
  <2> QED BY <1>1, <1>5, <1>9, <2>1
<1>11. Filter(w, S) = f[n + 1]
  BY <1>1 DEF Filter, IsKept, f
<1> QED BY <1>10, <1>11 DEF w

\* Fields that are changed one by one
Shapes ==
  /\ DOMAIN transfer = {"active", "progress", "editor", "preview", "means", "refused", "own"}
  /\ DOMAIN job = {"pc", "new", "previous", "backup", "was"}

\* What the old files hold goes into the document before they are removed, so
\* that without a document they are all there; once the pages are up there are
\* none.
FilesAreTaken ==
  /\ launch = "sweep" => stored.exists
  /\ ~stored.exists =>
       /\ stored.doc = <<>>
       /\ launch \in {"read", "running"} => OldEntries = <<>>
       /\ launch = "running" => EntriesBeside = <<>>

\* What is in the document and in memory at each step of a replacement
ReplacementInv ==
  job.pc # "none" =>
    /\ launch = "running" /\ transfer.active /\ transfer.progress = "Replacing"
    /\ job.was \subseteq wanted
    /\ job.pc \in {"stop", "backup", "replace", "failed"} =>
         marred \/ Config(stored.doc) \in job.was
    /\ job.pc \in {"backup", "replace", "validate", "rollback"} =>
         marred \/ Config(job.previous) \in job.was
    /\ job.pc # "failed" => Config(job.new) \in transfer.means
    /\ transfer.means \subseteq wanted
    /\ job.pc \in {"validate", "done"} => stored = [exists |-> TRUE, doc |-> job.new]
    /\ job.pc = "rollback" => marred \/ Config(stored.doc) \in wanted

SettingsInv == Shapes /\ FilesAreTaken /\ ReplacementInv /\ StoredIsKept

\* With the pages up, the document is what is in effect.
LEMMA DocumentIsInEffect ==
  ASSUME FilesAreTaken, launch = "running" PROVE InEffect = stored.doc
BY DEF FilesAreTaken, InEffect

LEMMA SettingsStart == ASSUME SettingsInit PROVE SettingsInv
<1>1. PICK first \in Firsts :
        /\ \/ stored = [exists |-> TRUE, doc |-> first] /\ files = NoFiles
           \/ /\ stored = [exists |-> FALSE, doc |-> <<>>]
              /\ files \in {[NoFiles EXCEPT !.old = first \o @], [NoFiles EXCEPT !.beside = first \o @]}
        /\ launch = "off" /\ transfer = NoTransfer /\ job = NoJob
        /\ wanted = {Config(first)} /\ marred = FALSE
  BY DEF SettingsInit
<1>2. Shapes
  BY <1>1 DEF Shapes, NoTransfer, NoJob
<1>3. FilesAreTaken /\ ReplacementInv
  BY <1>1 DEF FilesAreTaken, ReplacementInv, NoJob
<1>4. InEffect = first
  <2> DEFINE A == {first[i] : i \in DOMAIN first}
  <2>1. first \in Seq(A) /\ \A i \in DOMAIN first : is_config_entry_name(first[i].name)
    BY SettingsAssumption DEF Parses
  <2>2. ~is_config_entry_name(Stray.name)
    BY DEF is_config_entry_name, Stray
  <2>3. ASSUME NEW s \in Seq(A), \A i \in DOMAIN s : is_config_entry_name(s[i].name)
        PROVE  read_legacy_entries(s \o <<Stray>>) = s
    <3> DEFINE w == s \o <<Stray>>
               S == {e \in {w[i] : i \in DOMAIN w} : is_config_entry_name(e.name)}
    <3>1. Stray \notin S
      BY <2>2
    <3>2. ASSUME NEW i \in DOMAIN s PROVE s[i] \in S
      <4>1. i \in DOMAIN w /\ w[i] = s[i]
        BY <3>2
      <4> QED BY <2>3, <4>1
    <3>3. read_legacy_entries(w) = Filter(w, S)
      BY DEF read_legacy_entries
    <3> HIDE DEF S
    <3>4. Filter(s \o <<Stray>>, S) = s
      BY <3>1, <3>2, EntriesAreRead
    <3> QED BY <3>3, <3>4
  <2>4. read_legacy_entries(first \o <<Stray>>) = first
    BY <2>1, <2>3
  <2>5. read_legacy_entries(<<Stray>>) = <<>>
    <3>1. <<>> \in Seq(A) /\ <<>> \o <<Stray>> = <<Stray>>
      OBVIOUS
    <3>2. \A i \in DOMAIN <<>> : is_config_entry_name(<<>>[i].name)
      OBVIOUS
    <3>3. read_legacy_entries(<<>> \o <<Stray>>) = <<>>
      BY <2>3, <3>1, <3>2, Zenon
    <3> QED BY <3>1, <3>3
  <2>6. CASE stored.exists
    BY <1>1, <2>6 DEF InEffect
  <2>7. CASE ~stored.exists /\ files = [NoFiles EXCEPT !.old = first \o @]
    <3>1. files.old = first \o <<Stray>> /\ files.beside = <<Stray>>
      BY <2>7 DEF NoFiles
    <3> QED BY <2>4, <2>5, <2>7, <3>1 DEF InEffect, OldEntries, EntriesBeside
  <2>8. CASE ~stored.exists /\ files = [NoFiles EXCEPT !.beside = first \o @]
    <3>1. files.old = <<Stray>> /\ files.beside = first \o <<Stray>>
      BY <2>8 DEF NoFiles
    <3> QED BY <2>4, <2>5, <2>8, <3>1 DEF InEffect, OldEntries, EntriesBeside
  <2> QED BY <1>1, <2>6, <2>7, <2>8
<1>5. StoredIsKept
  BY <1>1, <1>4 DEF StoredIsKept
<1> QED BY <1>2, <1>3, <1>5 DEF SettingsInv

\* A launch moves what is in effect, or leaves it.
LEMMA LaunchKeeps == ASSUME SettingsInv, LaunchSteps PROVE SettingsInv'
<1>1. launch # "running" /\ job.pc = "none"
  BY DEF LaunchSteps, FindDataDir, Migrate, SweepOld, load_or_create_document, RemoveBeside,
    LaunchStep, SettingsInv, ReplacementInv
<1>2. UNCHANGED <<transfer, job, wanted, marred>>
  BY DEF LaunchSteps, FindDataDir, Migrate, SweepOld, load_or_create_document, RemoveBeside,
    LaunchStep
<1>3. Shapes' /\ ReplacementInv'
  BY <1>1, <1>2 DEF SettingsInv, Shapes, ReplacementInv
<1>4. FilesAreTaken' /\ InEffect' = InEffect
  <2>1. CASE FindDataDir
    BY <2>1 DEF FindDataDir, LaunchStep, SettingsInv, FilesAreTaken, InEffect, OldEntries, EntriesBeside
  <2>2. CASE Migrate
    BY <2>2 DEF Migrate, LaunchStep, Written, SettingsInv, FilesAreTaken, InEffect, OldEntries, EntriesBeside
  <2>3. CASE SweepOld
    BY <2>3 DEF SweepOld, LaunchStep, SettingsInv, FilesAreTaken, InEffect, OldEntries, EntriesBeside
  <2>4. CASE load_or_create_document
    BY <2>4 DEF load_or_create_document, LaunchStep, Written, SettingsInv, FilesAreTaken, InEffect,
      OldEntries, EntriesBeside
  <2>5. CASE RemoveBeside
    BY <2>5 DEF RemoveBeside, LaunchStep, SettingsInv, FilesAreTaken, InEffect, OldEntries, EntriesBeside
  <2> QED BY <2>1, <2>2, <2>3, <2>4, <2>5 DEF LaunchSteps
<1>5. StoredIsKept'
  BY <1>2, <1>4 DEF SettingsInv, StoredIsKept
<1> QED BY <1>3, <1>4, <1>5 DEF SettingsInv

LEMMA PageKeeps == ASSUME SettingsInv, Pages PROVE SettingsInv'
<1>1. PICK doc : Page /\ Written(doc) /\ wanted' = {Config(doc)}
  BY DEF Pages, WriteEntry, RemoveEntry
<1>2. job.pc = "none" /\ launch = "running" /\ UNCHANGED <<files, launch, transfer, job>>
  BY <1>1 DEF Page, SettingsInv, ReplacementInv
<1>3. stored' = [exists |-> TRUE, doc |-> doc]
  BY <1>1 DEF Written
<1>4. InEffect' = doc
  BY <1>3 DEF InEffect
<1>5. Shapes' /\ FilesAreTaken' /\ ReplacementInv'
  BY <1>2, <1>3 DEF SettingsInv, Shapes, FilesAreTaken, ReplacementInv
<1> QED BY <1>1, <1>4, <1>5 DEF SettingsInv, StoredIsKept

\* The editor changes nothing but the text that it shows.
LEMMA EditorKeeps == ASSUME SettingsInv, EditorSteps PROVE SettingsInv'
<1>1. job.pc = "none" /\ UNCHANGED job /\ UNCHANGED marred
  BY DEF EditorSteps, edit_configuration, EditorLoads, SetMode, RenameGroup, RemoveGroup,
    replace_configuration_from_clipboard, preview_configuration_edits,
    finish_configuration_preview, resume_configuration_editing,
    cancel_configuration_transfer, Types, Waits, NoJob, SettingsInv, ReplacementInv
<1> DEFINE Fields == {"active", "progress", "editor", "preview", "means", "refused", "own"}
           Edits == UNCHANGED <<stored, files, launch, wanted>> /\ DOMAIN transfer' = Fields
<1>2. DOMAIN transfer = Fields /\ DOMAIN NoTransfer = Fields
  BY DEF SettingsInv, Shapes, NoTransfer
<1>3. Edits
  <2> HIDE DEF Fields
  <2>1. ASSUME NEW text, NEW means, Types(text, means) PROVE Edits
    BY <1>2, <2>1 DEF Types, Editing
  <2>2. CASE edit_configuration
    BY <1>2, <2>2 DEF edit_configuration, Editing
  <2>3. CASE EditorLoads
    BY <1>2, <2>3 DEF EditorLoads, Editing
  <2>4. CASE SetMode \/ RenameGroup \/ RemoveGroup
    <3> HIDE DEF Edits
    <3>1. \E text, means : Types(text, means)
      BY <2>4 DEF SetMode, RenameGroup, RemoveGroup
    <3> QED BY <2>1, <3>1
  <2>5. CASE replace_configuration_from_clipboard
    BY <1>2, <2>5 DEF replace_configuration_from_clipboard, Editing
  <2>6. CASE preview_configuration_edits
    BY <1>2, <2>6 DEF preview_configuration_edits, Editing
  <2>7. CASE finish_configuration_preview
    <3>1. \/ \E refused, preview : Editing([transfer EXCEPT !.progress = "Idle", !.refused = refused,
                                                          !.preview = preview])
          \/ Editing([transfer EXCEPT !.progress = "Idle"])
      BY <2>7, Zenon DEF finish_configuration_preview
    <3> QED BY <1>2, <3>1 DEF Editing
  <2>8. CASE resume_configuration_editing \/ cancel_configuration_transfer
    BY <1>2, <2>8 DEF resume_configuration_editing, cancel_configuration_transfer, Editing
  <2> QED BY <2>2, <2>3, <2>4, <2>5, <2>6, <2>7, <2>8 DEF EditorSteps
<1>4. Shapes'
  BY <1>1, <1>3 DEF SettingsInv, Shapes, NoTransfer
<1>5. FilesAreTaken' /\ ReplacementInv' /\ StoredIsKept'
  BY <1>1, <1>3 DEF SettingsInv, FilesAreTaken, ReplacementInv, StoredIsKept, InEffect, OldEntries,
    EntriesBeside
<1> QED BY <1>4, <1>5 DEF SettingsInv

\* A step of the worker
LEMMA WorkerKeeps ==
  ASSUME SettingsInv, StopAndRead \/ backup_current_store \/ replace_source \/ validate_store \/ RollBack
  PROVE  SettingsInv'
<1>1. job.pc # "none" /\ UNCHANGED <<files, launch, transfer, wanted>>
  BY DEF StopAndRead, backup_current_store, replace_source, validate_store, RollBack, Worker
<1>2. launch = "running" /\ launch' = "running"
  BY <1>1 DEF SettingsInv, ReplacementInv
<1>3. marred \/ Config(stored.doc) \in wanted
  BY <1>2, DocumentIsInEffect DEF SettingsInv, StoredIsKept
<1>4. Shapes' /\ ReplacementInv' /\ (marred' \/ Config(stored'.doc) \in wanted')
  <2>1. CASE StopAndRead
    BY <1>1, <1>3, <2>1 DEF StopAndRead, Worker, Fails, SettingsInv, Shapes, ReplacementInv
  <2>2. CASE backup_current_store
    BY <1>1, <1>3, <2>2 DEF backup_current_store, Worker, Fails, SettingsInv, Shapes, ReplacementInv
  <2>3. CASE replace_source
    BY <1>1, <1>3, <2>3 DEF replace_source, Worker, Written, SettingsInv, Shapes, ReplacementInv
  <2>4. CASE validate_store
    BY <1>1, <1>3, <2>4 DEF validate_store, Worker, SettingsInv, Shapes, ReplacementInv
  <2>5. CASE RollBack
    BY <1>1, <1>3, <2>5 DEF RollBack, Worker, Fails, Written, SettingsInv, Shapes, ReplacementInv
  <2> QED BY <2>1, <2>2, <2>3, <2>4, <2>5
<1>5. FilesAreTaken'
  <2>1. stored' = stored \/ stored'.exists
    BY DEF StopAndRead, backup_current_store, replace_source, validate_store, RollBack, Written
  <2> QED BY <1>1, <2>1 DEF SettingsInv, FilesAreTaken, OldEntries, EntriesBeside
<1>6. StoredIsKept'
  <2>1. InEffect' = stored'.doc
    BY <1>2, <1>5 DEF FilesAreTaken, InEffect
  <2> QED BY <1>4, <2>1 DEF StoredIsKept
<1> QED BY <1>4, <1>5, <1>6 DEF SettingsInv

\* A replacement starts with what was typed, if the text is understood.
LEMMA ReplacementStarts ==
  ASSUME SettingsInv, TextsAreUnderstood, replace_configuration PROVE SettingsInv'
<1> DEFINE new == transfer.preview[1]
           means == IF Lossy(transfer.editor) THEN {Config(new)} ELSE transfer.means
<1>1. /\ Waits /\ transfer.preview # <<>> /\ launch = "running"
      /\ job' = [pc |-> "stop", new |-> new, previous |-> <<>>, backup |-> <<>>, was |-> wanted]
      /\ transfer' = [transfer EXCEPT !.progress = "Replacing", !.preview = <<>>,
                                      !.editor = NoText, !.own = FALSE, !.means = means]
      /\ wanted' = wanted \union means
      /\ UNCHANGED <<stored, files, launch, marred>>
  BY DEF replace_configuration
<1>2. Config(new) \in means
  BY <1>1 DEF TextsAreUnderstood
<1> HIDE DEF new, means
<1>3. Shapes'
  BY <1>1 DEF SettingsInv, Shapes
<1>4. FilesAreTaken' /\ InEffect' = InEffect
  BY <1>1 DEF SettingsInv, FilesAreTaken, InEffect, OldEntries, EntriesBeside
<1>5. StoredIsKept'
  BY <1>1, <1>4 DEF SettingsInv, StoredIsKept
<1>6. transfer'.means = means /\ transfer'.progress = "Replacing" /\ transfer'.active = transfer.active
  BY <1>1 DEF SettingsInv, Shapes
<1>7. marred \/ Config(stored.doc) \in wanted
  BY <1>1, DocumentIsInEffect DEF SettingsInv, StoredIsKept
<1>8. ReplacementInv'
  BY <1>1, <1>2, <1>6, <1>7 DEF ReplacementInv, Waits
<1> QED BY <1>3, <1>4, <1>5, <1>8 DEF SettingsInv

LEMMA ReplacementEnds == ASSUME SettingsInv, finish_configuration_replacement PROVE SettingsInv'
<1>1. UNCHANGED <<stored, files, marred>> /\ job' = NoJob
  BY DEF finish_configuration_replacement
<1>2. ReplacementInv'
  BY <1>1 DEF ReplacementInv, NoJob
<1>3. Shapes'
  BY <1>1 DEF finish_configuration_replacement, SettingsInv, Shapes, NoJob, NoTransfer
<1>4. FilesAreTaken' /\ InEffect' = InEffect
  BY <1>1 DEF finish_configuration_replacement, SettingsInv, FilesAreTaken, InEffect, OldEntries,
    EntriesBeside
<1>5. InEffect = stored.doc
  BY DocumentIsInEffect DEF finish_configuration_replacement, SettingsInv, ReplacementInv
<1>6. marred \/ Config(stored.doc) \in wanted'
  <2>1. CASE job.pc = "done"
    BY <2>1 DEF finish_configuration_replacement, SettingsInv, ReplacementInv
  <2>2. CASE job.pc = "failed"
    BY <2>2 DEF finish_configuration_replacement, SettingsInv, ReplacementInv
  <2> QED BY <2>1, <2>2 DEF finish_configuration_replacement
<1>7. StoredIsKept'
  BY <1>1, <1>4, <1>5, <1>6 DEF StoredIsKept
<1> QED BY <1>2, <1>3, <1>4, <1>7 DEF SettingsInv

\* The application can end at any of these steps.
LEMMA EndKeeps == ASSUME SettingsInv, End PROVE SettingsInv'
BY DEF End, SettingsInv, Shapes, FilesAreTaken, ReplacementInv, StoredIsKept, InEffect, OldEntries,
  EntriesBeside, NoJob, NoTransfer

LEMMA SettingsStep == SettingsInv /\ TextsAreUnderstood /\ [SettingsNext]_settingsVars => SettingsInv'
<1> SUFFICES ASSUME SettingsInv, TextsAreUnderstood, [SettingsNext]_settingsVars PROVE SettingsInv'
  OBVIOUS
<1>1. CASE UNCHANGED settingsVars
  BY <1>1 DEF settingsVars, SettingsInv, Shapes, FilesAreTaken, ReplacementInv, StoredIsKept, InEffect,
    OldEntries, EntriesBeside
<1> QED BY <1>1, LaunchKeeps, EndKeeps, PageKeeps, EditorKeeps, ReplacementStarts, WorkerKeeps,
           ReplacementEnds DEF SettingsNext, Replacement

\* The configuration that was written last is in effect after every launch, at
\* whatever step the application has ended, and while it is replaced the one
\* before or the one typed, provided that the editor understands its texts.
THEOREM SettingsAreKept == SettingsSpec /\ []TextsAreUnderstood => []StoredIsKept
<1>1. SettingsInit => SettingsInv
  BY SettingsStart
<1>2. SettingsInv /\ TextsAreUnderstood /\ [SettingsNext]_settingsVars => SettingsInv'
  BY SettingsStep
<1>3. SettingsInv => StoredIsKept
  BY DEF SettingsInv
<1> QED BY <1>1, <1>2, <1>3, PTL DEF SettingsSpec
=============================================================================
