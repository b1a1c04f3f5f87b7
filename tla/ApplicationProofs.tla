------------------------- MODULE ApplicationProofs --------------------------
(*****************************************************************************)
(* The application as a program, and its node tests. For every set of        *)
(* versions and any number of overlapping tasks: a busy state has a task     *)
(* that will end it, and what is installed is what was offered and newer     *)
(* than what runs. For any number of launches: one holds the lock, and       *)
(* each is answered by a window. For every set of groups and sources: a      *)
(* node test whose group was edited leaves no result, and partial results    *)
(* are the active test's.                                                    *)
(*                                                                           *)
(* Of an installation nothing is known but the state and the package, so     *)
(* UpdateInv follows the versions there: from the release that a check       *)
(* found, through the states that checks and downloads remember, to the      *)
(* contents of the package files.                                            *)
(*                                                                           *)
(* NoLaunchIsLost speaks of launches that have ended; Unanswered follows     *)
(* the others there: a request is under its temporary or its final name      *)
(* until a window answers all of them, and a launch that stops looking has   *)
(* outlasted what an owner that quits can take (LooksAreCounted, and at      *)
(* least three looks).                                                       *)
(*                                                                           *)
(* OldResultsAreDropped relates two states. Its invariant says that a        *)
(* running result is the active test's and was not edited since              *)
(* (RunningIsActive), and that a poll with the active test's identity,       *)
(* which may be in use again, asks for that test's source (PollsAreOwn).     *)
(*****************************************************************************)
EXTENDS AppUpdate, Instance, Benchmarks, TLAPS

(* The application's update                                                *)
IsNewer(v) == v # NoUpdate => v > Installed

\* Every version that is shown, remembered or on its way is newer.
OffersAreNewer ==
  /\ IsNewer(state.update)
  /\ \A j \in Job :
       /\ IsCheck(j) => IsNewer(job[j].found) /\ IsNewer(job[j].previous.update)
       /\ IsDownload(j) => IsNewer(job[j].update)

\* A download carries the bytes of its own version, and a package file holds
\* those of the version it is named for, or is not complete.
BytesMatchNames ==
  /\ \A j \in Job : IsDownload(j) => job[j].bytes \in {NoUpdate, job[j].update}
  /\ \A v \in Release : package[v] \in {NoUpdate, v}

UpdateInv ==
  /\ UpdateTypes
  /\ BusyHasWorker
  /\ OffersAreNewer
  /\ BytesMatchNames

-----------------------------------------------------------------------------
\* The initial states satisfy the inductive invariant.
LEMMA UpdateStarts == UpdateInit => UpdateInv
  BY VersionAssumption
     DEF UpdateInit, UpdateInv, UpdateTypes, BusyHasWorker, OffersAreNewer, IsNewer,
         BytesMatchNames, State, Plain, IsCheck, IsDownload

\* Every step of a task, an installation and a publication keep it.
LEMMA UpdateStep == UpdateInv /\ [UpdateNext]_updateVars => UpdateInv'
<1> SUFFICES ASSUME UpdateInv, [UpdateNext]_updateVars
             PROVE  UpdateInv'
    OBVIOUS
<1> USE VersionAssumption, NoJobAssumption
    DEF UpdateInv, UpdateTypes, BusyHasWorker, OffersAreNewer, IsNewer,
        BytesMatchNames, State, Plain, With, IsCheck, IsDownload, Checks,
        Downloads, Ends
<1>1. ASSUME NEW j \in Job, Check(j)
      PROVE  UpdateInv'
    BY <1>1 DEF Check
<1>2. ASSUME NEW j \in Job, CheckReads(j)
      PROVE  UpdateInv'
    BY <1>2 DEF CheckReads, RequestFails, Select
<1>3. ASSUME NEW j \in Job, FinishCheck(j)
      PROVE  UpdateInv'
    BY <1>3 DEF FinishCheck, AfterFailure
<1>4. ASSUME NEW j \in Job, StartDownload(j)
      PROVE  UpdateInv'
    BY <1>4 DEF StartDownload
<1>5. ASSUME NEW j \in Job, Fetch(j)
      PROVE  UpdateInv'
    BY SMTT(30), <1>5 DEF Fetch, RequestFails, Verified, DownloadAt
<1>6. ASSUME NEW j \in Job, OpenPackage(j)
      PROVE  UpdateInv'
    BY SMTT(30), <1>6 DEF OpenPackage, DownloadAt
<1>7. ASSUME NEW j \in Job, FillPackage(j)
      PROVE  UpdateInv'
    BY <1>7 DEF FillPackage, DownloadAt
<1>8. ASSUME NEW j \in Job, FinishDownload(j)
      PROVE  UpdateInv'
    BY <1>8 DEF FinishDownload, DownloadAt
<1>9. CASE Install
    BY <1>9 DEF Install, Swap
<1>10. ASSUME NEW v \in Release, Publish(v)
       PROVE  UpdateInv'
    BY <1>10 DEF Publish
<1>11. CASE UNCHANGED updateVars
    BY <1>11 DEF updateVars
<1> QED
    BY <1>1, <1>2, <1>3, <1>4, <1>5, <1>6, <1>7, <1>8, <1>9, <1>10, <1>11
       DEF UpdateNext, CheckSteps, DownloadSteps

\* The inductive invariant holds in every reachable state.
LEMMA UpdateInvariance == UpdateSpec => []UpdateInv
  BY UpdateStarts, UpdateStep, PTL DEF UpdateSpec

-----------------------------------------------------------------------------
\* The variables keep their types, however many tasks overlap.
THEOREM UpdateTypeOK == UpdateSpec => []UpdateTypes
<1>1. UpdateInv => UpdateTypes
    BY DEF UpdateInv
<1> QED
    BY <1>1, UpdateInvariance, PTL

\* Checking and Downloading are shown only while a task of that kind, and for
\* that version, is still to bring its result.
THEOREM BusyStateHasWorker == UpdateSpec => []BusyHasWorker
<1>1. UpdateInv => BusyHasWorker
    BY DEF UpdateInv
<1> QED
    BY <1>1, UpdateInvariance, PTL

\* What is installed is the version that was offered, and an update.
THEOREM OfferIsInstalled == UpdateSpec => InstallsTheOffer
<1>1. UpdateInv /\ [UpdateNext]_updateVars =>
        [installed' # installed => /\ installed' = state.update
                                   /\ installed' > Installed]_updateVars
  <2> SUFFICES ASSUME UpdateInv, [UpdateNext]_updateVars, installed' # installed
               PROVE  installed' = state.update /\ installed' > Installed
      OBVIOUS
  <2>1. Install
      BY DEF UpdateNext, updateVars, Check, CheckSteps, CheckReads, FinishCheck,
             StartDownload, DownloadSteps, Fetch, RequestFails, OpenPackage, FillPackage,
             FinishDownload, Publish
  <2>2. package[state.update] \in Release /\ installed' = package[state.update]
      BY <2>1 DEF Install, Swap
  <2>3. state.update \in Release
      BY <2>1 DEF Install, Swap, UpdateInv, UpdateTypes, State
  <2>4. installed' = state.update
      BY <2>2, <2>3, VersionAssumption DEF UpdateInv, BytesMatchNames
  <2> QED
      BY <2>3, <2>4, VersionAssumption DEF UpdateInv, OffersAreNewer, IsNewer
<1> QED
    BY <1>1, UpdateInvariance, PTL DEF UpdateSpec, InstallsTheOffer

-----------------------------------------------------------------------------
(* Single instance                                                         *)
LaunchStages ==
  {"unborn", "asking", "naming", "waiting", "opening", "running", "quitting", "done"}
LaunchesTyped ==
  /\ stage \in [Launches -> LaunchStages] /\ rechecks \in [Launches -> 0 .. MaxRechecks]
  /\ unseen \subseteq Launches /\ slips \subseteq Launches
DirectoryTyped == temporary \subseteq Launches /\ requests \subseteq Launches
ShellTyped ==
  /\ window \in BOOLEAN /\ hosted \in BOOLEAN /\ hides \in BOOLEAN
  /\ clicks \subseteq {"show", "quit"}
InstanceTypeOK == LaunchesTyped /\ DirectoryTyped /\ ShellTyped

OneOwner == \A l, m \in Owners : l = m

\* Launches that the code has to answer, and where their requests are until the
\* owner's new window answers all of them.
Waits == unseen \ slips
OpeningSoon == Owned("opening")
Unanswered ==
  \A l \in Waits :
    /\ stage[l] \notin {"unborn", "running", "quitting"}
    /\ stage[l] = "naming" => l \in temporary \/ OpeningSoon
    /\ stage[l] = "waiting" => l \in requests \/ OpeningSoon
    /\ stage[l] = "waiting" /\ rechecks[l] = MaxRechecks => OpeningSoon
    /\ stage[l] = "done" => OpeningSoon

\* Nobody looks again before it has tried to leave a request.
LooksAreCounted ==
  \A l \in Launches : stage[l] \in {"unborn", "asking", "naming"} => rechecks[l] = 0

InstanceInv == InstanceTypeOK /\ OneOwner /\ LooksAreCounted /\ Unanswered

\* Every step of a launch or of the owner keeps the invariant.
LEMMA InstanceNextInv == InstanceInv /\ [InstanceNext]_instanceVars => InstanceInv'
<1> SUFFICES ASSUME InstanceInv, [InstanceNext]_instanceVars PROVE InstanceInv'
  OBVIOUS
<1> USE DEF InstanceInv
<1>1. ASSUME NEW l \in Launches, LaunchAgain(l) PROVE InstanceInv'
  <2>1. InstanceTypeOK'
    BY <1>1, InstanceAssumption DEF LaunchAgain, InstanceTypeOK, BecomePrimary, Becomes,
      Owners, shell, DirectoryTyped, LaunchesTyped, ShellTyped, LaunchStages
  <2>2. OneOwner' /\ LooksAreCounted'
    BY <1>1, InstanceAssumption DEF LaunchAgain, OneOwner, LooksAreCounted,
      LaunchesTyped, InstanceTypeOK, BecomePrimary, Becomes, Owners, shell,
      LaunchStages, DirectoryTyped, ShellTyped
  <2>3. Unanswered'
    BY <1>1, InstanceAssumption DEF LaunchAgain, Unanswered, InstanceTypeOK, OneOwner,
      LooksAreCounted, BecomePrimary, Becomes, Owners, shell, OpeningSoon, Waits,
      DirectoryTyped, LaunchesTyped, ShellTyped, Owned, LaunchStages
  <2> QED
    BY <2>1, <2>2, <2>3
<1>2. ASSUME NEW l \in Launches, RequestActivation(l) PROVE InstanceInv'
  <2>1. InstanceTypeOK'
    BY <1>2, InstanceAssumption DEF RequestActivation, InstanceTypeOK, Becomes, shell,
      DirectoryTyped, LaunchesTyped, ShellTyped, LaunchStages
  <2>2. OneOwner' /\ LooksAreCounted'
    BY <1>2, InstanceAssumption DEF RequestActivation, OneOwner, LooksAreCounted,
      LaunchesTyped, InstanceTypeOK, Becomes, shell, Owners, LaunchStages,
      DirectoryTyped, ShellTyped
  <2>3. Unanswered'
    BY <1>2, InstanceAssumption DEF RequestActivation, Unanswered, InstanceTypeOK,
      OneOwner, LooksAreCounted, Becomes, shell, OpeningSoon, Waits, DirectoryTyped,
      LaunchesTyped, ShellTyped, Owners, Owned, LaunchStages
  <2> QED
    BY <2>1, <2>2, <2>3
<1>3. ASSUME NEW l \in Launches, NameRequest(l) PROVE InstanceInv'
  <2>1. InstanceTypeOK'
    BY <1>3, InstanceAssumption DEF NameRequest, InstanceTypeOK, Becomes, shell,
      DirectoryTyped, LaunchesTyped, ShellTyped, LaunchStages
  <2>2. OneOwner' /\ LooksAreCounted'
    BY <1>3, InstanceAssumption DEF NameRequest, OneOwner, LooksAreCounted,
      LaunchesTyped, InstanceTypeOK, Becomes, shell, Owners, LaunchStages,
      DirectoryTyped, ShellTyped
  <2>3. Unanswered'
    BY <1>3, InstanceAssumption DEF NameRequest, Unanswered, InstanceTypeOK, OneOwner,
      LooksAreCounted, Becomes, shell, OpeningSoon, Waits, DirectoryTyped,
      LaunchesTyped, ShellTyped, Owners, Owned, LaunchStages
  <2> QED
    BY <2>1, <2>2, <2>3
<1>4. ASSUME NEW l \in Launches, Recheck(l) PROVE InstanceInv'
  <2>1. InstanceTypeOK'
    <3>1. CASE BecomePrimary(l) /\ UNCHANGED <<rechecks, slips>>
      BY <1>4, <3>1 DEF Recheck, BecomePrimary, Becomes, InstanceTypeOK, DirectoryTyped,
        LaunchesTyped, ShellTyped, LaunchStages
    <3>2. CASE rechecks' = [rechecks EXCEPT ![l] = @ + 1] /\ UNCHANGED <<stage, temporary,
               requests, shell>>
      <4>1. rechecks[l] + 1 \in 0 .. MaxRechecks
        BY <1>4, InstanceAssumption DEF Recheck, InstanceTypeOK, LaunchesTyped
      <4>2. rechecks' \in [Launches -> 0 .. MaxRechecks]
        BY <3>2, <4>1 DEF InstanceTypeOK, LaunchesTyped
      <4>3. slips' \subseteq Launches
        BY <1>4 DEF Recheck, InstanceTypeOK, LaunchesTyped
      <4> QED
        BY <1>4, <3>2, <4>2, <4>3 DEF Recheck, shell, InstanceTypeOK, DirectoryTyped,
          LaunchesTyped, ShellTyped
    <3> QED BY <1>4, <3>1, <3>2 DEF Recheck
  <2>2. OneOwner' /\ LooksAreCounted'
    BY <1>4, InstanceAssumption DEF Recheck, OneOwner, LooksAreCounted, LaunchesTyped,
      InstanceTypeOK, BecomePrimary, Owned, Owners, shell, LaunchStages, DirectoryTyped,
      ShellTyped, Becomes
  <2>3. Unanswered'
    BY <1>4, InstanceAssumption DEF Recheck, Unanswered, InstanceTypeOK, OneOwner,
      LooksAreCounted, BecomePrimary, Owned, Owners, shell, OpeningSoon, Waits,
      DirectoryTyped, LaunchesTyped, ShellTyped, Becomes, LaunchStages
  <2> QED
    BY <2>1, <2>2, <2>3
<1>5. ASSUME NEW l \in Launches, GiveUp(l) PROVE InstanceInv'
  <2>1. InstanceTypeOK'
    BY <1>5, InstanceAssumption DEF GiveUp, InstanceTypeOK, Becomes, shell,
      DirectoryTyped, LaunchesTyped, ShellTyped, LaunchStages
  <2>2. OneOwner' /\ LooksAreCounted'
    BY <1>5, InstanceAssumption DEF GiveUp, OneOwner, LooksAreCounted, LaunchesTyped,
      InstanceTypeOK, Becomes, shell, Owners, LaunchStages, DirectoryTyped, ShellTyped
  <2>3. Unanswered'
    BY <1>5, InstanceAssumption DEF GiveUp, Unanswered, InstanceTypeOK, OneOwner,
      LooksAreCounted, Becomes, shell, OpeningSoon, Waits, DirectoryTyped,
      LaunchesTyped, ShellTyped, Owners, Owned, LaunchStages
  <2> QED
    BY <2>1, <2>2, <2>3
<1>6. ASSUME NEW l \in Launches, OpenWindow(l) PROVE InstanceInv'
  <2>1. InstanceTypeOK'
    BY <1>6, InstanceAssumption DEF OpenWindow, InstanceTypeOK, Becomes, DirectoryTyped,
      LaunchesTyped, ShellTyped, LaunchStages
  <2>2. OneOwner' /\ LooksAreCounted'
    BY <1>6, InstanceAssumption DEF OpenWindow, OneOwner, LooksAreCounted,
      LaunchesTyped, InstanceTypeOK, Becomes, Owners, LaunchStages, DirectoryTyped,
      ShellTyped
  <2>3. Unanswered'
    BY <1>6, InstanceAssumption DEF OpenWindow, Unanswered, InstanceTypeOK, OneOwner,
      LooksAreCounted, Becomes, OpeningSoon, Waits, DirectoryTyped, LaunchesTyped,
      ShellTyped, Owners, Owned, LaunchStages
  <2> QED
    BY <2>1, <2>2, <2>3
<1>7. ASSUME NEW l \in Launches, TakeRequests(l) PROVE InstanceInv'
  <2>1. InstanceTypeOK'
    BY <1>7, InstanceAssumption DEF TakeRequests, InstanceTypeOK, Show, DirectoryTyped,
      LaunchesTyped, ShellTyped, LaunchStages
  <2>2. OneOwner' /\ LooksAreCounted'
    BY <1>7, InstanceAssumption DEF TakeRequests, OneOwner, LooksAreCounted,
      LaunchesTyped, InstanceTypeOK, Show, Owners, LaunchStages, DirectoryTyped,
      ShellTyped
  <2>3. Unanswered'
    BY <1>7, InstanceAssumption DEF TakeRequests, Unanswered, InstanceTypeOK, OneOwner,
      LooksAreCounted, Show, OpeningSoon, Waits, DirectoryTyped, LaunchesTyped,
      ShellTyped, Owners, Owned, LaunchStages
  <2> QED
    BY <2>1, <2>2, <2>3
<1>8. ASSUME NEW l \in Launches, Drain(l) PROVE InstanceInv'
  <2>1. InstanceTypeOK'
    BY <1>8, InstanceAssumption DEF Drain, InstanceTypeOK, Becomes, Show,
      DirectoryTyped, LaunchesTyped, ShellTyped, LaunchStages
  <2>2. OneOwner' /\ LooksAreCounted'
    BY <1>8, InstanceAssumption DEF Drain, OneOwner, LooksAreCounted, LaunchesTyped,
      InstanceTypeOK, Becomes, Show, Owners, LaunchStages, DirectoryTyped, ShellTyped
  <2>3. Unanswered'
    BY <1>8, InstanceAssumption DEF Drain, Unanswered, InstanceTypeOK, OneOwner,
      LooksAreCounted, Becomes, Show, OpeningSoon, Waits, DirectoryTyped, LaunchesTyped,
      ShellTyped, Owners, Owned, LaunchStages
  <2> QED
    BY <2>1, <2>2, <2>3
<1>9. ASSUME NEW l \in Launches, CloseWindow(l) PROVE InstanceInv'
  <2>1. InstanceTypeOK'
    BY <1>9, InstanceAssumption DEF CloseWindow, InstanceTypeOK, Becomes,
      DirectoryTyped, LaunchesTyped, ShellTyped, LaunchStages
  <2>2. OneOwner' /\ LooksAreCounted'
    BY <1>9, InstanceAssumption DEF CloseWindow, OneOwner, LooksAreCounted,
      LaunchesTyped, InstanceTypeOK, Becomes, Owners, LaunchStages, DirectoryTyped,
      ShellTyped
  <2>3. Unanswered'
    BY <1>9, InstanceAssumption DEF CloseWindow, Unanswered, InstanceTypeOK, OneOwner,
      LooksAreCounted, Becomes, OpeningSoon, Waits, DirectoryTyped, LaunchesTyped,
      ShellTyped, Owners, Owned, LaunchStages
  <2> QED
    BY <2>1, <2>2, <2>3
<1>10. ASSUME NEW l \in Launches, OwnerEnds(l) PROVE InstanceInv'
  <2>1. InstanceTypeOK'
    BY <1>10, InstanceAssumption DEF OwnerEnds, InstanceTypeOK, Becomes, Owners,
      DirectoryTyped, LaunchesTyped, ShellTyped, LaunchStages
  <2>2. OneOwner' /\ LooksAreCounted'
    BY <1>10, InstanceAssumption DEF OwnerEnds, OneOwner, LooksAreCounted,
      LaunchesTyped, InstanceTypeOK, Becomes, Owners, LaunchStages, DirectoryTyped,
      ShellTyped
  <2>3. Unanswered'
    BY <1>10, InstanceAssumption DEF OwnerEnds, Unanswered, InstanceTypeOK, OneOwner,
      LooksAreCounted, Becomes, Owners, OpeningSoon, Waits, DirectoryTyped,
      LaunchesTyped, ShellTyped, Owned, LaunchStages
  <2> QED
    BY <2>1, <2>2, <2>3
<1>11. CASE ClickItem
  <2>1. InstanceTypeOK'
    BY <1>11, InstanceAssumption DEF ClickItem, InstanceTypeOK, Owned, DirectoryTyped,
      LaunchesTyped, ShellTyped, Owners, LaunchStages
  <2>2. OneOwner' /\ LooksAreCounted'
    BY <1>11, InstanceAssumption DEF ClickItem, OneOwner, LooksAreCounted,
      LaunchesTyped, InstanceTypeOK, Owned, Owners, LaunchStages, DirectoryTyped,
      ShellTyped
  <2>3. Unanswered'
    BY <1>11, InstanceAssumption DEF ClickItem, Unanswered, InstanceTypeOK, OneOwner,
      LooksAreCounted, Owned, OpeningSoon, Waits, DirectoryTyped, LaunchesTyped,
      ShellTyped, Owners, LaunchStages
  <2> QED
    BY <2>1, <2>2, <2>3
<1>12. CASE HostChanges
  <2>1. InstanceTypeOK'
    BY <1>12, InstanceAssumption DEF HostChanges, InstanceTypeOK, DirectoryTyped,
      LaunchesTyped, ShellTyped, LaunchStages
  <2>2. OneOwner' /\ LooksAreCounted'
    BY <1>12, InstanceAssumption DEF HostChanges, OneOwner, LooksAreCounted,
      LaunchesTyped, InstanceTypeOK, Owners, LaunchStages, DirectoryTyped, ShellTyped
  <2>3. Unanswered'
    BY <1>12, InstanceAssumption DEF HostChanges, Unanswered, InstanceTypeOK, OneOwner,
      LooksAreCounted, OpeningSoon, Waits, DirectoryTyped, LaunchesTyped, ShellTyped,
      Owners, Owned, LaunchStages
  <2> QED
    BY <2>1, <2>2, <2>3
<1>13. CASE UNCHANGED instanceVars
  <2>1. InstanceTypeOK'
    BY <1>13, InstanceAssumption DEF instanceVars, InstanceTypeOK, DirectoryTyped,
      LaunchesTyped, ShellTyped, LaunchStages
  <2>2. OneOwner' /\ LooksAreCounted'
    BY <1>13, InstanceAssumption DEF instanceVars, OneOwner, LooksAreCounted,
      LaunchesTyped, InstanceTypeOK, Owners, LaunchStages, DirectoryTyped, ShellTyped
  <2>3. Unanswered'
    BY <1>13, InstanceAssumption DEF instanceVars, Unanswered, InstanceTypeOK, OneOwner,
      LooksAreCounted, OpeningSoon, Waits, DirectoryTyped, LaunchesTyped, ShellTyped,
      Owners, Owned, LaunchStages
  <2> QED
    BY <2>1, <2>2, <2>3
<1> QED
  BY <1>1, <1>2, <1>3, <1>4, <1>5, <1>6, <1>7, <1>8, <1>9, <1>10, <1>11, <1>12, <1>13
    DEF InstanceNext, InstanceStep

\* The initial state satisfies the invariant.
LEMMA InstanceInitInv == InstanceInit => InstanceInv
<1> SUFFICES ASSUME InstanceInit PROVE InstanceInv
  OBVIOUS
<1>1. InstanceTypeOK
  <2>1. 0 \in 0 .. MaxRechecks
    BY InstanceAssumption
  <2>2. LaunchesTyped
    BY <2>1 DEF InstanceInit, LaunchesTyped, LaunchStages
  <2> QED
    BY <2>2 DEF InstanceInit, InstanceTypeOK, DirectoryTyped, ShellTyped
<1>2. Owners = {} /\ Waits = {}
  BY DEF InstanceInit, Owners, Waits
<1> QED
  BY <1>1, <1>2 DEF InstanceInit, InstanceInv, OneOwner, LooksAreCounted, Unanswered

\* The inductive invariant of launches and the owner.
LEMMA InstanceInvariant == InstanceSpec => []InstanceInv
<1>1. InstanceInit => InstanceInv
  BY InstanceInitInv
<1>2. InstanceInv /\ [InstanceNext]_instanceVars => InstanceInv'
  BY InstanceNextInv
<1> QED
  BY <1>1, <1>2, PTL DEF InstanceSpec

\* Launches, requests and the owner's window keep their types.
THEOREM InstanceTypes == InstanceSpec => []InstanceTypeOK
<1>1. InstanceInv => InstanceTypeOK
  BY DEF InstanceInv
<1> QED
  BY <1>1, InstanceInvariant, PTL

\* For any number of launches, at most one holds the lock.
THEOREM OneInstance == InstanceSpec => []OneOwner
<1>1. InstanceInv => OneOwner
  BY DEF InstanceInv
<1> QED
  BY <1>1, InstanceInvariant, PTL

\* For any number of launches and of looks, at least three, each launch that has
\* ended was answered by a window that has been shown since, or by the owner's
\* that is about to open; but for those that the code gives up (NoLaunchIsLost).
THEOREM LaunchesAreAnswered == InstanceSpec => []NoLaunchIsLost
<1>1. InstanceInv => NoLaunchIsLost
  BY DEF InstanceInv, Unanswered, Waits, OpeningSoon, NoLaunchIsLost
<1> QED
  BY <1>1, InstanceInvariant, PTL

-----------------------------------------------------------------------------
(* Node tests                                                              *)
Results == [state : {"none", "running", "complete", "failed"}, by : SUBSET Generations]
Polls == [key : Sources, gen : Generations, queued : BOOLEAN]
TestsTyped ==
  /\ results \in [Keys -> Results]
  /\ active \in Generations \cup {None} /\ worker \in Jobs \cup {None} /\ polls \subseteq Polls
BenchmarksTypeOK ==
  /\ TestsTyped /\ pending \in Policies \cup {None}
  /\ edit \in [op : {"save", "remove"}, group : Policies] \cup {None}

\* The worker is the active test's.
OneTest == IF active = None THEN worker = None ELSE worker # None /\ worker.gen = active

\* A running result is the active test's, whose group was not edited since it
\* began; the others have no partial results.
RunningIsActive ==
  \A k \in Keys :
    IF results[k].state = "running"
    THEN worker # None /\ worker.key = k /\ ~worker.edited /\ results[k].by \subseteq {active}
    ELSE results[k].by = {}

\* A poll with the identity of the active test asks for that test's source.
PollsAreOwn == \A p \in polls : p.gen = active => p.key = worker.key

BenchmarksInv == BenchmarksTypeOK /\ OneTest /\ RunningIsActive /\ PollsAreOwn
-----------------------------------------------------------------------------
\* A test that begins is the active one, and no poll has its identity but its own.
LEMMA BeginKeeps ==
  ASSUME BenchmarksInv, NEW k \in Keys, NEW force \in BOOLEAN, Begin(k, force)
  PROVE  TestsTyped' /\ OneTest' /\ RunningIsActive' /\ PollsAreOwn'
<1> USE DEF BenchmarksInv, BenchmarksTypeOK
<1>1. active = None /\ worker = None
  BY DEF Begin, OneTest
<1>2. PICK g \in Fresh :
        /\ active' = g
        /\ worker' = [key |-> k, gen |-> g, force |-> force, edited |-> FALSE]
        /\ polls' = IF k \in Sources THEN polls \cup {[key |-> k, gen |-> g, queued |-> FALSE]}
                    ELSE polls
  BY DEF Begin
<1>3. results' = [results EXCEPT ![k] = [state |-> "running", by |-> {}]]
  BY DEF Begin
<1>4. g \in Generations /\ g # None /\ \A p \in polls : p.gen # g
  BY BenchmarksAssumption DEF Fresh
<1>5. worker' \in Jobs /\ worker' # None /\ worker'.key = k /\ worker'.gen = g
        /\ ~worker'.edited
  <2>1. worker' \in Jobs
    BY <1>2, <1>4 DEF Jobs
  <2> QED
    BY <1>2, <2>1, BenchmarksAssumption
<1>6. TestsTyped'
  <2>1. results' \in [Keys -> Results]
    <3>1. [state |-> "running", by |-> {}] \in Results
      BY DEF Results
    <3> QED
      BY <1>3, <3>1 DEF TestsTyped
  <2>2. polls' \subseteq Polls
    <3>1. k \in Sources => [key |-> k, gen |-> g, queued |-> FALSE] \in Polls
      BY <1>4 DEF Polls
    <3> QED
      BY <1>2, <3>1 DEF TestsTyped
  <2> QED
    BY <1>2, <1>4, <1>5, <2>1, <2>2 DEF TestsTyped
<1>7. OneTest'
  BY <1>2, <1>4, <1>5 DEF OneTest
<1>8. RunningIsActive'
  BY <1>1, <1>3, <1>5 DEF RunningIsActive, TestsTyped
<1>9. PollsAreOwn'
  BY <1>2, <1>4, <1>5 DEF PollsAreOwn
<1> QED
  BY <1>6, <1>7, <1>8, <1>9

\* Every step of the user, the workers and the polls keeps the invariant.
LEMMA BenchmarksNextInv == BenchmarksInv /\ [Next]_vars => BenchmarksInv'
<1> SUFFICES ASSUME BenchmarksInv, [Next]_vars PROVE BenchmarksInv'
  OBVIOUS
<1> USE DEF BenchmarksInv
<1>1. CASE Connect
  <2>1. BenchmarksTypeOK'
    BY <1>1, BenchmarksAssumption DEF Connect, BenchmarksTypeOK, exits, kept, tests,
      TestsTyped, Jobs, Keys, Polls, Results
  <2>2. OneTest' /\ RunningIsActive'
    BY <1>1, BenchmarksAssumption DEF Connect, OneTest, RunningIsActive, TestsTyped,
      BenchmarksTypeOK, exits, kept, tests, Keys, Jobs, Polls, Results
  <2>3. PollsAreOwn'
    BY <1>1, BenchmarksAssumption DEF Connect, PollsAreOwn, BenchmarksTypeOK, OneTest,
      exits, kept, tests, TestsTyped, Jobs, Keys, Polls, Results
  <2> QED
    BY <2>1, <2>2, <2>3
<1>2. CASE ConnectionLost
  <2>1. BenchmarksTypeOK'
    BY <1>2, BenchmarksAssumption DEF ConnectionLost, BenchmarksTypeOK, exits, kept,
      tests, TestsTyped, Jobs, Keys, Polls, Results
  <2>2. OneTest' /\ RunningIsActive'
    BY <1>2, BenchmarksAssumption DEF ConnectionLost, OneTest, RunningIsActive,
      TestsTyped, BenchmarksTypeOK, exits, kept, tests, Keys, Jobs, Polls, Results
  <2>3. PollsAreOwn'
    BY <1>2, BenchmarksAssumption DEF ConnectionLost, PollsAreOwn, BenchmarksTypeOK,
      OneTest, exits, kept, tests, TestsTyped, Jobs, Keys, Polls, Results
  <2> QED
    BY <2>1, <2>2, <2>3
<1>3. CASE TransferOpens
  <2>1. BenchmarksTypeOK'
    BY <1>3, BenchmarksAssumption DEF TransferOpens, BenchmarksTypeOK, exits, link,
      tests, TestsTyped, Jobs, Keys, Polls, Results
  <2>2. OneTest' /\ RunningIsActive'
    BY <1>3, BenchmarksAssumption DEF TransferOpens, OneTest, RunningIsActive,
      TestsTyped, BenchmarksTypeOK, exits, link, tests, Keys, Jobs, Polls, Results
  <2>3. PollsAreOwn'
    BY <1>3, BenchmarksAssumption DEF TransferOpens, PollsAreOwn, BenchmarksTypeOK,
      OneTest, exits, link, tests, TestsTyped, Jobs, Keys, Polls, Results
  <2> QED
    BY <2>1, <2>2, <2>3
<1>4. CASE Relaunch
  <2>1. BenchmarksTypeOK'
    BY <1>4, BenchmarksAssumption DEF Relaunch, BenchmarksTypeOK, Gone, Idle, Keys,
      TestsTyped, Jobs, Polls, Results
  <2>2. OneTest' /\ RunningIsActive'
    BY <1>4, BenchmarksAssumption DEF Relaunch, OneTest, RunningIsActive, TestsTyped,
      BenchmarksTypeOK, Gone, Idle, Keys, Jobs, Polls, Results
  <2>3. PollsAreOwn'
    BY <1>4, BenchmarksAssumption DEF Relaunch, PollsAreOwn, BenchmarksTypeOK, OneTest,
      Gone, Idle, Keys, TestsTyped, Jobs, Polls, Results
  <2> QED
    BY <2>1, <2>2, <2>3
<1>5. ASSUME NEW p \in Policies, TestPolicy(p) PROVE BenchmarksInv'
  <2>1. BenchmarksTypeOK'
    BY <1>5, BenchmarksAssumption, BeginKeeps DEF TestPolicy, BenchmarksTypeOK, exits,
      link, TestsTyped, Jobs, Keys, Polls, Results
  <2>2. OneTest' /\ RunningIsActive'
    BY <1>5, BenchmarksAssumption, BeginKeeps DEF TestPolicy, OneTest, RunningIsActive,
      TestsTyped, BenchmarksTypeOK, exits, link, Keys, Jobs, Polls, Results
  <2>3. PollsAreOwn'
    BY <1>5, BenchmarksAssumption, BeginKeeps DEF TestPolicy, PollsAreOwn,
      BenchmarksTypeOK, OneTest, exits, link, TestsTyped, Jobs, Keys, Polls, Results
  <2> QED
    BY <2>1, <2>2, <2>3
<1>6. ASSUME NEW p \in Policies, TestOffline(p) PROVE BenchmarksInv'
  <2>1. BenchmarksTypeOK'
    BY <1>6, BenchmarksAssumption DEF TestOffline, BenchmarksTypeOK, exits, kept, tests,
      TestsTyped, Jobs, Keys, Polls, Results
  <2>2. OneTest' /\ RunningIsActive'
    BY <1>6, BenchmarksAssumption DEF TestOffline, OneTest, RunningIsActive, TestsTyped,
      BenchmarksTypeOK, exits, kept, tests, Keys, Jobs, Polls, Results
  <2>3. PollsAreOwn'
    BY <1>6, BenchmarksAssumption DEF TestOffline, PollsAreOwn, BenchmarksTypeOK,
      OneTest, exits, kept, tests, TestsTyped, Jobs, Keys, Polls, Results
  <2> QED
    BY <2>1, <2>2, <2>3
<1>7. ASSUME NEW s \in Sources, TestSource(s) PROVE BenchmarksInv'
  <2>1. BenchmarksTypeOK'
    BY <1>7, BenchmarksAssumption, BeginKeeps DEF TestSource, BenchmarksTypeOK, exits,
      link, TestsTyped, Jobs, Keys, Polls, Results
  <2>2. OneTest' /\ RunningIsActive'
    BY <1>7, BenchmarksAssumption, BeginKeeps DEF TestSource, OneTest, RunningIsActive,
      TestsTyped, BenchmarksTypeOK, exits, link, Keys, Jobs, Polls, Results
  <2>3. PollsAreOwn'
    BY <1>7, BenchmarksAssumption, BeginKeeps DEF TestSource, PollsAreOwn,
      BenchmarksTypeOK, OneTest, exits, link, TestsTyped, Jobs, Keys, Polls, Results
  <2> QED
    BY <2>1, <2>2, <2>3
<1>8. ASSUME NEW op \in {"save", "remove"}, NEW p \in Policies, EditBegins(op, p)
      PROVE BenchmarksInv'
  <2>1. BenchmarksTypeOK'
    BY <1>8, BenchmarksAssumption DEF EditBegins, BenchmarksTypeOK, exits, link, tests,
      TestsTyped, Jobs, Keys, Polls, Results
  <2>2. OneTest' /\ RunningIsActive'
    BY <1>8, BenchmarksAssumption DEF EditBegins, OneTest, RunningIsActive, TestsTyped,
      BenchmarksTypeOK, exits, link, tests, Keys, Jobs, Polls, Results
  <2>3. PollsAreOwn'
    BY <1>8, BenchmarksAssumption DEF EditBegins, PollsAreOwn, BenchmarksTypeOK,
      OneTest, exits, link, tests, TestsTyped, Jobs, Keys, Polls, Results
  <2> QED
    BY <2>1, <2>2, <2>3
<1>9. CASE ConnectSucceeds
  <2>1. BenchmarksTypeOK'
    <3>1. CASE pending # None /\ Begin(pending, TRUE) /\ UNCHANGED edit
      <4>1. pending \in Keys
        BY <3>1 DEF BenchmarksTypeOK, Keys
      <4> QED
        BY <1>9, <3>1, <4>1, BeginKeeps DEF ConnectSucceeds, BenchmarksTypeOK
    <3>2. CASE UNCHANGED <<tests, kept>>
      BY <1>9, <3>2 DEF ConnectSucceeds, tests, kept, BenchmarksTypeOK, TestsTyped,
        OneTest, RunningIsActive, PollsAreOwn
    <3> QED
      BY <1>9, <3>1, <3>2 DEF ConnectSucceeds
  <2>2. OneTest' /\ RunningIsActive'
    <3>1. CASE pending # None /\ Begin(pending, TRUE) /\ UNCHANGED edit
      <4>1. pending \in Keys
        BY <3>1 DEF BenchmarksTypeOK, Keys
      <4> QED
        BY <1>9, <3>1, <4>1, BeginKeeps DEF ConnectSucceeds, BenchmarksTypeOK
    <3>2. CASE UNCHANGED <<tests, kept>>
      BY <1>9, <3>2 DEF ConnectSucceeds, tests, kept, BenchmarksTypeOK, TestsTyped,
        OneTest, RunningIsActive, PollsAreOwn
    <3> QED
      BY <1>9, <3>1, <3>2 DEF ConnectSucceeds
  <2>3. PollsAreOwn'
    <3>1. CASE pending # None /\ Begin(pending, TRUE) /\ UNCHANGED edit
      <4>1. pending \in Keys
        BY <3>1 DEF BenchmarksTypeOK, Keys
      <4> QED
        BY <1>9, <3>1, <4>1, BeginKeeps DEF ConnectSucceeds, BenchmarksTypeOK
    <3>2. CASE UNCHANGED <<tests, kept>>
      BY <1>9, <3>2 DEF ConnectSucceeds, tests, kept, BenchmarksTypeOK, TestsTyped,
        OneTest, RunningIsActive, PollsAreOwn
    <3> QED
      BY <1>9, <3>1, <3>2 DEF ConnectSucceeds
  <2> QED
    BY <2>1, <2>2, <2>3
<1>10. CASE ConnectFails
  <2>1. BenchmarksTypeOK'
    BY <1>10, BenchmarksAssumption DEF ConnectFails, BenchmarksTypeOK, exits, kept,
      tests, TestsTyped, Jobs, Keys, Polls, Results
  <2>2. OneTest' /\ RunningIsActive'
    BY <1>10, BenchmarksAssumption DEF ConnectFails, OneTest, RunningIsActive,
      TestsTyped, BenchmarksTypeOK, exits, kept, tests, Keys, Jobs, Polls, Results
  <2>3. PollsAreOwn'
    BY <1>10, BenchmarksAssumption DEF ConnectFails, PollsAreOwn, BenchmarksTypeOK,
      OneTest, exits, kept, tests, TestsTyped, Jobs, Keys, Polls, Results
  <2> QED
    BY <2>1, <2>2, <2>3
<1>11. CASE EditRefused
  <2>1. BenchmarksTypeOK'
    BY <1>11, BenchmarksAssumption DEF EditRefused, BenchmarksTypeOK, exits, link,
      tests, TestsTyped, Jobs, Keys, Polls, Results
  <2>2. OneTest' /\ RunningIsActive'
    BY <1>11, BenchmarksAssumption DEF EditRefused, OneTest, RunningIsActive,
      TestsTyped, BenchmarksTypeOK, exits, link, tests, Keys, Jobs, Polls, Results
  <2>3. PollsAreOwn'
    BY <1>11, BenchmarksAssumption DEF EditRefused, PollsAreOwn, BenchmarksTypeOK,
      OneTest, exits, link, tests, TestsTyped, Jobs, Keys, Polls, Results
  <2> QED
    BY <2>1, <2>2, <2>3
<1>12. CASE EditFinish
  <2>1. BenchmarksTypeOK'
    BY <1>12, BenchmarksAssumption DEF EditFinish, BenchmarksTypeOK, Idle, exits,
      TestsTyped, Jobs, Keys, Polls, Results
  <2>2. OneTest' /\ RunningIsActive'
    BY <1>12, BenchmarksAssumption DEF EditFinish, OneTest, RunningIsActive, TestsTyped,
      BenchmarksTypeOK, Idle, exits, Keys, Jobs, Polls, Results
  <2>3. PollsAreOwn'
    BY <1>12, BenchmarksAssumption DEF EditFinish, PollsAreOwn, BenchmarksTypeOK,
      OneTest, Idle, exits, TestsTyped, Jobs, Keys, Polls, Results
  <2> QED
    BY <2>1, <2>2, <2>3
<1>13. ASSUME NEW nodes, NEW ok \in BOOLEAN, Finish(nodes, ok) PROVE BenchmarksInv'
  <2>1. BenchmarksTypeOK'
    BY <1>13, BenchmarksAssumption DEF Finish, BenchmarksTypeOK, Outcome, link,
      TestsTyped, exits, Jobs, Keys, Polls, Results
  <2>2. OneTest' /\ RunningIsActive'
    BY <1>13, BenchmarksAssumption DEF Finish, OneTest, RunningIsActive, TestsTyped,
      BenchmarksTypeOK, Outcome, link, Keys, Jobs, Polls, Results, exits
  <2>3. PollsAreOwn'
    BY <1>13, BenchmarksAssumption DEF Finish, PollsAreOwn, BenchmarksTypeOK, OneTest,
      Outcome, link, TestsTyped, exits, Jobs, Keys, Polls, Results
  <2> QED
    BY <2>1, <2>2, <2>3
<1>14. ASSUME NEW p \in polls, Poll(p) PROVE BenchmarksInv'
  <2>1. BenchmarksTypeOK'
    <3>1. p \in Polls
      BY <1>14 DEF BenchmarksTypeOK, TestsTyped, Polls
    <3>2. Record(p) \in [Keys -> Results]
      BY <3>1 DEF Record, BenchmarksTypeOK, TestsTyped, Polls, Keys, Results
    <3>3. polls' \subseteq Polls
      <4>1. [p EXCEPT !.queued = FALSE] \in Polls
        BY <3>1 DEF Polls
      <4> QED BY <1>14, <4>1 DEF Poll, BenchmarksTypeOK, TestsTyped, Polls
    <3> QED BY <1>14, <3>2, <3>3 DEF Poll, BenchmarksTypeOK, TestsTyped, kept, link, exits
  <2>2. OneTest' /\ RunningIsActive'
    BY <1>14, BenchmarksAssumption DEF Poll, OneTest, RunningIsActive, TestsTyped,
      BenchmarksTypeOK, Record, exits, kept, link, Keys, Jobs, Polls, Results
  <2>3. PollsAreOwn'
    BY <1>14, BenchmarksAssumption DEF Poll, PollsAreOwn, BenchmarksTypeOK, OneTest,
      Record, exits, kept, link, TestsTyped, Jobs, Keys, Polls, Results
  <2> QED
    BY <2>1, <2>2, <2>3
<1>15. CASE ProbeEnds
  <2>1. BenchmarksTypeOK'
    BY <1>15, BenchmarksAssumption DEF ProbeEnds, BenchmarksTypeOK, kept, link, tests,
      TestsTyped, Jobs, Keys, Polls, Results
  <2>2. OneTest' /\ RunningIsActive'
    BY <1>15, BenchmarksAssumption DEF ProbeEnds, OneTest, RunningIsActive, TestsTyped,
      BenchmarksTypeOK, kept, link, tests, Keys, Jobs, Polls, Results
  <2>3. PollsAreOwn'
    BY <1>15, BenchmarksAssumption DEF ProbeEnds, PollsAreOwn, BenchmarksTypeOK,
      OneTest, kept, link, tests, TestsTyped, Jobs, Keys, Polls, Results
  <2> QED
    BY <2>1, <2>2, <2>3
<1>16. CASE PollDrains
  <2>1. BenchmarksTypeOK'
    BY <1>16, BenchmarksAssumption DEF PollDrains, BenchmarksTypeOK, kept, link, tests,
      TestsTyped, Jobs, Keys, Polls, Results
  <2>2. OneTest' /\ RunningIsActive'
    BY <1>16, BenchmarksAssumption DEF PollDrains, OneTest, RunningIsActive, TestsTyped,
      BenchmarksTypeOK, kept, link, tests, Keys, Jobs, Polls, Results
  <2>3. PollsAreOwn'
    BY <1>16, BenchmarksAssumption DEF PollDrains, PollsAreOwn, BenchmarksTypeOK,
      OneTest, kept, link, tests, TestsTyped, Jobs, Keys, Polls, Results
  <2> QED
    BY <2>1, <2>2, <2>3
<1>17. CASE PollLooks
  <2>1. BenchmarksTypeOK'
    BY <1>17, BenchmarksAssumption DEF PollLooks, BenchmarksTypeOK, Gone, kept, link,
      tests, TestsTyped, Jobs, Keys, Polls, Results
  <2>2. OneTest' /\ RunningIsActive'
    BY <1>17, BenchmarksAssumption DEF PollLooks, OneTest, RunningIsActive, TestsTyped,
      BenchmarksTypeOK, Gone, kept, link, tests, Keys, Jobs, Polls, Results
  <2>3. PollsAreOwn'
    BY <1>17, BenchmarksAssumption DEF PollLooks, PollsAreOwn, BenchmarksTypeOK,
      OneTest, Gone, kept, link, tests, TestsTyped, Jobs, Keys, Polls, Results
  <2> QED
    BY <2>1, <2>2, <2>3
<1>18. CASE Tick
  <2>1. BenchmarksTypeOK'
    <3>1. PICK i \in DOMAIN Order : Begin(Order[i], FALSE)
      BY <1>18 DEF Tick
    <3>2. Order[i] \in Keys
      BY DEF Keys, Policies
    <3> QED
      BY <1>18, <3>1, <3>2, BeginKeeps DEF Tick, link, BenchmarksTypeOK
  <2>2. OneTest' /\ RunningIsActive'
    <3>1. PICK i \in DOMAIN Order : Begin(Order[i], FALSE)
      BY <1>18 DEF Tick
    <3>2. Order[i] \in Keys
      BY DEF Keys, Policies
    <3> QED
      BY <1>18, <3>1, <3>2, BeginKeeps DEF Tick, link, BenchmarksTypeOK
  <2>3. PollsAreOwn'
    <3>1. PICK i \in DOMAIN Order : Begin(Order[i], FALSE)
      BY <1>18 DEF Tick
    <3>2. Order[i] \in Keys
      BY DEF Keys, Policies
    <3> QED
      BY <1>18, <3>1, <3>2, BeginKeeps DEF Tick, link, BenchmarksTypeOK
  <2> QED
    BY <2>1, <2>2, <2>3
<1>19. CASE Progress
  <2>1. BenchmarksTypeOK'
    BY <1>19, BenchmarksAssumption DEF Progress, BenchmarksTypeOK, exits, kept, link,
      TestsTyped, Jobs, Keys, Polls, Results
  <2>2. OneTest' /\ RunningIsActive'
    BY <1>19, BenchmarksAssumption DEF Progress, OneTest, RunningIsActive, TestsTyped,
      BenchmarksTypeOK, exits, kept, link, Keys, Jobs, Polls, Results
  <2>3. PollsAreOwn'
    BY <1>19, BenchmarksAssumption DEF Progress, PollsAreOwn, BenchmarksTypeOK, OneTest,
      exits, kept, link, TestsTyped, Jobs, Keys, Polls, Results
  <2> QED
    BY <2>1, <2>2, <2>3
<1>20. CASE TransferCloses
  <2>1. BenchmarksTypeOK'
    BY <1>20, BenchmarksAssumption DEF TransferCloses, BenchmarksTypeOK, exits, link,
      tests, TestsTyped, Jobs, Keys, Polls, Results
  <2>2. OneTest' /\ RunningIsActive'
    BY <1>20, BenchmarksAssumption DEF TransferCloses, OneTest, RunningIsActive,
      TestsTyped, BenchmarksTypeOK, exits, link, tests, Keys, Jobs, Polls, Results
  <2>3. PollsAreOwn'
    BY <1>20, BenchmarksAssumption DEF TransferCloses, PollsAreOwn, BenchmarksTypeOK,
      OneTest, exits, link, tests, TestsTyped, Jobs, Keys, Polls, Results
  <2> QED
    BY <2>1, <2>2, <2>3
<1>21. CASE TransferStops
  <2>1. BenchmarksTypeOK'
    BY <1>21, BenchmarksAssumption DEF TransferStops, BenchmarksTypeOK, exits, kept,
      tests, TestsTyped, Jobs, Keys, Polls, Results
  <2>2. OneTest' /\ RunningIsActive'
    BY <1>21, BenchmarksAssumption DEF TransferStops, OneTest, RunningIsActive,
      TestsTyped, BenchmarksTypeOK, exits, kept, tests, Keys, Jobs, Polls, Results
  <2>3. PollsAreOwn'
    BY <1>21, BenchmarksAssumption DEF TransferStops, PollsAreOwn, BenchmarksTypeOK,
      OneTest, exits, kept, tests, TestsTyped, Jobs, Keys, Polls, Results
  <2> QED
    BY <2>1, <2>2, <2>3
<1>22. ASSUME NEW n \in Nodes, ProbeAnswers(n) PROVE BenchmarksInv'
  <2>1. BenchmarksTypeOK'
    BY <1>22, BenchmarksAssumption DEF ProbeAnswers, BenchmarksTypeOK, kept, link,
      tests, TestsTyped, Jobs, Keys, Polls, Results
  <2>2. OneTest' /\ RunningIsActive'
    BY <1>22, BenchmarksAssumption DEF ProbeAnswers, OneTest, RunningIsActive,
      TestsTyped, BenchmarksTypeOK, kept, link, tests, Keys, Jobs, Polls, Results
  <2>3. PollsAreOwn'
    BY <1>22, BenchmarksAssumption DEF ProbeAnswers, PollsAreOwn, BenchmarksTypeOK,
      OneTest, kept, link, tests, TestsTyped, Jobs, Keys, Polls, Results
  <2> QED
    BY <2>1, <2>2, <2>3
<1>23. ASSUME NEW n \in Nodes, ExitAddressAges(n) PROVE BenchmarksInv'
  <2>1. BenchmarksTypeOK'
    BY <1>23, BenchmarksAssumption DEF ExitAddressAges, BenchmarksTypeOK, kept, link,
      tests, TestsTyped, Jobs, Keys, Polls, Results
  <2>2. OneTest' /\ RunningIsActive'
    BY <1>23, BenchmarksAssumption DEF ExitAddressAges, OneTest, RunningIsActive,
      TestsTyped, BenchmarksTypeOK, kept, link, tests, Keys, Jobs, Polls, Results
  <2>3. PollsAreOwn'
    BY <1>23, BenchmarksAssumption DEF ExitAddressAges, PollsAreOwn, BenchmarksTypeOK,
      OneTest, kept, link, tests, TestsTyped, Jobs, Keys, Polls, Results
  <2> QED
    BY <2>1, <2>2, <2>3
<1>24. ASSUME NEW p \in Policies, CandidatesLoad(p) PROVE BenchmarksInv'
  <2>1. BenchmarksTypeOK'
    BY <1>24, BenchmarksAssumption DEF CandidatesLoad, BenchmarksTypeOK, exits, kept,
      tests, TestsTyped, Jobs, Keys, Polls, Results
  <2>2. OneTest' /\ RunningIsActive'
    BY <1>24, BenchmarksAssumption DEF CandidatesLoad, OneTest, RunningIsActive,
      TestsTyped, BenchmarksTypeOK, exits, kept, tests, Keys, Jobs, Polls, Results
  <2>3. PollsAreOwn'
    BY <1>24, BenchmarksAssumption DEF CandidatesLoad, PollsAreOwn, BenchmarksTypeOK,
      OneTest, exits, kept, tests, TestsTyped, Jobs, Keys, Polls, Results
  <2> QED
    BY <2>1, <2>2, <2>3
<1>25. ASSUME NEW p \in Policies, IntervalPasses(p) PROVE BenchmarksInv'
  <2>1. BenchmarksTypeOK'
    BY <1>25, BenchmarksAssumption DEF IntervalPasses, BenchmarksTypeOK, exits, kept,
      link, TestsTyped, Jobs, Keys, Polls, Results
  <2>2. OneTest' /\ RunningIsActive'
    BY <1>25, BenchmarksAssumption DEF IntervalPasses, OneTest, RunningIsActive,
      TestsTyped, BenchmarksTypeOK, exits, kept, link, Keys, Jobs, Polls, Results
  <2>3. PollsAreOwn'
    BY <1>25, BenchmarksAssumption DEF IntervalPasses, PollsAreOwn, BenchmarksTypeOK,
      OneTest, exits, kept, link, TestsTyped, Jobs, Keys, Polls, Results
  <2> QED
    BY <2>1, <2>2, <2>3
<1>26. CASE UNCHANGED vars
  <2>1. BenchmarksTypeOK'
    BY <1>26, BenchmarksAssumption DEF vars, BenchmarksTypeOK, exits, kept, link, tests,
      TestsTyped, Jobs, Keys, Polls, Results
  <2>2. OneTest' /\ RunningIsActive'
    BY <1>26, BenchmarksAssumption DEF vars, OneTest, RunningIsActive, TestsTyped,
      BenchmarksTypeOK, exits, kept, link, tests, Keys, Jobs, Polls, Results
  <2>3. PollsAreOwn'
    BY <1>26, BenchmarksAssumption DEF vars, PollsAreOwn, BenchmarksTypeOK, OneTest,
      exits, kept, link, tests, TestsTyped, Jobs, Keys, Polls, Results
  <2> QED
    BY <2>1, <2>2, <2>3
<1> QED
  BY <1>1, <1>2, <1>3, <1>4, <1>5, <1>6, <1>7, <1>8, <1>9, <1>10, <1>11, <1>12, <1>13,
    <1>14, <1>15, <1>16, <1>17, <1>18, <1>19, <1>20, <1>21, <1>22, <1>23, <1>24, <1>25,
    <1>26 DEF Next, User, ConnectWork, EditWork, TestWork, PollWork, ProbeWork,
    ProbePoll

\* The initial state satisfies the invariant.
LEMMA BenchmarksInitInv == Init => BenchmarksInv
<1> SUFFICES ASSUME Init PROVE BenchmarksInv
  OBVIOUS
<1>1. [k \in Keys |-> Idle] \in [Keys -> Results]
  BY DEF Idle, Results
<1>2. BenchmarksTypeOK
  BY <1>1 DEF Init, BenchmarksTypeOK, TestsTyped
<1> QED
  BY <1>2 DEF Init, BenchmarksInv, OneTest, RunningIsActive, PollsAreOwn, Idle

\* The inductive invariant of the node tests.
LEMMA BenchmarksInvariant == Spec => []BenchmarksInv
<1>1. Init => BenchmarksInv
  BY BenchmarksInitInv
<1>2. BenchmarksInv /\ [Next]_vars => BenchmarksInv'
  BY BenchmarksNextInv
<1> QED
  BY <1>1, <1>2, PTL DEF Spec

\* Results, the active test with its worker and the polls keep their types.
THEOREM BenchmarksTypes == Spec => []BenchmarksTypeOK
<1>1. BenchmarksInv => BenchmarksTypeOK
  BY DEF BenchmarksInv
<1> QED
  BY <1>1, BenchmarksInvariant, PTL

\* Although identities are used again, a poll that has the active test's shows
\* its partial results in the source that is tested
\* (poll_group_benchmark_progress).
THEOREM PartialResultsAreOwn == Spec => []PollsAreOwn
<1>1. BenchmarksInv => PollsAreOwn
  BY DEF BenchmarksInv
<1> QED
  BY <1>1, BenchmarksInvariant, PTL

\* A test whose group was edited while it ran leaves no result, and partial
\* results are the active test's (OldResultsAreDropped).
THEOREM EditsDropResults == Spec => OldResultsAreDropped
<1>1. BenchmarksInv /\ BenchmarksInv' /\ [Next]_vars =>
        [/\ TestWork /\ worker.edited => results' = results
         /\ \A k \in Keys : results'[k].by \subseteq {active'}]_vars
  <2>1. SUFFICES ASSUME BenchmarksInv, BenchmarksInv'
                 PROVE  /\ TestWork /\ worker.edited => results' = results
                        /\ \A k \in Keys : results'[k].by \subseteq {active'}
    OBVIOUS
  <2>2. ASSUME NEW nodes, NEW ok \in BOOLEAN, Finish(nodes, ok), worker.edited
        PROVE  results' = results
    BY <2>1, <2>2 DEF Finish, Outcome, BenchmarksInv, BenchmarksTypeOK, TestsTyped, Jobs,
      RunningIsActive
  <2>3. \A k \in Keys : results'[k].by \subseteq {active'}
    BY <2>1 DEF BenchmarksInv, RunningIsActive
  <2> QED
    BY <2>2, <2>3 DEF TestWork
<1> QED
  BY <1>1, BenchmarksInvariant, PTL DEF Spec, OldResultsAreDropped
=============================================================================
