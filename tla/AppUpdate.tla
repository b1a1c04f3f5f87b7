------------------------------ MODULE AppUpdate -------------------------------
(***************************************************************************)
(* The application's own update: ManisApp.app_update_state, the checks and *)
(* downloads that run in the background, and the installation.             *)
(*                                                                         *)
(* A check replaces the state by Checking and keeps what it replaced; the  *)
(* hourly poll does so in every state but Checking, so checks, downloads   *)
(* and their results overlap.  Results come to the UI thread in any order. *)
(***************************************************************************)
EXTENDS Naturals

CONSTANTS
  Release,    \* versions that may be published
  Installed,  \* current_version()
  Job,        \* background tasks that may be in flight at a time: a bound
  NoUpdate,   \* a state without an AvailableUpdate
  NoJob

ASSUME VersionAssumption ==
  /\ Installed \in Nat
  /\ Release \subseteq Nat
  /\ NoUpdate \notin Nat

VARIABLES
  state,      \* ManisApp.app_update_state: its kind and its update
  published,  \* the version behind the release tag "latest"
  job,        \* what each background task does
  package,    \* per version, the file's contents; NoUpdate: none or partial
  installed   \* the version that was swapped in; ends the application

updateVars == <<state, published, job, package, installed>>

State == [kind : {"Idle", "Checking", "Current", "Failed", "InstallFailed"},
          update : {NoUpdate}]
           \union [kind : {"Available", "Downloading", "Ready"},
                   update : Release]
Plain(kind) == [kind |-> kind, update |-> NoUpdate]
With(kind, v) == [kind |-> kind, update |-> v]

\* A check remembers the state that it replaced; a download, its update.
Checks == [does : {"check"}, previous : State, at : {"read", "ready", "error"},
           found : Release \union {NoUpdate}]
Downloads == [does : {"download"}, update : Release,
              at : {"fetch", "open", "write", "ready", "error"},
              bytes : Release \union {NoUpdate}]
\* NoJob is no task.
ASSUME NoJobAssumption == NoJob \notin Checks \union Downloads

IsCheck(j) == job[j] # NoJob /\ job[j].does = "check"
IsDownload(j) == job[j] # NoJob /\ job[j].does = "download"
Ends(j) == job' = [job EXCEPT ![j] = NoJob]

UpdateInit ==
  /\ state = Plain("Idle")
  /\ published \in Release
  /\ job = [j \in Job |-> NoJob]
  /\ package = [v \in Release |-> NoUpdate]
  /\ installed = NoUpdate

-----------------------------------------------------------------------------
(* Checking.                                                               *)

\* check_for_app_update, by the hourly poll or by the button.
Check(j) ==
  /\ installed = NoUpdate
  /\ job[j] = NoJob
  /\ state.kind # "Checking"
  /\ state' = Plain("Checking")
  /\ job' = [job EXCEPT ![j] = [does |-> "check", previous |-> state,
                                at |-> "read", found |-> NoUpdate]]
  /\ UNCHANGED <<published, package, installed>>

\* select_available_update.
Select(v) == IF v <= Installed THEN NoUpdate ELSE v

\* No answer, an answer over its limit, a redirect away from https, metadata that
\* do not parse.
RequestFails(j) == job' = [job EXCEPT ![j].at = "error"]

\* check_for_update: release and manifest are those of one commit, or it fails.
CheckReads(j) ==
  /\ IsCheck(j)
  /\ job[j].at = "read"
  /\ \/ RequestFails(j)
     \/ job' = [job EXCEPT ![j].at = "ready", ![j].found = Select(published)]
  /\ UNCHANGED <<state, published, package, installed>>

\* What a failing check makes of the state that it replaced.
AfterFailure(previous) ==
  IF previous.kind \in {"Available", "Ready"} THEN previous ELSE Plain("Failed")

\* finish_app_update_check.
FinishCheck(j) ==
  /\ installed = NoUpdate
  /\ IsCheck(j)
  /\ \/ /\ job[j].at = "error"
        /\ state' = AfterFailure(job[j].previous)
     \/ /\ job[j].at = "ready"
        /\ state' = IF job[j].found = NoUpdate THEN Plain("Current")
                       ELSE With("Available", job[j].found)
  /\ Ends(j)
  /\ UNCHANGED <<published, package, installed>>

-----------------------------------------------------------------------------
(* Downloading.                                                            *)

StartDownload(j) ==
  /\ installed = NoUpdate
  /\ job[j] = NoJob
  /\ state.kind = "Available"
  /\ state' = With("Downloading", state.update)
  /\ job' = [job EXCEPT ![j] = [does |-> "download", update |-> state.update,
                                at |-> "fetch", bytes |-> NoUpdate]]
  /\ UNCHANGED <<published, package, installed>>

DownloadAt(j, place) == IsDownload(j) /\ job[j].at = place
Writers(v) == {j \in Job : DownloadAt(j, "write") /\ job[j].update = v}

\* platform_asset_name, verify_digest: the release names a package of the version
\* that was offered, and the bytes are that package's.
Verified(j) == published = job[j].update

\* Mutant: the package of whatever is the latest release now.
FetchLatest(j) ==
  /\ DownloadAt(j, "fetch")
  /\ job' = [job EXCEPT ![j].at = "open", ![j].bytes = published]
  /\ UNCHANGED <<state, published, package, installed>>

\* download_package up to the write: the asset is looked up in the release as it is
\* now.
Fetch(j) ==
  /\ DownloadAt(j, "fetch")
  /\ \/ RequestFails(j)
     \/ /\ Verified(j)
        /\ job' = [job EXCEPT ![j].at = "open", ![j].bytes = published]
  /\ UNCHANGED <<state, published, package, installed>>

\* std::fs::write: the file is truncated, then filled.
OpenPackage(j) ==
  /\ DownloadAt(j, "open")
  /\ \/ /\ job' = [job EXCEPT ![j].at = "error"]
        /\ UNCHANGED package
     \/ /\ job' = [job EXCEPT ![j].at = "write"]
        /\ package' = [package EXCEPT ![job[j].update] = NoUpdate]
  /\ UNCHANGED <<state, published, installed>>

FillPackage(j) ==
  /\ DownloadAt(j, "write")
  /\ \/ /\ job' = [job EXCEPT ![j].at = "error"]
        /\ UNCHANGED package
     \/ /\ job' = [job EXCEPT ![j].at = "ready"]
        /\ package' = [package EXCEPT ![job[j].update] =
                         IF Writers(job[j].update) = {j} THEN job[j].bytes
                                                         ELSE NoUpdate]
  /\ UNCHANGED <<state, published, installed>>

\* finish_app_update_download, whatever the state has become meanwhile.
FinishDownload(j) ==
  /\ installed = NoUpdate
  /\ IsDownload(j)
  /\ \/ DownloadAt(j, "ready") /\ state' = With("Ready", job[j].update)
     \/ DownloadAt(j, "error") /\ state' = Plain("Failed")
  /\ Ends(j)
  /\ UNCHANGED <<published, package, installed>>

-----------------------------------------------------------------------------
\* install_package: a file that is a whole package can be unpacked; the script that
\* swaps the bundles waits for the application to quit.
Swap(v) ==
  /\ package[v] \in Release
  /\ installed' = package[v]

\* install_app_update: a package that cannot be unpacked is refused.
Install ==
  /\ installed = NoUpdate
  /\ state.kind = "Ready"
  /\ \/ /\ state' = Plain("InstallFailed")
        /\ UNCHANGED installed
     \/ Swap(state.update) /\ UNCHANGED state
  /\ UNCHANGED <<published, job, package>>

\* The maintainers move the tag.
Publish(v) ==
  /\ v # published
  /\ published' = v
  /\ UNCHANGED <<state, job, package, installed>>

CheckSteps(j) == CheckReads(j) \/ FinishCheck(j)
DownloadSteps(j) ==
  Fetch(j) \/ OpenPackage(j) \/ FillPackage(j) \/ FinishDownload(j)

UpdateNext ==
  \/ \E j \in Job : Check(j) \/ CheckSteps(j) \/ StartDownload(j)
                      \/ DownloadSteps(j)
  \/ Install
  \/ \E v \in Release : Publish(v)

UpdateSpec == UpdateInit /\ [][UpdateNext]_updateVars

-----------------------------------------------------------------------------
\* Every variable has its type.
UpdateTypes ==
  /\ state \in State
  /\ published \in Release
  /\ job \in [Job -> Checks \union Downloads \union {NoJob}]
  /\ package \in [Release -> Release \union {NoUpdate}]
  /\ installed \in Release \union {NoUpdate}

\* The states that offer no way out of themselves but a result, Checking and
\* Downloading, are only shown while a task is in flight that will bring one.
BusyHasWorker ==
  /\ state.kind = "Checking" => \E j \in Job : IsCheck(j)
  /\ state.kind = "Downloading" =>
       \E j \in Job : IsDownload(j) /\ job[j].update = state.update

\* Whatever was published, checked or downloaded in between, the package that
\* replaces the application is the one of the version that was offered for
\* installation, and newer than the running one.
InstallsTheOffer ==
  [][installed' # installed => /\ installed' = state.update
                               /\ installed' > Installed]_updateVars

=============================================================================
