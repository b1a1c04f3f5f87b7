------------------------------- MODULE Instance -------------------------------
(***************************************************************************)
(* One running application: a later launch that finds the lock taken leaves *)
(* an activation request and looks again for a while, because the owner may *)
(* be quitting.  The owner polls for requests and shows its window, which   *)
(* closing hides while a status item is shown and which quits otherwise.    *)
(***************************************************************************)
EXTENDS Naturals

CONSTANTS Launches,    \* launches by the user
          MaxRechecks  \* SECONDARY_RECHECK_ATTEMPTS

\* Three looks take longer than POLL_INTERVAL; the code makes five.
ASSUME InstanceAssumption == MaxRechecks \in Nat /\ MaxRechecks >= 3

VARIABLES
  stage,      \* of each launch: unborn, asking, naming, waiting; opening, running
              \* and quitting hold the lock; done
  rechecks,   \* SECONDARY_RECHECK_ATTEMPTS made
  temporary,  \* launches whose request file still has its temporary name
  requests,   \* launches whose activation request is in the directory
  window,     \* the owner's main window is there
  hosted,     \* a status item host shows Manis
  hides,      \* the quit mode: closing the window hides it
  clicks,     \* events of the status item, to be drained
  unseen,     \* history: launches after which no window was shown yet
  slips       \* history: launches that the code does not answer

instanceVars == <<stage, rechecks, temporary, requests, window, hosted, hides, clicks,
                  unseen, slips>>
shell == <<window, hosted, hides, clicks>>

Owners == {l \in Launches : stage[l] \in {"opening", "running", "quitting"}}
Owned(how) == \E l \in Owners : stage[l] = how

InstanceInit ==
  /\ stage = [l \in Launches |-> "unborn"] /\ rechecks = [l \in Launches |-> 0]
  /\ temporary = {} /\ requests = {}
  /\ window = FALSE /\ hosted \in BOOLEAN /\ hides = FALSE /\ clicks = {}
  /\ unseen = {} /\ slips = {}

Becomes(l, next) == stage' = [stage EXCEPT ![l] = next]

-----------------------------------------------------------------------------
(* claim_in                                                                *)

\* become_primary: the requests of earlier launches are cleared.
BecomePrimary(l) ==
  /\ Owners = {}
  /\ Becomes(l, "opening") /\ temporary' = {} /\ requests' = {}
  /\ window' = FALSE /\ hides' = FALSE /\ clicks' = {}
  /\ UNCHANGED hosted

LaunchAgain(l) ==
  /\ stage[l] = "unborn" /\ unseen' = unseen \union {l}
  /\ \/ BecomePrimary(l)
     \/ /\ Owners # {} /\ Becomes(l, "asking")
        /\ UNCHANGED <<temporary, requests, shell>>
  /\ UNCHANGED <<rechecks, slips>>

\* request_activation writes a temporary file and renames it; a new owner may
\* have removed it in between.  A launch whose request fails still looks again.
RequestActivation(l) ==
  /\ stage[l] = "asking"
  /\ \/ temporary' = temporary \union {l} /\ Becomes(l, "naming") /\ UNCHANGED slips
     \/ Becomes(l, "waiting") /\ slips' = slips \union {l} /\ UNCHANGED temporary
  /\ UNCHANGED <<rechecks, requests, shell, unseen>>

NameRequest(l) ==
  /\ stage[l] = "naming" /\ Becomes(l, "waiting")
  /\ requests' = requests \union (temporary \intersect {l})
  /\ temporary' = temporary \ {l}
  /\ UNCHANGED <<rechecks, shell, unseen, slips>>

\* POLL_INTERVAL is below three SECONDARY_RECHECK_DELAYs, so by its third look
\* the request was read if an owner runs.  A last look that still finds the
\* owner quitting loses the launch.
Recheck(l) ==
  /\ stage[l] = "waiting" /\ rechecks[l] < MaxRechecks
  /\ rechecks[l] >= 2 => ~(Owned("running") /\ l \in requests)
  /\ \/ BecomePrimary(l) /\ UNCHANGED <<rechecks, slips>>
     \/ /\ Owners # {} /\ rechecks' = [rechecks EXCEPT ![l] = @ + 1]
        /\ slips' = IF Owned("quitting") /\ rechecks[l] + 1 = MaxRechecks
                    THEN slips \union {l} ELSE slips
        /\ UNCHANGED <<stage, temporary, requests, shell>>
  /\ UNCHANGED unseen

\* Mutant: the second launch leaves as soon as its request is there.
GiveUpAtOnce(l) ==
  /\ stage[l] = "waiting" /\ Becomes(l, "done")
  /\ UNCHANGED <<rechecks, temporary, requests, shell, unseen, slips>>

GiveUp(l) ==
  /\ stage[l] = "waiting" /\ rechecks[l] = MaxRechecks /\ Becomes(l, "done")
  /\ UNCHANGED <<rechecks, temporary, requests, shell, unseen, slips>>

-----------------------------------------------------------------------------
(* The owner                                                               *)

\* show_or_open_window; a window that cannot be opened is only logged.
Show ==
  \/ window' = TRUE /\ unseen' = {} /\ UNCHANGED slips
  \/ ~window /\ slips' = slips \union unseen /\ UNCHANGED <<window, unseen>>

\* main: the tray is installed, then the window opened, then requests polled.
OpenWindow(l) ==
  /\ stage[l] = "opening"
  /\ \/ /\ Becomes(l, "running") /\ hides' = hosted
        /\ window' = TRUE /\ unseen' = {} /\ UNCHANGED slips
     \/ /\ Becomes(l, "quitting") /\ hides' = hosted
        /\ slips' = slips \union unseen /\ UNCHANGED <<window, unseen>>
  /\ UNCHANGED <<rechecks, temporary, requests, hosted, clicks>>

TakeRequests(l) ==
  /\ stage[l] = "running" /\ requests # {}
  /\ requests' = {} /\ Show
  /\ UNCHANGED <<stage, rechecks, temporary, hosted, hides, clicks>>

\* The tick of the tray: the quit mode follows the host, the events are drained.
Drain(l) ==
  /\ stage[l] = "running" /\ (hides # hosted \/ clicks # {})
  /\ hides' = hosted /\ clicks' = {}
  /\ IF "quit" \in clicks THEN Becomes(l, "quitting") ELSE UNCHANGED stage
  /\ IF clicks = {"show"} THEN Show ELSE UNCHANGED <<window, unseen, slips>>
  /\ UNCHANGED <<rechecks, temporary, requests, hosted>>

CloseWindow(l) ==
  /\ stage[l] = "running" /\ window /\ window' = FALSE
  /\ IF hides THEN UNCHANGED stage ELSE Becomes(l, "quitting")
  /\ UNCHANGED <<rechecks, temporary, requests, hosted, hides, clicks, unseen, slips>>

ClickItem == \E event \in {"show", "quit"} :
  /\ hosted /\ Owned("running") /\ clicks' = clicks \union {event}
  /\ UNCHANGED <<stage, rechecks, temporary, requests, window, hosted, hides, unseen, slips>>

\* The desktop's host comes and goes.
HostChanges ==
  /\ hosted' = ~hosted
  /\ UNCHANGED <<stage, rechecks, temporary, requests, window, hides, clicks, unseen, slips>>

\* An owner ends after it has quit, or at any time by itself.
OwnerEnds(l) ==
  /\ l \in Owners /\ Becomes(l, "done")
  /\ slips' = slips \union (IF stage[l] = "quitting" THEN {} ELSE unseen)
  /\ window' = FALSE
  /\ UNCHANGED <<rechecks, temporary, requests, hosted, hides, clicks, unseen>>

InstanceStep(l) ==
  \/ LaunchAgain(l) \/ RequestActivation(l) \/ NameRequest(l) \/ Recheck(l)
  \/ GiveUp(l) \/ OpenWindow(l) \/ TakeRequests(l) \/ Drain(l) \/ CloseWindow(l)
  \/ OwnerEnds(l)
InstanceNext == ClickItem \/ HostChanges \/ \E l \in Launches : InstanceStep(l)
InstanceSpec == InstanceInit /\ [][InstanceNext]_instanceVars

-----------------------------------------------------------------------------
\* No launch vanishes: once its process has ended, a window has been shown
\* after it, or the owner of the lock is about to open one, however launches,
\* quitting, hiding and the two names of a request interleave.  Excepted are a
\* request that cannot be written, a window that cannot be opened, an owner
\* that dies, and a quit that outlasts every look (claim_in and install).
NoLaunchIsLost == \A l \in unseen \ slips : stage[l] = "done" => Owned("opening")
=============================================================================
