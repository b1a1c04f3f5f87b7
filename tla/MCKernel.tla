------------------------------ MODULE MCKernel -------------------------------
(* The kernel under the connected window: its binary is replaced             *)
(* (CoreUpdate, with two binaries) and its selectors follow what the user    *)
(* picks (Selections, with one manual group beside GLOBAL and two nodes),    *)
(* and what it writes is shown (LiveStream, with a mailbox of two frames and *)
(* a page of three).  Each module has its own abstraction of the connection, *)
(* so a behaviour is about one of them.                                      *)
EXTENDS CoreUpdate, Selections, LiveStream

CONSTANTS v1, v2, p1, global, a, b
VARIABLE part
parts == <<vars, selectionsVars, streamVars, part>>

Binary == part = "binary" /\ UNCHANGED <<selectionsVars, streamVars, part>>
Picks == part = "picks" /\ UNCHANGED <<vars, streamVars, part>>
Stream == part = "stream" /\ UNCHANGED <<vars, selectionsVars, part>>

MCInit ==
  /\ part \in {"binary", "picks", "stream"}
  /\ Init /\ (part # "binary" => target = v1 /\ ~auto.on)
  /\ SelectionsInit
  /\ StreamInit /\ (part # "stream" => kind = "logs")

MCNext ==
  \/ Binary /\ Launch
  \/ Binary /\ Close
  \/ Binary /\ Connect
  \/ Binary /\ Update
  \/ Binary /\ SetAuto
  \/ Binary /\ Switch
  \/ Binary /\ SwitchEnds
  \/ Binary /\ Poll
  \/ Binary /\ Retry
  \/ \E r \in Runtimes : Binary /\ KernelDies(r)
  \/ Binary /\ Worker
  \/ Binary /\ Connecting
  \/ Picks /\ connect_mihomo
  \/ Picks /\ ConnectRead
  \/ Picks /\ ConnectFails
  \/ \E s \in Syncs : Picks /\ ConnectSucceeds(s)
  \/ Picks /\ RetryRead
  \/ Picks /\ RetryFailed
  \/ \E s \in Syncs : Picks /\ RetryApply(s)
  \/ \E s \in Syncs, g \in Selectors : Picks /\ SyncSend(s, g)
  \/ \E s \in Syncs : Picks /\ SyncFinish(s)
  \/ \E g \in Selectors, n \in Nodes : Picks /\ Pick(g, n)
  \/ \E g \in Selectors : Picks /\ PickSend(g)
  \/ \E g \in Selectors : Picks /\ PickFinish(g)
  \/ Picks /\ EditBegins
  \/ Picks /\ EditCommits
  \/ Picks /\ EditRefused
  \/ Picks /\ EditFinish
  \/ \E p \in Policies : Picks /\ TestBegins(p)
  \/ Picks /\ TestReads
  \/ \E n \in Nodes \cup {Nothing} : Picks /\ TestShows(n)
  \/ Picks /\ TestFails
  \/ Picks /\ CandidatesLoad
  \/ Picks /\ KernelExits
  \/ Picks /\ LossNoticed
  \/ Picks /\ UpdateBegins
  \/ Picks /\ UpdateStops
  \/ Picks /\ UpdateInstalls
  \/ Picks /\ UpdateFails
  \/ Picks /\ UpdateInstalled
  \/ Picks /\ UpdateFailed
  \/ Picks /\ TransferOpens
  \/ Picks /\ TransferCloses
  \/ Picks /\ TransferStops
  \/ Stream /\ KernelWrites
  \/ Stream /\ KernelStops
  \/ Stream /\ KernelStarts
  \/ Stream /\ ResponseEnds
  \/ Stream /\ Ask
  \/ Stream /\ Read
  \/ Stream /\ ReadFails
  \/ Stream /\ ReadEnd
  \/ Stream /\ Wake
  \/ Stream /\ BeginConnect
  \/ Stream /\ ConnectRefused
  \/ Stream /\ Connected
  \/ Stream /\ PollLive
  \/ Stream /\ Replaced
MCSpec == MCInit /\ [][MCNext]_parts
=============================================================================
