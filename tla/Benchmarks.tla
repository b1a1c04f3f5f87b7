------------------------------ MODULE Benchmarks ------------------------------
(***************************************************************************)
(* Latency tests of policy groups and of sources, the timer that tests the *)
(* lowest-latency groups on its own, and the probes of exit addresses that *)
(* follow a test.                                                          *)
(*                                                                         *)
(* One test runs at a time; a generation tells its result and its partial  *)
(* results from those of the tests before.  Groups are edited and removed, *)
(* the kernel is reconnected and a transfer replaces the configuration     *)
(* while results are on their way.  A probe of exit addresses fills a      *)
(* queue on a worker, and a poll empties the queue and looks for the end.  *)
(*                                                                         *)
(* Selections has what a test does to the nodes shown.  Delays, summaries, *)
(* status texts and the cache file (persist_group_benchmarks) are left     *)
(* out, but for what Relaunch reads back from it.                          *)
(***************************************************************************)
EXTENDS Naturals, FiniteSets, Sequences

CONSTANTS
    Order,         \* the lowest-latency groups, in the order they are stored
    Sources,       \* the groups of the Nodes page, one per source
    Nodes,         \* nodes whose exit address can be probed
    Generations,   \* bound: identities of tests and of the polls they leave
    MaxOps,        \* bound: operations of the user and lost connections
    None           \* no job, nothing pending

Policies == {Order[i] : i \in DOMAIN Order}
Keys == Policies \cup Sources
Jobs == [key : Keys, gen : Generations, force : BOOLEAN, edited : BOOLEAN]

ASSUME BenchmarksAssumption ==
    /\ Cardinality(Policies) = Len(Order)
    /\ Policies \cap Sources = {}
    /\ MaxOps \in Nat
    /\ None \notin Generations \cup Jobs

VARIABLES
    controller,  \* ControllerState: off, connecting or connected
    groups,      \* a policy group in the catalog: absent, empty or ready
    stored,      \* managed_policies.groups
    edit,        \* the save or removal in flight
    ticking,     \* the automatic chain of the current live generation
    results,     \* managed_policies.benchmarks: [state, by]
    old,         \* groups whose finished test is older than their interval
    active,      \* active_benchmark_generation
    worker,      \* the worker of the active test
    polls,       \* the polls for partial results: [key, gen, queued]
    pending,     \* pending_benchmark_name: a test that waits for a connect
    transfer,    \* configuration_transfer: shut, refused (its window says "busy") or open
    probing,     \* exit_ip_probe_active
    probe,       \* its worker, queue and poll
    recent,      \* nodes whose exit address was checked recently
    ops          \* how many of the operations have happened

kept == <<edit, stored, transfer>>
link == <<controller, groups, ticking, pending>>
tests == <<results, old, active, worker, polls>>
exits == <<probing, probe, recent>>
vars == <<kept, link, tests, exits, ops>>

Idle == [state |-> "none", by |-> {}]
Gone == [todo |-> {}, queue |-> {}, done |-> TRUE, drained |-> FALSE]

Init ==
    /\ controller = "off" /\ ticking = FALSE /\ pending = None
    /\ groups = [p \in Policies |-> "absent"]
    /\ stored = Policies /\ edit = None /\ transfer = "shut"
    /\ results = [k \in Keys |-> Idle]
    /\ old = {} /\ active = None /\ worker = None /\ polls = {}
    /\ probing = FALSE /\ probe = Gone /\ recent = {}
    /\ ops = 0

Operation == ops < MaxOps /\ ops' = ops + 1

\* configuration_transfer.active is not set.
Shut == transfer = "shut"

(* ------------------------------- one test -------------------------------- *)

\* A generation that nothing in flight still carries.
Fresh == {g \in Generations : \A p \in polls : p.gen # g}

\* begin_group_benchmark; tests of a source have a poll for partial results.
Begin(k, force) ==
    /\ Shut /\ active = None
    /\ \E g \in Fresh :
          /\ active' = g
          /\ worker' = [key |-> k, gen |-> g, force |-> force, edited |-> FALSE]
          /\ polls' = IF k \in Sources THEN polls \cup {[key |-> k, gen |-> g, queued |-> FALSE]}
                      ELSE polls
    /\ results' = [results EXCEPT ![k] = [state |-> "running", by |-> {}]]
    /\ old' = old \ {k}

\* start_policy_group_benchmark_with_ip_refresh: it starts, or says why not.
MayTest(p, where, link_) ==
    /\ link_ = "connected" /\ where[p] = "ready"
    /\ results[p].state # "running"
    /\ Shut /\ active = None

TestPolicy(p) ==
    /\ MayTest(p, groups, controller)
    /\ Operation
    /\ Begin(p, TRUE)
    /\ UNCHANGED <<link, exits, edit, stored, transfer>>

\* start_source_group_benchmark needs no connection: its worker starts the kernel.
TestSource(s) ==
    /\ results[s].state # "running"
    /\ Operation
    /\ Begin(s, TRUE)
    /\ UNCHANGED <<link, exits, edit, stored, transfer>>

\* The worker reports a node; the poll is to take it from the queue.
Progress ==
    /\ worker # None
    /\ \E p \in polls : p.gen = worker.gen /\ polls' = (polls \ {p}) \cup {[p EXCEPT !.queued = TRUE]}
    /\ UNCHANGED <<kept, link, exits, results, old, active, worker, ops>>

\* poll_group_benchmark_progress: GroupBenchmarkState::record compares the
\* generation of a running test; the poll goes on while its test is active.
Record(p) ==
    IF p.queued /\ results[p.key].state = "running" /\ active = p.gen
    THEN [results EXCEPT ![p.key].by = @ \cup {p.gen}]
    ELSE results

Poll(p) ==
    /\ p \in polls
    /\ results' = Record(p)
    /\ polls' = (polls \ {p}) \cup IF active = p.gen THEN {[p EXCEPT !.queued = FALSE]} ELSE {}
    /\ UNCHANGED <<kept, link, exits, old, active, worker, ops>>

(* --------------------------- the exit addresses -------------------------- *)

\* start_exit_ip_probe: nothing while a probe runs, or without a node to ask.
Probe(nodes, force) ==
    LET ask == IF force THEN nodes ELSE nodes \ recent IN
    IF probing \/ ask = {} THEN UNCHANGED exits
    ELSE /\ probing' = TRUE
         /\ probe' = [todo |-> ask, queue |-> {}, done |-> FALSE, drained |-> FALSE]
         /\ UNCHANGED recent

\* The worker of probe_exit_ip_targets: answers one by one, then the end,
\* which comes at once when the kernel is not running.
ProbeAnswers(n) ==
    /\ ~probe.done /\ n \in probe.todo
    /\ probe' = [probe EXCEPT !.todo = @ \ {n}, !.queue = @ \cup {n}]
    /\ UNCHANGED <<kept, link, tests, probing, recent, ops>>

ProbeEnds ==
    /\ ~probe.done
    /\ probe' = [probe EXCEPT !.done = TRUE]
    /\ UNCHANGED <<kept, link, tests, probing, recent, ops>>

\* poll_exit_ip_progress, in the two steps the worker can come between: it
\* empties the queue, and then looks whether the worker is done.
PollDrains ==
    /\ probing /\ ~probe.drained
    /\ recent' = recent \cup probe.queue
    /\ probe' = [probe EXCEPT !.queue = {}, !.drained = TRUE]
    /\ UNCHANGED <<kept, link, tests, probing, ops>>

PollLooks ==
    /\ probing /\ probe.drained
    /\ IF probe.done THEN probing' = FALSE /\ probe' = Gone
       ELSE probe' = [probe EXCEPT !.drained = FALSE] /\ UNCHANGED probing
    /\ UNCHANGED <<kept, link, tests, recent, ops>>

ExitAddressAges(n) ==
    /\ n \in recent
    /\ recent' = recent \ {n}
    /\ UNCHANGED <<kept, link, tests, probing, probe, ops>>

(* ------------------------------ the results ------------------------------ *)

\* The result is stored although the group's state was cleared.
OutcomeAnyway(k, nodes, ok, force) ==
    /\ results' = [results EXCEPT ![k] = [state |-> IF ok THEN "complete" ELSE "failed", by |-> {}]]
    /\ Probe(IF ok THEN nodes ELSE {}, force)

\* finish_policy_group_benchmark, finish_source_group_benchmark: the test is
\* over first, and its result is dropped when the group was edited meanwhile.
Outcome(k, nodes, ok, force) ==
    IF results[k].state # "running"
    THEN UNCHANGED <<results, exits>>
    ELSE /\ results' = [results EXCEPT ![k] = [state |-> IF ok THEN "complete" ELSE "failed", by |-> {}]]
         /\ Probe(IF ok THEN nodes ELSE {}, force)

Finish(nodes, ok) ==
    /\ worker # None /\ worker.gen = active
    /\ active' = None /\ worker' = None
    /\ Outcome(worker.key, nodes, ok, worker.force)
    /\ UNCHANGED <<link, edit, stored, transfer, old, polls, ops>>

(* ------------------------- connection and automation --------------------- *)

\* connect_mihomo: the chain of the old live generation ends.
Connect ==
    /\ Shut /\ controller # "connecting"
    /\ Operation
    /\ controller' = "connecting" /\ ticking' = FALSE
    /\ UNCHANGED <<kept, tests, exits, groups, pending>>

\* The test button of a group that is shown while the kernel is not connected.
TestOffline(p) ==
    /\ controller # "connected" /\ p \in stored
    /\ Operation
    /\ pending' = p
    /\ IF Shut THEN controller' = "connecting" /\ ticking' = FALSE
       ELSE UNCHANGED <<controller, ticking>>
    /\ UNCHANGED <<kept, tests, exits, groups>>

\* A group's candidates may still be loading when the catalog comes.
Catalogs == {c \in [Policies -> {"absent", "empty", "ready"}] :
                \A p \in Policies : c[p] = "absent" <=> p \notin stored}

\* start_pending_policy_benchmark is part of it.
ConnectSucceeds ==
    /\ controller = "connecting"
    /\ controller' = "connected" /\ ticking' = TRUE /\ pending' = None
    /\ groups' \in Catalogs
    /\ IF pending # None /\ MayTest(pending, groups', "connected")
       THEN Begin(pending, TRUE) /\ UNCHANGED <<edit, stored, transfer>>
       ELSE UNCHANGED <<tests, kept>>
    /\ UNCHANGED <<exits, ops>>

ConnectFails ==
    /\ controller = "connecting"
    /\ controller' = "off" /\ pending' = None
    /\ UNCHANGED <<kept, tests, exits, groups, ticking, ops>>

\* fail_safe_managed_runtime.
ConnectionLost ==
    /\ controller = "connected"
    /\ Operation
    /\ controller' = "off" /\ ticking' = FALSE
    /\ UNCHANGED <<kept, tests, exits, groups, pending>>

\* retry_incomplete_policy_catalog has found the candidates.
CandidatesLoad(p) ==
    /\ controller = "connected" /\ groups[p] = "empty"
    /\ groups' = [groups EXCEPT ![p] = "ready"]
    /\ UNCHANGED <<kept, tests, exits, controller, ticking, pending, ops>>

\* GroupBenchmarkState::is_due.
Due(p) == \/ results[p].state = "none"
          \/ results[p].state \in {"complete", "failed"} /\ p \in old

\* Every lowest-latency group is taken for due.
CandidateAlways(i) == Order[i] \in stored /\ groups[Order[i]] # "absent"

Candidate(i) == Order[i] \in stored /\ groups[Order[i]] # "absent" /\ Due(Order[i])

\* start_due_automatic_policy_benchmark looks at the first due group only;
\* without candidates it is not tested, and no other group is.
Tick ==
    /\ ticking /\ controller = "connected"
    /\ Shut /\ active = None
    /\ \E i \in DOMAIN Order :
          /\ Candidate(i) /\ \A j \in 1..(i - 1) : ~Candidate(j)
          /\ MayTest(Order[i], groups, controller)
          /\ Begin(Order[i], FALSE)
    /\ UNCHANGED <<link, exits, edit, stored, transfer, ops>>

\* The interval of a group has passed; intervals (30 s at least) are taken to
\* outlast a round of tests of the groups that are due.
IntervalPasses(p) ==
    /\ results[p].state \in {"complete", "failed"} /\ p \notin old
    /\ \A q \in Policies \ {p} : ~(Due(q) /\ groups[q] # "absent")
    /\ old' = old \cup {p}
    /\ UNCHANGED <<kept, link, exits, results, active, worker, polls, ops>>

(* -------------------------- edits and transfers -------------------------- *)

EditBegins(op, p) ==
    /\ Shut /\ edit = None
    /\ op = "remove" => p \in stored
    /\ Operation
    /\ edit' = [op |-> op, group |-> p]
    /\ UNCHANGED <<link, tests, exits, stored, transfer>>

EditRefused ==
    /\ edit # None
    /\ edit' = None
    /\ UNCHANGED <<link, tests, exits, stored, transfer, ops>>

\* finish_managed_policy_save, finish_managed_policy_removal: the results of
\* the group are cleared, the catalog is dropped, and a connected kernel is
\* connected again.
EditFinish ==
    /\ edit # None
    /\ edit' = None
    /\ stored' = IF edit.op = "save" THEN stored \cup {edit.group} ELSE stored \ {edit.group}
    /\ results' = [results EXCEPT ![edit.group] = Idle]
    /\ old' = old \ {edit.group}
    /\ worker' = IF worker # None /\ worker.key = edit.group THEN [worker EXCEPT !.edited = TRUE] ELSE worker
    /\ groups' = [p \in Policies |-> "absent"]
    /\ IF controller = "connected" /\ Shut
       THEN controller' = "connecting" /\ ticking' = FALSE
       ELSE UNCHANGED <<controller, ticking>>
    /\ UNCHANGED <<exits, active, polls, pending, transfer, ops>>

\* configuration_mutation_busy, in what it says of tests, edits and connects.
MutationBusy == active # None \/ edit # None \/ controller = "connecting"

\* begin_configuration_transfer: its window opens also to say that it is busy.
TransferOpens ==
    /\ Shut
    /\ Operation
    /\ transfer' = IF MutationBusy THEN "refused" ELSE "open"
    /\ UNCHANGED <<link, tests, exits, edit, stored>>

TransferCloses ==
    /\ ~Shut
    /\ transfer' = "shut"
    /\ UNCHANGED <<link, tests, exits, edit, stored, ops>>

\* finish_configuration_replacement after a failure: the kernel is stopped and
\* the live generation has ended.  A success restarts the application.
TransferStops ==
    /\ transfer = "open" /\ ~MutationBusy
    /\ controller' = "off" /\ ticking' = FALSE
    /\ UNCHANGED <<kept, tests, exits, groups, pending, ops>>

\* A restart, after a transfer or by the user.  Of the results only complete
\* ones are read back, those whose write to the cache file did not fail.
Relaunch ==
    /\ transfer = "open" \/ ops < MaxOps
    /\ ops' = IF transfer = "open" THEN ops ELSE ops + 1
    /\ controller' = "off" /\ ticking' = FALSE /\ pending' = None
    /\ groups' = [p \in Policies |-> "absent"]
    /\ \E kept_ \in SUBSET {k \in Keys : results[k].state = "complete"} :
          results' = [k \in Keys |-> IF k \in kept_ THEN results[k] ELSE Idle]
    /\ active' = None /\ worker' = None /\ polls' = {}
    /\ probing' = FALSE /\ probe' = Gone /\ recent' = {}
    /\ edit' = None /\ transfer' = "shut"
    /\ UNCHANGED <<old, stored>>

(* ------------------------------ specification ---------------------------- *)

User ==
    \/ Connect \/ ConnectionLost \/ TransferOpens \/ Relaunch
    \/ \E p \in Policies : TestPolicy(p) \/ TestOffline(p)
    \/ \E s \in Sources : TestSource(s)
    \/ \E op \in {"save", "remove"}, p \in Policies : EditBegins(op, p)

ConnectWork == ConnectSucceeds \/ ConnectFails
EditWork == EditRefused \/ EditFinish
TestWork == Finish({}, FALSE) \/ \E nodes \in SUBSET Nodes : Finish(nodes, TRUE)
PollWork == \E p \in polls : Poll(p)
ProbeWork == ProbeEnds \/ \E n \in Nodes : ProbeAnswers(n)
ProbePoll == PollDrains \/ PollLooks

Next ==
    \/ User
    \/ ConnectWork \/ EditWork \/ TestWork \/ PollWork \/ ProbeWork \/ ProbePoll
    \/ Tick \/ Progress
    \/ \E p \in Policies : CandidatesLoad(p) \/ IntervalPasses(p)
    \/ \E n \in Nodes : ExitAddressAges(n)
    \/ TransferCloses \/ TransferStops

Spec == Init /\ [][Next]_vars
        /\ WF_vars(ConnectWork) /\ WF_vars(TestWork) /\ WF_vars(PollWork) /\ WF_vars(Tick)

(* ------------------------------- properties ------------------------------ *)

\* A test that was running when its group was edited leaves no result behind,
\* and the partial results shown are those of the active test, never what a
\* poll of an earlier test of the same source still brings.
OldResultsAreDropped ==
    [][/\ TestWork /\ worker.edited => results' = results
       /\ \A k \in Keys : results'[k].by \subseteq {active'}]_vars

\* The first due group that has no candidates keeps the later ones waiting.
Starved(i) == \E j \in 1..(i - 1) : Candidate(j) /\ groups[Order[j]] = "empty"

\* A lowest-latency group that is due is tested in the end, although other
\* groups become due again, unless the connection is lost, a transfer begins
\* or an earlier group without candidates is in the way.
DueIsTested ==
    \A i \in DOMAIN Order :
        (ticking /\ groups[Order[i]] = "ready" /\ Due(Order[i]))
            ~> (~ticking \/ ~Shut \/ groups[Order[i]] # "ready" \/ ~Due(Order[i]) \/ Starved(i))
===============================================================================
