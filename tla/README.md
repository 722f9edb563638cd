# A verification project for FastTex

FastTex is a LaTeX service: an orchestrator that plans and schedules
compilations (Rust), workers that run a LaTeX engine, a gateway that relays the
edits of collaborating users over WebSockets, and a browser front end. This
directory holds TLA+ modules that model its logic, TLC configurations that check
them on small instances, and theorems that TLAPS proves for every instance. All
paths below are relative to `src/`.

To check a run: `tlc -config <cfg> <module>`; to check proofs:
`tlapm <module>_proofs.tla`. Every safety property that a run checks is also a theorem.

## 1. Inventory of the system

| Component | State | Operations | Hard because |
|---|---|---|---|
| **JobScheduler** `orchestrator/src/scheduler.rs` | `jobs`, `running_jobs`, `completed_jobs`, `pending_queue`, `workers`, each behind its own async lock | `schedule_jobs`, `get_next_job`, `report_completion`, `register_worker`, `stats`, `is_project_complete`, `gather_results` | any number of tasks interleave between locks; jobs are handed out twice; workers vanish; locks are taken in different orders |
| **DependencyGraph** `orchestrator/src/dependency_graph.rs` | nodes with content hash and last compiled hash, edges | add, edit, mark compiled; what needs recompilation, topological order, parallel groups | cycles, gaps in the levels, staleness that crosses nodes |
| **FairScheduler** `orchestrator/src/fair_scheduler.rs` | heap, running jobs per user, workers in use, statistics | submit, next, record start, record completion, cancel | decisions on counters that are updated later, ageing, starvation |
| **QuotaManager** `orchestrator/src/quotas.rs` | tier, limits and usage per user | set tier, admission, record start and completion | check and update are two calls; a sliding minute beside an hour that restarts; limits that shrink under running jobs |
| **CircuitBreaker** `orchestrator/src/circuit_breaker.rs` | a failure record per document | check, success, failure, release, cleanup | outcomes that arrive late, deadlines that move |
| **ConvergenceChecker** `orchestrator/src/convergence.rs` | hashes of auxiliary files of every pass | start, record pass, finalize, handle error | cycles of any length, the pass at the bound |
| **ArtifactCache** `orchestrator/src/cache.rs` | a storage backend and a metadata map | put, get, delete, invalidate project, expiry | two stores, two locks, no transaction |
| **CompilationMode planner** `orchestrator/src/compilation_mode.rs` | none | chooses engines and phases | dependencies between phases |
| **LaTeX parser** `orchestrator/src/parser.rs` | none | strip comments; find includes, inputs, bibliographies, the end of the preamble | some searches see the text with its comments, others without; escapes; a filter |
| **Orchestrator service** `orchestrator/src/main.rs` | none that is used | HTTP routes; `compile_handler` answers with a fixed reply | - |
| **Gateway: connections and relay** `gateway/src/server.rs`, `sync.rs` | registered connections, a broadcast channel and a snapshot per project | connect, relay an update, announce a compilation, close | lagging receivers, sockets that fail under one of two tasks |
| **Gateway: REST compile endpoint** `gateway/src/server.rs` | a temporary directory per request | try one compiler after the other, answer a PDF | compilers that hang and go on after they were given up |
| **Presence** `gateway/src/presence.rs` | users per project | update, leave, sweep stale users, drop empty projects | sweeps that collect first and remove later |
| **Worker compiler** `worker/src/compiler.rs` | a work and an output directory | lint, write a PDF or a format, report success | stale files, faulty sources |
| **Worker program, protocol** `worker/src/main.rs`, `protocol.rs` | none | one compilation; message types | - |
| **Front end: compiling** `frontend/src/App.tsx`, `components/Editor.tsx` | status, message and PDF as rendered and as set, a timer, object URLs | compile by button or Ctrl+S | requests that overlap, closures of earlier renders |

The graph says which documents must be compiled; `JobScheduler` creates a job
per document in the order of the graph's groups, hands jobs to workers and takes
their reports; a worker's passes are steered by the convergence checker; the
circuit breaker keeps poisoned documents away; the cache keeps artifacts; the
fair scheduler and the quotas share workers among users. In the repository the
components are joined only by `scheduler.rs` (which uses the graph) and
`fair_scheduler.rs` (which reads quotas): the service's handlers are stubs. The page
compiles through the gateway's REST endpoint, which runs compilers itself and uses
neither orchestrator nor workers. The
models therefore take a component's callers to be any tasks that use its public
methods the way its tests and comments do.

What makes each component correct:

- **JobScheduler**: nothing runs before what it depends on has a result; no
  ready job is forgotten by a system that never polls; what is called running
  runs; a complete project lacks no result; everything finishes.
- **DependencyGraph**: what needs recompilation is exactly the changed nodes and
  all that depend on them; groups respect the edges; no stale output is called
  up to date.
- **FairScheduler**: limits are exceeded by no more than the race allows; counters
  never leak; nobody starves.
- **QuotaManager**: a limit is exceeded by no more than the requests that stand between check
  and record account for; a refused user is admitted again.
- **LaTeX parser**: no file is missed that TeX reads; what is stripped is what TeX ignores;
  the document can be cut at the end of the preamble.
- **CircuitBreaker**: nothing is admitted in quarantine, which counts from the last
  failure and ends.
- **ConvergenceChecker**: passes are bounded, every cycle is noticed and only cycles
  are reported.
- **ArtifactCache**: no data outlives the metadata that would expire it, and who asks for data
  after its own time to live does not get it.
- **CompilationMode planner**: a phase waits for all that must come before it, and for
  nothing else.
- **Gateway**: clients of a channel hear the same messages in the same order without a gap;
  nobody is shown as present who is not connected; sweeps remove only who is stale.
- **Compiling from the page**: the PDF shown exists and answers a request of this page, the
  page says how the last answer went, no request hangs.
- **Locks of the scheduler**: no circle of waiting tasks, every call returns.

PROJECT.json lists each place where this can go wrong under `hazards`, with the
properties that watch it.

## 2. Modules

| Module | Models | Uses |
|---|---|---|
| `JobScheduler` | `struct JobScheduler` at the grain of lock segments | - |
| `DependencyExecution` | what it promises: a job starts after its dependencies are done | - |
| `JobScheduler_proofs` | theorems about `JobScheduler` | `JobScheduler` |
| `CompileGraph` | the algorithms of `DependencyGraph` as operators over node and edge sets | - |
| `DependencyGraph` | the graph as it is built, edited and marked compiled | `CompileGraph` |
| `IncrementalBuild` | rounds of compilation driven by the graph, with the workers' compiler | `DependencyGraph` |
| `SchedulerLocks` | every method of `JobScheduler` as its sequence of acquisitions | - |
| `SchedulerLocks_proofs` | theorems about `SchedulerLocks` | `SchedulerLocks` |
| `FairScheduler` | `struct FairScheduler` with the tier limits of `QuotaManager` | - |
| `FairScheduler_proofs` | theorems about `FairScheduler` | `FairScheduler` |
| `CompilationPlan` | the planner: mode, strategy, phases, estimate | - |
| `LatexParser` | the parser as functions of a document, a user who writes it, and what TeX reads of it | - |
| `Planning_proofs` | theorems about the graph, the rounds, the planner and the parser | `IncrementalBuild`, `CompilationPlan`, `LatexParser` |
| `CircuitBreaker` | the record of one document | - |
| `QuotaManager` | the quotas of one user | - |
| `Convergence` | the checker during one compilation | - |
| `Guards_proofs` | theorems about those three | `CircuitBreaker`, `QuotaManager`, `Convergence` |
| `ArtifactCache`, `ArtifactCache_proofs` | `put`, `get`, `exists`, `delete`, `invalidate_project`, expiry; theorems | - |
| `Gateway` | the WebSocket connections, relay and presence of one project | - |
| `OrderedRelay` | what the relay promises: unbroken runs of the channel's messages | - |
| `Gateway_proofs` | theorems about `Gateway`, with the refinement | `Gateway`, `OrderedRelay` |
| `CompileRequest`, `CompileRequest_proofs` | the page's compile requests and the endpoint that answers them; theorems | - |

`MC<module>` gives a module its small instance (`MCFairScheduler` two, of which a behaviour
picks one). `MCDependencyGraph` runs graph, planner and
parser, `MCGuards` circuit breaker, quotas and convergence: those share no state, so a
behaviour picks one and leaves the others alone. Operators introduced as *slips*
are plausible mistakes in the definition that follows them; they are in no
specification and serve to show that the properties notice them
(PROJECT.json, `mutants`).

### How they correspond to the code

**JobScheduler.** A Rust collection is a function or a set (`completed_jobs[j]` is
`None` when the map has no entry). The five segments of
`report_completion` and the per-job segments of `schedule_jobs` are actions
(`ReportStatus`, `ReportRemove`, `ReportInsert`, `ReportSnapshot`, `ReportRequeue`;
`InsertJob`, `QueueNewJobs`). `get_next_job` and `queue_ready_jobs` wait for a second lock while
they hold a first, in opposite orders, so each of their uses is two steps. A worker that has taken
`pending_queue` stands at `Dispatch` until nobody holds `jobs`; a report at `Append`, and a call in
`appending`, hold `jobs` and `completed_jobs` for reading until nobody holds `pending_queue`. These waits
are guards: two tasks that wait for each other (`Blocked`) never go on, nor does anybody who needs the locks
they hold. A worker's loop runs get, compile, report; `Crash` loses
one while it compiles. The queue is the code's: a `VecDeque` to which sorted batches are
appended, ready jobs again and again until somebody takes them. So a job can be in the
queue twice, be compiled twice and reported twice, and every property is about
behaviours in which that happens.

**CompileGraph, DependencyGraph, IncrementalBuild.** `Propagate` is the work list of
`nodes_needing_recompile` as a recursive function, `TopologicalOrders` all that
petgraph's `toposort` may return (external), `Levels` and `Groups` the two loops of
`parallel_groups`. `DependencyGraph` builds any graph one edge at a time, with cycles.
`IncrementalBuild` adds the rounds: `read` and `built` record which content an output was
made of; a preamble is used through its output (the `.fmt` file), other
sources directly. Whether a compilation succeeds is the worker's compiler: a format is
written whatever the preamble holds, a PDF unless `lint_source` finds an error, and success
means that the PDF exists afterwards, whoever wrote it: `pdfs` is what the output directory holds, any PDFs
from earlier lives of the project at the start, and it outlives compilations, as `worker/src/main.rs:84` and the volume of
`docker-compose.yml` have it. Documents have names of their own there; that another project with
the same names shares the directory is not modelled. `faltered`, `raced` and `disturbed` name the nodes that
a failure or an edit touched. `mark_compiled` has no caller outside tests; the model calls it
where its comment says, at the end of a successful compilation.

**SchedulerLocks.** Data is left out. A method is a sequence of `read`, `write` and
`release`; a lock serves its waiters in the order of arrival, as tokio's do.

**FairScheduler.** A job's `phase` is the segment it has reached. `get_next_job` holds
the locks of the queue and of `running_jobs` from its choice to its return, so nobody
passes those two locks while a job is `Selecting`. The heap is kept in the order in
which `get_next_job` would sort it: all ages grow alike, so the order of two jobs is
settled when the later one is pushed. Ages are counted from the push (the code counts
from `ScheduledJob::new`, just before). `active_jobs` stands for `workers_allocated`
too, which is always changed with it. A slot of `Jobs` is used again when its job has
left, so the supply of jobs is endless.

**CircuitBreaker.** Instants are counters that `Tick` moves: the time since the last
failure, the time left in quarantine. Up to `MaxRunning` compilations are under way and
report late, in any order.

**QuotaManager.** One user, since the usage of two does not mix. `check_admission` writes
whatever it answers: it drops old timestamps and restarts an hour that is over (`Refresh`). Its
four tests are in the code's order, each refusal a disjunct of its own. A request is
`admitted` between the check and `record_job_start`; up to `Handlers` of them stand there at once
and may go away without a start (`Abandon`). Instants are ages, moved by `PassTime`; the
code's 60 and 3600 seconds are the constants `Minute` and `Hour`.

**LatexParser.** A line is a sequence of backslashes, percent signs and commands, each one
character long; this is all that the regular expressions and `strip_comments` tell apart. What a search finds
is a set of places, by line and column; the code's vectors keep their order, of which only the first
`\includeonly` is ever used. `Write` and
`BreakLine` build every document, and the parser is evaluated in each state. What TeX does with the
document is defined beside it, by place and parity of backslashes, without a scan.

**Convergence.** A pass is a map from file to content; files come and go. The
hash of a pass is the map itself.

**CompilationPlan.** The planner reads nothing of a graph but how many nodes of each type it
has, so a document is that count. Phases count from 0 in `depends_on`, as in the code;
complexity is kept in tenths.

**Gateway.** A connection is two tasks. The handler's steps are `Connect`, one action per
kind of message it reads, `Close` (abort the forwarder) and `Leave` (remove presence and
registration); the forwarder's are `Receive`, `Deliver` and the two ways it ends, `Lag` and
`DeliverFails`. `YjsRelay::broadcast` is two actions, send and store. Tokio's broadcast channel
(external) keeps the last `Capacity` messages and fails a receiver that has fallen
further behind, which ends the forwarder's `while let Ok(..)`. Users of DashMap
lock one shard at a time: `cleanup_empty_projects` is two actions, `cleanup_stale`, which
removes while it holds the project's entry, is one.

**CompileRequest.** `shown` is what React rendered last, `next` what has been set since; a call
sees the PDF URL of the render that made its closure (`seen`). Effects' cleanups run some time
after a render and before the next. The endpoint's `attempt` is the compiler it tries,
`abandoned` those whose time ran out: dropping a tokio `Child` does not kill it, so they may
still write their PDF.

**ArtifactCache.** A storage key is a sequence of components, and a prefix test looks at
the first. `put`, `delete`, `invalidate_project` and `get` are two actions each, for each takes the
two locks one after the other; `exists` reads the same two stores as `get` does, and is the same pair. A `get` that finds
expired metadata is refused there and then; one that goes on to the data (`LookUpMetadata`, `LookUpData`) leaves a gap
in which anything may happen. Metadata is absent, valid
or expired; the history variable `aged` says of the data itself whether its time has
passed, whatever the metadata next to it says.

## 3. Runs

| Run | Instance | Shows |
|---|---|---|
| `JobScheduler` | jobs preamble, chapter, main in a chain with a shortcut, an independent figure of a second call; 2 workers; 1 lost worker | `TypeOK`, `DependencyOrder`, `NoLostJob`, `QuietMeansDone`, `NoGhosts`, `CompleteMeansGathered`, `EveryJobFinishes` (unless a worker is lost or two tasks block each other), and that `DependencyExecution` is implemented |
| `DependencyGraph` | 4 nodes, up to 4 edges; or a plan for up to 6 nodes of each type and 3 workers; or a document of up to 6 characters, line ends included, with 2 file names | `NeededIsClosure`, `GroupsRespectDependencies`; `PhasesWaitForEarlierOnes`; `NoDependencyIsMissed`, `CommentsAreStripped` |
| `PreambleOffset` | a document as above, violated | the end of the preamble is an offset into the text without comments (finding) |
| `IncrementalBuild` | preamble, chapter, main; 2 good contents and a faulty one; 2 edits; any PDFs left from before | `UpToDateNodesAreCompiled`, `UpToDateNodesAreCurrent` |
| `SchedulerLocks` | 4 tasks in three mixes of methods | `NoCircularWait`, `EveryCallReturns` |
| `SchedulerLocksConflict` | 2 tasks, violated | `get_next_job` and `report_completion` block each other for ever (finding) |
| `FairScheduler` | 2 users, 2 dispatchers; in the line 3 jobs, 1 worker, a cap of 2, limits 1 and 3; in the crowd 4 jobs, 2 workers, a cap of 1 | `OvershootIsBounded`, `BooksBalance`, `QueueIsNotOverstated`, `NoStarvation` |
| `Guards` | a circuit that opens after 3 failures, 3 compilations under way; or a user with 2 tiers, 2 requests between check and start, a minute of 3 ticks and an hour of 5; or 2 auxiliary files with 2 contents and 5 passes | `QuarantineCountsFromLastFailure`, `NoAdmissionInQuarantine`, `QuarantineEnds`; `QuotaOvershootIsBounded`, `RefusedUserIsAdmittedAgain`; `NoRepeatGoesUnnoticed`, `PassesAreBounded`, `OscillationIsReal` |
| `ArtifactCache` | 3 clients, 2 projects | `DataHasMetadata`, `ExpiryIsOfTheData` |
| `ArtifactCacheInvalidate` | the same, violated | `invalidate_project` invalidates nothing (finding) |
| `Gateway` | 2 clients, one of whom shares a cursor, both routes, 2 messages per channel that retains 1 | `PresenceHasConnection`, `EveryMessageIsHeard`, `ActiveUsersStay`, and that `OrderedRelay` is implemented |
| `CompileRequest` | 3 requests, 2 at once, 2 compilers | `ShownUrlIsLive`, `ShownUrlsAreRevoked`, `PageAgrees`, `PdfIsOfRequest`, `EveryCompileEnds` |

### Bounds, and why they are enough

- **JobScheduler**: two workers suffice for every race between a report's copy of the
  keys and another report; the chain with a shortcut has a job that waits for two others,
  the second call brings jobs in the middle of reports. The queue is not bounded: a job is
  appended once per report while it is pending, and reports are finite. What needs
  more jobs or workers is covered by the theorems.
- **DependencyGraph**: four nodes give chains, diamonds, cycles of two to four nodes, and a
  gap between two levels. Six nodes of a type cross every threshold of the planner (3 and 5
  chapters) and fill more than one batch for every number of workers. Six characters, the
  last end of line included, hold a filter on one line and on the next a percent sign, escaped or not,
  before an `\include`.
- **IncrementalBuild**: the three nodes of `test_dependency_graph`; `MaxEdits` = 2 edits can change
  a source and undo it, or meet another one in the same round, with up to as many rounds as the edits and
  failures make necessary. Any number of edits is a theorem.
- **SchedulerLocks**: a circle among these methods needs at most one task per method in
  it. `stats` and `report_completion` side by side with two more cover every pair that
  holds one lock and waits for another. `get_next_job` is mixed only with methods that
  do not wait for the queue while they hold `jobs`; together with those it deadlocks, which
  `SchedulerLocksConflict` shows.
- **FairScheduler**: `MaxAge` stops a job's age where it is ahead of every newcomer, which
  is assumed of the constants. In the line the two users compete for one worker, with cancellations and changes
  of tier. In the crowd three jobs of one user stand against a cap of 1, which the race may exceed by one, and two
  workers leave room for a third, so the bound of a user breaks when the cap is not looked at; four jobs together
  can take four workers where three are allowed, so the bound of the workers breaks when they are not. Users of the crowd neither
  cancel nor change tier, which a cap of 1 makes meaningless. The bounds for any number are a theorem.
- **Guards**: deadlines of a few ticks, told apart by their order; passes up to the bound of the
  configuration. Two requests between check and start exceed every limit, a third would add the
  same again; the two tiers make the limits fall below what is used. That all bounds hold for any
  numbers is proved.
- **ArtifactCache**: a third client puts while two others get, delete or invalidate.
- **Gateway**: two messages against a capacity of one are the least that make a receiver lag;
  clients do not influence each other but through channels and the presence map.
- **CompileRequest**: three calls with two in flight give every order of two
  answers, and a third call on top of either.

`CHECK_DEADLOCK FALSE` is set where the system may stop: all jobs done
(`JobScheduler`), nothing to recompile (`IncrementalBuild`), a plan made
(`DependencyGraph`), a document of the longest length written (`DependencyGraph`,
`PreambleOffset`), everybody gone or all calls made (`Gateway`, `CompileRequest`), and the run that shows the lock conflict as a call that never
returns.

### Fairness

- A worker's loop and a started call of `schedule_jobs` are async tasks the runtime
  polls until they end: weak fairness of each task's steps. A step that waits for a lock has that in
  its guard, so nothing is assumed of a task whose lock is never released, and `EveryJobFinishes` excepts
  behaviours in which two tasks block each other (`SchedulerLocksConflict` shows that they can) and in which a worker is lost.
  Nobody must call `schedule_jobs`, or lose a worker.
- `SchedulerLocks`: a task that can go on is polled, and a lock that can be granted is
  granted. Nobody must call a method.
- `FairScheduler`: jobs end and their records are made; a task that waits for a lock gets
  it although others come again and again (strong fairness, since tokio's locks are
  first come, first served); dispatchers keep asking; time passes. Nobody must submit or cancel.
- `Guards`: time passes and somebody keeps asking, about the document and for a job; a job that
  was admitted starts, and one that runs ends, for compilers have time limits. Nobody must fail, succeed,
  abandon a request or change a tier.
- `Gateway`: the runtime polls a connection's two tasks; a failed socket makes the next read
  fail. A client that stops reading without failing is taken for a failed socket: `Deliver` or `DeliverFails`
  happens in the end. Nobody must connect, write, update or sweep.
- `CompileRequest`: the endpoint's tasks go on, and each compiler it waits for ends or is given
  up after its time; the page runs continuations, renders and cleanups. Nobody must
  compile, and an abandoned compiler may hang for ever.

## 4. Proofs

### JobScheduler

For any finite set of jobs, any calls, projects, workers, priorities, any number of lost
workers, and any acyclic graph. Two assumptions: the types of the constants, and
`GroupsRespectEdges`, that an edge joins jobs of one call and leads to a lower group.
Of the groups `parallel_groups` returns this is `GroupsRespectDependenciesCorrect`, below.

`TypeCorrect` comes first. `BookkeepingCorrect` is the strengthening everything else
rests on: the call's list is what the store knows of its jobs, every known job has **all** its
edges recorded, and what is queued or held is known. `DependencyOrder` alone is not inductive: that a
ready check over the recorded `dependencies` says something about the graph needs
`dependencies[j] = Deps[j]`, which holds because `schedule_jobs` goes by groups.

Who stands between the two halves of `get_next_job` or `queue_ready_jobs` holds what its guard left it: nobody appends
while a worker is at `Dispatch`, and what a report or a call at its second half has read stays so.
`NoLostJob` is inductive with both: a job becomes ready only when a result is stored, and whoever
stores it has yet to copy the keys, or when it is inserted, and its call has yet to queue.
`SettledJobsHaveResult` gives `CompleteMeansGathered`; `NoGhosts` is inductive by itself.
`QuietMeansDone` follows from all of them: among the jobs without a result take one of least
level; its dependencies have results, so it is pending and ready (then
`NoLostJob` has somebody on the way), or compiling (then somebody holds it), or settled (then
somebody is about to store its result), and nobody is there. `Refinement` maps `started` to
the jobs ever handed out and `done` to those with a result.

### FairScheduler

For any finite set of jobs, any users, workers, tiers and number of dispatchers.
`Books`, the inductive invariant under everything, says that each counter is the number of
jobs between the segment that counts it in and the one that counts it out; `MoveCount` says how such
a number changes when one job moves. `BooksBalanceCorrect` reads it at rest.
`OvershootIsBounded` is not inductive, since a job in a dispatcher's hands is not
listed yet: `Overshoot` counts it from its selection on. At a selection fewer than the
cap are listed and fewer than `Dispatchers` are in hand, which bounds the sum
(`CountedAndHeld`). `QueueCountCorrect` is inductive with the types.

### Guards: CircuitBreaker, QuotaManager, Convergence

`BreakerInv` adds to the types that the failure count says whether the circuit is closed, and that a
half-open circuit has served the quarantine of its last failure; with these
`QuarantineCountsFromLastFailure` is inductive and `NoAdmissionInQuarantine` is a property of every
step. The only assumptions are those on the configuration.

`QuotaOvershootIsBounded` becomes inductive when requests between check and start are added to
what they may use: jobs, requests of the last minute, and used compute time plus
one longest job for every job that runs or may start. A record moves a unit from one summand to the
other, time and resets only lower them (`NothingGrows`), and a check that
admits finds each below the limit of the present tier (`AdmitWithinBounds`). Dropping or ageing timestamps
makes none younger, which is an injection between their indices (`RefreshKeepsYoung`).

`NoRepeatGoesUnnoticed` is inductive because `record_pass` compares a new state with all
before it, and with the last one by what changed (`UnstableIsNew`: a state that differs in some file it
has is another state).

### ArtifactCache

For any clients, types, projects and hashes. `CacheInv` says, of each key, what its data,
metadata and age may be while no call of the key is half done, and how a half-done `put` or
`delete` relaxes this; `GetInv` carries what a `get` found at its first read to its second. Two calls of the same key may overlap; `CallBegins` and `CallReturns` say what a
step does to the set of calls of a key.

### Gateway

For any clients, any capacity and any number of messages. `PresenceInv`: a sync
connection is registered from its first step to its last, and while a sweep has looked every user is a
newcomer; that gives `PresenceHasConnection`, and `ActiveUsersStay` step by step. `RelayInv`
relates what a client has been sent to what its forwarder has taken: as much while it receives, one
less while it sends, nothing without a forwarder. With it each step is a step of
`OrderedRelay` or leaves its variables alone: `Connect` is `Join`, both announcements `Publish`, `Deliver`
is `Hear`, `Close` is `Leave`.

### CompileRequest

For any number of calls, calls at once and compilers. `UrlInv` rests on URLs being those of calls
that returned: a call that returns brings a URL nobody has seen, so neither a cleanup nor another call,
which saw an older one, revokes it. `NextAgrees` is inductive since status and URL are set together by
the last call to return. `FileInv` says that a directory holds nothing, or the PDF of its request.

### SchedulerLocks

For any tasks and mixes. `LocksInv` says who holds and who waits for each lock, from where the
tasks are in their programs (`Wants`, `HeldBefore`), and that each queue has a task once. In a circle of
waiting tasks each task waits for a lock that the next one holds or is ahead in; `NoCircularWaitCorrect`
takes the lock that comes last in the order of the mix among those waited for: who holds it, or stands before
another in its queue, would wait for a later one. Its hypothesis, that each mix has an order of the locks
(`Ordered`), is just what `SchedulerLocksConflict` lacks; TLC evaluates it for the mixes of the run.

### Graph and rounds of compilation

For any nodes, edges, contents and number of edits. `PropagateIsClosure` rests on a count: a round of
the breadth-first search that is not the last reaches a new edge (`SpreadCloses`), so as many rounds as
there are edges suffice. `DependsOnIsClosed` characterises the reference, the least closed set, and
`NeededNodes` joins the two.

For the groups, `LevelsExist` and `LevelsUnique` show that the loop determines the levels map:
a level depends on those at earlier places only. `LevelsOfNodes` puts each node above its
dependencies; along a path this needs that all nodes between two that need recompilation need
it themselves, which is `PropagateIsClosure` again. `Ranks` makes the levels in use, with their gaps, the
numbers of the groups (an injection of a finite set into as many numbers is onto).

`BuildInv` strengthens the two properties of `IncrementalBuild`. Without conditions, a node marked with the content it
was compiled from has an output of that content, or has errors and an old PDF (`OutputsOfMarked`); a preamble always has
its output (`FormatsOfMarked`); and a node in a round waits for its dependencies in it (`RoundInOrder`).
The others hold but for the nodes that a failure or an edit touched, each as narrowly as it is true: only a node edited
during a round is marked with another content than it was compiled from (`RacedAreDisturbed`); while a round is on, who is
not in it is marked with its current content (`OthersAreMarked`); an output nobody is about to replace was made of the
marked contents of all that the node depends on (`BuiltOfMarked`); a running compilation has read the current ones
(`ReadsCurrent`). That a compilation reads current contents through a preamble's output joins them all: the preamble is not
pending, so it is not needed, so it is marked with its current content, and its output is of that. Nothing is assumed of the
output directory. TLC checked the parts as invariants of the run's instance before they were proved, and that each exception is needed.

### Planner

For documents and workers of any number. `AddPhaseToChain` says that `build_phases` makes a chain, each phase
naming the one before it, if the first phase is a preamble or chapters; `ChainAwaits` that along a chain a phase
waits for all before it.

### LaTeX parser

For documents of any length, names and lists. `FlagIsParity`: the flag of the scan, after each character, is the parity of
the run of backslashes there, which is how `IsEscaped` defines what TeX does without a scan. So a line is
cut at TeX's comment (`StripLineCutsComment`) and a search in the stripped text finds just the commands outside comments
(`CapturesOfStripped`). `NotFiltered` adds that with one filter at most the parser's is TeX's.

### How recursion is treated

The library's induction theorems take an operator as parameter, which the provers at hand cannot instantiate. Two
lemmas of `Planning_proofs` stand in for them, with sets: `Induction` (a set of numbers with 0 and the successor
of each of its numbers has all), from the well-foundedness of `<`, and `Iteration` (a function of a set into
itself can be iterated). Each recursive function of the model is first shown to exist, by iterating its
step, and then to be what an induction says.

### Only model-checked

Liveness (`EveryJobFinishes`, `EveryCallReturns`, `QuarantineEnds`, `RefusedUserIsAdmittedAgain`,
`NoStarvation`, `EveryMessageIsHeard`, `EveryCompileEnds`) is out of the prover's reach. All other
properties of the passing runs are proved as well.

## 5. Where code and words differ

Shown by a run: the three findings above. Met while modelling, and described here only:

- `pending_queue` holds "Jobs waiting to be executed" (`scheduler.rs:219`): a pending job is
  appended again with every report, and the second entry outlives its dispatch, so a job is
  queued while it compiles or is done, and is compiled again. Priorities order one appended
  batch only.
- `max_concurrent_jobs` (`scheduler.rs:193`) is never read.
- A failed dependency satisfies its dependents (`scheduler.rs:343` tests for a result, not
  for success). `docs/SYSTEM_ANALYSIS.md:249` says "Worker crash triggers job
  reassignment"; nothing resets a job that a worker took, and `last_heartbeat` is not read.
- When a dependent fails after its dependency was marked compiled, it is not found again by
  `nodes_needing_recompile`; an edit made while a node compiles is marked compiled. `UpToDateNodesAreCurrent` excepts
  these nodes and what they spoil, and says that the harm goes no further.
- `get` and `exists` read metadata and data under two locks (`cache.rs:288`, `:296`): data whose time runs out in between
  is still served.
- `record_pass` compares the files of the present pass, so a file that disappeared is
  no change (`convergence.rs:196`); `check_aux_convergence` (`scheduler.rs:485`) does compare
  the number of files.
- A timeout after passes that produced output is a failure (`convergence.rs:302`);
  `docs/SYSTEM_ANALYSIS.md:236` says "Convergence failure produces warning, not error".
- "No user may consume more than 30% of workers" (`docs/SYSTEM_ANALYSIS.md:257`) holds for
  one dispatcher; `OvershootIsBounded` says by how much several exceed it.
- "Hard limits enforced" (`docs/SYSTEM_ANALYSIS.md:312`): `check_admission` compares counters that only
  `record_job_start` raises, so requests that are checked before one of them starts exceed the limits together;
  `QuotaOvershootIsBounded` says by how much.
- The plan of a document with neither preamble nor chapters has a first phase that depends on
  itself (`compilation_mode.rs:294`, `:305`); figures, styles and classes are in no phase. The
  planner has no caller.
- A PDF of the same name left in the output directory by an earlier compilation makes a
  failed one a success (`worker/src/compiler.rs:189`), `worker/src/main.rs:84` always uses the same directory, and
  `docker-compose.yml:144` gives its three workers one volume. So a document whose content has errors may be marked
  compiled with an old PDF: the exception in `UpToDateNodesAreCompiled`. With two projects whose documents have the same
  name, which is not modelled, one may be answered with the PDF of the other. `lint_source` counts escaped braces and those in comments; the time limit
  of a compilation is not read.
- `sync.rs:48` stores the last update as the snapshot, possibly not the last one sent; nothing
  reads it, so a client that joins later gets no document. `cleanup_project` would lock
  itself out (it removes while it holds a guard of the same map); it has no caller. A
  client gets its own updates back (`server.rs:279` says "to other clients").
  `max_connections_per_project` is not read. A client that lags is not told.
- The page's editor speaks the binary y-websocket protocol to `/sync/demo-project/demo-project`;
  the gateway's route takes one UUID and answers in JSON.
- "Clear success message after 3 seconds" (`App.tsx:120`): the effect on the new PDF URL cancels
  the timer (`App.tsx:57`). A URL replaced before it was rendered is never revoked. The
  answer of an older call may replace that of a newer one. Each new PDF makes the editor and its Yjs
  document anew, since its effect depends on `onCompile`. The request carries no content, so
  the endpoint always compiles its demo document.
- "Compilation timeout is enforced" (`server.rs:426`): a compiler whose time is up is no
  longer waited for, and runs on. When every compiler fails, the answer is a placeholder PDF with
  status 200, so the page reports a success (`server.rs:565`).
- The retry time of a user refused by the rate is cut to whole seconds (`quotas.rs:255`), so asking
  again then may be too early. A job is charged to the hour in which it ends, and to
  none if a check restarts the hour next. A job whose completion is never recorded counts against
  its user for ever, and `memory_allocated` is never raised.
- The parser finds commented-out `\include`s, for it looks for them in the raw text (`parser.rs:154`): a dependency too many. A path with a dot in it gets no `.tex`, so that file is
  missed. Of several `\includeonly` it takes the first, and it takes one behind a line break `\\` for a
  filter. External figures are counted in the raw text.
- While a circuit is half open every caller is let through, not one test request.

## 6. Not modelled

- **Of the LaTeX parser**: the document class, packages and names of TikZ figures, which no
  component reads.
- **Orchestrator service, worker and gateway programs, worker protocol, proto, infra**: no logic
  of their own; the messages of the worker protocol are data that nothing sends yet.
- **Views of the front end** beside the compile button: user interface.
- Code without a caller: `cleanup_project`, `get_snapshot`, `store_snapshot`, `update_active_file`,
  `register_worker`'s list, `set_root`.

## 7. Plan

1. Done: `JobScheduler` with its abstract specification; the graph, the rounds it
   drives, the planner and the parser; the locks; circuit breaker, quotas, convergence, cache and fair
   scheduler; the gateway with its abstract relay; compile requests. Every safety property is proved.
2. Next: an abstract specification of the rounds (outputs as functions of contents) that `IncrementalBuild`
   implements; two projects with documents of the same names in one output directory.
3. Then: a document's compilation in passes, composed with `Convergence` and the cache of its
   formats; quotas and circuit breaker as the admission of one job; a second project in
   `Gateway`, for the sweeps over the map of projects.
