# Verification of basecradle-router

TLA+ models of the router's core, TLC configurations that check them on small
instances, and TLAPS proofs of what matters most of the scheduler, the breaker,
the pipeline's gates, the GitHub ledgers, the probe, the claims the router
makes of itself and the dependency scan: every invariant a passing run checks is
also a theorem. Paths are relative to the repository root; the package is
`src/basecradle_router/`. Every module's header says what it models; every
definition that stands for code is listed with its lines in `PROJECT.json`.

## The system

The router receives webhooks (GitHub, the BaseCradle platform, its own probe),
and wakes the agent each one is for: it runs a session that takes minutes.

| Part | State it keeps | Operations | Where it is hard |
|---|---|---|---|
| Scheduler `scheduler.py` | per-agent queues, ready queue, agents in flight, notification tickets | submit, dispatch, finish, notify, drain | event loop, worker threads and the drain share one condition; the observer runs outside it |
| Breaker `breaker.py` | a window of wake times and a trip time per scope | admit, sweep | clock read before the lock; two scopes recorded one after the other; the sweep |
| Pipeline `pipeline.py`, `concurrency.py` | the per-agent lock | accept, execute, wake with retry | gates answered at different moments, several ways for a wake to end |
| Deduper `dedup.py` | delivery key to time done | seen, mark, sweep | redelivery against expiry; failed deliveries must stay retryable |
| Coverage `coalesce.py` | last successful start per stream, LRU | covering, record | event times of one clock against start times of another |
| Wake-lock `wakelock.py` | none: reads the NOC's file | inspect, check | another process writes the file and acts on what it sees |
| Evidence `evidence.py` | one document in memory and on disk | recorders, flush, boot | killed in the middle of a flush; a reader at any time |
| GitHub route `routes/github.py` | issue and pull request ledgers, LRU | normalize, recheck, warm | deliveries late, lost, repeated, reordered, whole-second stamps; restarts |
| Server `server.py` | where its lifespan is | boot, accept and answer, drain, exit | killed between an acknowledgement and its outcome; the drain and the last reports |
| Probe `probe.py`, `routes/probe.py` | a first reading, a deadline | read, inject, poll | a separate process that reads the file the daemon writes; other wakes and other probes in its window |
| Configuration `config.py`, `app.py`, platform keyring `routes/basecradle.py` | what was built at boot | load or refuse, build, resolve, select a key | lossy names, shared OS users, a fallback that is retired, a registry edited later |
| Claims `claims.py`, `__main__.py` | none: reads the environment and the evidence file | emit a manifest per agent and one for the box | a separate process whose configuration is newer than the daemon's, and whose file may be a dead process's |
| Dependency scan `.github/scripts/dependency_security_scan.py` and its workflow | the marker in its own issue | read, scan, merge, plan, call GitHub, heartbeat | dies between two calls; people edit and close its issues; one problem under many names |
| Self-test, log grammar, deployment | none | | |

Control flow: `server.py` hands a webhook to `Pipeline.accept`, which asks the
route to verify and normalize it and resolves the agent; the server then submits
the pair to the scheduler. A lane runs `Pipeline.execute`: dedup, coverage, the
route's recheck, wake-lock, breaker, then the wake with its bounded retry. The
outcome marks the deduper, records coverage and bumps the evidence. The
scheduler reports each agent's pending count to the evidence store, and the NOC
reads the evidence file and locks agents it upgrades.

What makes each part correct: the scheduler runs one wake per agent, forgets
none, starves none and publishes the true depth; the breaker caps the rate and
halts only the guilty; a delivery is collapsed only into a session that read it,
or that did it; a locked agent stays asleep; evidence survives a kill and never
overstates; the ledgers end up at the truth whatever the order of deliveries; a
probe's verdict is about its own delivery; a key verifies for its own agent only;
a manifest lists the edges that work and proves none that was not used; a
standing problem of the lockfile is paged, once.

## Modules

| Module | Models | Correspondence |
|---|---|---|
| `AgentStreams` | what the scheduler promises | one ordered stream per agent; abstract |
| `WakeScheduler` | `scheduler.py` | one action per critical section of `_cv` or per step outside it: `Submit`, `StartJob`, `RunJobFinally`, `CheckTurn`, `NotifyQueueChange`, `Settle`, `CallWaitIdle`, `WaitIdle` |
| `WakeSchedulerProofs` | proofs about it: its locks and notifications; its order, its drain and the refinement | |
| `WakeRateBreaker` | `breaker.py` | `Ask` is admit up to the lock, `Admit` the critical section, with the sweep, resets, records and trip |
| `WakeRateBreakerProofs` | proofs about it | |
| `WakePipeline` | `execute`, `_wake`, `dedup.py`, `coalesce.py`, `wakelock.py`, `with_retry`, outcomes of `wake.py`, keys of `models.py` | one action per gate in the order of the code, one per way a wake ends; sources and NOC are external actions |
| `WakePipelineProofs` | proofs about it | |
| `EvidenceStore` | `evidence.py` | boot, the recorders, `_atomic_write` step by step, kill, failing calls, power cut; no behaviour of its own |
| `RouterConfig` | `config.py`, `app.py`, the keyring and the registries | operators over an environment: what loads, what is built of it, whom a recipient resolves to, which key verifies; no behaviour of its own |
| `ClaimsManifest` | `claims.py` and the emitter, composed with the two above | `Edit` is the operator, `Start` is boot, `Receive` and `WakeOk`/`WakeNot`/`WakeUntold` are the accept and the slow half as far as they are recorded (a stopped wake, a dropped recheck and a crash record nothing), `StoreStep` a step of a flush; the emitter is a set of operators over the present environment and file, so every state is a moment it may run at |
| `ClaimsManifestProofs` | proofs about it | |
| `DependencyScan` | the scan and its workflow | `Begin` reads the issues, `Scan` and `ScanFails` merge what was printed and plan, `Apply` is one call to GitHub, `Finish` the heartbeat, `Die` a run that ends early; `WorldChanges` and a person's `Touch` (`Edit` or `Reopen`) are outside |
| `DependencyScanProofs` | proofs about it | |
| `GithubRoute` | `routes/github.py` | GitHub posts deliveries (external: `Open` is an issue with its labels, `Change` what becomes of it, `Comment` shows it as it was at any moment of its second); `Deliver` is `normalize` with `observe` in it, `Dispatch` is `recheck`, `Restart` loses the memory and runs `warm`; a wake that waits is its issue and the delivery it is by |
| `GithubRouteProofs` | proofs about it | |
| `SequenceFacts` | what the proofs about the two memories with a capacity (the coverage, the ledgers) use of sequences | |
| `ProbeCycle` | `probe.py`, `routes/probe.py`, the lifespan of `server.py`, `_accept`, the outcome recorders | a probe is `Start`, `Inject`, `Poll`s; the daemon is `Boot`, `Up`, `Drain`, `Shutdown` or `Kill`, with `ProbeEnds`, `RealEnds` and `ReportDepth` as what its threads write |
| `ProbeCycleProofs` | proofs about it | |

`WakePipeline` composes its components in one module because `execute` visits
them under one lock; it takes the scheduler through what `AgentStreams` promises
(one execution at a time, in order), the breaker as an answer that may be
either, and the route's recheck as an answer that may be either. `GithubRoute`
is what gives that last answer. `ProbeCycle` composes the daemon with its reader:
it takes the scheduler as a queue per agent, a flush as one step that may fail
(`EvidenceStore` has its steps), the slow half by its outcomes, and the depth
reports by what `ObserverUpToDate` shows of them. `ClaimsManifest` takes the
store step by step, and the scheduler as a set of wakes with the depth reports
still due. `MC*` modules only add constants and symmetry.

Variables marked *history* in a module exist for the properties and correspond
to no state of the program. Definitions marked *Fault* are plausible mistakes in
the definition that follows them; no specification uses them, and each is shown
to break the property it is paired with in `PROJECT.json`.

## Runs

Passing:

| Run | Bounds | Shows |
|---|---|---|
| `MCScheduler` | 3 agents, 2 lanes, 5 wakes | one wake per lane, no stranded work, each other agent dispatched at most once while one waits, `AgentStreams` implemented |
| `MCSchedulerNotify` | 2 agents, 2 lanes, 4 wakes, drains, a raising observer, one agent's wakes may hang | published depth true, tickets in line, a drain returns, and only when all is told; the other agent's wakes run |
| `MCBreaker` | 2 agents, both scopes, 4 recorded wakes, 4 moments | cap, no false trip, cooldown, with foreign sweeps |
| `MCPipeline` | 1 agent, 2 deliveries, 3 arrivals, 2 attempts, 4 half-seconds | a delivery that is skipped was done or read, nothing done or stopped is launched again, one follow-up per session |
| `MCPipelineLive` | 2 agents, 1 delivery id, 2 arrivals, coverage of 1, a lock, damaged files | neither agent swallows the other's delivery, no launch under a lock held since dispatch, no wake refused for a lock unless one was in force since, every queue drains |
| `MCClaims` | 2 OS users, 5 entries, 3 first environments, 2 edits or deliveries, 2 boots, 1 fault, 2 temps, 1 wake per agent | no key verifies for another agent, every edge listed reaches and every edge that reaches is listed, every proof was earned and is kept, the file settles between flushes |
| `MCGithub` | two setups: one issue in and one out of the repository with a ledger of 1, and two handoffs with two pull requests; 4 deliveries, 2 seconds, a restart | an entry that heard every change is the truth, with several changes and comments a second; a woken issue is wanted; a merge or a failed run wakes on the one issue its pull request is about |
| `MCProbe` | 1 agent, 2 probes, 1 production wake, 2 boots, 2 readings, failing writes | proven is one's own; without a second probe in its window a verdict is what the file says of the run's delivery; a clean stop leaves nothing unaccounted for |
| `MCScan` | 2 names, 3 groups, 2 scans or runs that fail, 2 changes by people | one finding per problem, a heartbeat only when all is filed, no second page, every standing problem paged and on the open issue |

Violations, each a statement of the repository that the code does not keep
(quoted in `PROJECT.json`):

| Run | Statement | What happens |
|---|---|---|
| `MCPipelineTruncate` | `coalesce.py:50` truncation errs towards not covering | it errs towards covering: an event up to a second after the launch is collapsed |
| `MCPipelineConverge` | `wakelock.py:6` the lock closes the check-then-act race | the lock is read once, before the breaker and every attempt |
| `MCProbeOverlap` | `probe.py:446` nothing else moves the probe route's counters | an earlier probe of the agent, past its deadline and still queued, fails while a later one watches |

Smaller divergences met while modelling, which have no run:

- the wake that trips the stream scope is refused, and recorded in the agent
  scope all the same (`breaker.py:267`);
- of two label changes of one second, `opened` arriving after `labeled` takes the
  label away again and the wake is dropped though its work has not ended
  (`pipeline.py:396`);
- an idle agent waits behind one wake of every agent that was ready before it,
  not behind the running wakes only (`scheduler.py:45`);
- a sweep by a later clock reading drops stamps that are live for a call already
  waiting (`breaker.py:368`), and a window that tripped is kept after its cooldown
  until its key wakes again (`breaker.py:367`);
- a stopped wake marks and covers without an ok, so a dedup is reachable without
  one (`evidence.py:257`);
- a claim "states a capability the router currently has" (`claims.py:464`), but
  the emitter reads the environment as it is while the daemon runs on the one it
  booted with: after an edit the manifest describes the next daemon;
- an empty edge list says "nothing in existence will wake this agent"
  (`claims.py:740`), but when a builder and a harness agent share an OS user the
  first entry speaks for both and the second one's routes, which do wake that
  user, are not listed;
- "if the daemon could not start with this config, neither can the emitter"
  (`app.py:91`): a number that is none, or out of range, stops only the daemon
  (`Boots` against `Loads`);
- "an enabled route is by construction registered" (`claims.py:239`): an unknown
  enabled name with a secret passes `build_registry` and is not registered;
- the scan pages again for a problem whose group has lost the name it was filed
  under, since a marker keeps one name per finding
  (`dependency_security_scan.py:411`).

Why the bounds are enough: the scheduler's interesting cases are two agents
competing for a lane while a third finishes, and three threads notifying for one
agent; a breaker scope needs threshold + 2 wakes, a trip, a reset and a sweep;
the pipeline needs a session, a delivery that waited behind it and a duplicate;
a flush has three steps and a process two neighbours in time; the entries of
`MCClaims` are one of each way two agents can collide (same OS user, same uuid,
same key variable, unknown kind), and an edit, a delivery, a kill and a boot are
what tell the environment of the daemon from the emitter's; two problems and the
record that links them are what a merge has to get right, and two failures with
two human edits put a dead run before and after the day that pages, and close an
issue and reopen it; a ledger entry is decided by two changes of one second, a
comment that mentions them and one report of another second; a probe's verdict can
be disturbed by one other probe and one other route, and a second boot is what reads what the first left. Numbers are
capped by the constants commented `bound:`; the rest are sets. Where runs say
`CHECK_DEADLOCK FALSE` the system comes to rest when nothing is left to do
within the bound.

Fairness: worker threads, notification deliveries and the waiting thread are
weakly fair, since the operating system runs them; a wake ends only where the
run says so (`Hung` exempts agents), because `wake.py` sets no time limit. No
submission, drain, webhook, lock or unlock is ever owed. For the scan: the clock
starts a run every day and the runner carries it from call to call, both weakly
fair; a scan that is under way ends, with a verdict or the job's time limit
(`[]<>(run.step # "scan")`); failures and human edits are bounded, and a death
between any two of the calls is among them.

Assumptions on the outside, named in the modules: comments that show their issue
as it was at some moment of their own second, a monotonic clock, payloads well-formed, the NOC looking for a
running wake before it converges; `Sensible` (the operator: a key variable that a
registered agent reads holds that agent's own key, which no check of the program
can see); runs of the scan do not overlap (the workflow's concurrency group).

`RateCap` allows threshold + 1 wakes in a window rather than the threshold: a call
that waits for the lock is let through with an older stamp. With the threshold
itself the property fails.

## Proofs

`WakeSchedulerProofs`, for every set of agents, number of lanes and of
submissions (assumption: `SchedulerAssumption`):

- `TypeCorrect`, `LanesHold`, `NothingStranded`, `LineHolds`, `NoPhantomEdge`
  prove `TypeOK`, `OneWakePerLane`, `NoStrandedWork`, `DeliveryLine` and
  `ObserverUpToDate`.
- The inductive invariant `IInv` is their conjunction with a notification part:
  what is published for an agent with no notification outstanding cannot be
  shown from itself, because it is the last ticket that publishes. The invariant
  says that an agent's outstanding tickets are consecutive, that the first is the
  one whose turn it is, and that the newest carries the present count. The
  dispatch part is proved first on `PumpLocked`, as lemmas that its callers cite;
  counting lanes uses the library's theorems on finite sets. What follows is on top
  of `IInv`.
- `RoundRobin` proves `BoundedOvertaking`. Its invariant is about the order of
  the ready queue (`InLine`): who stands behind another has not seen it
  dispatched, nobody has seen another dispatched twice, and who does not wait has
  seen nobody.
- `DrainSettles` proves `DrainedMeansSettled`, and `SchedulerImplementsStreams`
  proves `ImplementsStreams`: every step of the scheduler is one of `AgentStreams`
  or a stutter. Both rest on `Accounted`: a wake that was submitted has run or is
  in a lane or a queue, and no other is.

`WakeRateBreakerProofs`, for all thresholds, windows, cooldowns and intervals
(assumption: `BreakerAssumption`):

- `TypeCorrect`, and `TripHalts`, which proves `CooldownHonoured`. Its invariant
  ties each tripped window to the history: a scope's window is either tripped
  until its last trip plus the cooldown, or was reset by a call whose reading was
  past that, so a later reading is past it too.
- `TripIsEarned` proves `NoFalseTrip`: what a window holds is an end of what was
  recorded (`EndOf`), so sweeps, resets and ageing only take stamps away.
- `CapHolds` proves `RateCap`, on the hypothesis that the cooldown is no shorter
  than the window, as in the default configuration (60 seconds each). With a
  shorter one the cap does not hold: a trip empties the window, and the scope wakes
  again while the wakes before the trip are still recent. The invariant says that
  a wake let through within the last window is still held by the window (`Held`),
  unless the scope has tripped since (`BeforeTrip`).

`WakePipelineProofs`, for any finite set of agents, any ids, kinds of event,
attempts, times to live, capacity and lock (assumption: `PipelineAssumption`):

- `TypeCorrect`, `NoLostWake`, `NoSecondSession` and `LockIsObeyed` prove
  `TypeOK`, `SkippedWasDone`, `NoNeedlessSession` and `LockObeyed`. The last has two
  sides: a lock that stands lets nothing through, and none that has expired, was
  removed or cannot be read keeps an agent asleep. It rests on what an execution
  carries from its dispatch on: that no lock was in force since (`FreeLetThrough`).
- The inductive invariant relates what the gates look at to what became of the
  executions. A mark is a success's, and a success is marked until its time to
  live is over, so what is being executed was asked about when every earlier
  success of the delivery was out of date (`MarksEarned`, `SuccessesMarked`,
  `AskedLate`). An entry of the coverage is a success's start; a success is
  covered by an entry, or enough other streams were recorded since to evict it;
  and the entries are in the order of the last successes of their streams, which
  is what makes the one that is evicted the right one (`CoverageEarned`,
  `SuccessesCovered`, `CoverageInOrder`). An execution past the coverage gate
  keeps what it learnt there until it launches (`PassedCoverage`).
- `NoSecondSession` shows that no session is needless, unless as many other
  streams as the coverage holds were recorded since the session that read the
  event ended: `coalesce.py` then has no memory of it.

`ProbeCycleProofs`, for any agents, overlapping probes, configurations, boots,
kills and failing writes (assumption: `ProbeAssumption`):

- `TypeCorrect`, `ProvenWasAnswered`, `CleanStopSettles` and `VerdictHolds` prove
  `TypeOK`, `ProvenIsOwn`, `SettledStop` and `VerdictIsTheFiles`.
- That a proof is one's own needs only that what the document and the file show
  was so (`Fates`). A verdict needs more, since failures and refusals are told by
  counters that any probe of the agent moves. `Windows` relates a run's first
  reading to the file and to the document in memory: they differ by the run's own
  outcome or by nothing. An outcome that a failing write kept out of the file comes
  to it with the next write, so the part about the document holds only while no
  other outcome of the agent is missing (`NoneUnshown`).
- `CleanStopSettles` rests on `Settles`: as long as this boot's writes succeed, all
  outcomes are in the file, and the file is the document.

`ClaimsManifestProofs`, for any registry file, first environments, edits,
deliveries, boots, kills, power cuts and failing calls (assumptions:
`StoreAssumption`, `CorruptAssumption`: the unreadable file is no document,
`ConfigAssumption`: the entries are in the order of the file and no two share a
key, `ClaimsAssumption`: finitely many entries, and first environments that are
`Sensible`):

- `TypeCorrect`, `FileSettles`, `ClaimsAreEarned`, `ProofsAreKept`, `KeysAreOwn`
  and `EdgesAreReal` prove `TypeOK`, `FlushedMeansSettled`, `ClaimIsEarned`,
  `ProofKept`, `OwnKeyOnly` and `EdgesReach`.
- The inductive invariant adds to the types: what the daemon runs on was built of
  some environment, and of one that loads and is sensible while it runs
  (`CfgIsBuilt`; the present one may be neither); the temporary file of a flush is
  the only one beyond those that could not be unlinked (`TempsCounted`); the
  document in memory has every proof the file has, and is the file between flushes
  that did not fail (`MemoryIsAhead`); it holds the depth of every agent with
  nothing to be reported (`DepthsTold`); and no copy, in memory, on disk or behind
  the disk's cache, holds a proof that was not earned (`AllEarned`: `ClaimIsEarned`
  is about the file alone, and a boot, a flush or a power cut puts another copy in
  its place).
- `KeysAreOwn` rests on `DistinctVars` and on one uuid per agent; `EdgesAreReal`
  on the refusal to retire the fallback while an agent has no key, on the secrets
  a route must have, and on the first entry of an OS user speaking for it. The
  conditional choices by kind of recipient are stated as lemmas of plain sets.

`GithubRouteProofs`, for any finite sets of issues and pull requests, any labels,
capacity, seconds and restarts, and deliveries late, lost, repeated or reordered
(assumptions: `GithubAssumption`, and `NoneAssumption`: the absence of an issue is
no issue):

- `TypeCorrect` and `OpenPullsAreOpen` prove `TypeOK` and `PullHeldOpenIsOpen`.
  The second rests on `PullInv`: the close of a closed pull request was posted with
  the second of its last change, and an entry is no earlier than anything heard of
  its pull request and shows a close of its own second that was heard. It holds
  however many changes a second has, as a close is never undone by a tie.
- `EntriesAreCurrent`, `WakesAreWanted` and `WakesAreNoGuess` prove
  `EntryIsCurrent`, `WokenIsWanted` and `NeverAGuess`, with any number of changes a
  second. A payload is stamped in whole seconds, so of two changes of one kind in one
  second the ledger keeps the one that arrives later. The properties are therefore
  about what was heard (`heard`) in this sense: an earlier change of the second that
  arrives after a later one takes the later one's place (`Undoes`). Which is the
  earlier is history (`nth`, the number of the change): the program cannot tell.
  `UpToDateWith` asks for every change of the field since the second of the entry; the
  state and the labels are judged apart, so the opening and its labels, a close and a
  label of one second, and comments on either, are all within it in any order.
- Their invariant `IssueInv` says three things. About GitHub (`GithubInv`): a
  delivery later than the last change of a field shows that field as it is, and the
  last change of a field was posted and shows it. About an entry and the issue
  (`EntryShowsIssue`): an entry later than the last change of a field shows it,
  whoever it came from, the listing of a restart included. About an entry and what
  was heard (`EntryHeard`): it is no earlier than any of it, and shows at first hand
  each change of its own second that was heard, unless a later one was made then;
  this is what `_settle_tie` keeps when a comment of that second shows the issue
  before the change. So an entry that heard every change since its second shows the
  last one, or is later than it.
- The two action properties follow from the entry being the truth at the step:
  `reason_to_drop` answers from it, and `_merge_target` takes the only candidate.

`DependencyScanProofs`, for any finite set of groups of names, any advisories and
ratings, any order in which they are printed, and any number of scans, dead runs
and changes by people (assumption: `ScanAssumption`):

- `TypeCorrect`, `EachFoundOnce`, `AnswerIsFiled` and `NothingPagesTwice` prove
  `TypeOK`, `OneFindingEach`, `HeartbeatMeansFiled` and `NoRepeatPage`.
- `EachFoundOnce` is an induction over the printed records, for which the library's
  theorems take an operator as a parameter and cannot be used. It goes by a
  smallest counterexample instead (`Smallest`). A problem is a least set of groups
  that is closed under sharing a name; one more record joins the problems it shares
  a name with and leaves the others alone (`OneMoreGroup`), which is what `Absorb`
  does to the findings (`AbsorbStep`); so after every record there is one finding
  for each problem of what was read (`ParseFinds`).
- The invariant of the other two (`ScanInv`) says what an issue tells of the past
  and what the calls that are left will make of it. Whatever an open issue's marker
  lists as paging has paged (`SaidIsPaged`): the next run reads only that. The calls
  left are an end of the plan (`TodoOK`): the label that pages comes first, and the
  body that says what pages is written when all of it has; between any two of them
  the run may die, and the issue has to be right as it stands. So a heartbeat, which
  comes when no call is left, finds everything filed. The findings of a scan share no
  name, and what is announced as new is the name of no finding that stood (`NewsOK`),
  so an announcement is never the second of a problem: what paged and still stands is
  on the open issue, as paging, or a name of what this run has filed there
  (`StandingOK`).

Model-checked only:

- Liveness (`EveryWakeRuns`, `DrainReturns`, `StreamNeverStuck`,
  `StandingIsFiled`): fairness and `ENABLED` are beyond the prover.

## Not modelled

- Evidence: the counters and times of what failed, was refused, rejected or
  collapsed, apart from those a probe reads; the one-time reclassification of
  documents of an older version.
- Routes: malformed payloads, header checks, pagination, the text of a payload.
- Configuration: an unreadable file, missing fields of an entry (they stop the
  program like an unknown kind), paths, the command settings; the commands other
  than the daemon, the claims and the probe.
- Claims: the freeze and log-grammar self-tests, which are commands of their own
  that change no state; the texts and pointers of a claim.
- Dependency scan: texts and comments, issues that are not its own or of which it
  has several with one title (a closed one that is reopened while a run which read
  that none is open creates the next), a person who writes findings into a marker
  that were not there, runs on other branches.
- The log grammar (formatting), the deployment scripts, building a command line.
- GitHub: two changes of one kind in one second that arrive in reverse happen in the
  runs, and are what the properties of the ledgers make no claim about.
- Breaker: whether an agent halted with the help of wakes its streams' windows
  refused was rightly halted. `NoFalseTrip` counts what the window counts.
- A wall clock that steps back or differs between machines, which would affect
  coverage.

## Plan

1. The server's lifespan composed with `WakeScheduler` itself rather than with
   what it promises; a raising `executor.submit`; a stepping clock in
   `WakePipeline`.
2. The evidence of the sinks with the decision each delivery gets, as counters.
3. Breaker: what the loops of an agent's streams may add to the agent's own window, once
   it is settled whether the wake that trips a stream should count there.
