# A formal model of issue-runner

issue-runner takes an issue to a pull request. It has a model plan the issue,
works through the tickets of the plan (a tester writes a failing test, a coder
makes it pass, a verifier judges the diff, the full suite runs, the runner
commits), checks the finished branch, pushes it and opens the pull request. All
of it happens in a git worktree that agents, test commands, commit hooks and the
user can write to. The run can be stopped, run out of credits or be killed at any
moment, and the same command resumes it from a state file.

This directory holds TLA+ models of that program, TLC runs that check them on
small instances, and TLAPS proofs about them. Paths below are those of the
repository, with `src/` in front. Short names such as `orchestrator.py` are files of
`src/src/issue_runner/` or its `phases/`.

    tlc -config MCTicketPipeline.cfg MCTicketPipeline    # one run
    tlapm TicketPipelineProofs.tla                       # one proof module

PROJECT.json says, for every definition, which lines of the source it stands for.

## 1. The system

| Component | State it keeps | Operations | What makes it hard | What makes it correct |
|---|---|---|---|---|
| **Ticket pipeline** `orchestrator._process_ticket`, `build.py`, `verify.py`, `prepr.py`, `devops.py`, `tickets.py` | a `Ticket` (phase, status, rounds, base and commit sha, accepted test, digest, index and tree of the approved work) in the state file and in memory; the worktree, the index, HEAD, the branch that is checked out | tester, coder, verifier, regression gate, approval, commit, hand-back, block, pause, recovery of an unrecorded commit, adoption of other commits | everything else writes to the same worktree between the steps; a crash between any two; nested retry loops | only work that verifier and suite both passed lands; once, on its base; edits keep their owner; resuming continues; the loops end |
| **Scheduler** `orchestrator._run_issue`, `_build_tickets`, plan phases and gates, pre-PR rounds, publication; `prepr.step` | the `TicketStore` (statuses, bases, last accepted commit, gate results, rounds, pull request), the run branch, the remote | plan, resume, `--retry-blocked`, choose, block the unsatisfiable, gates, publish, pre-PR findings into new tickets | dependencies, phases and blocks together; many runs over one state; checks and push are separate steps | one owner of unfinished work; no ticket committed twice; built in order; only vetted work is pushed; nothing forgotten; runs end |
| **Run control** `control.py` | `requested`, `interrupt` | stop between operations, interrupt a call | the request is read at few points | at most the call being started starts; the run can be resumed |
| **Model calls and credits** `copilot.py`, `budget.py`, `usage.py` | reservations, measured charge and counters; a child process, two reader threads, a queue | check, charge, start, read, deadline, interrupt, exit grace, kill, join, settle, retry of a blank reply | child, helpers, readers, clock and user race | the books balance; nothing taken for free; calls end; what was cut short is dead |
| **State file** `tickets.py`, `storage.py` | JSON, replaced atomically | load, save | when it is saved relative to git | a crash loses at most the step at hand |
| **Workspace and locks** `orchestrator._prepare_workspace`, `devops.py`, `toolchain.py` | run worktree and branch; state, repository and branch locks; the state file | lock, load, create, resume, finish a half-made one, provision, refuse | two runners, two checkouts, several state directories; a crash at each git command; setup commands that edit the tree | one writer per state and branch; a half-made workspace is finished; agents start in a tree provisioning left alone |
| **Delivery** `delivery.py`, `acceptance.py`, `github_flow.py` | a delivery record: stage, head, gates, rounds, deployment | a stage machine from pull request to deployed and accepted | long waits, failing calls, external checks, a head that moves | what merges was reviewed; what is pushed is saved; what the issue is told is true; a stage resumes; runs end |
| **Review loop** `review.py` | verdicts, threads, check runs | evaluate, revise, answer | results of an older head; people and bots together | an answer is published with its fix |
| **Merging the base** `merge.py`, `update_pr.py` | a worktree and a merge in progress | merge, resolve, verify, undo, push | fails half way; takes no lock | HEAD is the accepted commit or the tested merge; no commit is dropped |
| **Issue mirror and trackers** `plan_issue.py`, `ticket_mirror.py`, `trackers.py`, `github_io.py` | the body and sub-issues of an issue | tick, create, close | read-modify-write without a condition; create, then save | people's edits survive; sub-issues are accounted for |
| **Live display** `visual_display.py`, `src/apps/visual` | viewer process, event queue, terminal mode | attach, detach, stop | two processes and a pipe | not modelled |
| **Factory workflows** `src/factory/f_*.py`, `runner.py`, `session.py`, `quality.py`, `changes.py` | the phase of a run, its verdicts, the session | phases, loops of test and fix, review and revision, finish, abort, join | a verdict goes stale; signals and failing writes while the session is settled | a commit takes tested and approved code; a run ends |
| **Factory executor and permissions** `agents.py`, `permissions.py`, `gates.py`, `agent_*.py` | a snapshot of the tree, repair counters, a child | prompt, repair, gate, compare, roll back | several turns per phase; roll-back beside the operator's own edits | the write list holds for the phase; nobody's work is cleaned away |
| **Factory tracer** `tracer.py` | rows of sessions, phases and children | start, end, close, finish | processes that die between two rows | the trace tells what became of a run |
| Planner, preflight, configuration, command line, journal, summary, demo | none of its own, or append-only | parse, validate, report | text | not modelled |

The scheduler calls the pipeline for one ticket at a time. The pipeline calls the
client for each agent. `RunStopped` and `BudgetExhausted` raised in the client
unwind through both. Pipeline and scheduler share the state file, the run branch
and the worktree. The client shares with them the worktree (its child writes
there) and the stop request. Signal handlers and the display set the stop
request. Delivery, mirror and display hang off the scheduler. Delivery works in the
same worktree and state file after the tickets, and `--update-pr` on the same branch
from another worktree. The factory is a program of its own in the same repository: it
works in the operator's tree and shares nothing with the runner.

The hazards, each at its line, are listed in PROJECT.json, with the properties that
cover them, or the reason why none does.

## 2. Modules

| Module | What it is |
|---|---|
| `TicketLifecycle` | abstract: work is vetted or not, only vetted work lands, what lands is what was vetted |
| `TicketPipeline` | one ticket: pipeline, worktree, index, history, state file |
| `TicketPipelineProofs` | types and limits, and that done work was vetted |
| `TicketCommitProofs` | commits, edits left behind, interrupted commits, and the refinement of TicketLifecycle |
| `RunScheduler` | one issue over many runs: store, branch, gates, publication |
| `RunSchedulerProofs` | its theorems |
| `AgentCall` | one client: child, readers, budget, stop |
| `AgentCallProofs` | its theorems |
| `Delivery` | `--deploy`: the stages of one delivery over many runs, with GitHub and the people there |
| `DeliveryProofs` | its theorems |
| `Workspace` | two runners, `--update-pr` and the user around one run branch: locks, worktrees, tracker |
| `WorkspaceProofs` | its theorems |
| `Factory` | a factory workflow in the operator's tree, over several runs of a session |
| `FactoryProofs` | its theorems |
| `MC*` | instances for TLC |

### TicketPipeline

*State.* `disk` and `mem` are the ticket in the state file and in the process. They
differ only between a change and its save. `head`, `wt`, `idx`, `onBranch` are
what git sees. A tree is a `Content`: the version of the ticket's test, the version of
everything else, and whether a stray `uv.lock` lies about, which are the three
kinds of path `approve_changes` and `commit_ticket` treat differently. A commit
is named by the history that leads to it, as a sha is, so ancestry is prefixing.
`pc` is a place in `_process_ticket`. `tries`, `before` and `fullRun` are its
local variables. `verified` and `gated` are history variables that record what the
verifier and the gate really passed, and no action reads them.

*Actions.* Each is the code between two points at which somebody else can act or
the process can die: a model call, a command, a git command that writes, a save.
Thus `approve_changes` (deletes `uv.lock`), the save after it, `git add`,
`git commit` and the last save are five steps: `PassGate`, `Approve`, `Stage`,
`GitCommit`, `AcceptCommit`. A conditional hand-back that the code saves and then
blocks is two (`HandBack`, `Block`). Agents, commands and hooks act inside the step
that waits for them (`Disturb`). `Meddling` says which of them misbehave: stage,
commit or fast-forward, reset, switch branches, write while they should only read,
rewrite the commit in a hook, or, for the user, all of it between runs.

*Left out.* Which test files the scope gate runs (its failures are gate failures),
the journal, the tracker and the display, `files_hint`.

### RunScheduler

*State.* `plan` is what the issue asks for and has ticked. `store` is the
`TicketStore`, one variable for memory and file because every change is saved before
the next step. The branch is the sequence of the authors of its commits, so
that a position in it is a sha. `edits` is the owner of uncommitted edits.
`pushed`, `opened` are the remote, `suite` is a history variable that records where the full suite
last passed.

*Actions.* Planning, resuming, gates, the choice of a ticket, the block of
everything unsatisfiable, the publication in its steps (approve, suite, recheck,
pre-PR checks, final gates, push, pull request, record). A ticket begins, edits,
commits, and finishes, adopts commits, blocks or pauses. The middle of it is
TicketPipeline. `Stop` and `Die` may come at every step. `UserWorks` edits, commits
or tidies between runs.

*Left out.* `--plan-only` and the ticket limit (the run ends before it builds), the
fingerprint refusal (ends like a crash), commands that reset or switch the run
branch (TicketPipeline has them), sub-issues (Workspace) and `--deploy` (Delivery). All
gates of a phase are one.

### AgentCall

*State.* The place of the client in `run`, `_attempt`, `_structured_call` and
`_cleanup`, the budget, the child (running or gone, exit code, who holds the write
ends of its streams, a helper it started in its group or outside), the two reader
threads, what was reported, read and billed, and the stop request. Charges are
parts of a credit.

*Actions.* One per statement that others can race with: both checks, the charge,
the start, a batch of lines read, the interrupt, the deadline, the end of the queue,
`wait`, the kill, the joins, the settlement. The child makes billed model calls and
reports them (with or without a charge) in any order with the rest, starts a helper,
closes its stdout, exits. A reader ends at end of file or fails.

*Assumption about the CLI.* Exit code 0 means that every model call was reported
(`Exit`). `budget.py` relies on it: without it no complete cost could be told from a
partial one.

*Left out.* The text transport, a test seam. Argument lists, wording, token counts.

### Delivery

*State.* `d` is the `Delivery` in memory, with the store's `last_commit` and the tickets
acceptance adds; `disk` is the one in the state file. They differ between a change and
its save. The run branch is the sequence of its commits, so a head is a number. A
commit is who made it (runner, update of the base, agent) and how much of the base it
contains. `hub`, `opinion` and `live` are GitHub: pull request and merged head; checks,
bot, person and threads; deploy run and deployments. `file` is the Dev checks on disk.
`issue` is what people are told. `cleared`, `answered` and `slipped` are history variables: the
heads that passed the review gate with every answer in order at the moment it was read,
the commit each thread was told it was fixed in, and the Dev checks that were edited
between their hash and their last attempt.

*Actions.* `pc` names the handler (`_built` to `_verifying`) and the place in it. Handlers
are cut at every call of GitHub, model, git and Dev check and at every save, since the run may be
stopped (`Pause`), fail (`Fails`, with the gate recorded) or die (`Crash`) there and
the rest of the world moves. `SyncPush` is `_sync_push`, which every later stage starts
with. A poll of the review (`_review_status`) is `ReadHead`, `ReadChecks`, `ReadReviews` and the threads,
which `ReviewPasses`, `ReviewObjects` or `ReadFindings` read last; what each answer adds to
the judgement is kept in `work`, and anything may change between two of them. A push leaves
the new head with no check registered; CI registers them later (`ChecksStart`) or never, and
`evaluate` does not wait for checks it does not see. A bot review without a verdict is no finding.
A revision is `ReadFindings`, `Revise`, `Agree`, `CommitFix`, `RecordFix`, push, `Answer` and the
review request, as in `_revising`. A merge is `ReadPull` and `_merging`'s cases. An update of the base is
`MergeIn`, `FinishMerge` and `RecordMerge`, then `RecordHead` (the save at
`delivery.py:449`), the push (`Republish`) and the review request with the reset at 457 (`Rereview`). A Dev check
is hashed once (`FrozenCheck`, `EditedCheck`), and the attempt that decides runs the file as it
is then (`RunCheck`); an agent may edit it in between. Reviewers, people, checks, the
deploy workflow and other people's pushes are the rest of the world.

*Left out.* Texts, verdict parsing, what a criterion says, nits, pagination. Check runs and
statuses, two calls in a row whose answers are treated alike, are one list and one read. There is one
person, whose review may be withdrawn at any time. A poll that ends with something to wait
for changes nothing and is no step, nor is a failed attempt of a Dev check that is
followed by another; the wait runs out by `Fails`. `cli.py:55` ignores `--deploy` at this commit
(`DEPLOY_BROKEN`): the model is of the library code behind it, which the tests run.

### Workspace

*State.* `run` holds, for each runner, its place in `run_issue` and its arguments.
`lock` is three kinds of file lock: per state directory, per git dir, per branch. `disk`
is the state file, one for each state directory. `at` and `dirt` are what is checked out and
uncommitted in each worktree; `branch`, `origin`, `main` are histories. `tracker` is the
sub-issues and the body of the plan issue. `update` is the process of `--update-pr`. The history variables
excuse what cannot be the runner's fault (`touched`, `warned`, `stray`) or name a
window of the code (`lost`, `late`).

*Actions.* The locks, the load, `_prepare_workspace` with its four cases (`Record` and
`Create`, `Finish`, `FinishInPlace`, `Resume`, `ResumeLegacy`), `CutShort` for a git command killed half
way, provisioning, planning, the sub-issue and its number (`Open`, `Number`), the
three steps of `PlanBodyMirror.sync`, a ticket as edits and a commit, push, end,
death. `--update-pr` is `CheckPull`, `Checkout`, `Merge`, `PushMerge`, `Remove`. Each may fail as its git
calls may: `git worktree add` half way, outside the `try` (`Checkout`); the merge, and then the
clean-up too, since `_discard_changes` ignores a git call that fails or times out
(`LeaveBehind`); the push, refused or with its answer lost; the removal, which nobody checks. `stray` records
that something was left by a failure of that kind. The user commits, edits and switches in a source, removes worktrees and edits the issue.

*Left out.* What a setup installs and the killing of its process tree. The inside of a
ticket (TicketPipeline).

### Factory

*State.* `flow` is the sequence of phases a script opens, where `test` and `review` stand
for their loops. `pc`, `at`, `stage`, `round`, `tries` say how far it is. A file is one
of a document, code or a protected file; `work` says who wrote what it holds beyond
HEAD, `index` which part of it is staged. `before` and `changed` are the snapshot and what
no longer has the content it hashed. `row` is the trace. `wrote`, `begun`, `gone`, `untested`,
`unread`, `hid`, `paid` and `cut` are history variables.

*Actions.* `OpenPhase`, one prompt (`Send`) and its four ends (`Unparsed`, `Refused`,
`Refuted`, `Reported`), `Enforce`; commit, suite and capture; `Advance`, which is what the scripts do
after a phase that succeeded; `Finalize`, `CloseProcesses`, `SessionFinish`, `Exit`, which are the steps of
`_finalize`. Agents write, stage, revert and commit within a turn, whatever their
write list says, because they have a shell. The operator saves files at any time. An agent
may outlive the run that started it. Signals and failing trace writes are
`Interrupt`, kills are `Killed`.

*Left out.* The order of event file and database within one write, prompts, rosters,
token counts beyond whose they are. Which base `capture` compares with. A second process
on the same session at the same time. Copilot's second spawn without `--effort`, which
is a longer turn.

## 3. Runs

| Run | Instance | Distinct states | Shows |
|---|---|---|---|
| `ticket_meddling` | one test, two codes, no retries, one foreign commit, all kinds of meddling | 3.6 million | `TypeOK`, `LandedAsVetted`, `ImplementsLifecycle` |
| `ticket_alone` | two tests, two codes, byproducts, one retry of each kind, one hand-back, one overrun | 65 thousand | `CommittedOnItsBase`, `OwnedEdits`, `CommitSurvives`, `RunEnds` |
| `scheduler` | two tickets (independent, chained, phased, phased and half ticked), one fix, a user who edits and commits | 2.2 million | `TypeOK`, `OneOwner`, `OneCommitEach`, `PublishedVetted` |
| `scheduler_plans` | three tickets: chains, join, cycle, missing dependency, phases; a user who tidies | 0.5 million | `BuiltInOrder`, `NothingForgotten`, `RunEnds` |
| `agent_call` | two calls and one retry, two model calls each, limit 3, reservation 2 | 0.9 million | `TypeOK`, `NothingFree`, `CallsBounded`, `StopHonoured`, `NoneLeft`, `CallReturns` |
| `delivery` | one criterion of each kind, one thread, two review rounds, one of everything else, two runs, one event | 1.5 million | `TypeOK`, `MergedAsCleared`, `PublishedIsSaved`, `AnsweredWhenPublished`, `IssueTellsTruth`, `RunReturns` |
| `workspace` | two runners, two checkouts, two state directories, `--update-pr`, three starts, one event | 2.8 million | `TypeOK`, `OneWriter`, `InterruptedIsFinished`, `AgentsStartClean`, `CommitsKept`, `SubIssuesKnown`, `UpdateRepeatable`, `EditsKept` |
| `factory` | all eleven workflows, two runs of a session, one event | 1.4 million | `TypeOK`, `BoundaryHeld`, `OperatorWorkKept`, `SessionTells`, `CommitsVerified`, `RunEnds` |
| `ticket_verdict` | as `ticket_alone` | | violated: `VerdictSurvives` |
| `ticket_empty_fix` | as `ticket_alone` | | violated: `EmptyFixMayFinish` |
| `scheduler_stop` | two tickets, a user who edits and tidies | | violated: `StopIsResumable` |
| `delivery_unreviewed` | as `delivery`, with one review round | | violated: `MergedAsReviewed` |

*Properties.* `LandedAsVetted`: whatever meddling and interruption, a ticket is
done only with the work that verifier and then gate passed. `ImplementsLifecycle`
is the refinement of TicketLifecycle under the mapping at the end of
TicketPipeline: besides `LandedAsVetted` it says that landing is final and
that a blocked ticket comes back only through a reopening. `CommittedOnItsBase`:
one commit, or none with a reason. `OwnedEdits`, `OneOwner`: unfinished edits have
one owner the state file knows. `CommitSurvives`: the guards against meddling never
refuse the runner's own interrupted commit. `OneCommitEach`, `BuiltInOrder`,
`PublishedVetted`, `NothingForgotten` and the properties of AgentCall, Delivery,
Workspace and Factory are stated in the modules beside the code behaviour they are about.
Several of them have exceptions that are windows of the code and not of the model.
`MergedAsCleared` lets the runner's own tested merges of the base lie between
the reviewed and the merged head (finding 4 is that they may), and asks of the reviewed head that each
answer was in order when it was read: no check running or red, a review by the bot of that very
head that does not object, people content, no thread open. It cannot ask that the answers held at one instant, nor that a
check registered after it was read passed, because the code does not. `IssueTellsTruth` excepts
Dev checks edited between their hash and their last attempt (`delivery.py:616-627`). `CommitsKept` and `EditsKept` except what falls
between a check and the overwrite it allows (section 5), `SessionTells` a run that was
killed or hit while it settled its session, `UpdateRepeatable` an update that was killed, whose git failed half way
through the creation of its worktree or in its clean-up, or whose resolver switched branches. Every property has a
mutant in PROJECT.json: a plausible bug in the code that breaks it.

*Bounds.* `MaxRounds`, `TesterRetries`, `CoderRetries`, `MaxPrePrRounds`, `Retries`,
`Limit` are options of the program at small values. 0 and 1 cover "the limit is
reached" and "once before it is". `MaxOverrun` bounds the rounds a crash lets a ticket take past its limit
(below). `MaxCommits` bounds foreign commits: one is enough to be between base and
HEAD, to be adopted, reset or rewritten. `Fixes` bounds the tickets pre-PR
findings make. `MaxModelCalls` 2 is the least for a call partly costed. `Limit` 3,
`PerCall` 2, `Credit` 1 is a limit that admits a second invocation only when the first was
costed in full. In Delivery, two runs are a first one and one that resumes what it
left. Two review rounds let a thread be answered in one and
opened again in the next; of the other rounds one is allowed, so that "the limit is reached" is two
steps away; one event is a push, a withdrawal, an edited check or a commit by an agent. In
Workspace, two runners compete and a third start finds what a dead one left. In Factory,
two fix rounds are the least for a verdict on the second; two runs are a run and the one
that joins its session or works in the tree it left. Two versions of the code distinguish "the vetted one" from "another";
two tests "accepted" from "tampered with". The limits and sizes matter to TLC only:
the theorems below hold for all of them. With two events and one review round
(4.5 million states), or with three runs (3.0 million), the safety of `delivery` holds too, and with two events that of
`factory` (8.4 million). They take longer than a run should.

*Fairness.* `WF(Step)` for pipeline and scheduler: every model call, test and git
command the runner waits for has a timeout, so the runner gets on. `WF(Client)` and
`WF(TimeOut)` for a call: the client is an ordinary thread that polls its queue
every 0.1 s and its deadline is an actual clock. Nothing is assumed of the child, its
helpers, the readers, the user, stops and crashes: they may act at any time or never.

`WF(Step)` for Delivery: its calls have timeouts, its waits end by themselves
(`review_timeout_min` and `deploy_timeout_min` of the settings), and a call that failed is a step. GitHub, reviewers and
people are free to do nothing. Of Workspace only safety is stated.

`WF(Step /\ ~ InTurn /\ ~ InGit)` for Factory: the process goes on wherever it waits for nothing that may
never end. The code sets no timeout on a backend (`agent_copilot.py:473-490` reads its output
to the end and waits) nor on git (`git_helper.py:19-30`), so nothing is assumed of a turn and
of the phases that call git. What holds is therefore that the last run ends, or waits for ever in
one turn or in one call of git (`RunEnds`): the repairs of a reply, the gate's repairs and the loops of fixes do not add up to a run
that goes on for ever. Suites have a timeout (`quality.py`), and the trace's database gives up. That
the disjuncts are `<>[]` uses that the starts are bounded by `Runs`.

*Deadlock* is checked for the scheduler, which can always be started again. The
other runs say `CHECK_DEADLOCK FALSE`: deliveries, runners and workflows stop when
their starts are used up (`MaxRuns`, `MaxStarts`, `Runs`). The
ticket runs and the call run stop when the ticket is done or the calls are used up
(`MaxCalls`). That the program is not stuck half way is `RunEnds`, `CallReturns` and `RunReturns`.

## 4. Proofs

Every safety property that a passing run checks, invariant or action property, is
also a theorem, for every value of the constants: any number of tickets, runners, threads, calls and
edits, any plans, limits and bounds. So is the refinement.

| Theorem | States |
|---|---|
| `TicketPipelineProofs!InvariantHolds` | the inductive invariant below |
| `TicketPipelineProofs!TypesAndLimits` | `Spec => []TypeOK`, the limits on attempts and rounds included |
| `TicketPipelineProofs!DoneWorkWasVetted` | `Spec => []LandedAsVetted` |
| `TicketCommitProofs!CommitsRestOnBase` | `Spec => []CommittedOnItsBase`, whoever meddles |
| `TicketCommitProofs!EditsHaveAnOwner` | `Spec => []OwnedEdits`, if the user keeps out of the worktree |
| `TicketCommitProofs!ApprovalSurvives` | `Spec => []CommitSurvives`, if user and hooks do |
| `TicketCommitProofs!PipelineIsALife` | `Spec => ImplementsLifecycle`, the refinement |
| `RunSchedulerProofs!Typing` | `Spec => []TypeOK` |
| `RunSchedulerProofs!PlanOrderKept` | `Spec => BuiltInOrder` |
| `RunSchedulerProofs!PublicationIsVetted` | `Spec => PublishedVetted` |
| `RunSchedulerProofs!NothingWaitsInVain` | `Spec => NothingForgotten` |
| `RunSchedulerProofs!WorkHasOneOwner` | `Spec => []OneOwner`, if the user does not remove a ticket's edits |
| `RunSchedulerProofs!CommittedOnce` | `Spec => []OneCommitEach`, under the same condition |
| `AgentCallProofs!BooksBalance` | `Spec => []TypeOK`, the balance of the books included |
| `AgentCallProofs!CallsAreBounded` | `Spec => []CallsBounded` |
| `AgentCallProofs!NothingIsFree` | `Spec => []NothingFree` |
| `AgentCallProofs!AtMostOneMoreCall` | `Spec => []StopHonoured` |
| `AgentCallProofs!NothingIsLeft` | `Spec => []NoneLeft` |
| `DeliveryProofs!Typing` | `Spec => []TypeOK` |
| `DeliveryProofs!MergesAreCleared` | `Spec => []MergedAsCleared` |
| `DeliveryProofs!OnlySavedIsPublished` | `Spec => []PublishedIsSaved` |
| `DeliveryProofs!AnswersAreTrue` | `Spec => []AnsweredWhenPublished` |
| `DeliveryProofs!IssueIsTrue` | `Spec => []IssueTellsTruth` |
| `WorkspaceProofs!Typing` | `Spec => []TypeOK` |
| `WorkspaceProofs!LocksSeparate` | `Spec => []OneWriter` |
| `WorkspaceProofs!CreationResumes` | `Spec => []InterruptedIsFinished` |
| `WorkspaceProofs!ProvisioningUndone` | `Spec => []AgentsStartClean` |
| `WorkspaceProofs!AcceptedCommitsStay` | `Spec => []CommitsKept` |
| `WorkspaceProofs!SubIssuesNamed` | `Spec => []SubIssuesKnown` |
| `WorkspaceProofs!PlanEditsKept` | `Spec => EditsKept` |
| `WorkspaceProofs!UpdateLeavesNothing` | `Spec => []UpdateRepeatable` |
| `FactoryProofs!Typing` | `Spec => []TypeOK` |
| `FactoryProofs!WriteListsHold` | `Spec => []BoundaryHeld` |
| `FactoryProofs!OperatorKeepsWork` | `Spec => []OperatorWorkKept` |
| `FactoryProofs!TraceTells` | `Spec => []SessionTells` |
| `FactoryProofs!CommitsAreVerified` | `Spec => CommitsVerified` |

*Assumptions.* `PipelineAssumption`, `BudgetAssumption`, `WorkspaceAssumption`,
`DeliveryAssumption` and `FactoryAssumption` say of each constant what kind of thing it is and
that null is none of the others; the last also that the workflows are the eleven of
`src/factory`. `SchedulerAssumption` says besides what plans there are: the tasks of a plan
issue all have a phase and no dependencies (`plan_issue.py:196-200`), the tickets
of other plans have no phase, fix tickets have neither. Three theorems depend on who meddles, and TLC shows that
they must: with a user who tidies, two tickets come to own unfinished changes (finding 3); a user
who edits a worktree nobody owns leaves edits without an owner; a hook that rewrites the commit, or a user
who works on top of what was approved, makes the guards of `commit_ticket` and the resume refuse, as they should.

*TicketPipeline.* `LandedAsVetted` speaks of done tickets only and is far from inductive:
what makes it true is what the runner may rely on at every place before.
`Invariant` adds to the types: `Saved` (only `already_satisfied` is ever ahead of
the state file), `InPhase` (place and phase agree), `Claims` (a ticket waiting for its gate
carries the digest of the files the verifier passed; one waiting for its commit
carries a tree whose work verifier and gate passed; a done one has committed that
tree) and `Underway` (what the steps between two saves established). `Claims` is
about the ticket alone, not the worktree. That is why crashes and meddling do
not break it: the worktree may change at will, the record of what was vetted may
not, and each step that uses the worktree compares it with the record first.
`AcceptedTest` is needed for the coder to have a test to restore.

*TicketCommit.* `OnBase` follows HEAD through the three places where a commit is made: it is the base
when the change set is staged, and one marked commit above it before the ticket is saved as
done. `Owned` says that edits in the worktree of a runner that is not at work yet belong to a ticket with a base; its proof goes
through the few actions that write to the worktree (`Writing`) and shows of all others that they do not. `Approving` is what
`CommitSurvives` needs: base, last accepted commit and HEAD agree from the gate to
the commit, and a ticket approved for commit finds its approved tree in the worktree, with HEAD
on the base or on the ticket's own commit, wherever a crash came between. For the refinement `Open` (a
ticket at work is neither blocked nor done) and `LifeOfStep` (what each step is in
the life of a ticket) are enough: that what lands is what was vetted comes from `Claims` after the step.

*RunScheduler.* `IInv` is `Types`, `Working` (the ticket at work says so in the
state file), `Stored`, `Scheduled` (no due gate is left out where a ticket is chosen) and `Published` (from approval
to push every ticket is done and the accepted commit stays the one that was approved;
the suite may move the branch, and then the recheck refuses). `Exhaustive` says why a run stopped
building, and shows that blocking the unsatisfiable ends with nothing but tickets behind an earlier phase. `Ownership` and
`Authors` are for `OneOwner` and `OneCommitEach`: a blocked owner means a dirty worktree or
a moved HEAD, either of which keeps other tickets from starting; and a commit of an unfinished ticket lies
beyond all the state file has accepted, so that the resumed ticket finds it.

*AgentCall.* `BooksBalance` is inductive as it stands: only `Charge` and `Settle`
write the books, the first takes the client into flight and the second out of it,
and `PerCall * (calls - full)` moves with `reserved`. `CallsAreBounded` needs
`Room`: reservations within the limit, with room for one more once the check has
passed. `NothingIsFree` needs to know why a settlement that counts as
complete is: `Reporting` (what was read is part of what was reported, which, with
what is due, is part of the bill; all of it if every report had a charge),
`Ending` (a call that nothing cut short read everything, since its reader ended at end of
file, when nobody was left to write) and `Quiet` (no error is pending before the teardown).
`Stops` adds to `StopHonoured` that the one late invocation had passed its check
before the request. `Processes` follows the child and the helper in its group through the teardown.

*Delivery.* `Placed` (place and stage agree, memory and disk too), `Branch` (the branch ends with the last
accepted commit, but for a commit about to be saved; no accepted commit is an agent's), `Published` (GitHub has
accepted commits only, among them every one a thread was told of), `Rounds`, `Polled` (a poll that so far found nothing
and nothing to wait for got only answers that were in order), `Gated` (what is being
merged had been reviewed, up to the runner's own updates from the base), `Judged` (verdicts are
what the files say, but for those that slipped), `Checking` (the check that is being run is as it was hashed, or slipped) and `Deploying` (a deployment that succeeded stays, so the deploy gate
remains true while the world goes on).

*Workspace.* `Holding` is the ownership of the locks, and all of `OneWriter`. `Saved` and `Known` say what a
runner may believe of its state file because nobody else writes it. `OneCheckout` and `LegacyAlone` are about
git: one worktree at most has the branch, and a state from before there were worktrees is the only one. `Untouched` lists the
shapes in which a killed creation leaves a state nobody else has touched; each is one `Finish` takes up
(`InterruptedIsFinished`). `Pulled` says that what `--update-pr` is about to put the branch at
holds everything accepted, but for `late`. `SetupsKnown`, `Rewriting`, `UpdateClean` and `UpdateApart` do the same for
provisioning, the plan body and the worktree of the update. `MergesShared` follows the merge of an update: unless it went astray,
the local branch holds none that GitHub's does not, but while it is being pushed, and the
head it is put back to after a refused push holds none either.

*Factory.* `Placed`, `Repairing` and `Anew` place the process in its workflow. `Watched` is the heart of
`BoundaryHeld`: what an agent wrote differs from the snapshot of the phase, however often
it is sent back to work, unless it committed (`hid`). `Guarded` does the same for the operator's
files. `Told` follows the settlement of a session row by row. `Verdicts` says which phases the code has
been through, from the order of phases in the eleven workflows (`FlowOrder`).

*Only model-checked.* Liveness (`RunEnds`, `CallReturns`, `RunReturns`) and ENABLED are out of the
prover's reach. So is induction over data: no theorem depends on one, and no module declares
a RECURSIVE operator.

## 5. What the runs found

1. **`ticket_verdict`**: `approve_changes` deletes an untracked `uv.lock` before the
   ticket's new phase is saved. A crash in between makes the resumed regression
   phase refuse its own workspace ("workspace changed after verification").
2. **`ticket_empty_fix`**: `already_satisfied` of a pre-PR fix is decided before
   that deletion. A fix that changed nothing else then has an empty change set
   that `commit_ticket` refuses at every retry.
3. **`scheduler_stop`**: a ticket blocked with edits in the worktree keeps its base.
   If the user removes the edits, the next run starts another ticket; stop it, and two
   tickets own unfinished changes, which every later run refuses.
4. **`delivery_unreviewed`**: an update from the base saves the merged head before it
   publishes it, and clears the review gate only after that. A push or review request
   that fails, a stop or a crash in between lets the next run merge a head nobody reviewed.

Observations that contradict no text of the repository, or that no run shows yet:

- A crash or git failure between the save of `_hand_back` and that of `_block`
  leaves a ticket open past `max_rounds`, for one more round at each resume. There is no limit
  to their number; `MaxOverrun` is the model's, so that there are finitely many states, and `TypeOK`
  does not show one.
- A git failure after a `git commit` that succeeded blocks the ticket with a clean
  worktree, which drops its base. Every later start then finds HEAD moved and
  refuses. A commit that a hook changed ends the same way. Safety holds; a person must
  repair it.
- A final gate that passed is not run again when a failed push is retried
  after further fixes.
- After a call that ended by itself, a process of the child's group that holds no stream
  survives and may go on writing. The pipeline's digests are what protects it.
- If an interrupted call leaves a process outside the group that holds a
  stream, "output readers did not stop" replaces the interrupt, and the ticket is
  blocked rather than paused.
- Delivery: a crash between a commit or merge and its save is refused for ever ("run
  branch moved after its last accepted commit") until the user resets (`UserResets`), although
  `delivery.py:3-7` says that a stage resumes. A failed or stopped reviser leaves the worktree
  dirty, which refuses the next run too. A review request that failed is not repeated. After a
  crash a reply may be posted, or a deployment dispatched, twice.
- Delivery: a head whose checks CI has not registered when `evaluate` looks passes without any
  (`review.py:83-105`), and so does a review by the bot in which no verdict is found (`review.py:113-114`). A Dev check edited
  after `frozen_check` hashed it is run as edited, for up to three attempts with waits in between.
- Workspace: between `--update-pr`'s comparison and its `git worktree add -B`
  (`devops.py:385-400`) a run may commit in a source checkout, and lose that commit from
  the branch (`late` of `CommitsKept`). An `--update-pr` that is killed leaves its directory, and
  every later one refuses (`devops.py:381`). So does one whose git fails or times out half way: `git worktree add` runs
  outside the `try` (`update_pr.py:28`), `_discard_changes` ignores git calls that fail (`update_pr.py:53-56`, as
  its comment says), and nobody looks whether the worktree was removed. The user is told only the first
  error and has to remove the directory, and perhaps reset the branch, himself. A `git worktree add` killed half way may
  leave a directory that `finish_worktree_creation` refuses. The resume of a creation
  in place does not compare HEAD with `initial_head` (`orchestrator.py:217-219`).
- A setup that is killed leaves edits that the next start takes for work that was there before. One
  that edits an unfinished ticket's file is refused without naming the file. A
  sub-issue whose close failed is not closed later.
- Factory: a later run's `commit` takes everything in the tree (`git add -A`), the unverified
  code of an earlier failed run included: `CommitsVerified` is about the workflow's
  own agents. An agent's own commits are out of the snapshots' sight (`hid`). `git checkout --`
  restores what is staged, not HEAD, so a forbidden edit that the agent staged survives the
  roll-back (the phase fails all the same). What the operator saves during an agent's phase is
  taken for the agent's and rolled back when the file was clean before; `OperatorWorkKept`
  therefore speaks of what was there when the phase began. A phase that fails or is killed
  before `enforce` rolls nothing back.
- Factory trace: `_finalized` is set before the writes it announces (`runner.py:233`). A signal in between
  leaves a session that reads running for ever, since `atexit` then does nothing: `SessionTells` leaves such runs out
  (`cut`), and no property covers them. One after `session_finish` a success with exit code 1. The
  row of a child is closed by `finally` while an orphan lives on. Spend is written by
  `session_finish` only, so a kill loses it.

## 6. Plan

Written: TicketLifecycle, TicketPipeline, RunScheduler, AgentCall, Delivery, Workspace, Factory, and
theorems for every safety property their runs check. To come:

1. That what RunScheduler lets a ticket do between its start and its end is what
   TicketPipeline does, as a second refinement.
2. Properties for the hazards that have none: a `git commit` that succeeds and is
   reported as failed, a final gate that is stale when a failed push is retried, the rounds that resumes add
   to an exhausted ticket, and a session that nothing settles after its run was hit while settling it.

## 7. Not modelled

- The live display: a terminal, a child process and a pipe. What reaches the run from
  it, the stop request, is modelled where the run reads it.
- Planning, option parsing, configuration, test report parsing, preflight, summaries: text
  in, text out. They keep no state that other parts depend on, and what they return is a
  nondeterministic choice in the modules that use it.
- The journal and the usage ledger: append-only and best effort.
- The demo, the viewer's rendering, the factory's prompts and roster files: data.
