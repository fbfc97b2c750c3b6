------------------------------ MODULE Delivery ------------------------------
(***************************************************************************)
(* --deploy: what happens to an issue after its tickets are built.         *)
(* phases/delivery.py advances through saved stages: acceptance, Dev       *)
(* checks, pull request, review and revision, merge, deployment,           *)
(* verification; phases/review.py decides when a review has passed,        *)
(* phases/merge.py brings the base branch in, phases/acceptance.py judges  *)
(* criteria and runs Dev checks, github_flow.py calls GitHub.  The cli     *)
(* ignores --deploy at this commit (DEPLOY_BROKEN); the library runs it.   *)
(*                                                                         *)
(* The run branch is the sequence of its commits, so a head is a number:   *)
(* its length, or 0 for none.  A commit is who made it and how much of the *)
(* base branch it contains.  The runner may be stopped or die anywhere and *)
(* be started again; GitHub, reviewers and other people move in between.   *)
(* Time passes by Fails, since every call may fail and every wait may time *)
(* out; a poll that finds it has to wait, and an attempt that is repeated, *)
(* change nothing and are a step only if they are the last one.            *)
(***************************************************************************)
EXTENDS Integers, Sequences, FiniteSets, SequencesExt

CONSTANTS
    TestCriteria,         \* acceptance criteria planned as "tests"
    DevCriteria,          \* acceptance criteria planned as "dev"
    Threads,              \* review threads people and bots may open
    Foreign,              \* a head somebody else pushed
    MaxAcceptanceRounds,  \* deploy_settings.max_acceptance_rounds
    MaxReviewRounds,      \* deploy_settings.max_review_rounds
    MaxMergeAttempts,     \* deploy_settings.max_merge_attempts
    NeedsApproval,        \* preflight.required_approvals > 0
    ReviewOnPush,         \* preflight.review_on_push
    MayDispatch,          \* deploy_settings.dispatch_if_not_triggered
    MaxRuns,              \* bound on the runner's starts
    MaxEvents             \* bound on what other people and agents do out of turn

ASSUME DeliveryAssumption ==
    /\ MaxAcceptanceRounds \in Nat /\ MaxReviewRounds \in Nat /\ MaxMergeAttempts \in Nat
    /\ MaxRuns \in Nat /\ MaxEvents \in Nat
    /\ {NeedsApproval, ReviewOnPush, MayDispatch} \subseteq BOOLEAN
    /\ Foreign \notin Nat /\ TestCriteria \cap DevCriteria = {}
    /\ Threads \cap {"check", "verdict", "person"} = {}

VARIABLES
    pc,       \* where the runner is; "off" when none lives
    d,        \* the Delivery in memory, with the store's last_commit and pending tickets
    disk,     \* the Delivery as saved
    work,     \* local variables of the handler that is running
    tree,     \* the run worktree: clean, dirty, or a merge in progress
    made,     \* the commits of the run branch: [by, base]
    hub,      \* GitHub: the pull request, its head, the base branch, the head merged
    opinion,  \* GitHub: checks, bot and person on the head the runner pushed; the review threads
    live,     \* GitHub: newest deploy run that has the merge; deployments, newest first
    file,     \* the Dev checks on disk; "green" (history): passed as frozen after the deployment
    issue,    \* the issue: [ticked, closed]
    cleared,  \* history: heads that passed the gate with every answer in order when it was read
    answered, \* history: the commit each thread was told to be fixed in
    slipped,  \* history: Dev checks edited after they were hashed, before their last attempt
    runs, events

git == <<tree, made>>
history == <<cleared, answered, slipped>>
github == <<hub, opinion, live>>
bounds == <<runs, events>>
vars == <<pc, d, disk, work, git, github, file, issue, history, bounds>>

Stage == {"built", "dev_checks", "accepted", "reviewing", "revising", "merging", "deploying",
          "verifying", "done"}
Gate == {"criteria_tests", "review", "merge", "deploy", "criteria_dev"}
StageGate == [built |-> "criteria_tests", dev_checks |-> "criteria_dev", accepted |-> "review",
              reviewing |-> "review", revising |-> "review", merging |-> "merge",
              deploying |-> "deploy", verifying |-> "criteria_dev"]
Finding == Threads \cup {"check", "verdict", "person"}
Author == {"runner", "update", "agent"}
Reading == {"poll", "checks", "reviews", "threads"}

\* found, wait: what a poll has read so far; sound (history): that all of it was in order.
Idle == [found |-> {}, wait |-> FALSE, sound |-> FALSE, replies |-> {}, changed |-> FALSE, base |-> 0,
         left |-> {}, now |-> {}]

NewDelivery ==
    [stage |-> "built", failed |-> "none", gates |-> [g \in Gate |-> "none"],
     judged |-> [c \in TestCriteria |-> "none"], checks |-> [c \in DevCriteria |-> "none"],
     around |-> 0, todo |-> FALSE, head |-> 0, last |-> 1, round |-> 0,
     attempts |-> 0, stale |-> FALSE, pending |-> {}, handled |-> {}, dispatched |-> FALSE,
     closedOut |-> FALSE]

NoOpinion == [checks |-> "none", bot |-> "none", person |-> "none", threads |-> [t \in Threads |-> "unseen"]]

Init ==
    /\ pc = "off" /\ d = NewDelivery /\ disk = NewDelivery /\ work = Idle
    /\ tree = "clean" /\ made = <<[by |-> "runner", base |-> 0]>>
    /\ hub = [pull |-> "none", head |-> 0, base |-> 0, merged |-> 0]
    /\ opinion = NoOpinion
    /\ live = [run |-> "none", deployments |-> <<[has |-> FALSE, state |-> "success"]>>]
    /\ file = [c \in DevCriteria |-> "none"]
    /\ issue = [ticked |-> {}, closed |-> FALSE]
    /\ cleared = {} /\ answered = [t \in Threads |-> 0] /\ slipped = {}
    /\ runs = 0 /\ events = 0

Tip == Len(made)

-----------------------------------------------------------------------------
(* How a handler saves, returns and fails.                                 *)

\* TicketStore.save: the file is replaced whole.
Save(new) == d' = new /\ disk' = new

\* The handler returns, _advance saves and takes the next stage.
Return(new) == Save(new) /\ pc' = "loop" /\ work' = Idle

\* _criterion_passed: holds where the issue will see it, on main or in Dev.
Passed(e) ==
    {c \in TestCriteria : e.judged[c] = "met" /\ e.gates["merge"] = "pass"}
        \cup {c \in DevCriteria : e.checks[c] = "pass"}

\* _close_out: GitHub may refuse any of the calls; it closes the issue only if met.
CloseOut(e) ==
    LET met == \A g \in Gate : e.gates[g] = "pass"
    IN  \/ Save(e) /\ issue' \in {issue, [issue EXCEPT !.ticked = @ \cup Passed(e)]}
        \/ /\ met
           /\ Save([e EXCEPT !.closedOut = TRUE])
           /\ issue' = [ticked |-> issue.ticked \cup Passed(e), closed |-> TRUE]

\* _advance, except GateFailed: the stage stays, its gate is recorded.
FailWith(new) ==
    LET gate == StageGate[new.stage]
    IN  /\ CloseOut([new EXCEPT !.gates[gate] = "fail", !.failed = gate])
        /\ pc' = "off" /\ work' = Idle

Fail == FailWith(d)

\* A model, git or GitHub call fails, a wait times out, a limit is reached, or
\* what the code reads refuses the next step (each guard of an action below).
Fails ==
    /\ d.stage \notin {"verifying", "done"}
    /\ pc \in {"loop", "open", "commit", "committed", "push", "answer", "request", "pull", "merge",
               "confirm", "update", "merged", "republish", "rerequest", "watch"} \cup Reading
    /\ Fail
    /\ UNCHANGED <<git, github, file, history, bounds>>

\* A process death: memory is lost, the worktree stays as it is.
Crash ==
    /\ pc # "off"
    /\ pc' = "off" /\ d' = disk /\ work' = Idle
    /\ UNCHANGED <<disk, git, github, file, issue, history, bounds>>

\* RunStopped or BudgetExhausted: memory is saved.  Only a model call, a wait
\* and the head of the loop look at the request; a merge is aborted.
Pause ==
    /\ pc \in {"loop", "poll", "pull", "watch", "revise", "agree", "resolve", "building", "verify", "check"}
    /\ pc = "poll" => d.stage = "reviewing"
    /\ pc' = "off" /\ Save(d) /\ work' = Idle
    /\ tree' = IF pc = "resolve" THEN "clean" ELSE tree
    /\ UNCHANGED <<made, github, file, issue, history, bounds>>

\* run: the worktree is clean and at the last accepted commit; a failed gate is
\* tried again.  Tickets that are still to be built come first.
Start ==
    /\ pc = "off" /\ runs < MaxRuns /\ ~ disk.closedOut
    /\ tree = "clean" /\ Tip = disk.last
    /\ Save([disk EXCEPT !.failed = "none",
                         !.gates = [g \in Gate |-> IF g = disk.failed THEN "none" ELSE @[g]]])
    /\ pc' = IF disk.todo THEN "building" ELSE "loop"
    /\ runs' = runs + 1
    /\ UNCHANGED <<work, git, github, file, issue, history, events>>

\* A start that is refused: the user puts the worktree back himself.
UserResets ==
    /\ pc = "off" /\ ~ (tree = "clean" /\ Tip = disk.last)
    /\ tree' = "clean" /\ made' = SubSeq(made, 1, disk.last)
    /\ UNCHANGED <<pc, d, disk, work, github, file, issue, history, bounds>>

-----------------------------------------------------------------------------
(* Before the pull request.                                                *)

\* _built: the acceptor's verdicts, each "met" held to passing tests; unmet
\* criteria get more tickets, while there are rounds left.
Judge ==
    /\ pc = "loop" /\ d.stage = "built"
    /\ \E verdict \in [TestCriteria -> {"met", "unmet"}] :
         LET judged == [d EXCEPT !.judged = verdict]
         IN  \/ /\ \A c \in TestCriteria : verdict[c] = "met"
                /\ Return([judged EXCEPT !.gates["criteria_tests"] = "pass", !.stage = "dev_checks"])
                /\ UNCHANGED issue
             \/ /\ \E c \in TestCriteria : verdict[c] = "unmet"
                /\ d.around < MaxAcceptanceRounds
                /\ Save([judged EXCEPT !.around = @ + 1, !.todo = TRUE])
                /\ pc' = "building" /\ UNCHANGED <<work, issue>>
             \/ /\ \E c \in TestCriteria : verdict[c] = "unmet"
                /\ FailWith(judged)
    /\ UNCHANGED <<git, github, file, history, bounds>>

\* MORE_TICKETS: the build loop commits them and comes back (module RunScheduler).
BuildMore ==
    /\ pc = "building"
    /\ made' = Append(made, [by |-> "runner", base |-> made[Tip].base])
    /\ Return([d EXCEPT !.last = Tip + 1, !.todo = FALSE])
    /\ UNCHANGED <<tree, github, file, issue, history, bounds>>

\* _dev_checks: a check for each criterion that only Dev can show, seen to fail first.
WriteCheck(c) ==
    /\ pc = "loop" /\ d.stage = "dev_checks" /\ d.checks[c] = "none"
    /\ file' = [file EXCEPT ![c] = "red"]
    /\ Save([d EXCEPT !.checks[c] = "red"])
    /\ UNCHANGED <<pc, work, git, github, issue, history, bounds>>

ChecksWritten ==
    /\ pc = "loop" /\ d.stage = "dev_checks" /\ \A c \in DevCriteria : d.checks[c] # "none"
    /\ Return([d EXCEPT !.stage = "accepted"])
    /\ UNCHANGED <<git, github, file, issue, history, bounds>>

\* git push, fast-forward only; a new head has no check registered and no review yet.
Push ==
    /\ hub.head # Foreign
    /\ hub' = [hub EXCEPT !.head = Tip]
    /\ opinion' = IF hub.head = Tip THEN opinion
                  ELSE [opinion EXCEPT !.checks = "none", !.bot = "none"]
    /\ UNCHANGED live

\* _accepted: push, then find or open the pull request and ask for a review.
Publish ==
    /\ pc = "loop" /\ d.stage = "accepted"
    /\ Push /\ pc' = "open"
    /\ UNCHANGED <<d, disk, work, git, file, issue, history, bounds>>

OpenPull ==
    /\ pc = "open" /\ hub.pull \in {"none", "closed"}
    /\ hub' = [hub EXCEPT !.pull = "open"]
    /\ UNCHANGED <<pc, d, disk, work, git, opinion, live, file, issue, history, bounds>>

Opened ==
    /\ pc = "open" /\ hub.pull = "open"
    /\ Return([d EXCEPT !.head = Tip, !.stage = "reviewing"])
    /\ UNCHANGED <<git, github, file, issue, history, bounds>>

-----------------------------------------------------------------------------
(* Review.                                                                 *)

\* Mutant of SyncPush: a revision that is resumed relies on the push it made before.
SyncPushOutsideRevising ==
    /\ pc = "loop" /\ d.stage \in {"reviewing", "revising", "merging"}
    /\ d.stage = "merging" => d.gates["review"] = "pass"
    /\ IF d.head = Tip /\ d.stage # "revising" THEN Push ELSE UNCHANGED github
    /\ pc' = [reviewing |-> "poll", revising |-> "poll", merging |-> "pull"][d.stage]
    /\ IF d.stage = "merging" THEN Save([d EXCEPT !.stale = FALSE]) ELSE UNCHANGED <<d, disk>>
    /\ UNCHANGED <<work, git, file, issue, history, bounds>>

\* _sync_push: publish a committed head that a stopped run had not pushed yet;
\* _merging refreshes a stale body first.
SyncPush ==
    /\ pc = "loop" /\ d.stage \in {"reviewing", "revising", "merging"}
    /\ d.stage = "merging" => d.gates["review"] = "pass"
    /\ IF d.head = Tip THEN Push ELSE UNCHANGED github
    /\ pc' = [reviewing |-> "poll", revising |-> "poll", merging |-> "pull"][d.stage]
    /\ IF d.stage = "merging" THEN Save([d EXCEPT !.stale = FALSE]) ELSE UNCHANGED <<d, disk>>
    /\ UNCHANGED <<work, git, file, issue, history, bounds>>

\* _review_status asks GitHub for the pull request, the check runs and statuses,
\* the reviews and the threads, one call after the other; review.evaluate then
\* judges the answers.  What an answer adds to the judgement is kept as it comes;
\* fine (history): what was asked about is in order.
Learn(found, wait, fine) ==
    work' = [work EXCEPT !.found = @ \cup found, !.wait = @ \/ wait, !.sound = @ /\ fine]

\* The pull request is open, at the runner's head.
Unmoved == hub.pull = "open" /\ hub.head = d.head

ReadHead ==
    /\ pc = "poll" /\ Unmoved
    /\ work' = [Idle EXCEPT !.sound = TRUE]
    /\ pc' = "checks"
    /\ UNCHANGED <<d, disk, git, github, file, issue, history, bounds>>

\* Check runs, then statuses, here one list; an empty one is nothing to wait for.
ReadChecks ==
    /\ pc = "checks"
    /\ Learn(IF opinion.checks = "red" THEN {"check"} ELSE {}, opinion.checks = "running",
             opinion.checks \in {"none", "green"})
    /\ pc' = "reviews"
    /\ UNCHANGED <<d, disk, git, github, file, issue, history, bounds>>

\* What the reviews add: the latest one of the bot, a person's, approvals to wait for.
ReviewFindings ==
    (IF opinion.bot = "objects" THEN {"verdict"} ELSE {})
        \cup (IF opinion.person = "objects" THEN {"person"} ELSE {})
Unapproved == NeedsApproval /\ opinion.person # "approves"

\* History: the bot saw this very head and did not object, people are content.
NoObjection == opinion.bot \in {"approves", "silent"} /\ opinion.person # "objects" /\ ~ Unapproved

\* Mutant of ReadReviews: the bot's latest review counts, whatever head it is on.
ReadReviewsOfAnyHead ==
    /\ pc = "reviews"
    /\ Learn(ReviewFindings, Unapproved, NoObjection)
    /\ pc' = "threads"
    /\ UNCHANGED <<d, disk, git, github, file, issue, history, bounds>>

\* The bot has reviewed this very head; a review without a verdict is no finding.
ReadReviews ==
    /\ pc = "reviews"
    /\ Learn(ReviewFindings, opinion.bot = "none" \/ Unapproved, NoObjection)
    /\ pc' = "threads"
    /\ UNCHANGED <<d, disk, git, github, file, issue, history, bounds>>

\* The threads are read last, and the answers judged.
OpenThreads == {t \in Threads : opinion.threads[t] = "open"}
Findings == work.found \cup OpenThreads

ReviewPasses ==
    /\ pc = "threads" /\ d.stage = "reviewing" /\ ~ work.wait /\ Findings = {}
    /\ Return([d EXCEPT !.gates["review"] = "pass", !.stage = "merging"])
    /\ cleared' = IF work.sound /\ OpenThreads = {} THEN cleared \cup {d.head} ELSE cleared
    /\ UNCHANGED <<git, github, file, issue, answered, slipped, bounds>>

\* Findings that are all in, or all that are known when the wait times out.
ReviewObjects ==
    /\ pc = "threads" /\ d.stage = "reviewing" /\ Findings # {}
    /\ Return([d EXCEPT !.stage = "revising"])
    /\ UNCHANGED <<git, github, file, issue, history, bounds>>

\* Replies of an earlier round come first, whatever the findings, and whether
\* or not GitHub gave them; it is asked for the open threads once more.
ResumeReplies ==
    /\ pc \in Reading /\ d.stage = "revising" /\ d.pending # {} /\ d.head = Tip
    /\ pc' = "answer"
    /\ work' = [Idle EXCEPT !.changed = TRUE, !.replies = (d.pending \ d.handled) \cap OpenThreads]
    /\ UNCHANGED <<d, disk, git, github, file, issue, history, bounds>>

\* _revising takes the findings as they are, finished checks or not.
ReadFindings ==
    /\ pc = "threads" /\ d.stage = "revising" /\ (d.pending = {} \/ d.head # Tip)
    /\ \/ Findings = {} /\ Return([d EXCEPT !.stage = "reviewing"])
       \/ /\ Findings # {} /\ d.round < MaxReviewRounds
          /\ pc' = "revise" /\ work' = [Idle EXCEPT !.found = Findings]
          /\ UNCHANGED <<d, disk>>
    /\ UNCHANGED <<git, github, file, issue, history, bounds>>

\* An answer that GitHub does not give is no finding.
ReadNothing ==
    /\ pc \in Reading /\ d.stage = "revising" /\ (d.pending = {} \/ d.head # Tip)
    /\ events < MaxEvents /\ events' = events + 1
    /\ Return([d EXCEPT !.stage = "reviewing"])
    /\ UNCHANGED <<git, github, file, issue, history, runs>>

\* review.revise, the reviser at work.
Edit ==
    /\ pc = "revise" /\ tree = "clean"
    /\ tree' = "dirty"
    /\ UNCHANGED <<pc, d, disk, work, made, github, file, issue, history, bounds>>

\* An attempt the runner accepts: HEAD where it was, frozen checks and tests
\* intact, ticket tests and suite green, and an action for every finding it met.
Revise ==
    /\ pc = "revise"
    /\ \A c \in DevCriteria : d.checks[c] # "none" => file[c] # "edited"
    /\ \E fixed, declined \in SUBSET (work.found \cap Threads) :
         /\ fixed \cap declined = {}
         /\ tree = "clean" => fixed = {} /\ work.found \subseteq Threads
         /\ work' = [work EXCEPT !.changed = tree = "dirty", !.replies = fixed, !.left = declined]
         /\ pc' = IF declined # {} THEN "agree" ELSE IF tree = "dirty" THEN "commit" ELSE "answer"
    /\ UNCHANGED <<d, disk, git, github, file, issue, history, bounds>>

\* ReviewError, CopilotError, DevopsError: the edits stay; the reviser may have committed.
ReviserFails ==
    /\ pc = "revise"
    /\ \/ UNCHANGED <<made, events>>
       \/ /\ events < MaxEvents /\ events' = events + 1
          /\ made' = Append(made, [by |-> "agent", base |-> made[Tip].base])
    /\ Fail
    /\ UNCHANGED <<tree, github, file, history, runs>>

\* review.agrees: a declined comment is answered only if a second reviewer agrees.
Agree ==
    /\ pc = "agree"
    /\ \E agreed \in SUBSET work.left :
         work' = [work EXCEPT !.replies = @ \cup agreed, !.left = {}]
    /\ pc' = IF work.changed THEN "commit" ELSE "answer"
    /\ UNCHANGED <<d, disk, git, github, file, issue, history, bounds>>

\* Mutant of CommitFix: pushed first, recorded afterwards.
CommitAndPush ==
    /\ pc = "commit"
    /\ made' = Append(made, [by |-> "runner", base |-> made[Tip].base])
    /\ tree' = "clean" /\ pc' = "push"
    /\ UNCHANGED <<d, disk, work, github, file, issue, history, bounds>>

\* commit_changes.
CommitFix ==
    /\ pc = "commit"
    /\ made' = Append(made, [by |-> "runner", base |-> made[Tip].base])
    /\ tree' = "clean" /\ pc' = "committed"
    /\ UNCHANGED <<d, disk, work, github, file, issue, history, bounds>>

RecordFix ==
    /\ pc = "committed"
    /\ Save([d EXCEPT !.head = Tip, !.last = Tip, !.stale = TRUE, !.pending = work.replies])
    /\ pc' = "push"
    /\ UNCHANGED <<work, git, github, file, issue, history, bounds>>

PushFix ==
    /\ pc = "push"
    /\ Push /\ pc' = "pushed"
    /\ UNCHANGED <<d, disk, work, git, file, issue, history, bounds>>

\* The replies are no longer pending; the body of the pull request is brought
\* up to date (pr_body), or stays stale.
RecordPush ==
    /\ pc = "pushed"
    /\ \E stale \in BOOLEAN : Save([d EXCEPT !.pending = {}, !.stale = stale])
    /\ pc' = "answer"
    /\ UNCHANGED <<work, git, github, file, issue, history, bounds>>

\* Reply, resolve, remember: one thread at a time.
Answer(t) ==
    /\ pc = "answer" /\ t \in work.replies
    /\ work' = [work EXCEPT !.replies = @ \ {t}]
    /\ IF t \in d.handled THEN UNCHANGED <<d, disk, opinion, answered>>
       ELSE /\ opinion' = [opinion EXCEPT !.threads[t] = "closed"]
            /\ answered' = [answered EXCEPT ![t] = d.head]
            /\ Save([d EXCEPT !.handled = @ \cup {t}])
    /\ UNCHANGED <<pc, git, hub, live, file, issue, cleared, slipped, bounds>>

\* A fixed head is reviewed again, after a request if a push does not start one.
Answered ==
    /\ pc = "answer" /\ work.replies = {}
    /\ IF work.changed /\ ~ ReviewOnPush
       THEN pc' = "request" /\ UNCHANGED <<d, disk, work>>
       ELSE Return([d EXCEPT !.pending = {}, !.round = @ + 1, !.stage = "reviewing"])
    /\ UNCHANGED <<git, github, file, issue, history, bounds>>

Requested ==
    /\ pc = "request"
    /\ Return([d EXCEPT !.pending = {}, !.round = @ + 1, !.stage = "reviewing"])
    /\ UNCHANGED <<git, github, file, issue, history, bounds>>

-----------------------------------------------------------------------------
(* Merge.                                                                  *)

\* mergeable_state is behind or dirty: the base has moved past what the head contains.
Behind == hub.base > made[d.head].base

\* Mutant of ReadPull: updates from the base are counted but not limited.
ReadPullUnlimited ==
    /\ pc = "pull" /\ Unmoved
    /\ IF Behind
       THEN Save([d EXCEPT !.attempts = @ + 1]) /\ pc' = "update"
       ELSE pc' = "merge" /\ UNCHANGED <<d, disk>>
    /\ UNCHANGED <<work, git, github, file, issue, history, bounds>>

\* _settled_pull and what _merging makes of it.
ReadPull ==
    /\ pc = "pull" /\ Unmoved
    /\ IF Behind
       THEN /\ d.attempts < MaxMergeAttempts
            /\ Save([d EXCEPT !.attempts = @ + 1]) /\ pc' = "update"
       ELSE pc' = "merge" /\ UNCHANGED <<d, disk>>
    /\ UNCHANGED <<work, git, github, file, issue, history, bounds>>

\* merge_pull names the head; GitHub merges that head, now or while its answer is lost.
MergePull ==
    /\ pc = "merge" /\ Unmoved /\ ~ Behind
    /\ hub' = [hub EXCEPT !.pull = "merged", !.merged = hub.head]
    /\ \/ pc' = "confirm" /\ UNCHANGED <<d, disk, work, issue>>
       \/ Fail
    /\ UNCHANGED <<git, opinion, live, file, history, bounds>>

\* Mutant of MergeRefused: a refusal is not an attempt.
MergeRefusedUncounted ==
    /\ pc = "merge" /\ d.attempts < MaxMergeAttempts
    /\ Return(d)
    /\ UNCHANGED <<git, github, file, issue, history, bounds>>

\* HTTP 405: not mergeable right now.
MergeRefused ==
    /\ pc = "merge" /\ d.attempts < MaxMergeAttempts
    /\ Return([d EXCEPT !.attempts = @ + 1])
    /\ UNCHANGED <<git, github, file, issue, history, bounds>>

\* _merged: by the runner, or by somebody else at the very head the runner has.
Merged ==
    /\ hub.pull = "merged"
    /\ pc \in {"confirm", "pull"} /\ (pc = "pull" => hub.merged = d.head)
    /\ Return([d EXCEPT !.gates["merge"] = "pass", !.stage = "deploying"])
    /\ UNCHANGED <<git, github, file, issue, history, bounds>>

\* merge.update_branch: fetch and merge without committing; a base that is already
\* in HEAD is an error.
MergeIn ==
    /\ pc = "update" /\ made[Tip].base < hub.base
    /\ tree' = "merging" /\ pc' = "resolve"
    /\ work' = [Idle EXCEPT !.base = hub.base]
    /\ UNCHANGED <<d, disk, made, github, file, issue, history, bounds>>

\* The resolver left HEAD and the merge alone, no conflict marker, frozen tests
\* and checks, and a green suite: finish_merge commits.
FinishMerge ==
    /\ pc = "resolve"
    /\ \A c \in DevCriteria : d.checks[c] # "none" => file[c] # "edited"
    /\ made' = Append(made, [by |-> "update", base |-> work.base])
    /\ tree' = "clean" /\ pc' = "merged"
    /\ UNCHANGED <<d, disk, work, github, file, issue, history, bounds>>

\* Any exception aborts the merge, if git can; the resolver may have committed.
ResolverFails ==
    /\ pc = "resolve"
    /\ \/ tree' \in {"clean", "merging"} /\ UNCHANGED <<made, events>>
       \/ /\ events < MaxEvents /\ events' = events + 1 /\ tree' = "clean"
          /\ made' = Append(made, [by |-> "agent", base |-> work.base])
    /\ Fail
    /\ UNCHANGED <<github, file, history, runs>>

\* merge.update_branch saves the merge as the last accepted commit, with the
\* merged tests as the frozen ones.
RecordMerge ==
    /\ pc = "merged"
    /\ Save([d EXCEPT !.last = Tip]) /\ pc' = "recorded"
    /\ UNCHANGED <<work, git, github, file, issue, history, bounds>>

\* _update_branch takes it for the head of the pull request.
RecordHead ==
    /\ pc = "recorded"
    /\ Save([d EXCEPT !.head = Tip]) /\ pc' = "republish"
    /\ UNCHANGED <<work, git, github, file, issue, history, bounds>>

Republish ==
    /\ pc = "republish"
    /\ Push /\ pc' = "rerequest"
    /\ UNCHANGED <<d, disk, work, git, file, issue, history, bounds>>

\* A new head is new code: it has to pass review again.
Rereview ==
    /\ pc = "rerequest"
    /\ Return([d EXCEPT !.gates["review"] = "none", !.stage = "reviewing"])
    /\ UNCHANGED <<git, github, file, issue, history, bounds>>

-----------------------------------------------------------------------------
(* Deployment, verification, closing.                                      *)

\* _deployment_for: the state of the newest deployment that contains the merge.
Deployed ==
    LET containing == {i \in DOMAIN live.deployments : live.deployments[i].has}
    IN  IF containing = {} THEN "none" ELSE live.deployments[Min(containing)].state

Follow ==
    /\ pc = "loop" /\ d.stage = "deploying"
    /\ pc' = "watch"
    /\ UNCHANGED <<d, disk, work, git, github, file, issue, history, bounds>>

DeploymentSucceeds ==
    /\ pc = "watch" /\ Deployed = "success"
    /\ Return([d EXCEPT !.gates["deploy"] = "pass", !.stage = "verifying"])
    /\ UNCHANGED <<git, github, file, issue, history, bounds>>

\* _no_run: the merge started nothing; one dispatch, which GitHub takes up now or later.
Dispatch ==
    /\ pc = "watch" /\ live.run = "none" /\ MayDispatch /\ ~ d.dispatched
    /\ live' \in {live, [run |-> "running", deployments |->
                           <<[has |-> TRUE, state |-> "busy"]>> \o live.deployments]}
    /\ pc' = "dispatched"
    /\ UNCHANGED <<d, disk, work, git, hub, opinion, file, issue, history, bounds>>

RecordDispatch ==
    /\ pc = "dispatched"
    /\ Save([d EXCEPT !.dispatched = TRUE]) /\ pc' = "watch"
    /\ UNCHANGED <<work, git, github, file, issue, history, bounds>>

Verify ==
    /\ pc = "loop" /\ d.stage = "verifying"
    /\ work' = [Idle EXCEPT !.left = {c \in DevCriteria : d.checks[c] # "pass"}]
    /\ pc' = "verify"
    /\ UNCHANGED <<d, disk, git, github, file, issue, history, bounds>>

\* Mutant of FrozenCheck: the check is run as it is found.
AnyCheck(c) ==
    /\ pc = "verify" /\ c \in work.left
    /\ pc' = "check" /\ work' = [work EXCEPT !.now = {c}]
    /\ UNCHANGED <<d, disk, git, github, file, issue, history, bounds>>

\* frozen_check: the file is hashed once, before the first attempt.
FrozenCheck(c) ==
    /\ pc = "verify" /\ c \in work.left /\ file[c] # "edited"
    /\ pc' = "check" /\ work' = [work EXCEPT !.now = {c}]
    /\ UNCHANGED <<d, disk, git, github, file, issue, history, bounds>>

\* An edited check fails without being run.
EditedCheck(c) ==
    /\ pc = "verify" /\ c \in work.left /\ file[c] = "edited"
    /\ Save([d EXCEPT !.checks[c] = "fail"])
    /\ work' = [work EXCEPT !.left = @ \ {c}]
    /\ UNCHANGED <<pc, git, github, file, issue, history, bounds>>

\* The attempt that passes, or the last one: run_check runs the file as it now is.
RunCheck(c) ==
    /\ pc = "check" /\ c \in work.now
    /\ \E result \in {"pass", "fail"} :
         /\ Save([d EXCEPT !.checks[c] = result])
         /\ file' = [file EXCEPT ![c] = IF result = "pass" /\ @ = "red" THEN "green" ELSE @]
    /\ pc' = "verify" /\ work' = [work EXCEPT !.left = @ \ {c}, !.now = {}]
    /\ UNCHANGED <<git, github, issue, history, bounds>>

Verified ==
    /\ pc = "verify" /\ work.left = {}
    /\ \/ /\ \A c \in DevCriteria : d.checks[c] = "pass"
          /\ Return([d EXCEPT !.gates["criteria_dev"] = "pass", !.stage = "done"])
          /\ UNCHANGED issue
       \/ /\ \E c \in DevCriteria : d.checks[c] # "pass"
          /\ Fail
    /\ UNCHANGED <<git, github, file, history, bounds>>

Close ==
    /\ pc = "loop" /\ d.stage = "done"
    /\ CloseOut(d)
    /\ pc' = "off" /\ work' = Idle
    /\ UNCHANGED <<git, github, file, history, bounds>>

-----------------------------------------------------------------------------
(* Everybody else.                                                         *)

\* CI registers its checks some time after a push, if there is any.
ChecksStart ==
    /\ hub.pull = "open" /\ opinion.checks = "none"
    /\ opinion' = [opinion EXCEPT !.checks = "running"]
    /\ UNCHANGED <<pc, d, disk, work, git, hub, live, file, issue, history, bounds>>

ChecksEnd ==
    /\ hub.pull = "open" /\ opinion.checks = "running"
    /\ \E result \in {"green", "red"} : opinion' = [opinion EXCEPT !.checks = result]
    /\ UNCHANGED <<pc, d, disk, work, git, hub, live, file, issue, history, bounds>>

\* The review bot approves, objects or gives no verdict, and opens threads.
BotReviews ==
    /\ hub.pull = "open" /\ opinion.bot = "none"
    /\ \E bot \in {"approves", "objects", "silent"}, opens \in SUBSET {t \in Threads : opinion.threads[t] = "unseen"} :
         opinion' = [opinion EXCEPT !.bot = bot, !.threads = [t \in Threads |-> IF t \in opens THEN "open" ELSE @[t]]]
    /\ UNCHANGED <<pc, d, disk, work, git, hub, live, file, issue, history, bounds>>

\* A person approves, objects or withdraws, or opens or resolves a thread.
PersonReviews ==
    /\ hub.pull = "open" /\ events < MaxEvents /\ events' = events + 1
    /\ \/ \E person \in {"none", "approves", "objects"} : opinion' = [opinion EXCEPT !.person = person]
       \/ \E t \in Threads : opinion' = [opinion EXCEPT !.threads[t] = IF @ = "open" THEN "closed" ELSE "open"]
    /\ UNCHANGED <<pc, d, disk, work, git, hub, live, file, issue, history, runs>>

BaseMoves ==
    /\ hub.pull # "merged" /\ events < MaxEvents /\ events' = events + 1
    /\ hub' = [hub EXCEPT !.base = @ + 1]
    /\ UNCHANGED <<pc, d, disk, work, git, opinion, live, file, issue, history, runs>>

\* The bot's latest review may soon be of that head.
SomebodyPushes ==
    /\ hub.pull = "open" /\ events < MaxEvents /\ events' = events + 1
    /\ hub' = [hub EXCEPT !.head = Foreign]
    /\ opinion' \in {opinion, [opinion EXCEPT !.bot = "none"]}
    /\ UNCHANGED <<pc, d, disk, work, git, live, file, issue, history, runs>>

SomebodyEnds ==
    /\ hub.pull = "open" /\ events < MaxEvents /\ events' = events + 1
    /\ \/ hub' = [hub EXCEPT !.pull = "closed"]
       \/ hub' = [hub EXCEPT !.pull = "merged", !.merged = hub.head]
    /\ UNCHANGED <<pc, d, disk, work, git, opinion, live, file, issue, history, runs>>

EditCheck(c) ==
    /\ file[c] = "red" /\ events < MaxEvents /\ events' = events + 1
    /\ file' = [file EXCEPT ![c] = "edited"]
    /\ slipped' = slipped \cup (work.now \cap {c})
    /\ UNCHANGED <<pc, d, disk, work, git, github, issue, cleared, answered, runs>>

\* The merge, or a person who reruns, starts the deploy workflow.
RunStarts ==
    /\ hub.pull = "merged"
    /\ \/ live.run = "none" /\ UNCHANGED events
       \/ live.run \in {"failed", "cancelled"} /\ events < MaxEvents /\ events' = events + 1
    /\ live' = [run |-> "running", deployments |-> <<[has |-> TRUE, state |-> "busy"]>> \o live.deployments]
    /\ UNCHANGED <<pc, d, disk, work, git, hub, opinion, file, issue, history, runs>>

RunEnds(result) ==
    /\ live.run = "running"
    /\ live' = [live EXCEPT !.run = result,
                            !.deployments[1].state = [done |-> "success", failed |-> "failure", cancelled |-> "busy"][result]]
    /\ UNCHANGED <<pc, d, disk, work, git, hub, opinion, file, issue, history, bounds>>

-----------------------------------------------------------------------------
Step ==
    \/ Judge \/ BuildMore \/ ChecksWritten \/ \E c \in DevCriteria : WriteCheck(c)
    \/ Publish \/ OpenPull \/ Opened \/ SyncPush
    \/ ReadHead \/ ReadChecks \/ ReadReviews \/ ReviewPasses \/ ReviewObjects
    \/ ResumeReplies \/ ReadFindings \/ ReadNothing \/ Edit \/ Revise \/ ReviserFails \/ Agree
    \/ CommitFix \/ RecordFix \/ PushFix \/ RecordPush \/ Answered \/ Requested
    \/ \E t \in Threads : Answer(t)
    \/ ReadPull \/ MergePull \/ MergeRefused \/ Merged
    \/ MergeIn \/ FinishMerge \/ ResolverFails \/ RecordMerge \/ RecordHead \/ Republish \/ Rereview
    \/ Follow \/ DeploymentSucceeds \/ Dispatch \/ RecordDispatch
    \/ Verify \/ Verified \/ Close \/ \E c \in DevCriteria : FrozenCheck(c) \/ EditedCheck(c) \/ RunCheck(c)
    \/ Fails

Others ==
    \/ ChecksStart \/ ChecksEnd \/ BotReviews \/ PersonReviews \/ BaseMoves \/ SomebodyPushes \/ SomebodyEnds
    \/ RunStarts \/ \E result \in {"done", "failed", "cancelled"} : RunEnds(result)
    \/ \E c \in DevCriteria : EditCheck(c)

Next == Step \/ Others \/ Start \/ Pause \/ Crash \/ UserResets

\* A runner that lives goes on: its calls return and its waits end.
Spec == Init /\ [][Next]_vars /\ WF_vars(Step)

-----------------------------------------------------------------------------
\* What the state file keeps of a delivery.
DeliveryType ==
    [stage : Stage, failed : Gate \cup {"none"}, gates : [Gate -> {"none", "pass", "fail"}],
     judged : [TestCriteria -> {"none", "met", "unmet"}],
     checks : [DevCriteria -> {"none", "red", "pass", "fail"}],
     around : 0..MaxAcceptanceRounds, todo : BOOLEAN, head : Nat, last : Nat,
     round : 0..MaxReviewRounds, attempts : 0..MaxMergeAttempts, stale : BOOLEAN,
     pending : SUBSET Threads, handled : SUBSET Threads, dispatched : BOOLEAN, closedOut : BOOLEAN]

\* Every variable has its type; rounds and merge attempts keep their limits over
\* any number of failed gates and resumed runs.
TypeOK ==
    /\ pc \in Reading \cup {"off", "loop", "building", "open", "revise", "agree", "commit", "committed",
               "push", "pushed", "answer", "request", "pull", "merge", "confirm", "update", "resolve",
               "merged", "recorded", "republish", "rerequest", "watch", "dispatched", "verify", "check"}
    /\ d \in DeliveryType /\ disk \in DeliveryType
    /\ work \in [found : SUBSET Finding, wait : BOOLEAN, sound : BOOLEAN, replies : SUBSET Threads,
                 changed : BOOLEAN, base : Nat, left : SUBSET (Threads \cup DevCriteria),
                 now : SUBSET DevCriteria]
    /\ tree \in {"clean", "dirty", "merging"}
    /\ made \in Seq([by : Author, base : Nat])
    /\ hub \in [pull : {"none", "open", "closed", "merged"}, head : Nat \cup {Foreign}, base : Nat,
                merged : Nat \cup {Foreign}]
    /\ opinion \in [checks : {"none", "running", "green", "red"}, bot : {"none", "silent", "approves", "objects"},
                    person : {"none", "approves", "objects"}, threads : [Threads -> {"unseen", "open", "closed"}]]
    /\ live \in [run : {"none", "running", "done", "failed", "cancelled"},
                 deployments : Seq([has : BOOLEAN, state : {"busy", "success", "failure"}])]
    /\ file \in [DevCriteria -> {"none", "red", "edited", "green"}]
    /\ issue \in [ticked : SUBSET (TestCriteria \cup DevCriteria), closed : BOOLEAN]
    /\ cleared \subseteq Nat /\ answered \in [Threads -> Nat] /\ slipped \subseteq DevCriteria
    /\ runs \in 0..MaxRuns /\ events \in 0..MaxEvents

\* What the merge gate passes went through review: one poll found, each when it
\* was asked for, the pull request at that head, no check of it running or red,
\* a review of it by the bot that did not object, every person content and no
\* thread open.  (A check registered later, and an opinion changed after it was
\* read, are not seen.)  Only merges of the base branch that the runner made and
\* tested itself may lie between that head and the merged one, never a fix, a
\* ticket or a commit of somebody else.
MergedAsCleared ==
    d.gates["merge"] = "pass" =>
        \E h \in cleared : h <= hub.merged /\ \A i \in h + 1..hub.merged : made[i].by = "update"

\* README: "the PR merged at exactly the reviewed commit".
MergedAsReviewed == d.gates["merge"] = "pass" => hub.merged \in cleared

\* Whatever a killed run leaves in the worktree, only commits that the runner
\* made itself and that are safe in the state file reach GitHub.
PublishedIsSaved ==
    hub.head \in Nat => hub.head <= disk.last /\ \A i \in 1..hub.head : made[i].by # "agent"

\* A thread that was told "Fixed" in a commit and resolved: that commit is on the
\* pull request, although the push may have failed and been retried by a later run.
AnsweredWhenPublished ==
    \A t \in Threads : hub.head \in Nat => answered[t] <= hub.head

\* A ticked criterion holds on main, or was seen to fail in Dev before the
\* deployment and to pass after it by the same check, unless that was edited
\* between the hash and the attempts that use the file; an issue is closed only
\* when all are ticked and a deployment that contains the merge succeeded.
IssueTellsTruth ==
    /\ \A c \in issue.ticked :
         IF c \in DevCriteria THEN file[c] = "green" \/ c \in slipped ELSE hub.pull = "merged"
    /\ issue.closed =>
         /\ issue.ticked = TestCriteria \cup DevCriteria
         /\ \E i \in DOMAIN live.deployments : live.deployments[i] = [has |-> TRUE, state |-> "success"]

\* Every run of the delivery ends, however reviewers, merges and deployments go.
RunReturns == pc # "off" ~> pc = "off"
=============================================================================
