# Elliptic in TLA+

This directory is a verification development of Elliptic, a project-management system: TLA+
modules of the parts in which requests, jobs, processes and devices meet, TLC configurations that
check them on small instances, and proofs checked by TLAPS. `PROJECT.json` lists components, runs,
findings, hazards and theorems, and maps each definition to the lines it translates. Paths below
are relative to `src/apps/api/src/elliptic/` unless they begin with `apps/`; `web/` stands for
`apps/web/apps/web/src/` and `mobile/` for `apps/mobile/app/`.

- `tlc -config X.cfg MCModule` checks one configuration (the module of each is in `PROJECT.json`).
- `tlapm XProofs.tla` checks the proofs of one component; `TaskProofs`, `MobileProofs` and
  `TaskSurfaceProofs` are about two components and their composition.

## 1. The system

| Part | State | Operations | What meets what |
|---|---|---|---|
| API requests (`core/database.py`, `core/deps.py`) | one database session and one transaction per request | commit before the response, rollback on any exception | PostgreSQL runs them READ COMMITTED: two requests meet only in row locks and unique constraints |
| Scheduler (`core/scheduler.py`, `core/jobs.py`) | none | seven jobs, each a loop of sleep and run, **in every API process** (the deployment runs two) | a job meets itself in the other process, and all requests |
| Outbox (`modules/outbox`) | `event_outbox`, `webhook_endpoints` | capture, register, delete, requeue, dispatch by the job or by an admin | pollers, admins and receivers |
| Sync feed (`modules/sync`) | `updated_at` of rows, `sync_tombstones` | `changes_since`, `record_deletion`, purge | writers with clocks of their own, clients that poll |
| Tasks and projects (`modules/tasks`, `modules/projects`) | tasks, `task_counter`, relations, states | create, duplicate, import, move, delete, transition | every intake path numbers tasks |
| Recurring rules (`modules/recurring`) | rules with `next_run_at` | materialize due rules, run one now, edit, delete | the job of each process, admins, the task counter |
| Organisations (`modules/orgs`, `modules/scim`) | members, invitations, project members | change a role, remove, invite, revoke, accept, assign, SCIM (de)activation | two admins at once, an identity provider |
| Workflow and approvals (`modules/workflow`, `modules/approvals`, `transition_status`) | workflow rows, the status and the row of a task, approvals | transition, request, approve, reject, create, rename and delete a row | two deciders; a transition during the deletion of its row; intakes that write the status alone |
| Worklogs, automation | decisions, rules | decide, trigger | a rule inside a request |
| OAuth and MCP (`modules/mcp_auth`, `modules/mcp_server`) | codes, grants, refresh tokens, keys, idempotency keys | exchange, rotate, revoke, run once | two exchanges of one code, retries of one call |
| Realtime (`core/realtime.py`, `modules/webhooks`) | subscriber queues, a LISTEN connection per process | publish, dispatch to chat webhooks | slow subscribers, lost connections, two processes that hear one event |
| Storage and drive | rows and R2 objects | presign, confirm, delete | the database and the object store |
| Mobile app (`mobile/`) | profile (MMKV), tokens (Keychain), durable offline queue, persisted query cache | sign in, sign out, refresh; write or queue, flush; read lists through the cache | writes, flushes, answers and timeouts between two `await`s; relaunches; Keychain writes that come late or fail |
| Client caches (`web/lib/query.ts`, `web/hooks`, `mobile/services/query.ts`) | one entry per query key | fetch, retry, guess, roll back, put in a reply, invalidate, remove | fetches, writes, activity events and screens in any order |
| Task surface (`web/components/tasks`) | tasks as laid out, selection, focus, pickers, `?task=`; saved views in localStorage | walk, select, pick, drag, filter, fold, open; save, apply, update, lock, pin, delete a view | data that arrives under a selection; the router; two tabs |

The remaining modules (search, analytics, views, favorites, vocabulary, audit and so on) read rows,
or write rows that one request owns; `PROJECT.json` lists them all.

What is hard here follows from four decisions of the code. Transactions are READ COMMITTED and
only two statements in the API lock rows: `lock_project` and the batch of `dispatch_pending`. The
session keeps the attributes it has loaded (a later `SELECT ... FOR UPDATE` does not refresh them)
and writes only the columns that changed. Scheduled jobs run in every process without an election.
Timestamps are taken when a statement is flushed and become visible at the commit.

What makes each part correct, and hence what the properties say: the outbox delivers at least once
or gives up visibly; a polling client never misses a change; a task number is never given twice and
its allocation never fails; a date of a cadence makes one task and a due rule is served; an
organisation keeps an owner, ownership comes from owners, nobody outside it has a role in its
projects; a task stands in a workflow row of its status and a decided approval did what it says; a
queued offline write is not lost, keeps its order, and leaves the queue; whoever is signed in is who
the profile says; a cache that nobody doubts shows what the server took, and the writes of its own
page; what a bulk action touches is what the reader sees.

## 2. The modules

A transaction is modelled the same way everywhere: one action per statement that reads or locks,
and one for the commit, at which its writes become visible together. Between them any other
transaction may step. Writes that PostgreSQL would block take a lock variable that the commit, the
rollback or the death of the process releases.

**`Outbox`** (`modules/outbox/service.py`, `core/jobs.py`). `row[e]` is the committed row of event
`e`. A worker is a `drain_outbox` job or an admin's dispatch request; `Claim` is the SELECT ... FOR
UPDATE SKIP LOCKED of a batch with the read of the endpoints, `StartRow`/`Post`/`FinishRow` the loop
over rows and endpoints, `Commit` writes all outcomes. `PostRaises` is a POST that leaves the
`except httpx.HTTPError`; `Crash` is the death of a process. `RequeueRead`/`RequeueWrite` are the
two halves of `requeue_event`, whose UPDATE names only the columns that differ from what was read.
**`OutboxPromise`** is the abstract specification: an event is absent, pending, delivered or dead;
receivers may get it again while it is pending; it becomes delivered only when all subscribers it
is owed to have it. `Outbox` implements it under the mapping `Stage` (`ImplementsPromise`).

**`Sync`** (`modules/sync/service.py` with the writes of tasks and projects, and the two purge
jobs). A write stamps the row with the clock at its flush and commits up to `MaxLag` seconds later.
A poll takes `started_at`, reads each collection and then the tombstones in statements of their
own, truncates at `Limit`, and its reply may be lost or applied. The client is what the docstrings
say of it: it keys rows by id, keeps the last cursor, and may start over. `purge_deleted_projects`
selects without a lock (`SelectExpired`) and deletes by primary key when it commits
(`DeleteDoomed`), with a restore in between if there is one. A DELETE locks and removes what the
database cascades to (`Family`). What the feed leaves a client unsure of (late commits, cascades,
a restored project that is purged, cut pages, an absence longer than the tombstones are kept) is in
the history variable `unsure`, which no action reads.

**`TaskNumbers`** (`lock_project`, `next_task_number` and their callers). One project, its
committed counter, the numbers in use, and three kinds of transactions told apart by how they came
by the `Project` object: locked first, read and then locked, or only read. `holder` is the row lock.
`Insert` increments the object's counter and takes the number; `Refuse` is the unique constraint;
`SkipRow` is a failing row of an import; `Leave` is a deletion or a routing to another project.

**`TaskWorkflow`** (`modules/workflow`, `modules/approvals`, `transition_status` and its callers).
The statuses of one project's tasks, the rows of the organisation's workflow they are wired to, and
the approvals that move them. `job[r]` is what a request has read; `WriteStatusAlone` stands for
the intakes that write a status and no row. An UPDATE names only the columns that differ from what
the request loaded, and deleting a row sets the column of the tasks left in it to NULL
(`DeleteStatus`). A request counts the items of a row (`CountItems`), transfers them
(`TransferItems`) and deletes the row in statements of their own.

**`Recurring`** (`modules/recurring/service.py`). `SelectDue` reads the due rules without a lock;
for each rule the worker reads the project, advances the counter and flushes task and rule, each of
which waits for a row lock; all due rules commit together. Waits may form a cycle, which PostgreSQL
breaks by aborting one transaction. `RunNow`, `UpdateRule` (any date, a past one as well),
`DeleteRule`, `OtherTask` and `Fail` are the others that interfere. The history variable `contested`
holds the rules two workers have had in hand at once, `again` the dates a rule had been served for
when an edit set it back to them.

**`OrgMembership`** (`modules/orgs`, `modules/projects`, `modules/scim`). A session asks
(`Begin`, with the actor's role as `core/deps.py` reads it), reads the target row, counts owners if
the code does, and writes. `role`, `proj` and `inv` are the three tables; `lost` holds the requests
whose loaded row has been deleted. The history variable `owned` records who has been owner,
`overtaken` the requests that have read a row, or counted an owner, that has changed since
(`Overtakes`), and `astray` the users whose assignment was written by such a request or left behind
by SCIM. `Kinds` and `Offers` bound what is called and which organisation roles are named.

**`OfflineQueue`** (`apps/mobile/app/services/offlineQueue.ts`, `services/api/index.ts`,
`components/OfflineSync.tsx`). A caller is a write or a run of `flushQueue`; it gives up control
only while its request is under way. `Serve` is the server, `ServeLate` the server that receives a
request the client has timed out, `Relaunch` the end of the process with the queue on disk.
`FlushAnswered` re-reads the queue and takes its first item off, whatever item was replayed;
`FlushFails` is the `break` on a network problem. Two flushes run at once when the mount and a
NetInfo event start one each; the history variable `crowded` says that a flush under way has met
another one, `excused` holds what was taken off then, or at a 5xx, and `calm` says that nothing has
failed since the connection came back. **`ReplayPromise`** is the abstract specification:
what is queued leaves from the front, settled unless a flush is disturbed, and a replay takes effect
when nothing queued before it is waiting; `queued` is the set of what `entered` lists.

**`MobileSession`** (`context/AuthContext.tsx`, `services/secureTokens.ts`,
`services/api/index.ts`). The profile is written at once, the tokens into the Keychain both keys
at once, in any order and possibly never; `keychain` and the profile outlive the process, the mirror of the tokens
does not. A request that is answered 401 starts a refresh, and a sign-in or a sign-out may come
before that refresh is answered.

**`QueryCache`** (`web/lib/query.ts`, `mobile/services/query.ts`). One entry of a client's cache
and all the writes that can touch it. A slot is one write, `db` the slots the server has committed,
and what the entry shows is the set of slots its data reflects: a missing one is staleness, an
uncommitted one a ghost. `Fire` is the press and its optimistic guess, `Commit` the server,
`Succeed`/`Fail` the callbacks, `Replay` a queued mobile write, `TheirWrite` and
`Deliver`/`LoseEvent` somebody else's write and its activity event; `ServeFetch`, `Fetched` and
`FetchFails` are a fetch with its retries (a 4xx is an answer for the web and not for the mobile
app), and `Mount`, `Unmount`, `Age`, `Refetch`, `Pull` and
`Prefetch` the screens. Both clients persist every entry whose status is `success`
(`web/lib/query.ts:67-71`), guesses included: `Init` may find one whose write is `orphaned` and
whose callbacks are gone, and `restored` says until when. What the library does is outside `src/` and modelled from how the two
clients rely on it (marked external).

Which writes can touch which entry is data, read off the code in the vocabulary of **`CacheTerms`**:
**`WebHooks`** and **`WebAdminHooks`** have one row per data hook (key, resource, cancel, guess, reply,
invalidate, remove) over the keys of **`WebKeys`**,
**`WebComponents`** and **`WebPages`** say what each component and page shows, presses and holds,
**`MobileScreens`** does the same for the mobile app. **`CacheShapes`** turns every query of every
page, with any two writes on that page, on another page or by somebody else, into a shape; writes that do
the same to a query give one shape, which keeps all pages of a client within one run. `Unrefreshed`
names the writes that ask for no refresh of a query of their own page that they change.
**`HookRules`** states what the hooks of the two clients keep to (the web refreshes what it guesses or
cancels when a mutation is over, failed or not; the mobile app cancels nothing and rolls back), as an
assumption on shapes that the theorems use and TLC evaluates on the shapes of both clients. A prefetch
under way that a mark, a guess or a reply meets can take the mark off again when the dialog that
joined it closes (`Mislaid`).

**`TaskBoard`** (`web/components/tasks/board.tsx`, `tasks-table.tsx`, `use-task-surface.ts`, the
store of selection and keyboard, the bulk bar, the pickers). Tasks lie in lanes or status groups;
data may arrive under a selection, folds and filters hide tasks, `failed` is a refetch that has
failed (a board then renders an error and nothing else, `Gone`; a table keeps its bar), and `nav` is
an address the router has been asked for and not shown yet. `Filtered` keeps the tasks a filter lets through, in their order,
as a recursive function, about which an induction can be made. **`TaskViews`** (`task-views.ts`, `TaskViewsBar`): `stored` is
localStorage, `copy[b]` what tab `b` has read of it, `active[b]` the view it shows as active,
`config[b]` the inline filters the tasks went through and `menu[b]` what the Filter menu
(`task-filters.ts`) adds to them. A write the storage refuses changes the copy alone.

`MC*` modules hold the definitions and symmetry sets the configurations need and, where two
components share no state and one run serves both, their side-by-side composition: `part` says
which of the two runs (`TaskNumbers` and `TaskWorkflow`, `OfflineQueue` and `MobileSession`,
`TaskBoard` and `TaskViews`). `MCHooks` adds `HookRules` to `MCCache`, so that CacheRefetch evaluates the assumption while
CacheWrites lets a faulty hook break a property. `*Proofs` modules extend a component, or such a
composition, with its theorems.
`RequeuedIsNotDead` stands beside the other properties although no run checks it (section 3), and
`DefaultExists` and `ImplementsReplayPromise` because they are proved. Definitions with an underscore (`Due_IgnoresDelivered`) are
faulty variants of the definition they are named for, each a plausible bug; each makes one property
of one run fail, which shows that the property depends on that code.

## 3. The runs

### Runs that pass

| Run | Bounds | What it shows |
|---|---|---|
| OutboxSafety | 1 poller, 1 dispatch request, 1 admin, 2 organisations with 1 event each; 2 endpoints of the first, one registered late, and a raising one of the second; 2 attempts, 1 requeue, 1 crash | rows are held by one worker and only while pending; delivered means delivered to every subscriber; the promise is implemented, aborted passes included |
| OutboxLiveness | fair; 1 poller, 1 request, 2 events in 1 organisation, batches of 1, 1 crash, no requeues, no raising endpoint | every event is delivered or becomes a dead letter |
| SyncFeed | 1 task created and deleted, 1 project created, soft-deleted and restored, 2 writing transactions, clock to 5, commit lag at most 1, which is the overlap, retention 2, limit 3 | what is missed is what `unsure` names, and nothing is dropped that exists, through soft deletion, restoration, a purge that overtakes it, absence, and commits in another order than the stamps |
| NumbersAndWorkflow | numbers: 2 transactions that lock first, 1 that locks late, 1 that only reads, 3 numbers, batches of 2; workflow: 1 task, 3 statuses in 2 categories, 3 rows of which 1 is new, 1 approval, 2 requests, 2 edits of the workflow | uncommitted numbers are covered by the row lock; unless a caller has read the counter before it had the lock, no allocation is refused and the counter never falls behind a number ever issued. A task's status and its row agree through transitions, approvals and deletions of rows; a verdict is what happened to the task |
| RecurringTwoJobs | fair; 2 jobs, 1 run-now, 2 rules in 2 projects, clock to 2, 1 edit or deletion of one of them, 1 failure, 1 task by others | one task per date unless two runs have the rule in hand at once or an edit sets it back to the date; a due rule is served in spite of cyclic waits, refusals and failures |
| OrgAccess | 2 sessions, 2 users, 1 invitation; every operation but activation and revocation, the roles guest and owner | the last owner goes only by a request that was overtaken; only members have roles in the project and a guest's is limited, unless an overtaken request or SCIM left it so |
| OrgInvitations | 2 sessions, 3 users, 1 invitation; role changes, invitations and SCIM activation, the roles admin and owner | ownership comes from owners under every interleaving; a settled invitation changes only by a request that had read it before |
| OfflineReplay | fair; queue: 2 flushes, 3 mutations, rejections and 5xx, 2 failures, 1 late request, 1 loss of connection or process; session: 2 users, of each Keychain write 1 under way | nothing is lost but what is `excused`, replays take effect in order, the queue empties after a reconnection; who is signed in is who the profile says |
| CacheWrites | every query of every page and screen, cold or restored with or without guesses, with any 2 writes, 1 retry, 1 failed fetch, 3 moves of the screen | no ghosts but those a reload restores until a fetch answers, no refresh that was asked for is forgotten, a page shows what was done on it, no screen is left without data, error or fetch |
| CacheRefetch | fair; the same shapes with 1 write, 2 retries, 4 failures, 3 moves | a refresh that was asked for comes while the query is on screen; every hook keeps to one of the two disciplines of `HookRules` (its assumption, evaluated on all shapes) |
| TaskSurface | surface: 3 tasks in 2 groups, board and table, 2 pickers, 2 changes of tasks, filter, folding and address, failing refetches among them; views: 2 tabs, 2 views, 2 filters, 2 choices of the Filter menu, 2 densities, 3 operations, each with or without the storage | a selection is what is shown, unless the last refetch has failed; only a key or a click takes the focus to another task, the address says which task is open; the inline filters of the active view are the ones applied, a locked view stays |

The bounds are the smallest at which the interesting case exists, and the disagreements below
confirm it: every one of them appears with two sessions, two jobs or two flushes on one or two
rows, and with two attempts, a second of overlap or two numbers. A third mutation tells a
reordering from a swap; a clock of 5 lets a row be written, deleted, selected for the purge
(retention 2), restored, purged and polled around each of those; a third user allows an owner, a newcomer and a bystander. Two writes
are enough for a guess that is rolled back over another and for replies in the other order; three
rows of which two share a category are enough to tell a row from its category, and a third one that
does not exist yet lets a task be transferred into it while it is renamed; three tasks in two
groups give a range of selection a middle that can leave it. Every bound is a CONSTANT marked as
such in its module and sits in a guard. Deadlock is checked except where a bound ends the run (no
more events, dates, mutations or writes), which the configuration says with `CHECK_DEADLOCK FALSE`.

### Where the code and its own words disagree

Many properties name exceptions, each a history variable or a definition that says which steps of
the code it stands for. The exceptions matter. One run shows it with a claim of the code itself: in
**OrgLastOwners**, two owners demote or remove each other; each request counts two owners, and none
remains.

The others take a change of constants or of a property in a configuration above; TLC then answers
with a behaviour of the code:

| Change | Property | What happens |
|---|---|---|
| SyncFeed, `Late` empty | `NothingMissed` | a transaction that commits as late as the overlap after its flush falls out of it |
| SyncFeed, nothing reported by `DeleteDoomed` | `NothingMissed` | a project restored between the SELECT of the purge and its DELETE (`core/jobs.py:79-86`) is deleted without a tombstone, and a client that has heard of the restore keeps it |
| SyncFeed, `Overdue` false | `NothingMissed` | a client whose cursor is older than the tombstones that are kept is not told to start over |
| SyncFeed with 2 tasks, no project, `Owners <- SubtaskOfFirst`, no cascade in `CommitDelete`'s report | `NothingMissed` | sub-tasks the database deletes with their parent have no tombstone |
| SyncFeed with 2 tasks, no project, `Limit = 1`, without `cut` | `NothingMissed` | a page that hit the limit answers with a cursor past the rows it left out (`sync/service.py:97`); the client polls again at once, as the docstring asks (`:64-65`), and never gets them |
| OutboxLiveness with `TwoOrgs`, `Separate`, `Raising = {ep1}` | `HealthyOrgsAreServed` | one endpoint whose POST raises something else than `HTTPError` aborts every pass before the turn of the organisations drained after its own |
| OutboxSafety with `PROPERTY RequeuedIsNotDead` | `RequeuedIsNotDead` | a requeue that read the row during the last attempt answers success and leaves a dead letter with attempts and error wiped |
| NumbersAndWorkflow, without the exception `plain` | `NeverRefused`, `CounterCoversNumbers` | an intake without the lock takes a number a create has just committed and is rolled back, or writes an old counter back; `duplicate_task` alone does so, for it locks the row and numbers from the counter it had loaded before |
| RecurringTwoJobs, without the exception `contested` | `OncePerOccurrence` | two processes make two tasks for one date of a rule |
| RecurringTwoJobs, without the exception `again` | `OncePerOccurrence` | an edit sets `next_run_at` back to a date served before (`recurring/service.py:94-95` takes any), and its task is made again |
| OrgAccess, `LeavesAstray` without overtaken requests | `NoStaleAssignments`, `GuestCeiling` | a project assignment commits after the removal, or the demotion to guest, of the member |
| OrgAccess, `LeavesAstray` without SCIM | `NoStaleAssignments`, `GuestCeiling` | SCIM leaves the assignment of the user it deactivates; who is invited back as a guest has the old project role |
| OrgInvitations, without the exception `Belated` | `SettledInvitesStay` | an invitation is accepted and revoked, in either order |
| OfflineReplay, `excused` without `crowded` | `NothingLost` | the flush of the mount and that of the first NetInfo event replay one item and take two off |
| OfflineReplay, `excused` without `"broken"` | `NothingLost` | a 5xx answer drops the mutation |
| OfflineReplay, without the condition `calm` | `ReconnectDrains` | a write that timed out on a device that stays connected is queued, and nothing flushes it until NetInfo reports again (`OfflineSync.tsx:15`) |
| OfflineReplay, without the exception `crossed` | `SessionIsWhole` | a refresh answered after a sign-out signs the user in again, or gives the next profile the tokens of the last |
| OfflineReplay, without the exception `torn` | `SessionIsWhole` | a sign-out killed after the access token was deleted leaves the refresh token; hydration looks at `tokens.access` only and does not finish it, contrary to `AuthContext.tsx:51-54`; a replay (`app.tsx:119`) is answered 401 and the refresh makes a session without a profile |
| CacheWrites, without the exception `restored` | `NoGhosts` | a page that is reloaded during an optimistic write restores its guess as a success (`query.ts:70`), and until it is stale nothing refetches it |
| TaskSurface, `SelectedIsShown` without `failed` (that is, for `open = NoTask /\ picker = {} /\ BarShown`) | `SelectedIsShown` | after a refetch that failed the table shows an error in the place of its rows (`tasks-table.tsx:414`) and the bulk bar still acts on the selected ones (`:620`) |
| TaskSurface, with `NoMenu` the only menu of `ActiveViewIsApplied` | `ActiveViewIsApplied` | the Filter menu hides tasks of a view that stays marked as active (`task-filters.ts:41-66`) |

`ReplayedInOrder` speaks of the moment a replay takes effect. A replay that timed out may be
processed a second time after newer ones; that copy is beyond what the queue can order.

### What the exceptions of the other properties stand for

Each is a behaviour of the code that was met while it was modelled.

- **Workflow.** GitHub's `_link_and_close` (`integrations/git_service.py`) and
  `_upsert_external_task` (`tasks/service.py`) write the status and not the row (`astray`): the next
  transition and a deletion of the row judge by the old row, and a transfer can reopen a closed
  task. Two overlapping transitions between statuses that share a row do the same. An approval that
  is approved and rejected at once ends rejected with the task moved (`disputed`). The count before
  a deletion of a row can be overtaken, which leaves an item without a row. A pending approval of a
  task that is already in the target status can only be rejected, and two askers at once open two.
- **Cached lists.** A guess is stored like an answer, so a reload during an optimistic write brings it
  back without the callbacks that would refresh it or roll it back (`restored`): it stands until
  it is stale on a screen and a fetch answers, whether or not the server took the write. `fetchAllPages` (`mobile/services/api/index.ts`) answers with the pages it has
  when a later one fails, and its comment calls "a list that looks complete and is not" worse than
  an error (`swallows`). A query of the first 50 rows (`my-tasks.tsx:188-200`) has the key of
  the list that pages through everything (`narrow`), so that a board may show a part of what the
  documentation calls "everything in the project" (`web/app/docs/_content/pages.ts:1785`).
  `useTasks` pages by offset while the list moves. `Unrefreshed` lists the writes that
  ask for no refresh of a query they change, sub-task rows the most visible of them. Drive's drop
  and its multiple pick start uploads although one is pending; `Button` keeps
  `disabled ?? loading`, so a caller that passes `disabled={false}` stays pressable while loading.
- **Task surface.** A link to the address the router is just leaving changes nothing the effect
  sees, and the task is not opened again (`crossed`). Ranges and select-all reach into a board's
  folded lanes. The flag that keeps a picker shut while another is open is shared: the bar's picker
  comes back with the next selection. On a board a view can never differ from what is applied, so
  Update is out of reach; pinning the first default applies it at once; a tab with an older copy
  overwrites the views of another (`outdated`), and a tab whose write the storage refused
  (`task-views.ts:92-96` catches it) has a copy nobody else will see. A view captures the inline filters only,
  as the documentation says (`pages.ts:1869`), so the Filter menu may hide some of what the
  active view stands for. After a failed refetch the bar of a table acts on rows that an error has replaced
  (`failed`); a board takes the bar away with the cards. Tasks of former members are in no assignee lane.
- **Mobile session.** Keychain writes that fail or come late can mix the tokens of two users
  (`torn`). A network failure during a refresh signs the user out. A sign-out clears neither
  the offline queue nor the persisted cache (`AuthContext.tsx:70`), so queued writes of one user are
  replayed with the token of the next.

### Fairness

- Outbox: `WF(DrainOrgs)` because the scheduler's loop sleeps 60 s and catches every exception;
  `WF(WorkerStep)` because a POST has an 8 s timeout; `WF(BackoffElapses)` because time passes.
  Captures, requests and crashes are not fair, and crashes are bounded: without a bound the process
  could die in every pass.
- Recurring: `WF(SelectDue)` for the loop of the job, `WF(Step)` because a transaction that has
  begun goes on, waits included (the holder's commit or the deadlock detector ends them). Failures
  and other writers are bounded and not fair.
- OfflineQueue: requests are answered or time out (`WF(Serve)`, `WF(WriteStep)`, `WF(FlushStep)`).
  Nothing says that the device comes back, or that NetInfo reports one that stays connected:
  `ReconnectDrains` begins where the connection has come back, which starts a flush.
- QueryCache: `WF(ServeFetch)` and `WF(Fetched)` because the server answers a request or the client
  gives it up. Writes, screens, events of others and failures are not fair; failures are
  bounded, and a fetch that has used up its retries is shown as an error.

## 4. The theorems

All hold for every value of the constants that satisfies the ASSUMEs of the module (types of the
parameters, positive bounds, disjoint kinds, finite sets of tasks, and for the cache
`HooksAssumption`) and, where the table says so, the condition in the theorem. Every invariant and
every action property that a passing run checks is stated by one of them, and so is the refinement.
Two abstract specifications are implemented: `OutboxPromise` and `ReplayPromise`.

| Theorem | Statement | Argument |
|---|---|---|
| OutboxTypeOK | `Spec => []TypeOK` | inductive as it stands |
| OutboxClaims, OutboxDelivery | a locked row is pending and locked once; delivered implies received by all it is owed to | `IInv`: the locked batch is among the captured rows (`BatchInv`); what is still owed was in the endpoint list the worker read (`OwedInv`, an endpoint registered after the capture is not owed); a row counted without error has been accepted by all of them (`ReceivedInv`). Without the last two, nothing connects a commit to what was posted |
| OutboxImplementsPromise | `Spec => Promise!Spec` | each step is a step of `OutboxPromise` or leaves `Stage` and what receivers got unchanged; `Commit` needs `IInv` for the delivered rows, `RequeueWrite` needs that a stale requeue never resurrects a delivered row |
| SyncTypeOK | types | inductive |
| SyncDropsOnlyTheDead | for every limit, lag and retention, a client drops a row only when it is dead | `Truthful`: every tombstone, and every one a client has read, is of a row that is gone for good |
| SyncNothingMissed | for every overlap, lag, limit, retention and any cascades, a client misses nothing but what it is `unsure` of | `Inv`: what the tables and open transactions are (`RowLocks`, `OpenWrites`, `Stamps`, `Listed`), and what the cursor and the reply of each client are worth (`Feed`): what changed before the cursor it has or is unsure of, and a reply under way holds all that changed since the cursor it was asked with, or the limit cut it off. Section 3 shows a violation without each of the exceptions |
| NumbersTypeOK, NumbersUnderLock | types; a transaction with uncommitted numbers holds the row lock and its numbers are not in use | inductive; any mix of callers |
| LockedCounterCovers, LockedNeverRefused | while no caller has read the counter before it had the lock, the counter covers all numbers ever issued and no allocation is refused | `CounterInv`: while a transaction numbers, the counter it holds in memory is at least the committed one (`ObjectsAreCurrent`), and its fresh numbers lie between the two |
| WorkflowTypeOK | types | inductive with `Carried` |
| TasksStayWired | a task stands in a row of its status, or its status was written alone | `Carried`: a request carries the row it resolved, in the category of the status it writes (`CarriesItsRow`); what it has loaded is still so unless somebody overtook it (`SeenIsCurrent`); a request that has items in hand has a row they go to (`ItemsHaveGone`). The property alone says nothing of what an UPDATE that names one column leaves in the other |
| VerdictsAlwaysHold | an approved request has moved its task, a rejected one has not, or two deciders had it in hand | `VerdictInv`: an approval nobody has decided has moved nothing (`Untouched`), and one a decider has in hand is pending and in no other hand, unless it is disputed (`InHand`) |
| RecurringTypeOK | types | inductive with the lock tables |
| RecurringOncePerOccurrence | any number of jobs, rules and projects: a date makes one task, unless two runs had the rule in hand at once or an edit set the rule back to it | `Dated`: whoever has a rule in hand has it alone unless it is contested (`Handed`), and every task of a rule is of an earlier date than its next one and than the one a run has read, unless an edit set the rule back (`Ahead`); the lemma `AfterIsLater` says that a date only moves forward |
| OrgTypeOK | types | inductive |
| OrgOwnership | under every interleaving, whoever owns was made an owner by an owner, or founded | `Provenance`: the role in a request's context, the inviter of an owner invitation and every present owner are all in the set of those who have ever owned |
| OrgKeepsAnOwner | any number of overlapping requests: the last owner goes only by a request that was overtaken | `Current`: what a request that was not overtaken has read is still so (`ActorIsCurrent`, `RowIsCurrent`, `CountIsCurrent`, ...), hence its count is right when it writes |
| OrgSettledInvitesStay | an accepted or revoked invitation changes only by a request that had read it pending | `Current`: the invitation a request answers is pending until somebody overtakes it (`AnswerIsCurrent`) |
| OrgNoStaleAssignments, OrgGuestCeiling | any number of overlapping requests: only members have roles in the project, and a guest's is limited, who is `astray` apart | `Placed`, both at once: a request that was not overtaken writes by the membership it has read, and the row it regrades exists until it is known to be lost (`RegradedRowsExist`) |
| OfflineTypeOK | types | inductive |
| NothingIsLost | any number of flushes, every answer: nothing is lost but what is `excused` | `Durable`: a flush that has met no other one waits for the first item of the queue, and an answer other than a 5xx means that item is settled (`AsksForHead`). The exception is local: a flush that comes to be alone again is trusted again |
| ReplaysKeepOrder | any number of flushes, every answer: replays take effect in the order of the queue | `Ordered`: `Durable`, the queue is a suffix of what was ever queued (`QueueIsSuffix`), which holds a mutation once (`EnteredOnce`), and what a flush waits for, what a late request may replay and what has been replayed has only what is over before it (`AllPlaced`): a flush asks for what stood first, and what stood before that stays over |
| QueueKeepsPromise | `Spec => Promise!Spec` for `ReplayPromise`: an item leaves the queue from its front, settled unless a flush is disturbed, and a replay that takes effect is of the first item or of one that has left | each step is a step of `ReplayPromise`; beyond `Ordered` it needs that a replay under way, or that may still come, is of a mutation no other one stands before (`AllInFront`), which holds because a flush asks for the head and the head occurs once (`HeadInFront`). TLC agrees when OfflineReplay has `PROPERTY ImplementsReplayPromise` |
| SessionStaysWhole | any number of users: who is signed in is who the profile says, the two exceptions apart | `SessionInv`: nothing is in memory before hydration (`Asleep`), a process that starts finds a Keychain that hydration can place, unless torn (`Placed`), and every token in memory or being refreshed is the profile's (`WholeTokens`) |
| DeviceRunsBoth, NumbersAndWorkflow, SurfaceRunsBoth | the composition that a run explores implements both of its parts | each of its steps is a step of one part and leaves the other's variables alone |
| BothTypes, SurfaceTypeCorrect | types of the compositions | from the parts |
| CacheTypeCorrect | types | inductive with lemmas on what the library's operations return (`BegunType`, `PutType`, ...) |
| CacheNoGhosts, CachePromisesKept, CacheOwnWritesShown, CacheNeverStranded | any number of writes, retries and failures, for every table of shapes that satisfies `HooksAssumption` | `IInv`: while no guess is unsettled, an entry nobody doubts shows what it may and what it has to, and so does the entry a cancelled fetch goes back to (`Credible`, `Sound`); the answer of a request under way has every write it is trusted with (`Fits`); a screen with nothing waits for the mutation that cancelled its fetch (`Attended`). A guess that a reload brought back counts as explained until a fetch answers (`Explained`). The properties speak of quiet states only and are far from inductive |
| BoardTypeCorrect, SelectedIsAlwaysShown, UrlAlwaysOwnsOpenTask, FocusAlwaysStaysOnTask | any finite set of tasks, any groups, pickers, pages and changes of data, refetches that fail among them: a selection is shown again from the first answer after one | `BoardInv`: what is selected lies in the order the store holds (`IsStore`), which is the one the page lays out while no dialog is open (`Synced`); once the effect of an address has run, the dialog and the address agree, also while a navigation to the same address is under way (`UrlFollows`). `HandOverKeeps` says what an effect that hands a new order to the store does to the focus: the task keeps it or nobody has it |
| ViewsTypes | types | inductive with `ViewsInv` |
| DefaultAlwaysExists, ActiveIsAlwaysApplied, LockedViewsAlwaysStay | any number of tabs and views: the pinned view exists in storage and in every copy, whichever writes the storage refuses; the inline filters of the active view are the ones applied, whatever the Filter menu adds; a locked view stays until an older copy is written over it | `ViewsInv`: a tab that is not outdated has the stored views as its copy (`Current`) |

Three proofs are about compositions: a step of one part leaves the variables of the other alone, so
what is proved of each part holds of the specification a run explores. Where an order is computed (the
tasks a filter lets through), the lemma `UpToAll` derives induction up to a number from the
well-foundedness of `<` on Nat, and `FilteredIs` then says what the recursive function `Filtered`
returns: a sequence of the tasks the filter lets through and of no others.

Two proofs changed what they are about. That of the cache found a sequence the run had been too
short for (it had two moves of the screen): a guess or a reply takes the mark off an entry whose
prefetch is under way, the refresh that follows marks it again, and the dialog that has joined the
prefetch closes, which cancels it and goes back to the entry before the mark. `Mislaid` names it, and the run now makes three moves. That of the
board needed the focus to be judged by who moved it, which made `FocusStaysOnTask` stronger: it
now covers dialogs, navigation and changes of the surface, too.

Only model-checked: liveness (`HealthyOrgsAreServed`, `DueIsServed`, `ReconnectDrains`,
`RefreshComes`), which needs fairness and ENABLED and is outside the prover's reach. That the hooks
translated from both clients satisfy `HooksAssumption` is evaluated by TLC, not proved.

## 5. What is not modelled

- Contents of rows, JSON, mails, signatures, the rendering of messages and of both apps. The web
  client's documentation and marketing pages, translations, the note editor's extensions, the canvas
  and the palette's ranking are layout or content without state that several actors share; with
  the documentation alone over nine thousand lines, they are most of the source no definition maps.
- Authentication protocols (SSO, LDAP, SAML) and database failover.
- All processes share one clock in `Sync` and `Recurring`: a skew between replicas acts like a
  longer commit lag. `OrgMembership` has one organisation and one public project, `TaskNumbers` and
  `TaskWorkflow` one project; teams and their own workflows, custom roles, private projects and
  the contents of transition rules (a refusal may come at any time) are left out.
- A hook's row leaves out the body of its request and `enabled`, and a page's row
  what a control asks of the form around it. Screens of the mobile app that keep their data in
  state of their own (workspaces, profile, activity, sub-tasks and comments of a task) have nothing
  in the cache to be modelled.
- Hazards of components that are planned only: the revocation of a token family that the exception rolls back
  (`mcp_auth/service.py:392`), two exchanges of one code (`:341`), two producers of one idempotency
  key (`mcp_server/idempotency.py:29`), sub-tasks of sub-tasks (`tasks/service.py:433`), a routed
  task without its sub-tasks (`automation/service.py:213`), chat webhooks delivered by every replica
  (`core/realtime.py:106`) and objects deleted before their rows (`storage/service.py:98`).

Components with status `partly` or `not_modelled` in `PROJECT.json` carry their reason.

## 6. Plan

Written, in this order: Outbox (with OutboxPromise), Sync, TaskNumbers, Recurring, OrgMembership,
OfflineQueue (with ReplayPromise); then QueryCache with the tables of both clients, TaskBoard, TaskViews,
MobileSession, TaskWorkflow.

Proofs that are left: an abstract specification of access (owners, members, guests and invitations
as atomic operations) that `OrgMembership` implements but for the requests it calls overtaken, one of the
number dispenser for `TaskNumbers`, and one of the calendar for `Recurring`.

Components, by importance:

1. `TaskTree`: parents, sub-tasks, moves between projects, automation routing and deletion; one
   level, same project, after any interleaving. It composes with `TaskNumbers` (a move renumbers).
2. `OAuthGrants`: code exchange, refresh rotation with revocation of the family, rollback on an
   exception, signing keys.
3. `Idempotency`: `run_idempotent` (unique per organisation and key), the external upsert of tasks
   (no unique constraint) and the replay of an offline create; abstract specification "the producer
   takes effect once per key", which the first implements and the second does not.
4. `Realtime`: NOTIFY at commit, a listener per process, bounded queues, chat webhooks.
5. `ProjectLifecycle`: the lifecycle job and what hangs on a project, to be composed with `Sync`.
6. `Automation`, `Storage` and `Worklogs`; teams' workflows and transition rules in `TaskWorkflow`.
