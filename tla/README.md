# GRCen: TLA+ models and proofs

GRCen is a governance, risk and compliance server: FastAPI handlers over one
PostgreSQL database (asyncpg pool), run as several gunicorn workers, each with
its own background scheduler. Nearly all of its state is rows, and nearly all
of its handlers are sequences of `await`ed statements, each its own transaction
unless the code opens one. What is hard about it is therefore what happens
*between* two statements: another request, another worker, a deleted row, a
worker that dies. That is what the modules here model.

Paths below are relative to `src/`. Model-checked means TLC on a small
instance; proved means TLAPS, for every value of the constants.

1. Inventory
2. Modules, and how they correspond to the code
3. What each run checks and shows
4. Bounds
5. Fairness
6. What is proved, and how
7. Where the code and its documentation disagree
8. What is not modelled
9. Plan

## 1. Inventory

| Component | State | Operations | Interacts with | Hard behaviour |
|---|---|---|---|---|
| Approval workflow (`services/workflow_service.py`, `routers/workflow.py`) | `workflow_config`, `pending_changes`, `pending_change_approvals` | save configuration, gate a write, submit, approve, reject, withdraw | assets and relationships (applies the change), users (foreign keys), audit log | several approvers at once; a configuration edited while it is used; the application of the change fails; row locks against `ON DELETE` actions |
| Assets and relationships (`services/asset.py`, `services/relationship.py`, routers) | `assets`, `relationships` | create, update, delete, link, unlink, bulk update, clone | the gate, audit, synchronisation | a link is inserted while its end is deleted; the write and its audit row are two statements |
| Audit log (`services/audit_service.py`) | `audit_log` | one row after each committed write | every writer | lost when a worker dies |
| Alerts (`services/alert_service.py`, `main._tick_alerts`, `routers/dashboard_pages.py`) | `alerts`, `notifications` | create, edit, switch, delete; tick: claim, reschedule, fire | e-mail, digest, webhooks | every worker ticks; a claim parks the alert; a stale form; an exception in a batch |
| E-mail digest (`services/digest_service.py`, `email_service.py`) | `pending_email_digest`, `email_deliveries` | queue, flush: claim, send, log, release | users' settings, SMTP | two workers flush; SMTP fails or its answer is lost; the claim is not released by a crash |
| Encryption at rest (`services/encryption_config.py`, `encryption_migrate.py`) | `encryption_config`, a cache per worker, every encrypted column | change the posture, migrate, rotate keys | every writer of an encrypted column | a 30 s cache; LIMIT/OFFSET paging over a changing table; read, transform, write back |
| Synchronisation (`services/generic_sync.py`, `external_sync.py`, `routers/sync.py`) | `assets`, `relationships` of a source | POST a payload: upserts, owners, edges, prune, reconciliation, dry run | people who edit the graph | ids looked up and used later; lock order; two uploads at once |
| Typed connectors (`hris_sync`, `cmdb_sync`, `cspm_sync`, `vuln_sync`, `catalog_sync`), content packs | as above, logins of leavers, installed packs | map one vendor's payload, install, uninstall | `external_sync`, users | feeds that shrink and return; what is stale of which source; edits by hand in between |
| Roll-up of findings (`risk_aggregation.py`) | risk assets of its own source | nightly | findings | reads before its transaction |
| SCIM (`services/scim_service.py`) | users, Persons, groups, role map | CRUD of users and groups | roles, sign-in | a role recomputed from groups that another request changes; a create that dies half way |
| Sign-in (`session_service.py`, `totp_service.py`, `auth.py`) | `sessions`, `user_totp`, counters on `users` | sign in, second factor, enrol, validate, evict | every request | the session cap is two statements; single use of codes; guesses that overlap |
| Tokens and OAuth clients (`token_service.py`, `oauth_service.py`) | `api_tokens`, `oauth_clients` | issue, mint, revoke, delete | sign-in | a token minted while its client is deleted |
| Invitations and single sign-on (`invitation_service.py`, `routers/oidc.py`, `saml.py`) | `invitations`, `users` | invite, revoke, accept; provision at first sign-in | sign-in | an invitation accepted twice; an account made by half |
| Webhooks (`services/webhook_service.py`) | `webhooks`, delivery rows | dispatch, retry, ping | alerts, assets | hooks and alerts deleted under a dispatch; background tasks die with the worker |
| Rate limiting (`rate_limit.py`) | a deque per key, per process, a copy of the settings | admit or refuse, save | every request | one budget per worker; the copy is read with an await |
| Frameworks, controls and compliance (`framework_service.py`, `compliance_snapshot_service.py`, `control_test_service.py`) | links and metadata of assets, `compliance_snapshots`, `control_test_runs` | listing, page, control view, matrix, Statement of Applicability, nightly snapshot, control tests | assets, board pack | figures read in many statements; the same figure computed by two paths; a framework deleted under the nightly job |
| Metadata writers (`ticketing_service.py`, `findings_service.py`, `control_test_service.py`, `asset.bulk_update_assets`, forms) | the JSON blob of an asset | push a ticket, poll, close, test, bulk edit, edit | an issue tracker | read, merge in Python, write back without a lock; a ticket created and its key lost |
| Risks, appetite, board (`risk_service.py`, `appetite_service.py`, `board_service.py`) | risk assets, `risk_appetite`, `risk_snapshots` | register, summary, heatmap, top risks, nightly snapshot, bulk edit | assets | every figure has a query of its own; midnight |
| Vendor campaigns and questionnaires (`vendor_campaign_service.py`, `questionnaire_service.py`) | campaigns, questions, responses, the answer library | add, send, save, submit, review; map, fill, confirm | a vendor with a link | admitted by a status that was read; text mapped from an entry that changes |
| Attachments and evidence (`attachment.py`, `routers/attachments.py`, `encryption_migrate.py`) | rows, and files on the disk | upload, download, delete, rewrite | encryption | nothing ties the two stores together |
| Import (`import_service.py`) | assets, relationships | preview, dry run, run | audit | all rows or none; names matched while others rename |
| Access log and redaction (`access_log_service.py`, `redaction.py`) | rules, `access_log`, retention | mask, record, purge | every read of an asset | two awaits for the rules of one answer |
| Tenancy (`tenancy.py`, `database.init_schema`, `middleware.py`) | the context of a task, settings and role of a pooled connection, policies | enter, leave, spawn, acquire, release, boot | everything | a connection lent again; policies made anew under other workers |
| Tags, watchers, saved searches, tasks and calendar, backup, graph and organization views, pages | own tables or none | single statements, listings, I/O | none | little |

What makes the modelled ones correct, in words:

* **Approval workflow.** A change takes effect exactly once, when and only when
  it is approved; approval has a quorum of distinct, entitled people under one
  configuration that was in force; the submitter does not decide unless that is
  allowed; a decision is final; a gated action does not slip past the gate;
  nobody waits for ever.
* **Alerts.** One notification for each time an alert is armed, and at least one
  unless somebody prevents it.
* **Digest.** At most one mail per alert and user as far as the sender can know,
  and nothing dropped without a reason.
* **Encryption.** After a migration or rotation has ended, no row is left in the
  old form.
* **Synchronisation.** The upload acts as its contract says, as if at once; it
  touches no other source's rows; no id of a deleted row is stored.
* **Compliance coverage.** Every view tells the same figures of the same graph;
  figures add up even when the graph changes under them; a link that satisfies a
  requirement never makes coverage worse; each day has its snapshot.
* **Accounts.** No more sessions and no more guesses than the limits and the
  requests that overlap allow; a code, an invitation and a client's secret are
  good once, or while their owner is; what the directory says holds once its
  requests have ended; an account is whole unless a worker died over it.
* **Feeds.** A feed sent twice is a feed sent once; it archives what dropped out
  of it and nothing of another source; the roll-up puts the register right
  whatever happened before.
* **Records.** An edit is lost only to a write-back that read before it; one
  ticket per finding; a file is whole and its row true; an import is all or
  nothing and its trail says what it did.
* **Registers and requests.** Two figures of the same thing agree; a snapshot is
  of its day; a closed questionnaire stays as it is; what is masked is masked,
  what is read is logged; budgets are kept; a task sees the rows of its own
  organization, all of them and no others.

`PROJECT.json` lists the hazards of the code line by line with the property that
covers each, or the reason why none does.

## 2. Modules, and how they correspond to the code

Convention: one action per handler step, where a step is one awaited statement
together with the Python that leads to it. A handler is a record in `reqs`,
`ticks`, `flush`, `jobs` or `run` whose program counter names the statement
that comes next. A row is a record; a row that may be deleted has a `state` or
`live` field rather than vanishing, so that its id stays usable as a stale
reference. Next to some actions stands a variant named after what is wrong with
it (`ReadGate_SkipsDelete`); it is used by no specification and documents which
mistake the property listed with it in `PROJECT.json` would catch.

### ApprovalGate, Workflow

`ApprovalGate` is the abstract specification: submit, vote, approve, drop, each
one step, with neither requests nor locks. `Workflow` is the code.

| Model | Code |
|---|---|
| `config`, `SaveConfig` | the row of `workflow_config` of one asset type, `upsert_config` |
| `OpenWrite`, `ReadGate` | the asset and relationship handlers up to `requires_approval` |
| `CheckDuplicate`, `InsertChange` | `submit`: its SELECT and its INSERT |
| `OpenUngated` | the paths that never ask `requires_approval`: a clone and the links it copies, an import, the Statement of Applicability |
| `WriteDirect`, `BeginDelete`/`EndDirectDelete`, `WriteAudit` | a write without a pending change: the statement, then `log_audit_event`, which `MayOmit` says some writes go without |
| `ReadConfig`, `CheckExisting`, `RefuseLocked`/`PartialApprove`/`ReachThreshold` | `approve`: `get_config`, the look for an earlier vote, the `SELECT ... FOR UPDATE` and the count |
| `ApplyChange`, `ApplyDelete`/`EndApprovedDelete`, `ApplyFails`, `CommitApproval` | `_apply_change` inside the transaction, and its COMMIT |
| `CheckSelfReject`, `Reject`, `Withdraw` | `reject`, `withdraw`: an UPDATE conditional on `status='pending'` |
| `DeleteUser` | `delete_user` with its `ON DELETE` actions |
| `BreakDeadlock`, `Locked`, `Deleting`, `CascadeFree` | PostgreSQL's row locks, foreign keys and deadlock detector (external) |
| `Crash` | the worker dies, its transaction rolls back |

`seen`, `signed`, `applied`, `direct` and `unaudited` are history, read by no
action; `direct` has the actions that a handler with a gate wrote at once. The refinement maps `decision` to the status column, `votes` to
`signed` (approvals ever committed, since the rows go with their users) and
`effects` to `applied`. What matters about the code: the configuration is read
once per approval and before the lock; the status and the vote are looked at
again under the lock; an approval below the threshold commits on its own; one
that reaches it keeps the lock until the change is applied.

### AlertTicker

One tick job per worker (`max_instances=1`): `Claim` is the single
`UPDATE ... FOR UPDATE SKIP LOCKED`, `Reschedule` comes before `GetAlert` and
`Notify` for each row. `TickRaises` is the exception of `fire_alert` for an
alert deleted between its statements, which ends the batch. People create,
switch and delete alerts (`SetEnabled` is the PUT with `enabled` alone, `Update` one
with any of the columns), and edit them through a form in three steps
(`OpenForm`, `Submit`, `Save`), so that the row may change in between. The
clock counts whole seconds and ticks lie in between. `armed` and `fired` count,
for each alert and time, how often the row was given that time and how often
it was notified for it.

### EmailDigest

`Queue` when an alert fires, then per worker: `Claim` stamps `sent_at` of all
that waits, `NextGroup` takes the rows of one user (and drops those of a user who
opted out, has no address or is gone), `Send` (or `SkipSend` when
SMTP is off), `LogSent`/`LogFailed` write the delivery row and `Release`
clears the stamp of a failed group. The SMTP server answers `ok`, `refused`, or
accepts without an answer (`unheard`). `FlushRaises` is the foreign key
violation when the user went meanwhile. One organization per user, so a group
of the code is a user.

### EncryptionMigration

The column `webhooks.secret`, as an instance of the table-column targets.
`Prepare` and `Store` are `create_webhook`/`update_webhook`: the key is chosen
from the cached posture, the row is stored later. `Submit` saves the profile
and starts the migration the cached posture calls for, `Rotate` is
`rotate-keys`. A job alternates `FetchPage` (`ORDER BY id LIMIT OFFSET`:
the rows with at least the offset and less than a page more before them, `Rank`) and
`ConvertRow` (`UPDATE ... WHERE id` with the value of the page). `stray`
collects rows stored against the posture of that moment, by a writer or a job
with a stale cache.

### GenericSync

`POST /api/sync/upsert` is one READ COMMITTED transaction of many statements.
`txn[p]` holds what the transaction of `p` has written (visible to itself, and
locked), `Blockers(p)` the transactions its next statement must wait for,
including the key-share locks of foreign keys. An id is a key and an insertion
number: a row that was deleted and created again has another id. Steps:
`UpsertAsset`, `FindOwner` and `SetOwner` per record; `Resolve` (with the
per-request cache) and `UpsertEdge` per edge; `PickEdges`/`PruneEdges`;
`PickStale` with `Archive` or `Delete` and `Cascade` per carried type; `Commit`
or `DryRun`. `OwnerGone` and `EndGone` are the foreign key violations that roll
back the whole upload. People delete assets (`OpenDelete` and the same
`Delete`, `Cascade`, `Commit`). An owner, or an end given by name, is looked up among
the rows of every source (`Bearers`); the code takes the oldest of several, the model
any, since its rows have no age. Descriptions, tags, metadata and the renaming of a row
by a payload are left out. A statement that has to wait takes all
its row locks at once when it can go on; PostgreSQL takes them one by one,
which adds deadlocks that end like the modelled ones.

### Coverage

`links` holds the relationships that framework_service reads, as triples (the
label of a `cross_maps` link is its type), `scope` and `grade` the two metadata
fields that count (`applicable` of a requirement, `effectiveness` of a control).
Each query is an operator over them: `RequirementIds`, `Applicable`,
`OutSatisfied`, `InSatisfied`, `Strengths`, `Crosswalks`. The job of
`capture_compliance_snapshot` evaluates one of them in each step, `Start` to
`Insert`, with the locals of `list_frameworks` in its record. `Detail(f)` is the
page, `get_framework_detail`, which computes the same figures along another path:
it asks for the crosswalks of all requirements rather than of the gaps, and
lists each under one of its ends. `ControlCovers` and `MatrixCell` are the
control view and the crosswalk matrix; the matrix takes the first row of a pair
of requirements, and rows come in no order, so `FirstRows` has every choice.
Percentages are rounded as Python does, to the even neighbour. People edit the
graph in one step per request. The page is read at once, since no property is
about a page that was torn.

### SignIn, ApiTokens, Provisioning, Scim

Accounts, one module per way of getting at one. Requests are records in `req`
with the statement they are at, and what they have read.

`SignIn`: `CheckLockout`, `Authenticate`, `RecordFailed`/`RecordSuccess`,
`Factor`, `MatchCode`, then `ClaimStep` (the conditional UPDATE of
`last_used_step`) or `RedeemCode` (the row lock and the list of hashes);
`ReadCap`, `Evict` and `InsertSession` are three statements of
`create_session`; `Touch` and `Expire` are `validate_session`. Enrolment is
begun, confirmed (`ConfirmRead`, `ConfirmEnable`) and cancelled by two
statements each. `gen` numbers enrolments, so that a stale read of one can be
told; `tries`, `accepted`, `replayed` are history.

`ApiTokens`: `IssueRead`, `IssueOwner` and `Mint` are the client-credentials
grant, `CreateToken` and `ReadCap` the tokens people make. `Provisioning`:
`AcceptRead` to `Consume` with `Drop`/`Undo`, and the callback of single
sign-on `SsoFind`, `SsoEmail`, `SsoLink`, `SsoReload`, `SsoCreate`, `CreatePerson`,
`LinkPerson`. `Scim`: users in `CreateRead` to `WriteStatus`, groups in
`SetMembers`, `RefuseMember` (the foreign key violation when a member was deleted
after his id was found valid), `RecomputeRead`, `RecomputeRoles`, `RecomputeWrite`.
`drift` holds the users whose role something else decided (a role set by hand, a
changed map, requests that overlapped), `clash` those whose login or Person did.
A linked Person is an asset: `EditPerson`, `DeletePerson`, `LinkPerson` and
`RetireLeaver` are its other writers (whoever edits assets, an administrator's form,
the HRIS sync), and a request may hold the id of a Person that has gone.

`Accounts` is the sum of these four and `Tenancy`, with the constants left open: a
behaviour belongs to one `part`, chosen by `Init`, and is one of the module the
part is about. `AccessProofs` proves what the run checks of it.

### Webhooks

`Emit`, then `ReadHooks` once, and per hook `Post` with its outcome and `Log`, the
row and the next attempt; `LogFails` is the foreign key violation when the hook
or the alert has gone. Back-off is left out, its order is not.

### Connectors

The feeds, each as one operator from tables to tables (`Roster`, `Inventory`,
`VulnFindings`, `CspmFindings`, `Catalog`) and one action that stores the
result when the payload is valid. Rows are known by `<<source, ref>>`, the key
the upserts use. The roll-up, by system or by severity and with or without
pruning, is two steps, `StartRollup` with what it reads before its transaction and
`EndRollup`. `InstallPack` and `UninstallPack` use the
catalog. People assign, draw, shelve and delete by hand (`Hands`).

### AssetMetadata

One asset, its blob, and every way of writing it: a merge in SQL (`Merge`), a
blob that is posted (`Replace`), and a blob that is read, changed and written back
(`ReadBlob`, `WriteBack`). `ideal` has for each key what was last put there on
purpose, `stale` the keys that a write-back has overtaken. A ticket is claimed
(`Claim`), created outside (`Post`, whose answer may be lost), and stamped or
released. `RecordTest` is the transaction of a control test.

### Attachments, Imports

`Attachments` has rows and a disk; a file is its wholeness and the number of
times it is encrypted. Uploads write the file, then the row, then the audit row;
a rewriting job takes a file, writes it and marks its row, in a worker process of
its own. `Imports` goes through a file row by row; a run sees its own rows and
whatever others have committed, and answers when it commits or rolls back.

### Tenancy, RateLimit

`Tenancy`: a task has a context and a stack of saved ones, a connection has the
organization, the bypass flag and the role it was stamped with, and tables have
policies, made by the boot of a worker under the advisory lock. `Visible` is what
PostgreSQL shows of a table through a connection. `RateLimit`: `window` is the
deque of a key (a caller, which is a token that was noted, a session or an address, with the
bucket and the overridden path), `cache` the worker's copy of the settings, `loads` the reads of
them that are under way; time is in ticks.

### Risks, Questionnaires, Reading

`Risks` states each figure as the code's own query and loop (`Register`, `Summary`,
`Heatmap`, `IsTop`, `Evaluate`, `BreachSummary`, `Trend`) over the same rows, and
the nightly snapshot as date, figures and row. `Questionnaires` has the portal's
post (`Admit`, `Save`, `Submit`) and the form of a response (`OpenPage`,
`PostForm`, `OwnNow`, `WriteRow`). `Reading` has each kind of read as a
sequence of statements in the order of its handler (`Order`), the form that
saves one rule per statement, and the purge in two.

### MC and proof modules

`MCWorkflow`, `MCGenericSync` and `MCCoverage` name roles, configurations,
operations, payloads, starting rows and links. `Alerting`, `Accounts` and
`MCRecords` are sums: a behaviour belongs to one `part`, chosen by its initial state,
which is an instance of a module with the constants of one hazard, and leaves the
variables of the other parts alone. So the state spaces add up rather than
multiply, and one run checks what needs no common state. `Alerting` extends
`AlertTicker`, and `Accounts` `SignIn`: the first parts are behaviours of those
modules themselves, with some of the alerts and forms or some of the users, handlers
and bounds (`Scope`; `Pushed` likewise for `Scim`), so that the run checks the property
the theorem states. Their constants stay open for the proofs; `MCAlertTicker` and
`MCAccounts` give them values. The parts of `MCRecords` that are proved about are in
four modules that it extends, whose constants likewise stay open: `MetadataParts` are
those of `AssetMetadata` (`BlobParts` has the constants of each part), `EvidenceParts`
those of `Attachments` (`FileParts`), `Limiter` those of `RateLimit` (`RateParts`), and
`Disclosures`, a sum itself, those of `Reading` and `Questionnaires` (`ReadParts`,
`AnswerParts`).
`WorkflowProofs`, `AlertTickerProofs`, `CoverageProofs` and
`SignInProofs` hold the theorems about the module each is named after, `AlertTickerProofs` also those
about `Webhooks` (as the instance `Posts` of `Alerting`), `SignInProofs` also those about
`Limiter`. `OutgoingProofs` has those about
`EmailDigest` and `Disclosures`, about what leaves the organization; `EncryptionProofs` those about
`EncryptionMigration` and `EvidenceParts`, both about jobs that encrypt what is stored;
`RegisterProofs` those about `GenericSync` and `MetadataParts`, both about writers of the
asset table; `AccessProofs` those about `Accounts`: about
`Tenancy`, `ApiTokens`, `Provisioning` and `Scim` (its instances `Tenants`, `Bearers`,
`Newcomers` and `Directory`) and about their sum.

## 3. What each run checks and shows

| Run | Checks | Shows |
|---|---|---|
| `wf_quorum` | `AppliedIffApproved ApprovalsAuthorised ApprovedHasQuorum FourEyes DecidedIsFinal ImplementsGate` | one change, three administrators (one superadmin) and an editor, two requests at once; the threshold, the role and the self-approval rule are edited meanwhile, an approver is deleted, a worker dies |
| `wf_tables` | `GateRespected LinksHaveEndpoints WritesAudited RequestsFinish` | gated and ungated updates, links, unlinks and deletes and an imported link beside each other, the gate switched; a delete and an approval that deadlock |
| `wf_duplicate` | `NoDuplicatePending` is violated | two submitters pass the duplicate check before either inserts |
| `alerts` | `NotifiedOnce DeliveriesHold DueIsNotified DispatchesEnd` | two workers and a batch of two alerts, one switched off or deleted; a stale form; a dispatch to two hooks and a ping that are edited, deleted or cut off by a crash |
| `digest` | `AtMostOnce NothingDropped DigestArrives` | two workers; users opt out or lose their address, one is deleted; SMTP off, refusing or silent; a crash |
| `enc` | `Reach JobsEnd` | a migration and a rotation beside a writer with a stale posture, a deletion and a crash: at most one row overlooked for each row deleted |
| `enc_deleted` | `RotationComplete` is violated | a row deleted behind the cursor hides another one from the rotation |
| `sync` | `IdsHold OwnRowsOnly AppliesPayload RequestsEnd` | two uploads in any of seven forms (full, replacing, partial, edges only, another source, shrinking, dry run) beside the deletion of any asset, crashes and deadlocks |
| `sync_retyped` | `CarriedIsKept` is violated | a record that changed its type is upserted, then archived as missing |
| `coverage` | `FiguresAddUp ViewsAgree EffectiveMonotone CapturedDaily` | links, scope, grades, names and a framework change between the statements of the nightly job; listing, page, control view and matrix tell the same |
| `accounts` | `SessionsBounded GuessBudget CodesOnce MfaHolds ClientTokensDie AccountsSettle DirectoryHolds TenantsHold` | guesses that overlap a lock, codes presented twice and across enrolments, sign-ins beyond the cap, a client deleted while it mints, invitations and subjects that race for one name, directory requests that overlap, connections lent again while workers boot, each with crashes and administrators |
| `records` | `RegistersHold BlobsHold FilesHold DisclosuresHold RequestsHold` | 19 parts of eight modules: feeds that shrink and return, tickets and tests, files and rewrites, imports, budgets, figures, nights, answers, portal, masks and retention |

Some properties are conjunctions: `Reach` is types, `RotationReach` and
`MigrationReach`; `NotifiedOnce`, `FiguresAddUp`, `SessionsBounded` and `IdsHold`
include the types, `ViewsAgree` includes `ListedAsOnPage`; those of `accounts` and `records` name the
property of each part in `Accounts`, `MetadataParts`, `EvidenceParts`, `Disclosures`, `Limiter` and `MCRecords`, and
the modules state them one by one.

Many properties are conditional, and the condition says something of the code.
`GateRespected` is about the handlers that ask the gate (`Paths`, `form`), and
`WritesAudited` about the writes that are logged at all: an edit is if its copies of
the row before and after differ in name, description, status or owner. What goes past
either is in the model (`OpenUngated`, `MayOmit`), and section 7 lists it.
`AppliesPayload` is stated for an upload that no other upload of that moment
overlaps: two overlapping uploads of one source are not serializable, and the
tables can end as a mixture of both payloads (no lock spans an upload).
`NothingDropped` is stated for runs without a crash, because nothing releases
what a dead worker had stamped. `DueIsNotified` allows an accident from the
moment the alert is due, because nothing re-arms a parked alert. `ListedAsOnPage`
and the part of `ViewsAgree` about the matrix ask that no requirement has two
parents: section 7 says what happens otherwise. The matrix is compared where
cross_maps links join requirements (`MapsRequirements`), as imported crosswalks do:
the matrix does not look at the types of what a link joins, the pages do. And it is
compared for frameworks that are there under names of their own (`DistinctNames`).
`EffectiveMonotone` speaks of
effective coverage; health-adjusted coverage is not monotone, since a control
that is graded `ineffective` and satisfies a requirement that was borrowed, or
satisfied by a policy alone, lowers its weight from 1 to 0.

In the newer modules likewise: `SessionsBounded` is the cap plus the sign-ins that
are about to insert, `GuessBudget` the threshold plus the requests under way:
neither limit is exact, and the property says by how much it can be missed.
`Connectors.LeaversAreOut` says nothing of the login of an employee whom the roster itself
marks as inactive (section 7). `EditsKept` excepts `stale` keys, and `TicketOnce` the tickets whose answer was
lost or whose key was erased. `ClaimHeld` and `LatestTest` except a blob that somebody
posted with a claim, or an effectiveness, in it. `Orphans` and `FilesSound` count a file left over for each
failed or interrupted step, and `Trail` one missing entry for each request killed between
its DELETE and the log. `RolesFollowGroups` and `LeaversAreOut` of `Scim` are stated of quiet
states and except what others decided (`drift`, `clash`): an administrator's toggle or
link, an editor of the Person, a crash; a leaver whom the HRIS sync retires is excepted
only if a request of the directory was at work. `Masked` is about the five reads that
`Kinds` names, not about every way out (section 7), and promises of a
field that it was open under rules in force at some moment of the request, since
the two reads are two awaits. `VendorKeepsClosed` excepts the answers of a post
that was admitted earlier, which the code does store: it says that the post
does not reopen the campaign. `Attested` counts a text as somebody's own also when it
was so as the form was posted (`read.own`): a form that was compared with a text
written by hand posts that text as its own, whoever clears it meanwhile. The proof
found this case; it takes two editors and an edited entry, more steps than the run has.

## 4. Bounds

* **Workflow.** Two requests at once: every race in the code is between two
  statements of two handlers, and a lock has one holder and one waiter. Four
  users give a quorum of two with a third voter to spare, a superadmin and a
  submitter. `Room` asks that a request can still be given an unused id;
  `MaxCrashes`, `Deletable`, `Configs` and `Ops` limit the environment, each
  run says to what. The proofs have none of these bounds.
* **AlertTicker.** Clock up to `MaxTime` = 2, two alerts, two workers: enough
  for a recurring alert to come due again while its first firing is under way.
  One edit form or full update, one crash, one alert that people change (`Managed`).
  In the part with two alerts a worker may die, in the one with the form none does:
  `DueIsNotified` excuses either, and `NotifiedOnce` is proved with both.
* **EmailDigest.** Two items, two users, two workers: both items of one user or
  one each. `MaxFailures` = 2 lets a group fail twice, `MaxToggles` bounds
  settings that change back and forth.
* **EncryptionMigration.** Three ids, two rows stored at first and one inserted,
  pages of two: a page boundary with a row on each side of it, and a short last
  page. One writer, one change of the
  posture, one rotation, one crash. `RotationReach` and `MigrationReach` are
  relative to the number of deletions; one row may be deleted.
* **Webhooks.** One event, or one ping, two hooks, two attempts, one edit or
  deletion, one crash: a hook that fails before one that is healthy.
* **Accounts.** Two requests at once, as in Workflow. `MaxFailed` is 2 and
  the cap 1, so that the limits are reached; the clock goes to 1, and to 2 where a
  session has to expire; an account enrolled at first is an administrator's; one crash, one edit, one deletion per part; four
  enrolments where they are replaced. In `members` two requests about one group
  and its one user overlap and nobody else writes, in `two` they come one after the
  other and there are two users; in `twoGroups` there is one request at a time
  (two groups of one user are a matter of the computation) beside an administrator
  and a crash; one name is mapped to the higher role at first. The proofs have none
  of these bounds.
* **Connectors.** Three steps out of the payloads, the edits and the roll-up,
  from a register that has a row of each kind: a feed, a change and the feed
  again. Each payload drops, renames, moves or repeats something.
* **AssetMetadata, Attachments, Imports.** Two handlers (workers, clients) and
  three or four steps, one crash; one file where jobs and downloads race, two
  where a job dies between them; files of two rows, the second of which may be
  refused by the database.
* **Tenancy.** An old and a new worker whose builds differ by a table, one
  connection each, two tasks, two organizations, one context within another.
  The proof has none of these bounds, and holds of superuser roles too, which
  the instances leave out.
* **RateLimit.** Budgets of 1 and 2, a window of two ticks, four ticks; one save,
  at most two reads of the settings. One worker where workers share nothing. One
  session cookie beside a token that authenticates and one that does not, there three ticks.
* **Risks, Questionnaires, Reading.** Two risks with four kinds of metadata, two
  days; two posts or editors and three or four steps; one reader and one or two
  forms, three days for the purge.
* **GenericSync.** Two uploads and one person, two refs, two edges, one
  hand-authored asset and one of another source that bears its name, two types, each
  request once. Payloads are chosen so
  that the two lock in different orders, replace each other's edges and sweep
  what the other carries.
* **Coverage.** Two frameworks, three requirements, a control and a policy, two
  starting graphs, two edits among five links, three scopes, a grade, a name and a
  deletion: a gap that borrows, a lender that loses its satisfier, a requirement
  that gets a second parent. One worker over two days: workers do not read what
  another one writes. `CapturedDaily` excepts the day on which every worker
  died, which with one worker is any crash.

`CHECK_DEADLOCK FALSE` stands in the alert, digest, encryption, coverage,
synchronisation, account and record runs because there the bounds (the clock, the identities, the
one-shot requests) let the system rest. The workflow runs check for deadlock.

## 5. Fairness

* **Workflow:** strong fairness of each request's steps. Handlers run to their
  end; a statement that waits for a row lock is queued, so it is granted in the
  order of the queue even when the lock is taken again and again, which is what
  strong fairness says; PostgreSQL's deadlock detector runs. Nothing is assumed
  of people: opening a request, saving a configuration and crashing are unfair.
* **AlertTicker, EmailDigest:** weak fairness of each worker's job. APScheduler
  runs it at an interval as long as the worker lives; a worker that crashes is
  restarted by gunicorn. The digest also assumes that an administrator who has
  switched SMTP off completes its settings again (`WF` on switching on only):
  without it nothing can be mailed.
* **EncryptionMigration:** weak fairness of a job that was started.
* **Webhooks:** weak fairness of a dispatch: the task runs on while its worker
  lives; `DispatchesEnd` counts a task that died with it as ended.
* **Accounts and records** state no liveness: a request of theirs is a straight
  line of statements, without a lock to wait for or a loop that others can
  prolong.
* **Coverage:** weak fairness of each worker's job. The day does not end before
  every worker that is up has run its job, which cron triggers at 00:10, and the
  job ends within its day.
* **GenericSync:** weak fairness of each request's steps. Requests are one-shot
  and finitely many, so a lock is not retaken for ever; the detector runs.

## 6. What is proved, and how

No theorem assumes anything beyond the named assumptions on the constants
(`ConstantsAssumption`, `DigestAssumption`, `AlertAssumption`, `SyncAssumption`,
`EncryptionAssumption`, `CoverageAssumption`, `SignInAssumption`, `AccountsAssumption`,
`MetadataAssumption`, `EvidenceAssumption`, `DisclosureAssumption`, `LimiterAssumption`; Tenancy needs none), so all hold for any number of users, changes, requests, items, workers,
connections, tasks, payloads, rows, files, blobs, frameworks and links.

**WorkflowProofs** proves, first, `TypeCorrect`. `TypeOK` alone is not inductive: that a
write goes to an existing row rests on what each place in a handler promises of
the request (`RequestOK`: who is acting, on which change, with which entity).

It then proves the invariant `IInv` and, from it, everything else. `IInv` adds to the types:

* `config \in seen`;
* `DecisionOK`: what a request knows of its change. A configuration that it has
  read stays in `seen`; what it has read of the change may be stale *until it
  holds the row lock*, and is exact from then on: the change is pending, the
  voter is alive and has not voted, the count reaches the threshold;
* `OneHolder`: one holder of the lock per change;
* `ChangeOK`: the votes in the table against the votes ever cast. A vote leaves
  the table only with its user, so nobody alive can vote twice.

The proof of the step goes action by action; one lemma (`QuietKeepsIInv`)
disposes of those that only move a request on, and `OthersDecide` carries the
knowledge of all other requests over a step. The corollaries are
`AppliedExactlyOnce`, `OnlyAuthorisedApprovals`, `QuorumBehindApproval`,
`FourEyesHolds`, `GateHolds` (invariants), `DecisionsAreFinal` (an action
property), `QueueImplementsGate` (each step of the code is a step of
`ApprovalGate` or a stutter) and `LinksStayWhole`, which has its own short
induction over the tables.

Its last part proves `TrailLosesOnePerCrash`: `Spec => []WritesAudited`.
`AuditInv` says of each write without its row that a request stands at its audit
row for exactly this row and action, or that it is one of at most `crashes` lost.
`WritesAudited` as stated is weaker and not inductive: it lets a request that is
about to log one write of a row cover an earlier, lost one of the same row, and
would count that again once the request is done.

**AlertTickerProofs** proves `TypeCorrect` and `OncePerToken`:
`Spec => []NotifiedOnce`, under `AlertAssumption` (a finite set of workers; every
period at least 1 and within the range `Times` that the bounds leave). Each arming
of a row is a token, and `Counted` says where tokens are: for an alert and a time,
the notifications made, the workers that still have this firing before them and
the row itself never exceed the times it was armed. The claim moves a token from
the row to the worker because it parks the row, a notification uses up the one in
hand, a crash loses one, a save or a reschedule makes one unless the row has that
time already. `Loaded` is what makes it inductive: a batch has one row per alert,
and the row in hand is no longer among those to come.

The same module proves `LogIsTheStory`: `Posts!Spec => []Posts!DeliveriesHold` for `Webhooks`,
with finitely many hooks and at least one attempt (`AlertingAssumption`). `Told` says what the log
has of a dispatch at a hook, by where the dispatch is: nothing while the hook is still
to come; the attempts before its own, all to be tried again, while it is trying; an
attempt that was final once it has left the hook behind, unless the alert is gone. A
hook that is deleted takes its rows along and, since its row never returns, gets no more.
`Turns` compares two counts: every deletion is an edit, so as long as there are no more
edits than deleted hooks, no hook was switched off or filtered and the alert is there;
the difference never falls, so this held when the hooks were read as well.
`DeliveriesTold` carries it to the sum that the run checks (`SumSpec =>
[]DeliveriesHold`): a behaviour in one of the parts of `Webhooks` is one of `Posts!Spec`.

**OutgoingProofs** proves `TypeCorrect`, `MailedAtMostOnce` and
`FailedIsReleased`. `OnceInv` says that what a worker has claimed is stamped,
that no two workers hold the same item (SKIP LOCKED) and that an item that waits
or is held unsent has been mailed only by messages without an answer. `KeptInv`
adds that a group about to be let go as sent was mailed. It holds only while no
accident has happened; as accidents are never undone, `CalmEarlier` makes the
induction go through without stating it of other states.

The same module proves `DisclosuresAlwaysHold`: `DisclosureSpec => DisclosuresHold`, for
any fields, rules, readers, forms, entries, responses, editors and posts, and any number
of steps; `DisclosureAssumption` names the kinds of reads and keeps the two sorts of parts
apart. `QueryFits` says of a request for each of its statements that the statement is
still ahead of it or has left what it should: rules that were in force during the
request, and an entry that is stored, could not be, or was purged (`Stored`, which only
grows). Whatever saves a rule adds it to `during` of every request under way
(`SaveFieldMeans`), and a response has no statement ahead, so `Masked` and `Logged`
follow from what it read; `PurgeOK` keeps the retention that the job read among those
since it began. `Filled` says what a form that maps a response will write, as long as the
row was mapped and not its writer's own when the form was posted; `Mapped` that what is
mapped is there. `WriteRowMeans` puts them together: if nothing that the writer relied
on has changed, the text it fills in is that of the entry today.

**EncryptionProofs** proves `ReachHolds`: `Spec => []Reach`, for any table,
pages of any size, and any number of workers, writers, jobs and deletions. Rows are
told apart by their *rank*, the number of rows before them; a page is the rows of a
span of ranks, which `RankUnique` and `RankHasNoGap` make as many as the span has (a
one-to-one map into a set of the same size is onto). Rotation and migration are one
argument about a set S that only shrinks: the rows under the retired key
(`RetiredShrinks`), or those stored against the posture while it stays
(`WrongShrinks`), which nobody has strayed to. `Reached(w, S)` says that of S no more
rows are behind the cursor of w and out of its hands (`Past`) than were deleted, and
that no row in hand that the job will skip is one of S. A row that is born or rewritten
only moves rows away from the cursor (`PastShrinks`); a deletion brings at most one
across it, the row whose rank was the cursor (`PastAfterDelete`), and counts as one;
reading a page leaves none behind (`ReachedByFetch`); a row that was converted is
no longer in S (`ReachedByConvert`). When no page is left, all rows are behind
(`PageRead`), so |S| is bounded. `MigrationInv` adds what leads there: until the first change
nothing is wrong and every cache is right or expired, so the worker that makes it judges
it correctly and starts the job that the new posture asks for (`FirstChange`).

The same module proves `FilesAlwaysHold`: `FileSpec => []FilesHold` for `Attachments`, with
finitely many files and no bound on owners, readers, workers and how often anything
happens. The invariant `FileInv` has the parts of `AttachmentsHold` and what makes each
one inductive. For files: while no two jobs were at work at once there is one (`LoneInv`),
and the rows of what it has still to do say what it wants them to, but for those it is
about to encrypt. `Faults` counts the files that are not what their rows say, and the
file in hand when what the job will write, or has written, is not what it is meant to
make: a step may turn the one kind into the other, a file that was faulty when the job
took it is faulty when the job lets go of it, and only a crash adds one (`FaultInv`). With
`Damaged` alone this is lost, since a file in hand is not counted. For downloads: one
that no job has overtaken opens the file as the row it read describes it (`ReadInv`). For
the trail: `UploadInv` says how far an upload, its file, its row and its audit entry have
come together, and `TellInv` that of all who raced to delete a row by the API one has
still to tell it or has told it, never two, since the DELETE tells each whether it
removed the row; one that was killed in between owes its entry for ever.

**AccessProofs** is about `Accounts`. It proves an invariant for each of four modules,
as a theorem about the module's own specification, and then that the property the
run checks holds of the sum: `Init` chooses a part and no step leaves it, so by
`PartInit` and `PartNext` a behaviour of `SumSpec` in a part is one of the part's
module (`BearersHold`, `NewcomersHold`, `PushesHold`, `BoundaryHolds`:
`SumSpec => []ClientTokensDie`, `[]AccountsSettle`, `[]DirectoryHolds`,
`[]TenantsHold`). `ConstantsOK` derives what each section asks of the constants from
`AccountsAssumption`.

`TenantBoundary` is the boundary between organizations, `Tenants(e)!Spec =>
[]Tenants(e)!TenantsHold` with row-level security on (`e`) or off. Its invariant
`Bounded` adds to the types `Prepared` (what a worker has behind it in its boot: its
tables are there, then granted, then protected, and stay so while other workers
boot), `Serving` (only a worker that is up has tasks) and `Stamped` (a task holds
connections of its own worker, stamped with its context, which no other task holds).
`Stamped` is inductive because a context is entered and left outside of any acquire.
Isolation follows from the role and the policy; completeness from the fact that
policies are made anew in one transaction. The parts of the run assume a database
role that is no superuser.

`ClosedClientsDie` is `Bearers!Spec => []Bearers!ClientTokensDie` for `ApiTokens`. The invariant follows the race from the read of the client to the
insert: a request that runs has not outlasted `ReqTime` (`InTime`); one that saw its
client enabled began before the client was closed (`Begun`), although the client
may be closed, opened and closed again meanwhile; what it asks for ends within its
own time and the client's (`Asked`); so every token does (`Ends`), counted from now
for the closings to come and from the closing for one that was. `Issued` adds that a
token's owner is there: the insert asks the foreign key, a deletion cascades.

`NewcomersSettle` is `Newcomers!Spec => [](TypeOK /\ InvitedOnce /\ AccountsWhole)`
for `Provisioning`. No statement of these requests shares a transaction with the next, so the
invariant accounts for every account that no crash cut short: one that came of an
invitation is named by it, or a request is still between its insert and the use
(`UsedOnce`); an account has its membership or its Person, or a request is still at what
gives it one (`MadeWhole`). A request that loses the race for the invitation passes from
the one side to the other only by deleting its own account, and `DropKeeps` shows that
this takes no row, membership or acceptance of another's. `NewcomerOK` has what a request
knows at each statement, `Unique` what the unique indexes decide.

`DirectoryTrue` is `Directory!Spec => [](TypeOK /\ RolesFollowGroups /\ LeaversAreOut)` for
`Scim`. Both properties speak of quiet states, so the invariant says what is so while
requests run. For roles (`RoleInv`): a user who is not in `drift` has the role of the
groups, or a request that nothing made uncertain has the user on its list
(`Pending`); such a request is the only one about groups (`Certain`), so the map and
the role it holds are still those of the tables (`Sure`). Whatever overlaps, renames,
edits or fails either puts the users it concerns into `drift` or leaves such a request to
write them. For logins (`LoginInv`): of a user who is not in `clash`, one request at most
is at work (`Alone`); it has written what its stage says (`LoginOK`), and when it ends
the Person agrees with the login (`Settled`). Who else writes the Person or its link
leaves the requests as they are, but for the id of a Person that has gone, and counts
the user out or, retiring a leaver, leaves the two in agreement (`PersonFacts`). Nothing is promised of a login that was
deleted between two statements of a request (its `state` is "gone").

**RegisterProofs** proves `IdsNeverDangle`: `Spec => []IdsHold`, under
`SyncAssumption` (payloads have their types, the tables begin sound, Null is no id,
requests and editors are different people). The invariant is about what each
transaction *sees*, its writes over the committed rows (`View`): edges and owners in
it name rows that are there, or victims of its own DELETE whose ON DELETE actions
are still to come (`Gone`). A step of the transaction itself keeps it because the
foreign keys are checked in its own view. The commit of another one keeps it
because of the locks, which `Locks` states as four facts: a row is written by one
open transaction (`Exclusive`); a row is not deleted while another transaction
has share-locked it (`Shared`); what a transaction's rows name, it has
share-locked or the committed row names it too (`Backed`); a row that is there keeps
its id (`Numbered`). `Survives` is the heart of it: what one of two transactions
sees, and has locked or the other sees too, is there in the tables that both
leave. `Fresh` closes the gap of the upserts: while records come in, a transaction
has deleted nothing, so a row that it re-creates is gone from the committed table
as well. `WriteKeeps` has what all writing statements share.

The same module proves `OwnRowsKept`: `Spec => OwnRowsOnly`, what a commit leaves alone.
`OwnInv` compares what a transaction sees with the committed tables. A row of another
source or of people is the same in both, but for an owner, or an end of an edge, that
this transaction has deleted (`Owns`). It deletes rows of its own source only, and one
that it has found gone does not come back under that number (`Chosen`): rows are
numbered, and a number never falls (`Aged`). The commit of another transaction keeps
this because of the locks of `IInv`.

Its last part proves `BlobsAlwaysHold`: `BlobSpec => []BlobsHold` for `AssetMetadata`, for
any keys, blobs and kinds of requests, finitely many handlers, and any number of writes
and crashes. `MetadataAssumption` asks that a kind of request which names keys finds them
among the keys, and that the bulk form for risks cannot set the ticket's status.
`Remembered` is what a request knows while others write: the blob it has read is the row,
but for keys that were written since, which it notes as `touched`, and those put back,
which are `stale`. So every step leaves the blob alone, merges the keys it names, puts an
old blob back or posts one (`Quiet`, `MergedBy`, `PutBack` and `Replace`), and `EditsKept`
follows write by write (`Tidy`). For tickets a set of pushes is counted rather than
a state compared: each push that holds a claim, or is about to give it up, and
each ticket there is has been paid for, by what the blob says or by an answer that was
lost or a link or claim that somebody's blob erased (`TicketInv`); the claim is one
UPDATE with its own condition, so it takes what nobody else has. `ClaimHeld` is its converse, a claim
has its push. `RunInv` keeps the runs of a control in the order of their transactions:
the last one ended after every other had begun, and the effectiveness put there on
purpose is its result.

**CoverageProofs** begins with arithmetic (`DivisionUnique`, `RoundMonotone`,
`RoundScaled`: quotients rounded to even are monotone and a common factor cancels)
and with what each query returns, link by link (`CrosswalkFacts`, `BorrowsFacts`,
`DetailFacts`). Three theorems follow.
`MoreLinksMoreCoverage` (`Spec => EffectiveMonotone`) rests on `DetailEffective`: the
effective figure counts the requirements in scope that lend or borrow, and both are
existential statements about the links.
`ListingAddsUp` (`Spec => []FiguresAddUp`) needs `JobOK`, which says what a job holds
at each statement whatever was edited before: what is satisfied is among what was
read, and the ends of what was found to borrow are gaps of it.
`ViewsOfTheGraphAgree` (`Spec => []ViewsAgree`) needs `PagesMatch`. `PageOf(f)` has what
all statements would find of f if they were run at once; a job that has seen the last
edit holds, at each statement, the part of it that was read so far (`Fits`), and every
edit counts, so nothing is claimed of one that has not. The two paths meet in
`GapsBorrow`: with one parent for each requirement, asking for the crosswalks of the
gaps finds for a gap what asking for those of all requirements finds, as no
requirement of the framework is foreign to it (`OwnNotForeign`). `MatrixAgrees` takes
the row that the matrix counts for a pair to the crosswalk that a page shows, and
back.

**SignInProofs** proves `SignInTypes` and four results, each from an invariant of its
own. `CodeOnce` (`Spec => []CodesOnce`): whatever was accepted on an enrolment is behind its
row, where the step only grows and recovery codes only go, since the statement that
accepts a code is the one that puts it there. `EnrolmentStays` (`Spec => MfaHolds`): a
request that is about to enable has matched a secret that is the row's or older, and a
row keeps its secret, goes, or becomes a newer draft. `SessionCapHolds`
(`Spec => []SessionsBounded`): an eviction leaves one place below the cap and turns its
handler into one about to insert; every insert uses up such a handler, so `CapInv`
needs no more than that a handler evicts by the cap of some role. `GuessesBounded`
(`Spec => []GuessBudget`) rests on `Budget`: a wrong guess is in the row, about to be put
there, or lost with a handler; while an account is open its row holds fewer than the
limit, or a lock ran out since; once it is locked, only handlers that are past the
check can still guess.

The same module proves `RequestsAlwaysHold`: `GateSpec => RequestsHold`, for any number
of workers, addresses, sessions and tokens, any budgets, overrides, windows and times to live;
`LimiterAssumption` says that budgets are integers. It begins with one window. Its deque
rises, so what is older than the window is a prefix, and counting it tells how long
(`FirstPart`). `Aligned` counts from the end: each request in the log that is still in the
window is at its place in the deque. A sweep or a cut takes nothing of that, so when one
more is let through, the log has no more in the window than the deque, which is below the
budget (`WindowLets`). `Room` states the budget by places rather than by a count, which is
what a step can extend; `RoomCounts` turns it into the count. `Noted` is the argument for
Retry-After: as long as the deque is as full as it was, the time that was told is past the
end of its oldest hit, so whoever waited has at least that one dropped (`WaitedEnough`).
`Copies` says of a read under way that each value was the stored one when it began or
later, and of a worker's copy that it was so at most `MaxLoad` before the copy was taken;
a save puts what it replaces into the past at that moment (`KeySaved`).

Only model-checked: every liveness property (`RequestsFinish`, `DueIsNotified`,
`DigestArrives`, `JobsEnd`, `RequestsEnd`, `CapturedDaily`, `DispatchesEnd`), since
the prover does not handle ENABLED; `AppliesPayload`, whose statement follows the
records of a payload one after the other; and of the `records` run `RegistersHold`,
whose statements fold over the records of a feed, the rows of an imported file or the
risks of a register, so that a proof is an induction over data.

## 7. Where the code and its documentation disagree

Shown by a run:

* `wf_duplicate`: `submit` tells users "An identical pending change for this
  asset is already awaiting approval" and a test expects 409, yet the SELECT
  and the INSERT are two statements with no unique index behind them.
* `enc_deleted`: `rotate-keys` ends with "You may now remove
  ENCRYPTION_KEY_RETIRED", yet paging by OFFSET overlooks a row when an earlier
  one is deleted.
* `sync_retyped`: `on_missing` "governs records that ... the payload no longer
  carries", yet a carried record that has changed its type is archived.

Met while modelling, not stated as a run:

* main.py:80 reschedules before firing so that a failure does not leave a
  recurring alert parked; this holds for the alert that fails, not for those
  after it in the batch (`DueIsNotified` excepts an alert deleted meanwhile).

* The gate is asked by the asset forms and their JSON API, the relationship handlers
  and the two bulk updates, that of the risk register included
  (dashboard_pages.py:249-277; the docstring asset_pages.py:211-213 says that it
  "remains ungated", which is no longer so). Not asked are: clone (asset_pages.py:747)
  with the links it copies, imports, content packs, the synchronisations and
  connectors, the Statement of Applicability (framework_pages.py:170), and what tags,
  control tests, findings, tickets and the nightly jobs write of an asset.
* "if diff" (routers/assets.py:223, asset_pages.py:672): an edit leaves an audit row
  only if `name`, `description`, `status` or `owner` changed. `_ASSET_FIELDS`
  (assets.py:29) has `metadata`, which is not the attribute `metadata_` that the
  snapshot has (models/asset.py:59), and neither tags nor criticality. The Statement
  of Applicability and the links a clone copies leave no row either, an import one for
  the whole file.
* `reject` checks the self-approval rule but not `approver_role`, which
  `approve` does check (workflow_service.py:415). As only administrators hold
  the APPROVE permission, an `approver_role` of editor, viewer or auditor
  leaves superadmins as the only approvers.
* `submit` matches duplicates by target and action, and a relationship change
  has its source asset as target, so two different links from one asset count as
  duplicates. Some routers do not catch the `ValueError`.
* A threshold above the number of entitled approvers leaves a change pending
  until an administrator lowers it.
* A saved edit form writes back the fire time that it was filled with, also one
  that has been fired since; the alert fires again. `NotifiedOnce` counts this
  as arming the alert.
* The digest: an exception in one group (its user deleted meanwhile) ends the
  flush, and the groups behind it stay stamped; a crash has the same effect; a
  message whose answer is lost is sent again.
* The migration and rotation jobs write back the value they read with the page,
  so a secret saved in between is lost. `rotate-keys` does nothing when no scope
  is active and skips plaintext, where the configuration guide speaks of
  re-encrypting. The page query names a column `id`, which `sessions` and
  `user_totp` do not have.
* An edge end that is deleted after it was looked up fails the upload as a whole
  (a foreign key violation), where an end that cannot be found is a warning.

* Borrowed coverage "matches the detail path exactly" (framework_service.py:307)
  only while no requirement has two parents. With parents f and g of r2, r2
  satisfied, a gap r1 of f and the link r2 to r1: the listing asks for r1 only,
  finds the link under r1 and borrows; the page asks for both, files the link
  under r2 and borrows nothing. `ListedAsOnPage` without `OneParent` shows it.
  A parent that is no framework (a requirement above a requirement) likewise
  lets a framework borrow from itself.
* A page leaves out a crosswalk to its own framework by comparing *names*
  (framework_service.py:641, `row["other_framework"] == exclude_framework`), which are not unique,
  and the name was read before; the matrix compares ids. Of two frameworks of one name,
  the pages show no crosswalk between them and borrow nothing, while the matrix counts
  the pair. `ViewsAgree` asks for `DistinctNames` where it compares the matrix, and the
  run renames a framework to the name of the other one.
* Snapshots keep `framework_name` "so history survives a rename/delete"
  (database.py:920), but `framework_id` is ON DELETE CASCADE: a deleted
  framework takes its history along (`DeleteAsset` in `Coverage`).
* A framework deleted under the nightly snapshot is a foreign key violation that
  ends the job for all frameworks and organizations behind it; `CapturedDaily` therefore
  promises nothing of a day on which one was deleted after its jobs were due.
* "The latest run writes effectiveness" (control_test_service.py:4): two
  overlapping tests are rolled up in the order of their UPDATEs, with `run_at`
  the start of the transaction, so an earlier run can prevail; both this and
  `bulk_update_assets` ("other keys kept") write back metadata read before the
  row was locked, which `bulk_update_risks` was changed to avoid
  (risk_service.py:455). `LatestTest` and `EditsKept` say what is left.
* The poll of ticket statuses can set `finding_status` to closed without the
  corrective action and verifier that closing by hand asks for. A crash between
  claim and stamp leaves the ticket status `creating`, and the finding cannot be
  pushed again.
* hris_sync.py:45 says of `"active"` "false -> Person archived, login disabled"; the
  Person is archived (255-259), but only people who dropped out of the roster have
  their logins disabled (328-333). `Connectors.LeaversAreOut` excepts the logins of
  those marked as inactive; without the exception the `records` run violates it.
  Archived leavers' logins are switched off again at each sync, and the person
  that owned assets go to may be a leaver too.
* An archived CI keeps its dependency edges; the scanner's upsert resets
  `finding_status` and the whole metadata at each run; a finding with two edges
  to one system is counted twice by the roll-up.
* `portal_submit` "stays read-only after the vendor submits"; a request admitted
  before the submission saves its answers after it. Saving and submitting are
  two transactions. A form filled from an entry that is mapped anew can keep the
  old text.
* The summary takes a risk for overdue by `review_date or last_reviewed`, where the
  register uses `review_date` alone. Register and summary use the day in UTC, the
  snapshots the server's day. The board's top risks accept a residual of 0,
  which the appetite takes for none.
* Saving the request limits is "visible immediately" only if no read of the
  settings is in flight in that worker; other workers follow within the TTL.
  After a budget was lowered a Retry-After can be too short.
* A SCIM create that dies half way leaves an active login, and its retry gets 409;
  a renamed group or a changed role map does not recompute roles; PATCH
  `active: false` of a login that is disabled already leaves its Person active. A status
  of the Person that is edited, in bulk or by another sync, leaves the login as it is.
* Two enrolments: `confirm_enrollment` enables whatever row is there; a cancel
  can remove an enrolment that was confirmed meanwhile. The lockout counter is
  not reset when a lock expires. `invalidate_user_sessions` has no caller.
* `accept_invitation` does not look at the expiry again when it consumes the
  invitation. Accounts made by single sign-on have no row in `user_organizations`.
  A crash between the account and its Person leaves it without one for good.
* Deleting a client deletes its row and revokes nothing: its tokens, and those created by
  bearing one, work until they expire; `ClientTokensDie` bounds how long that is.
* An edit of a user writes role and password before it validates the linked
  Person.
* The DELETE of an attachment is committed before its log entry is written
  (attachment.py:100-110, routers/attachments.py:283-295, relationship_pages.py:228-238):
  a worker killed in between (`CrashDelete`) leaves no trace of it.
* The evidence form of a relationship leaves the file behind when its row cannot be
  created, which the API routes clean up, and audits a deletion whatever it
  deleted. Deleting a row or its owner leaves the file.
* A preview counts a row that the database then refuses, and one refused row
  takes the whole import back.
* redaction.py says that a value is replaced "at every egress point". The answers of
  POST and PUT /api/assets (routers/assets.py:155, 245) and the edit form
  (asset_pages.py:582-604) carry it to whoever may write the asset. `Masked` speaks of the
  page, GET, lists, the search and exports.
* The access log: failed inserts are swallowed; lists are sampled; `GET
  /api/assets/{id}` and the search are not logged; the export's limit of 10000 is
  clamped to 500 by the query; one retention holds for all organizations.

## 8. What is not modelled

`PROJECT.json` lists every component with its status. In the modelled ones,
left out are: the paths past the gate that `PathActions` does not name (content packs,
connectors, tags, findings and tickets write assets too, and are modelled without the
gate in `Connectors`, `AssetMetadata` and `GenericSync`), comments on a change, changes of a user's role while an
approval is under way, watchers (best effort, errors are swallowed); key/value
targets of the encryption jobs and the blind index of e-mail addresses; that the
migration writes back a secret it read earlier (the model follows keys, not
values); the CSV envelope and reserved tags of the synchronisation; evidence
freshness, gap report, drift and AI proposals of the compliance part; the review
calendar; eviction notices, password changes and address allow-lists; memberships
and branding of organizations; a Person that two logins are linked to. Workers that run with different settings of
`RLS_ENABLED` are outside `Tenancy`. Feeds are single steps in `Connectors`; their
interleaving statement by statement is shown by `GenericSync` for the generic one.
The other modules have one organization: the boundary is what `Tenancy` proves.
Tags, watchers, saved searches and the calendar are single statements; the graph
and organization views only read.
Left out for good: rendering, parsing and pure I/O (pages, exports, PDF,
backup), and protocol exchanges inside libraries (OIDC, SAML, SMTP, HTTP).

## 9. Plan

Done, in this order, the most important behaviour first: ApprovalGate and
Workflow with their proofs; AlertTicker, Webhooks and EmailDigest with theirs;
EncryptionMigration with its proof; GenericSync and Coverage with their proofs;
SignIn, ApiTokens, Provisioning and Scim with theirs; Connectors; AssetMetadata;
Tenancy with its proof; RateLimit; Risks and Questionnaires; Attachments and
Imports; Reading.

Next, as models: evidence freshness, trends and drift as operators beside
Coverage; the values behind EncryptionMigration's keys (a secret saved while a job
holds its page) and its key/value targets; relationship duplicates by source asset,
in Workflow.

Abstract specifications worth stating: a queue that delivers each item at most
once (for EmailDigest and Webhooks); an upload applied at once (now
`AppliesPayload`, as a specification that GenericSync implements while uploads
do not overlap); a limiter without copies and windows.

Next, as proofs: `AppliesPayload`, a conjunct at a time; the ids and roles that a feed
of `Connectors` leaves behind; the order of the nightly snapshot in `Risks`.

Runs stay few: modules that share no state share a run as parts of a sum, and a
module gets a run of its own for liveness or a disagreement.

## Running

    tlc -workers 2 -config wf_quorum.cfg MCWorkflow.tla
    tlapm CoverageProofs.tla

Run names are the names of the `.cfg` files; `PROJECT.json` gives the module of
each. The largest runs (`records`, 763 000 states; `wf_quorum`, 675 000; `accounts`,
637 000; `digest`, 248 000; `alerts`, 99 000 with liveness) take one to four minutes each,
the proofs about twenty together.
