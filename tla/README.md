# Nexucon-Backend: TLA+ verification project

Nexucon-Backend is the Django/DRF server of a building-regulation platform:
permits, inspections, instrument telemetry, evidence and its review, reports.
This directory holds TLA+ models of its stateful parts, the TLC runs that check
them and the TLAPS proofs about them. `PROJECT.json` lists components, runs,
mutants, hazards, theorems and, per definition, the source lines it models.

    tlc -workers 2 -config SyncQueue.cfg MCSyncQueue           # one run
    tlapm SyncQueueProofs.tla                                  # one proof module

Paths below are relative to the repository, which `src/` in `PROJECT.json`
stands for.

## 1. How the system runs

* Requests are served by three gunicorn worker processes (`entrypoint.sh`, sync
  workers, `--timeout 120`), background jobs by celery workers, all against one
  PostgreSQL database at READ COMMITTED.
* There is no `select_for_update`, no `ATOMIC_REQUESTS` and no `on_commit` hook.
  Outside a `transaction.atomic()` block every ORM statement commits on its own,
  and `instance.save()` without `update_fields` writes every column of a copy
  that was read earlier.
* A worker that exceeds its timeout is killed. The transaction it is in rolls
  back; what it committed before stays.
* The field gateway (`apps/telemetry/gateway.py`) is a separate single-threaded
  process at the instrument; the inspector's PWA is another client that may be
  offline for days. Their requests and the answers may be lost.

So in every module a handler is split at its database statements, handlers of
several processes interleave between them, and a handler may be killed there.

## 2. Inventory

| Component | State | Operations | Hard behaviour | What makes it correct |
| --- | --- | --- | --- | --- |
| Offline sync (`sync`) | queue entries, the records they write | enqueue, flush (claim, apply, mark) | overlapping flushes, killed workers, stale claims, repeated requests | each write lands once, an accepted write is not lost or replaced |
| Telemetry (`telemetry/services.py`) | sessions, packet log, registry rows | start, append, end/promote, abort, import, replay | stale session copies, concurrent appends, promotion failing midway | the log is an append-only chain; a promotion is complete, all or nothing, once |
| Export import (`telemetry/export_import.py`) | sessions per file, stored originals | look up, parse, store, commit | a resend during a running import, failures between store and commit | one session per capture, originals kept |
| Provisioning (`telemetry/gateway_config.py`) | credentials, config file, flag | enable, disable | three non-atomic steps, each may fail; two officers | the config names the one live credential |
| Field gateway (`telemetry/gateway.py`) | ledger, watched folder, config copy | tick, sweep, post, record, restart | lost answers, timeouts, disk faults, replaced credentials | what the ledger calls sent is on the platform; every capture arrives |
| Findings and review (`evidence`) | findings, revision chain, NCRs, inspections | correlate, log, decide, supplement, escalate, sign off | whole-row saves of stale copies, non-atomic revision | decisions are not overwritten; the history is gapless and chained |
| Applications, permits, approvals, compliance, stop-work orders | their status rows and `project.status` | transitions with side effects on each other | side effects in separate commits, stale transition checks | an approved application has a permit, no revoked permit revives, a stopped project stays stopped |
| Inspection execution | inspection, attendance, findings | check-in, submit, check-out, sign-off | whole-row saves, actions after completion | a completed inspection stays so, one sign-off |
| Scan pipeline and report jobs | scan session, defects, task, report | run, fail, complete | double runs, killed workers | a scan is completed with its defects or failed |
| Notifications | notifications, delivery log | dispatch, retry | duplicate key, crash before send | each recipient is told once |
| Milestones, issues, surveys (`monitoring`) | milestones, critical issues, orders, boundary surveys | create, progress, submit, gate, verify, unblock; report, enforce; certify, flag | gates read one after the other on other rows, whole-row saves | no seal over a standing blocker, seals rest on seals, a flag is not certified away |
| Manual import (`data_import`) | batches, their records, registry rows | upload, validate, commit | stale verdicts, overlapping commits, kills | all or nothing, once, every record names its rows |
| Documents, BIM, storage, audit, accounts, stakeholders, portal, analytics, Trimble | rows and files | CRUD, I/O, aggregation | little | not modelled (section 7) |

Interactions. The gateway posts to the import, authenticated by the credential
that provisioning wrote and may revoke. The import and the sync queue's telemetry
applier create telemetry sessions. A promotion writes evidence records, from which
the correlation engine makes findings; a finding issues NCRs (compliance) and
inspections; a stop-work order suspends the project that permits and applications
activate.

## 3. Modules

| Module | Models | Checked by | Proved in |
| --- | --- | --- | --- |
| `SyncJournal` | what the queue promises a device (abstract) | refinement | `SyncQueueProofs` |
| `SyncQueue` | the sync queue | `MCSyncQueue` | `SyncQueueProofs` |
| `TelemetrySession` | sessions, packets, promotion | `MCTelemetrySession` | `TelemetrySessionProofs` |
| `FileImport` | importing an export file | through `FieldGateway` | `FieldGatewayProofs` |
| `GatewayConfig` | enabling and disabling gateway sync | through `FieldGateway` | `FieldGatewayProofs` |
| `FieldGateway` | the gateway, composing the two above | `MCFieldGateway` | `FieldGatewayProofs` |
| `FindingReview` | findings, revisions and their review | `MCFindingReview` | `FindingReviewProofs` |
| `ImportGrouping` | how the rows of a file become records | through `DataImport` | `DataImportProofs` |
| `DataImport` | the manual import: upload, validate, commit | `MCDataImport` | `DataImportProofs` |
| `Requests` | the handlers of the regulatory desks, `project.status` | through `Regulation` | `RegulationProofs` |
| `Licensing` | a permit application and its permit | through `Regulation` | `RegulationProofs` |
| `Approvals` | an approval request and what it decides on | through `Regulation` | `RegulationProofs` |
| `SiteInspection` | an inspection, its submission and sign-off, stop-work orders | through `Regulation` | `RegulationProofs` |
| `Regulation` | the three desks over one project | `MCRegulation` | `RegulationProofs` |
| `ScanPipeline` | a scan session, its analysis and its report | `MCScanPipeline` | `ScanPipelineProofs` |
| `SiteMonitoring` | milestones and what their gates look at, boundary surveys | `MCSiteMonitoring` | `SiteMonitoringProofs` |

Definitions commented `mutant of X` are faulty variants of `X`: each property is
shown to fail when the variant takes the place of `X`.

### 3.1 Sync queue (`SyncQueue`, `SyncJournal`)

The PWA journals writes made offline (POST sync/queue/) and has them applied when
it is online again (POST sync/process/). One inspector's queue is modelled: every
query filters on the inspector.

| TLA+ | code |
| --- | --- |
| `status`, `retries`, `content`, `pos`, `age` | columns of `SyncQueueItem`; `age` is the time since `claimed_at` |
| `Enqueue` (`Created`, `Deduplicated`, `Conflict`) | `SyncService.enqueue` |
| `StartFlush` | the one SELECT of `SyncService.process` |
| `Claim`, `Skip` | `SyncService._claim` and its rowcount |
| `ApplyOk`, `ApplyFail` | the transaction with the applier; `mark_synced`, `mark_failed` |
| `Kill`, `Tick` | the request timeout; time passing for `claimed_at` |

`TimeoutAssumption` (a worker is killed at 120 s, a claim is stale after 300 s) is
the deployment's and everything rests on it: without it a merely slow worker would
apply an entry that another has taken over.

### 3.2 Telemetry sessions (`TelemetrySession`)

| TLA+ | code |
| --- | --- |
| `Start...` | `start_session`: look for an open session, create |
| `AppendFetch`, `ReadTail`, `Insert`, ... | the view's copy; the tail; the insert under the unique constraint; `packet_count` |
| `EndFetch`, `ListPackets`, `Promote`, `PromoteFail` | `end_session` and its transaction; marking FAILED outside it |
| `Written`, `Lost` | the appliers: rows are written, `clear_folder` and `override` delete older ones |
| `Import`, `Replay` | a session committed as a whole by the file import or the sync applier |
| `Amend`, `Delete` (`AdminForm`), `Vanished` | the admin form, which may write any status, instrument and configuration, and delete a session; a handler that finds its row gone |
| `Abort`, `Kill` | a session that is aborted; a killed process |

A packet is its number and the number of the packet whose hash it extends. Hashes
are abstracted to that: equal hashes mean equal content. `amended` counts, for each
session, how often the form was saved for it: what the form did is told apart from
what a handler did by it, and the properties of a promotion are about the sessions
it never touched.

### 3.3 Import, provisioning, gateway (`FileImport`, `GatewayConfig`, `FieldGateway`)

`FieldGateway` EXTENDS the other two and adds the process at the instrument; a
step of one part leaves the variables of the others alone.

| TLA+ | code |
| --- | --- |
| `AnswerHeld`, `RefuseBytes`, `Parse`, `Store`, `NameTaken`, `Commit` and the failing variants | `SessionFromFileService.create` |
| `CommitFail` | a failed transaction, and `_discard`, which storage may not carry out (`leaks`) |
| `EnableCurrent`, `EnableRead`, `EnableMint`, `EnableWrite`, `EnableRevoke`, `Disable...` | `GatewayConfigService.enable`, `disable` |
| `ByHand` | a credential issued (`DeviceTokenListView.post`), revoked (`DeviceTokenRevokeView.post`) or put back in the admin form; none of these touches the config |
| `Tick`, `Reoffered`, `TickUnsaved` | `GatewaySupervisor.tick`: reconciling with the config, `_reoffer`, collecting the sweep |
| `Post`, `PostLost`, `Receive`, `ReceiveUnsaved`, `GiveUp` | the upload, its verdict, the ledger |
| `Restart`, `Killed`, `Unheard` | a gateway restart; a killed process; an answer nobody waits for |

History variables: `failed`, the files whose store or commit storage or the database
failed; `races`, how many imports of a file began while another of the same bytes
was running; `byHand`, the credentials handled by hand; `overlapped`, that requests
of two officers were under way at once.

### 3.4 Findings and review (`FindingReview`)

| TLA+ | code |
| --- | --- |
| `Correlate`, `Rescore`, `Create` | `CorrelationEngine.run`, for one group of evidence |
| `Log` | `CorrelationFindingViewSet.create` (a finding logged by hand) |
| `Review`, `Supplement`, `TriggerInspection`, `IssueNcr`, `Signoff` | `HumanReviewService` |
| `Update`, `Delete` | PUT/PATCH and DELETE, which the view set inherits |
| `Order`, `Save` | creating the NCR or inspection; `finding.save()` |
| `Revise`, `Count`, `Seal`, `Fail` | `_add_revision`, the re-hash after the digest; a refused write |

`Begin` is the fetch: every later step uses that copy. `overlapped` is a history
variable: it is TRUE once two handlers were at work at the same time, and the
properties that hold only for handlers one after the other say `~overlapped`.
`Save` and `Seal` insert a row again that was deleted meanwhile, as Django does.

### 3.5 Manual import (`ImportGrouping`, `DataImport`)

A file is uploaded as a batch, validated (its records and a verdict are written,
statement by statement) and committed (registry rows, links and status in one
transaction). `ImportGrouping` has the two statements of one rule: `Group` is the
import's, `GroupUpv` the telemetry path's; both are recursions over the rows.

| TLA+ | code |
| --- | --- |
| `Place`, `Group`, `RowType` | `ImportService._record_types_for`, `_group` |
| `PlaceUpv`, `GroupUpv` | `registry.group_upv_rows` |
| `Upload`, `Create` | `ImportService.create_batch`: the look for a batch that awaits a result, the insert |
| `Read`, `Prepared` | reading the bytes back, `_prepare` with builders and serializers |
| `Replace`, `List`, `Mark`, `GiveType` | `validate`: delete, bulk insert, status, inferred type |
| `WriteRow`, `RefuseRow`, `CommitRows` | `commit`'s transaction, its 409, its end |
| `VerdictChanges`, `BytesLost` | what a row refers to changes; storage loses the file |

### 3.6 The regulatory desks (`Requests`, `Licensing`, `Approvals`, `SiteInspection`, `Regulation`)

One project, one application with its permit, one approval request, one
inspection and several stop-work orders. `Requests` has what every handler does
(fetch, one statement after the other, die) and `project`, the status all desks
write; each desk is a module that EXTENDS it and `Regulation` conjoins each desk's
step with the unchanged rest.

| TLA+ | code |
| --- | --- |
| `TransitionFetch`, `Decide`, `ActivateProject`, `Grant`, `Revive` | `ApplicationService.transition_status` and its side effects |
| `File`, `TouchFetch`, `Touch` | the creation of an application; reviewer assignment, document requests, review items |
| `RenewFetch` ... `RenewApplication`, `WithdrawFetch`, `Withdraw` | `PermitService` |
| `InitApproval` | `create_request`: the status and `signatories_completed` are what the client sent, if anything |
| `RuleFetch`, `Rule`, `PassOn`, `SyncSource` | `approve_request` (with or without conditions), `reject_request`, `sync_source_entity` for a document, a milestone or a permit, its swallowed failure included |
| `RouteFetch`, `Route` | assignment, the compliance gate, return, escalation |
| `CountersignFetch`, `Seal`, `Commit`, `Attest` | `sign_document` |
| `PatchFetch`, `Patch`, `RecordFetch`, `Record` | the view set's PATCH of an approval request; a document or milestone decided at a desk of its own |
| `KilledDeciding` | a kill, which may leave the record behind the request |
| `IssueFetch` ... `FailInspection`, `LiftFetch` ... `Reopen` | stop-work orders of the inspection, the order desk and a site issue; `lift_stop_work` |
| `Evaluate`, `CheckedIn`, `CheckinFetch` | `evaluate_geofence`, `InspectionExecutionService.checkin` |
| `SubmitFetch`, `Submit`, `CheckoutFetch`, `SignOffFetch`, `SignOff`, `SubmissionVerifies` | `InspectionExecutionService` |
| `AmendFetch`, `SaveInspection` | the desk's endpoints, which save the row they fetched |

`crossed` is TRUE once two requests were at work at the same time that may disturb
one another (`Harmless` lists those that may not: lifts and transitions);
`waived`, once an approval opened the site under an order in force. `claimed` is the
highest count of signatures a client ever entered; `unsynced` is TRUE while the
record is behind its request (a status a client wrote, a ruling whose save of the
record was swallowed or killed) or was decided elsewhere.

### 3.7 Scan pipeline (`ScanPipeline`)

One scan session. `After` gives, for each kind of work, the order of its
statements: the Celery pipeline, the AI started alone, the alignment alone and the
report are paths through the same steps.

| TLA+ | code |
| --- | --- |
| `FinalizeFetch`, `Finalize`, `Queue`, `PickUp` | `FinalizeUploadView`; the broker; delivery |
| `StartPipeline` ... `Complete` | `run_ai_pipeline`: task row, defects, alignment, detection, status |
| `Drop`, `Keep` | the invalidation of the report and the delete before a new one; an invalidation after an alignment that fails and is swallowed |
| `Read`, `Write`, `Generate` | `generate_quality_report` |
| `Raise`, `Fail`, `GiveUp` | the exception paths |
| `UploadFetch`, `Upload`, `EdgeSync`, `Patch`, `Heatmap` | uploads, edge sync, corrections, the deviation heatmap |

A finding or an alignment is the number of the work that wrote it last; a report is
the findings and the alignment it was written from. `touched` holds which of the
two changed behind a stored report: by a request that does not drop it, or by an
analysis that failed before it dropped it; `turned`, once an upload wrote an older status back.

### 3.8 Site monitoring (`SiteMonitoring`)

The milestones of one project. A sign-off fetches the row, reads its gates query by
query, saves the seal and then evaluates every milestone that is `BLOCKED`.

| TLA+ | code |
| --- | --- |
| `Create`, `Amend`, `Edit`, `Delete`, `Save` | `create_milestone`, `update_milestone_progress`, `attach_milestone_evidence`, `submit_...`, `flag_milestone_delay`, PUT/PATCH, DELETE |
| `ReadPredecessor`, `ReadInspections`, `ReadIssues`, `ReadOrders`, `OwnGates` | `evaluate_milestone_gates` |
| `Overlook` | the queries for inspections and orders raise, which is swallowed: the gate passes |
| `Verify`, `Decided`, `Seal`, `ListBlocked`, `Take`, `Unblock`, `Verified` | `verify_milestone` |
| `Stumble`, `Raise` | an exception: `dependencies` that are no records, a query or save that fails. Before the seal the client is told; after it, the one `except Exception: pass` around the loop abandons the successors that are left |
| `ReportIssue`, `EscalateIssue`, `ResolveIssue`, `Enforce`, `LookForOrder`, `Order` | `report_issue`, `escalate_issue`, `resolve_issue` |
| `Suspend`, `Order`, `Fail`, `Announce`, `LiftOrder`, `ConcludeInspection` | `issue_stop_work`, `lift_stop_work`, `complete_inspection` |
| `Record`, `Certify`, `Flag`, `Document`, `Revise`, `Remove`, `File` | boundary surveys |

`standing` is, for each verification, what has blocked all the time since its
fetch; `missed`, the gate queries whose error was swallowed; `garbled`, that a row's
entries are not what `evaluate_milestone_gates` expects, which nothing checks when
they are stored; `crossed`, that two handlers held copies of one row; `byHand`, the rows
whose status or plan a client set in a form, or that were created final or with a
predecessor that does not exist: the code takes a client's word for these.

## 4. Runs

| Run | Instance | What it shows |
| --- | --- | --- |
| `sync_queue` | 2 workers, 2 entries, one conflicting reuse of an id | no entry is held twice; `SyncJournal` is implemented; every entry lands or is reported exhausted |
| `sync_order` (violation) | two updates of one record | a failed update is replayed after a later one |
| `telemetry` | 2 processes, 2 sessions of an instrument, 2 packets, one kill, one save of the admin form | no handler alters the log or reopens a closed session; the log is a verifiable chain; without overlap, of sessions the form left alone, one is open and a promotion is whole and final |
| `gateway_safety` | 3 processes, a readable file, an upload by hand, one storage, database or disk fault, a kill, a restart, a timeout | the ledger is sound; originals are kept and no others, but for what a kill, a hand upload or a failed discard left; a capture is filed again only by imports that met; refusals name what cannot be read or failed |
| `gateway_liveness` | 1 process, a readable and an unreadable file, a timeout, a restart, an officer, a disable, a config fault, a credential handled by hand | every readable capture arrives unless it is stranded; no loose credential |
| `finding_review` | 2 handlers, 2 findings, 4 starts, 1 kill | histories stay gapless and chained; decisions stand without overlap |
| `data_import` | 2 batches, 2 handlers, 4 starts, 1 kill, 1 change of the world | a commit is all or nothing; without overlap a batch is imported once, complete and traceable; the two groupings agree |
| `regulation` | 2 handlers, 2 orders, 2 signatories, a request entered as pending or as approved with a signature, 3 starts, 1 kill | orders shut the site and the last lift opens it; records follow rulings that were passed on; no signature beyond those a client entered is invented; a sign-off binds what was submitted; only an approval revives a permit |
| `scan_pipeline` | 2 servers, 1 worker, 3 starts, 1 kill, 1 fault | a report shows the last analysis; a session leaves `processing` |
| `scan_report` (violation) | the same | a stored report is served although the findings changed |
| `scan_stuck` (violation) | the same | an upload leaves a session `processing` with nothing under way |
| `site_monitoring` | 2 handlers, 2 milestones or a survey, an issue, an order, 2 starts, 1 kill, 1 event of others; and 1 verification over 3 milestones, one of them garbled, with 1 failing call | standing blockers hold a seal up; without a crossing seals rest on seals and flags stand; a verification that ends leaves nobody blocked without a reason |

A violation run checks a statement of a docstring or comment that the code does
not keep; `findings` quotes it.

Bounds. Two processes show every pairwise interleaving; a third repeats the roles
of the two, and the proofs have any number. `gateway_safety` has the three that
`entrypoint.sh` starts: a resend that meets a running import, an upload by hand
beside both. Two sessions, findings, batches or orders are as many as any property
relates. Two packets, the second chained to the first, are enough for a link that
is wrong, and a log that a late end does not attest. `MaxRetries = 2` with
`RetryBound = 3` has a retry, an exhausted entry and a forced retry of it.
`ClaimTimeout = RequestTimeout = 1` is the tightest schedule that the deployment's
assumption allows. One kill, restart, lost answer or fault of each kind is combined
with all others of a run; each of these breaks a handler at one point and the proofs
lift the bound for safety. `gateway_liveness` has no kill and no storage fault: to
the gateway a killed process is a request that no process took (`PostLost`) or an
answer that never came (`GiveUp`), and a storage fault ends in a refusal that is
final, which `Stranded` names. `MaxStarts` bounds requests: 4 is a creation and
three operations on it (`FindingReview` was also run once with 5: 6.6 million
states, no error); `Regulation` starts from several stages of the records' lives
instead, so that 3 requests reach what takes more; its `CONSTRAINT` varies the
initial states of the site and those of the approval in turn. `MaxCopies` lets a
row be written twice, which `PromotionIsWhole` forbids, and `MaxAmends` lets the
admin form be saved once. With `InOrder` devices leave the numbering to the server.
The grouping is checked on every file of up to 4 rows of 8 kinds; the life of a
batch, which `Explored` keeps to 8 of them, adds what the file's content cannot
change. `SiteMonitoring` starts from every combination of planned, blocked and
sealed milestones, so that two requests meet any of them; its `CONSTRAINT` keeps
milestones and surveys apart, which never look at each other, and gives the
instances with three milestones, a garbled row or a failing call to one request
that nobody meets, which is when `VerifyUnblocks` has something to say: two
successors are then in the queue, one of which may end the loop for the other. It
has 1.3 million states.

Symmetry is used in runs without a liveness property only. Deadlock is not checked
where the system may rest (nothing left to do, or a bound used up); `FieldGateway` always ticks, and
there it is checked.

## 5. Fairness

* `SyncQueue!Fairness`: an accepted request runs to its end unless killed (WF
  `Serve`), time passes (WF `Tick`), and the app keeps flushing while it has work
  (SF of `StartFlush`: it retries on reconnect and on "Sync now", and the workers
  may be busy in between). The client never has to enqueue.
* `FieldGateway!Fairness`: the gateway's loop goes on (WF `Tick`); of all the posts
  of a file some reach a process (SF), one that does not is given up (WF
  `PostLost`); a process finishes its request (WF `Platform`, `Unheard`); an answer
  that comes is read (SF `Receive`, because a restart may come first); an officer's
  request ends (WF). Kills, restarts, timeouts and faults are bounded, and nothing
  obliges them to happen. The instrument need not export anything.
* `ScanPipeline!FairSpec`: a worker takes what is queued (WF `PickUp`), and who has
  begun goes on unless killed (WF `Continue`): threads and celery workers run. No
  client has to ask for anything.

`EveryCaptureArrives` excepts the files that stay refused (`Stranded`): by a
credential that is gone, when the gateway was restarted or took the instrument up
anew, where the code relies on an operator running `--retry-rejected`; by a
credential that was revoked by hand, which the config still names and `enable` takes
for current (`gateway_config.py:87`); and for a failure of the platform's own storage
or database. `ProcessingEnds` excepts kills, which leave a session `processing` for
good (`apps/processing/tasks.py:28`), and the upload of `scan_stuck`.

## 6. Proofs

All theorems hold for every value of the constants that satisfies the modules'
named assumptions (types, disjointness of the "none" values, `TimeoutAssumption`,
`GroupedAssumption`) and the hypotheses they state. Every safety invariant and every
action property that a run checks is the statement of one of them.

* `SyncQueueProofs`: `IInv` is inductive. `ClaimIsExclusive` alone is not: a
  takeover of a held entry is excluded because a claim is never older than the
  worker holding it (`ClaimIsFresh`), which is killed at `RequestTimeout`.
  From it: `InvariantHolds`, `ClaimExclusive`, `ExactlyOnce`, `SyncedStays`, and
  `ImplementsJournal`, that every step is a step or a stutter of `SyncJournal`.
* `TelemetrySessionProofs`: `LogInv` for any number of processes, whatever the admin
  form writes (`LogInvariant`, `AppendOnly`: a step that takes a packet away or
  reopens a closed session is one of the form, for that session); `ChainInv`, that a
  log is the chain 1..k, when the server numbers the packets
  (`NumberedByServerVerifies`); `SerialInv`, under `~overlapped` and for the sessions
  no form changed (`SerialStarts`, `SerialSafety`, `PromotedOnce`), whose
  strengthening `DecisionHolds` says that the row a handler decided on is still the
  row it changes.
* `FieldGatewayProofs`, for any finite number of processes and any number of
  officers, faults and kills. `ConfigInv`: until requests of two officers overlap,
  the file and the one that works agree, credentials handled by hand apart
  (`ProvisioningSound`); `ImportInv`, that the copies of a file are at least its
  sessions plus its imports under way (`OriginalsKept`); with `LedgerInv` the types
  and the ledger (`TypesHold`, `LedgerSound`). `OnceInv` bounds the sessions of a
  file together with its imports that may still commit by one and the imports that
  met another (`ImportedOnce`). `OwedInv` is the converse of `ImportInv`: each copy
  beyond those is owed to a kill, an upload by hand or a failed discard
  (`RejectedLeavesNothing`). `VerdictInv`: a refusal under way, received or not, is
  of an unreadable or a failed file (`RefusalsSound`).
* `FindingReviewProofs`: for any number of handlers, overlapping and killed,
  `HistoriesAreGapless`, `ChainsFollowNumbers` and `RevisionsStay`, for findings
  that were not deleted, and `TypesHold`. The invariant relates copies to the
  history: a handler's copy never counts more revisions than there are (`Knows`),
  so the only number that the unique constraint lets through is the next one, and
  the hash read before the insert is that of the revision before it. Types need
  `BoundedRows`, because the last revision of a history exists only if numbers
  are bounded. Without overlap, `SoloInv`: one handler is at work, and its copy
  is the row until the revision is counted (`Fresh`), and each finding is `Reviewed`:
  only the last revision may be sealed, orders are the link, the one being linked
  and those lost with a kill, and unless somebody has yet to write or was killed,
  the last revision says what the row says. Hence `PendingIsUnique`,
  `ChainsAreIntact`, `OrdersFollowLinks`, `HistoriesAreCurrent`, `DecisionsStand`.
* `DataImportProofs`: `TypesHold`; `CommitsAreAllOrNothing` for any files,
  handlers and interleaving: what a commit still has to write, has written and
  links is always a part of what the file makes for the type of its copy
  (`SafeInv`); `BatchesAreImportedOnce` under `~overlapped`, because then the copy
  a commit decided on is the row. `FilesAreGrouped` and `PathsDoNotDrift` are about
  every file. The induction over its rows is by minimal counterexample: `<` on the
  naturals is well-founded, so a claim that fails after some row fails first after
  one (`Least`), and `GroupUnfolds` says what that row does. The claim is
  `GroupedTo(n)`: the groups part the rows up to `n` that were not dropped, each
  lies before the next, and the open group is the last of the grouped type. It
  needs that only one type is grouped (`GroupedAssumption`). From it `RecordsInv`,
  without overlap and kills: the records a validation lists account for each row
  once, still do when the file is read again for the type that was inferred
  (`InferredSame`), and a registry row is written for one of them
  (`ValidatedBatchesAreComplete`, `RowsAreNamed`).
* `RegulationProofs`, for any number of handlers and orders. `SealInv`: a sign-off
  and every hash about to be one are the submission's (`SignOffBindsSubmission`);
  `SignInv`: signatures counted beyond what a client entered are given, being given,
  or lost with a killed handler, which needs the count of handlers at `Attest` and
  a bound on every copy of the request (`SignaturesAreGiven`);
  `AloneInv`: without a crossing, a handler that is not harmless is alone, on
  which rest `PermitInv` (`OnlyApprovalRevives`) and `SourceInv`
  (`RecordFollowsRuling`: whoever was killed, but not where the record is behind or
  was decided elsewhere, `unsynced`); `OrderInv` and `SiteInv`: an order that was seen lifted
  stays so, a lift that goes on to open the site saw no other order, and of
  several lifts the last to save sees none left (`OrdersShutTheSite`,
  `LiftsOpenTheSite`).
* `SiteMonitoringProofs`, for any milestones, plans, handlers, orders and kills.
  `GateInv`: a gate that was read without finding a blocker takes it out of what
  stands since the fetch, and what stands only shrinks, unless the query was
  `missed` (`BlockersHold`); no assumption on what overlaps is needed. `BuiltInv`, as long as no copies of a row
  met: a copy says of the seal and the plan what the row says (`Current`), a final
  status that no client set means a seal (`FinalIsSealed`), seals are not undone,
  and what a sign-off has read of the predecessors still is so (`FoundCertified`):
  hence `BuiltOnSealed`. `FlagInv`: who may still save a flagged survey certified
  overrode the tolerance (`FlagsStand`). `SweepInv`, while no two handlers met: who
  verifies is alone, its copies are the rows, and a milestone that is blocked is
  hindered or still to be looked at (`Sweeping`), so when the loop ends all that is
  blocked is hindered, or it ended by an exception, and then a call failed in that
  step or the row being evaluated, which is a blocked one, is garbled
  (`SuccessorsUnblocked`). `TypesHold`.
* `ScanPipelineProofs`, for any number of servers and workers and whatever fails:
  `PipelineInv`, while nothing crossed and nobody was killed. A run that has
  dropped the old report works without one until it stores the new, a change of the
  results is followed by that drop or makes them `touched`, and a report about to be
  written carries those findings and that alignment that are there
  (`ReportsFollowAnalyses`).

Only model-checked: the liveness properties `EveryEntrySettles`,
`EveryCaptureArrives` and `ProcessingEnds`, which rest on fairness and so on
ENABLED, out of TLAPS' reach here.

## 7. Not modelled, and known limits

Components without a module are in `PROJECT.json` with the reason: they copy,
convert, aggregate or store without a state of their own that another step relies
on (instrument registries, storage, audit, documents and BIM, stakeholders,
accounts, portal, analytics, Trimble), or they are in the plan (compliance,
notifications, evidence ingestion). Within the modelled parts:

* Sync: what each entity type writes; several inspectors share nothing. Telemetry:
  the columns per data type of the registry rows; of the admin form, the stale
  columns other than status, sync status, instrument and configuration that its
  whole-row save writes back (a session that goes with its project is a `Delete`).
  Gateway: when a file counts as settled, a missing watch
  folder, several instruments, `--retry-rejected`, `--dry-run`, a capture of an
  instrument without a project, an officer's request killed midway.
* Findings: risk scores, evidence files, the deletion of a linked NCR or inspection.
* Regulation: PUT/PATCH of status columns other than a permit's expiry and an
  approval request's; edits of an approval request's `signatories_required` and of
  what it decides on; deletes; an exception between two statements that no `try`
  surrounds (it leaves what a kill leaves); decision rows other than signatures, the child row of a re-inspection, audit and
  notification inserts; one application, request and inspection per project.
* Scan pipeline: thermal anomalies apart from defects, media columns, progress
  validation, compliance checks, Trimble, automatic NCRs, websockets, webhooks,
  other reports, database errors outside the code's `try` blocks.
* Site monitoring: issues that are not critical (no gate counts them) and deletes
  of issues; statuses a client may set other than `PLANNED`, `BLOCKED` and
  `COMPLETED`; documents sent along with a progress report, which are an attachment
  of their own here; an error between the saves of a stop-work order, which leaves
  what a kill there leaves; the outcome of linked inspections is a copy on the row, as in
  the code; what orders do to `project.status` is in `SiteInspection`. Reports,
  lifted orders and concluded inspections of others are one step each.

Limits met while modelling that no run of this project states:

* Overlapping ends, commits or imports write every row twice: the state is tested
  on a copy and no constraint stands behind it.
* Two imports of the same bytes that meet make two sessions of one capture
  (`races` in `NoCaptureTwice`): three workers serve them, and no constraint stands
  behind the look-up.
* Storage or database failures during an import are answered 400, which a gateway
  takes for a verdict on the bytes: a readable file is then refused for good
  (`failed` in `RefusalsAreVerdicts`, `Stranded`). A copy that storage does not give
  up is logged and left (`leaks` in `NoOrphanBytes`).
* A gateway credential revoked by hand (`telemetry/views.py:584`) stays in the config,
  which `enable` then takes for current: only a disable, or another project, lets it
  be replaced. Two officers who enable or disable at once may leave a config with a
  dead credential, or a live one that nobody holds (`overlapped`).
* The admin form may reopen a closed session or take a promoted one back to
  `PENDING` (`amended`).
* A client may create an approval request already `Approved`, over a record nobody
  touches, and with any count of signatures (`approvals/services.py:70`, `:85`); its
  form may do so later. A failure to save the record is swallowed and the request
  stays ruled (`approvals/services.py:477`).
* A failed invalidation after a new alignment is logged, and the stale report is
  served (`scans/services.py:154`).
* Two gate queries swallow their errors and the gate passes
  (`monitoring/services.py:593`, `:618`); an exception about one successor, which
  `dependencies` stored unvalidated (`:415`) can raise, leaves every later one
  blocked (`:755`).
* A submission whose device sent a time with an offset fails
  `verify_submission` although nobody touched it: the hash is taken over the time
  as sent, and recomputed from the time as stored, in UTC
  (`inspections/execution.py:293`, `:433`; `Stored` and `SubmissionVerifies`).
* The desk's check-in sets `gps_verified` unconditionally
  (`inspections/services.py:130`).
* A conditional approval makes the permit `ACTIVE` though the comment says pending;
  one "permanently" revoked is revived by approving the application again; an
  approval request gives a permit the statuses `Approved` and `Rejected`, which are
  none of its own; no ruling consults the compliance gate.
* Two signatories who sign at once are counted once. A kill between a submission
  and the inspection's save leaves an inspection that cannot be submitted again.
* After two runs of a pipeline, starting the AI alone finds two tasks where
  `get_or_create` wants one. Milestone synchronisation of the pipeline imports a
  class that does not exist, and the error is swallowed. Messages are acknowledged
  at delivery: a killed worker leaves a session `processing`.
* A device that numbers its own packets and sends 2 before 1 leaves a log that
  `verify_chain` rejects. A kill between the insert of a revision and the saved
  count blocks a finding's history.
* A milestone blocked by an issue or an order is unblocked by nothing when these
  are resolved: the loop runs after a verification only.

## 8. Plan

In this order: compliance (a corrective action can be reopened under a closed NCR,
`compliance/services.py:311`; an escalation reads and writes its level in two
steps, `:209`); notifications (the idempotency key, a duplicate that ends the loop
over the remaining recipients, a kill that leaves a delivery `PROCESSING`); the
archive of NDT reports (`reports/ndt_reports.py:2401` to `:2674`: which digest
belongs to which archived content); `TypeOK` and its theorem for `ScanPipeline`
and `Regulation`, whose proofs type only what they need; the gateway's rule for settled files.

