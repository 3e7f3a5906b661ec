# Azure IoT Platform (.NET): TLA+ models and proofs

The platform is a set of ASP.NET Core services (`src/src/services`), Azure Functions
(`src/src/functions`) and a web UI. Each tenant gets an IoT Hub, a DPS, Cosmos DB
collections, and, with `TelemetryStorageType` = ade, a Data Explorer database, an Event Hub
namespace and a Grafana organization. The modules here model two parts. The tenant-manager
service creates, deploys and takes away all of this: several HTTP requests and two background
tasks work on the same rows of Azure Table Storage, call by call, while Azure completes
deployments minutes later. The web UI (`src/src/webui/src`) is the largest program of the
repository: its forms, panels and lists make many calls at once over a network that loses
them, and apply the answers in whatever order they come, while the user edits, switches and
leaves. Both are hard to test for the same reason: what goes wrong needs an order nobody
wrote a test for.

## 1. Inventory

Paths are relative to `src/src/services` unless they say otherwise.

### tenant-manager (modelled)

| Part | State | Operations |
|---|---|---|
| `TenantController`, `TenantContainer` | row of the tenant in table `tenant` (IsIotHubDeployed, SAJobName, ETag, Timestamp), App Config keys of the collections, Cosmos collections, blob containers, user rows (through identity-gateway), records in table `tenantOperations` | create (a failure is followed by a forced delete), delete (`ensureFullyDeployed` or not), rename; readers |
| `AlertingController`, `AlertingContainer` | the same row (SAJobName), the Stream Analytics job | add, remove, start, stop |
| `Tasks/IoTHubMonitor` | the batch of rows in hand | every 15 s: query rows not deployed and written within the hour; for each: container, hub, connection string, DPS, Event Hub, ADX, write the row back |
| `Tasks/TenantOperations` | the batch of records in hand | every 15 s: one attempt at each of the eight operations recorded |
| Azure | hub, DPS, job, database, namespace, Grafana organization | completes deployments and deletions that were begun |

What makes it hard. Requests and tasks share rows without a lock. `InsertOrMerge` and
`InsertOrReplace` are unconditional, so an old copy of a row can overwrite a newer one or
bring back a deleted one; only `Delete` is conditional on the ETag. Every call can fail, and
the handlers differ in what they do then: report it, ignore it, end the cycle, end the task.
The process can restart between any two calls.

What makes it correct. A tenant reported ready has everything deployed. A delete that insists on a fully
deployed tenant never takes the row of another kind. A deletion that was reported as queued
is carried out, and its record is not lost. A job whose deployment has begun is not
forgotten. A new tenant becomes ready; recorded operations end.

### storage-adapter and its client (not modelled yet)

`storage-adapter/Services/DocumentDbKeyValueContainer.cs`, `WebService/Controllers/ValuesController.cs`,
`common/Services/External/StorageAdapter/StorageAdapterClient.cs`, `.../CosmosDb/StorageClient.cs`.
State: documents with an ETag. Operations: get, list, create (a conflict if it exists), upsert, delete
(not found is ignored). Hard: `UpsertDocumentAsync` passes the ETag no further, so writers
believe in a check that is not made. Correct: a write with an old ETag is refused.

### config (not modelled yet)

`config/Services/Helpers/StorageMutex.cs`, `Seed.cs`, `Storage.cs`. State: the mutex document, the completed
flag, templates, device groups, packages, config types, column mappings. Hard: a lease with a
timeout and an unconditional release; check-then-write of display names; read-modify-write of
lists. Correct: one seeder at a time, templates seeded once, no lost update.

### iothub-manager (not modelled yet)

`iothub-manager/Services/Helpers/StorageWriteLock.cs`, `DeviceProperties.cs`, `DeviceQueryCache.cs`, `Deployments.cs`,
`Devices.cs`, `Jobs.cs`. State: the property cache document, with its lock inside; an in-memory cache of queries;
deployments. Hard: a rebuild of the cache by several instances, and a time-out of the lock.
Correct: one rebuild at a time; a cache once rebuilt is not older than what it replaced.

### device-telemetry, asa-manager, identity-gateway (not modelled yet)

`device-telemetry/Services/Rules.cs`: rules are soft-deleted by read-modify-write; correct: an update
never brings a deleted rule back. `asa-manager/Services/*Converter.cs`, `WebService/Helpers/BeginConversionHelper.cs`:
background conversions that write reference blobs named by minute; correct: the last blob
reflects the last change. `identity-gateway/Services/*Container.cs`, `SystemAdminController.cs`: user-tenant rows;
correct: every system admin is a member of every tenant, also of those created meanwhile.

### Web UI (modelled)

Paths are relative to `src/src/webui/src`. The UI is a React application (17.0) with a redux
store whose side effects are redux-observable epics (1.2); calls are rxjs streams.

| Part | State | Operations |
|---|---|---|
| `utilities/httpClient.js`, `ajaxModels.js`, `services/authService.js` | the calls in flight with their attempts, the id token | subscribe, get a token, send, time out (20 s), retry (2 times), map, catch, unsubscribe |
| `services/*Service.js` | none | the operations of each back-end service; 404 answered as nothing by some |
| `store/utilities.js`, `store/reducers/*Reducer.js` | per list: items, entities, pending and error of each action type | fetch, insert, update, delete; epics that call and dispatch |
| `dashboard.js`, `deviceTelemetry.js`, `deviceDetails.js`, `ruleDetails.js` | per panel: a subject with its stream, the data, pending, error | mount, refresh, change of group, device or interval, delay, retry, answer, error, unmount |
| `maintenance.js`, `ruleDetails.js` | alerts by id, selection, updatingAlertStatus | fetch (list, then each rule), acknowledge, close, delete |
| flyouts and dialogs under `pages/*/flyouts`, `shell/flyouts`, `shared/deleteModal`, `advanceSearch.js`, `columnmapper.js` | fields, isPending, error, changesApplied, successCount, confirmStatus, the subscription | edit, toggle the confirmation, submit, answer of each call, error, completion, new props, close |
| `appReducer.js`, `devicesReducer.js`, `deviceGroupDropdown.js`, `deviceGroupDelete.js`, `devicesGrid.js` | the device groups, the active one, the rows of its devices, one continuation token, load more | choose, edit, delete a group; refresh; next page; device by id; answers |
| `devices.js`, `columnDialog.js`, `columnMapper.js` | selected columns, the row with its ETag, the dialog's two lists, marks and filters | move, order, apply, save, change of group |

What makes it hard. A subscription is not always dropped when its component is asked for
something else: a job form keeps one per submission, `deviceDetails` forgets those of the
device before, a redux epic cannot be dropped. `isPending` is what keeps a second submission
out, and some forms reset it too early or never look at it. A stream that fails takes the
subscription to its subject along. A reducer that throws ends every epic. Saves carry an ETag
the page may not have the newest of. A call that timed out may still be executed.

What makes it correct. A caller is told of success only when the service did what was asked,
and each attempt takes effect at most once; every call ends. A form's check mark, count and
second try tell the truth. What a panel or list shows is what the service has, of the devices
the page is about. Columns and alerts changed in place are those of the service once their
save was answered. A spinner ends.

Not modelled in it: start-up (`authService.initialize`, the epics of `appReducer.js` that run once in a
fixed order), routes, grids, charts and maps (functions of the store without state others read),
packageJSON, device statistics and the conditions of a device query, the jobs of the maintenance page (fetched beside the
alerts, in the same way), translations, telemetry events of the UI itself.

### Azure Functions, common authentication, diagnostics (not modelled)

`src/src/functions/deployment-sync` keeps deployments in step with the hub and is in the
plan. The other functions turn one message into another. Authentication is a stateless
decision on a token; diagnostics forwards events; the rest is configuration and build files.

## 2. Plan

1. **Tenant manager** (done): `TenantStore`, `TenantRequests`, `AlertingRequests`, `IoTHubMonitor`,
   `TenantOperations`, `AzureResources`, composed by `TenantManager`; instances in `MCTenantManager`; proofs in
   `TenantManagerProofs` and `TenantRecordProofs`.
2. **Web UI** (done): from the bottom up. `HttpClient` is shown to implement `RemoteCall`, what
   a call promises to whoever makes it: an execution at any time, possibly after the caller was told
   of a failure; success only of what was executed. The modules above it take calls in that
   form. `UiLists`, `UiFeeds` and `UiDeviceGrid` are composed in `UiPages`; the forms in `UiForms`, over the
   common part `UiForm`; `UiColumns` and `UiAlerts` in `UiTables`.
3. **Locks over the key-value store**: `KeyValueStore` (documents with ETags), `StorageMutex` and `Seed`
   over it, `StorageWriteLock` with `DeviceProperties`. Abstract specification: a mutex with a lease. Runs: two
   instances, one restart, one time-out. Theorems: at most one holder within the lease; the release writes only what was locked.
4. **Documents shared by requests**: config `Storage`, rules and the conversion, device groups, deployments with
   deployment-sync, users and system admins with the creation of tenants.
5. **Refinement**: an abstract lifecycle of a tenant (unborn, provisioning, ready, gone), with
   `TenantManager` shown to implement it where it does; the stale writes listed below bound what it can promise.
6. **More theorems**: every invariant that a run checks is proved (section 5). Next are the lock lemmas with the modules of step 3.

## 3. The modules and the code

| Module | Code | What it holds |
|---|---|---|
| `TenantStore` | `common/.../TableStorage/TableStorageClient.cs`, `TenantModel.cs`, `TenantOperationModel.cs` | all variables, the table operations, types, `Init` |
| `TenantRequests` | `tenant-manager/WebService/Controllers/TenantController.cs`, `Services/TenantContainer.cs` | create with its compensation, delete, rename |
| `AlertingRequests` | `AlertingContainer.cs`, `StreamAnalyticsHelper.cs` | add, remove, start, stop |
| `IoTHubMonitor` | `Services/Tasks/IoTHubMonitor.cs` | the deployment task |
| `TenantOperations` | `Services/Tasks/TenantOperations.cs` | the operations task, all eight operations |
| `AzureResources` | external | completion of deployments and deletions; the restart of the process |
| `TenantManager` | | `Next`, fairness, the properties, the inductive invariant |
| `MCTenantManager` | | instances for TLC |
| `TenantManagerProofs` | | the theorems and their proofs |
| `TenantRecordProofs` | | the theorems about the records of operations and the IoT Hub |
| `UiServices` | `services/*Service.js` | the operations of the UI's service clients, and which read, write, or take a 404 for nothing |
| `HttpClient` | `utilities/httpClient.js`, `ajaxModels.js`, `services/authService.js` | calls with time-outs, retries and tokens over a lossy network |
| `RemoteCall` | | abstract: what a call promises |
| `HttpClientProofs` | | the invariant of the client, and the proof that it implements `RemoteCall` |
| `UiLists` | `store/utilities.js`, six reducers | lists of the store, epics, reducers that throw |
| `UiFeeds` | `dashboard.js`, `deviceTelemetry.js`, `deviceDetails.js`, `ruleDetails.js` | panels and their streams |
| `UiDeviceGrid` | `appReducer.js`, `devicesReducer.js`, the dropdown and the flyout of device groups, `devices.js`, `devicesGrid.js` | the active device group and the pages of its devices |
| `UiPagesProofs`, `UiDeviceGridProofs` | | proofs about the three parts of `UiPages`: lists and panels in the first; the second also has those of the pages together |
| `FiniteListings` | | lemmas on lists of the elements of finite sets |
| `UiPages` | | `UiLists`, `UiFeeds` and `UiDeviceGrid`, fairness |
| `UiForm` | what the flyouts have in common | state of a form, submissions, `Execute`, subscriptions |
| `UiDeviceForms`, `UiUserForms`, `UiRuleForms`, `UiPackageForms`, `UiShellForms`, `UiMappingForms` | the flyouts | one group of actions for each |
| `UiForms` | | all forms, fairness, the properties |
| `UiFormsProofs` | | the theorems about all forms, and their proofs |
| `UiColumns` | `devices.js`, `columnDialog.js`, `columnMapper.js`, config's `ColumnMappingController` | columns of the devices page and their save |
| `UiAlerts` | `maintenance.js`, `ruleDetails.js` | alerts fetched and changed in place |
| `UiTables` | | `UiColumns` and `UiAlerts` |
| `UiTablesProofs` | | proofs about the alerts |
| `MCHttpClient`, `MCUiPages`, `MCUiForms`, `MCUiTables` | | instances for TLC |

**State.** `rows[t]` is the row of the tenant, reduced to the columns later decisions read:
`deployed` (IsIotHubDeployed) and `named` (SAJobName, of which a tenant has only one possible
value). `recent` are the tenants whose Timestamp is less than an hour old, `etagOk` the
requests whose ETag still fits. `ops[t][o]` is the record of operation `o`. `hub`, `dps`,
`sa`, `adx`, `eventHub`, `org`, `orgId`, `keys`, `collections`, `blobs`, `members` are the
resources; `cached` is the cache of `AppConfigurationClient`. `pc`, `kind`, `target`, `snap`, `failed`
are the requests in flight; `snap` is the row a request read and will write, `failed` the
entries of the deletion record that are false. `mon*` and `loop*` are the local variables of
the two tasks. `condemned` is a history variable: it says which deletions passed the
guard of `DeleteTenantAsync`, and "redeployed" once the monitor has deployed a hub again after such a deletion.

**Actions.** A process takes one step per remote call whose outcome another process can
influence before its next call; neighbouring calls on state nobody else writes are one step.
The labels of `pc` (`c_` create, `d_` delete, `u_` rename, `a_` and `r_` alerting) and of
`monPc` and `loopPc` name the next call. A step that can fail has a disjunct for it, which
takes the handler's way: `Compensate` (create), a `false` entry in the deletion record
(delete), an exception to the client, `SkipItem` (an `ErrorDetailsException` of the hub's
API, swallowed by the monitor), `EndCycle` (any other exception there), `Throw` (the record
stays for the next cycle), and the end of the operations task when its query throws.

**Details kept because they matter.** A null property is left out of a merge, so
`SAJobName = null` never clears the column (`RemoveWrite`). The monitor replaces the row as
it was queried. The ADX and Event Hub deletions keep their record when the resource is not
there, the hub's and the DPS's may. A DPS whose deployment was only begun is not found by
its deletion, and the record goes. A second try at a Grafana organization gets no id and
stores null. A collection key may still be answered from the cache after it was deleted.

**Left out.** Operations that only read. LastUsedTenant, which no other step reads. The cache
of App Config for keys other than the collections'. Tables, mappings and data connections of
a database are one step with it, for each is created only if it is missing. `GET` of alerting
with `createIfNotExists` is an add after one more read. Names of resources built from the first
eight characters of a tenant id are taken to differ between tenants. The description and the wording of
errors, logging, and the status page.

**The web UI.** A callback of rxjs or React runs to its end before another starts, so one
callback is one action, with every `setState` and dispatch in it. What happens between
callbacks is free: the service executes a request at any time after it was sent and
independently of whether its answer comes (`Execute`, `Serve`, `ServeSave`, `ServeChange`),
answers come in any order, the user acts, props change, the component unmounts. A call to
the service is used as `RemoteCall` has it: asked, executed or not, answered or failed; a failed call may
have been executed. Only `HttpClient` has attempts, time-outs and tokens.

A *form* has `view` (isPending, changesApplied, error, confirmStatus, successCount), `input` (which of its
fields are filled in, invalid or switched: only what the conditions of its buttons read), `rows` and
`chosen` (props and the selection in the state), and `tries`, its submissions. A submission has the
calls it wants, in stages (`Subscribe(<<a, b>>, ...)`: b is made of the answer of a), what was
executed, answered and told, and whether anybody still listens. `Tell` gives one answer to
the `next` callback, `Finished` is `complete`, `Failed` is `error`, `Ignored` an answer nobody acts on.
Whether a subscription is dropped on unmount, on a second submission or never is the second
argument of `Subscribe` and the form's own actions, as its code does it.

A *list* is `items` and `entities`, as normalizr makes them, with the reducers' splices by
position; `alive` says that no reducer has thrown yet, since then no epic runs. A *panel*
has a feed: is the subject still subscribed to, and its streams, each with the devices it asks
for and its phase (first call, delay, next call). Several streams at once exist only where the
code has no switchMap. The *grid* has one bag of calls (`request`): those about groups and
those for pages of devices; `cToken` is the variable of the module that all of them share, and `epics` those
that still listen. `Activate` is the redux action with its reducer and `refreshDevices`, whose distinctUntilChanged is
`refreshed`; the answers do everything their epics dispatch in the same step. That a token continues the query it came
from, on a page of one device, is the IoT Hub's part and external; so an answer has at most one row for `insertDevices` to look at. The *columns* are sequences; `model` is the row the page keeps, `server` those of the
service, with a tag for the ETag. *Alerts* map to their status, on the page and at the service.

Details kept because they matter. A 404 is an answer for some operations. The retry handler counts attempts per subscription
for a call, and over the whole life of a stream on the dashboard. `deviceDetails` sets its base state after
it has started the calls for a new device. A column row without an id is created, with one it is updated. `deviceGroups`
works on a copy of the groups with the ETags of the time of the copy. `advanceSearch` takes
back isPending before its query is answered.

Left out: texts, formats and validation rules (a field is valid or not), telemetry events,
rendering without a condition, the contents of messages, metrics and analytics.

## 4. Runs

The first eight are instances of `MCTenantManager`. Requests are issued at most once each; a create takes
a fresh tenant id, all others a tenant some client was given access to.

| Run | Instance | Question | States |
|---|---|---|---|
| `lifecycle` | 1 tenant, 3 requests (create, delete, rename), 1 restart | do the safety properties survive every interleaving of whole requests, the tasks and a restart? | 576 000 |
| `faults` | 1 tenant, 2 requests of any kind but a forced delete, 1 failing call anywhere | ... and one failure at any call? | 642 000 |
| `ade_deletion` | ADX on, create and delete, 1 failing call of a task, fair | do deployment and deletion come to an end, with all resources? | 167 000 |
| `alerting` | a ready tenant, 3 alerting requests, 1 failing call of the operations task, fair | is the job never forgotten, and do its operations end? | 84 000 |
| `two_tenants` | 2 tenants, 2 creates, 1 failing call of the monitor, fair | do tenants of one batch hold each other up, or mix? | 48 000 |
| `deploy_after_delete`, `adx_record`, `collections_report` | small | the findings below | |
| `http_client` | 2 calls of any operation, 1 retry, lost requests and answers, an expiring token, fair | does the client tell the truth, end, and implement `RemoteCall`? | 62 000 |
| `ui_pages` | each of six lists with 2 objects and 2 calls at once; each of four pages with 2 devices, 2 restarts, 1 retry; 2 device groups, of one and two pages of devices, and 3 choices or failures, fair | do lists, panels and the grid show what the service has, of the right devices, and stop waiting? | 223 000 |
| `ui_forms` | each of 32 forms, 2 devices (or users, rules, ...) and a simulated one, 2 submissions, fair | are check mark, count and second try true, and do forms stop waiting? | 401 000 |
| `ui_tables` | 3 columns, 2 groups, 3 saves, 3 steps in the dialog or changes of the group; 2 alerts, 2 fetches, 2 changes | is what is changed in place what the service has? | 1 009 000 |

Why the bounds are enough to be worth running. Every hazard listed in `PROJECT.json` for this
service needs at most three requests (a create, a stale writer, a delete) and one failure or
restart. One tenant suffices for everything but the batch of the monitor, since no step of a
request touches another tenant's state; the batch has a run of its own. A forced
delete is the same code as the compensation of a failed create, which `faults` has at every
point of a create; the theorems cover its own request kind. The constants `Faulty`,
`MaxFaults` and `MaxCrashes` are the only bounds besides the sets, and the theorems below hold for
every value of all of them. Requests are exchanged by symmetry where no liveness is
checked. Deadlock is checked in these runs: the tasks' loops never stop.

For the UI, the hazards need two calls that overlap (a second submission, a stale answer, a
refresh during a change), two objects (one succeeds, one fails), and another device or group to
turn to and back. A third object or call only repeats a pair: a callback looks at one
submission, one row or one stream. The dialog of the columns needs three of them, for an option to be moved over
one that is not marked. The grid needs two groups, one to leave for the other while it is edited or deleted, a second page for
load more to matter, and three choices (MaxChoices, which counts failed calls too): load more on, off and on, or choose, delete and refresh. The theorems on `HttpClient` hold for any calls and retries. Deadlock is not checked: a
user may stop, and the bounds on submissions, asks and saves end a behaviour.

**Fairness.** The two tasks are loops without an exit but the one modelled (`loopPc = "dead"`),
so weak fairness of `MonitorStep` and `LoopStep`; a request that was accepted is run by the
web server, so weak fairness of `RequestStep(r)`; Azure completes what was begun. There is no
fairness for `Issue`, failures, restarts or the passing of the hour. Failures are finite
(`MaxFaults`): the liveness properties say that the system recovers from a failure, not that
it makes progress against an endless outage.

In the UI, the browser runs timers and callbacks, so weak fairness of `ClientStep(c)`: that
`EveryCallEnds` then holds, with nothing asked of the network or the service, is what allows the other modules
weak fairness for the end of a call (`Execute`, `Serve`, `StreamEnds`, some `RequestEnds` of the grid) and for its callback (`Answer`, `Apply`).
There is none for the user's actions, for the renewal of a token, or for delays.

**What they show.** `ReadyTenantIsProvisioned`: no rename, alerting request, failed cycle or
restart makes a tenant ready before it is provisioned, although all of them write old copies
of rows. `EnsuredDeleteTakesDeployedRow`: the ETag of the delete is what saves the guard, for
a stale rename may undeploy the row after it was read. `EnsuredDeleteReleasesHub`: what the
deletion record says about the hub is true, until the monitor deploys a hub for the tenant again (finding 1). `DeployingJobIsRecorded`, `JobDeletionIsCarriedOut`:
the operations task loses no job. `TenantEventuallyReady`, `HubEventuallyGone`, `JobCreationEnds`, `JobDeletionEnds`: the
retries of the tasks come to an end. Two limits are written into the last ones: the task may
have died, and an add and a remove of the job that are recorded together keep the task
deploying and deleting the job by turns.

In the UI: `AnsweredWasApplied`, `AppliedOncePerAttempt` and the refinement say what a caller may
conclude from an answer, and that nothing may be concluded from a failure. `GreenMeansServed`,
`CountIsOfSubmission` and `DeletedOnce` hold for every form with a check mark but the four named, whatever fails
halfway; `OneAtATime` for the forms that test isPending, and not for those that do
not. `FormTypeOK` also bounds the count: by the answers told, the devices of a job, or the reads that are left. `QuietListIsServer`: overlapping deletions do not get each other's row. `EpicsDieOnlyInDoubt`: in ordinary
use no reducer throws. `ActiveGroupIsKnown`: whatever the user's setting names and however changes and deletions
overlap, the active group is one of the store's, so that the epics find its conditions. `GridIsOfActiveGroup`:
once quiet, the grid shows the first pages of that group and the token continues them; it is what one token for
all calls puts at risk. `ShownIsOfPage`: switchMap keeps telemetry of another group out.
`SavedIsServed`, `FreshSaveAccepted` and `ColumnsOfTheirGroup` hold for saves and switches made in turn, a save that follows two answered ones included;
the last says that a group's options have columns of its mapping, or of those saved before for it, and no others.
`ToggleMovesMarked` and `OrderMovesMarked` compare the splices of the dual list box with what it is to do: what is not marked keeps
its order, what is added comes last, in the order of the left box, and up and down lose nothing and move each marked column
by one place, unless the one at that end is marked too. They hold unless the right box is filtered (section 6). `AlertsShownAreServed`: the page's own edit of a status
is what a fetch would have brought. `WaitingEnds` and `PendingEnds`: spinners stop. Each names the
cases in which the code does not keep it; they are listed in section 6.

**Findings.**

1. `deploy_after_delete`: the guard of `DeleteTenantAsync` does not have the effect its comment gives as
   the reason (`TenantContainer.cs:235-237`). A rename that read the row before it was
   deployed recreates it after the delete, and the monitor deploys the hub again.
2. `adx_record`: "Deleting Table Operation Record..." (`TenantOperations.cs:408`) deletes nothing; after one failed deletion of the
   record, the ADXDatabaseDeletion record is retried for ever.
3. `collections_report`: an App Config outage makes a delete report collections as deleted that are
   there (`TenantContainer.cs:348-351`).

## 5. Proofs

**Tenant manager.** `TenantManagerProofs` proves, for every set of tenants and requests, every assignment of
request kinds, both telemetry stores and any number of failures and restarts:

| Theorem | Statement |
|---|---|
| `Invariance` | `Spec => []IInv` |
| `TypeCorrect` | `Spec => []TypeOK` |
| `ReadyProvisioned` | `Spec => []ReadyTenantIsProvisioned` |
| `DeleteTakesDeployed` | `Spec => EnsuredDeleteTakesDeployedRow` |

`TenantRecordProofs` proves of the same specification what the records of operations promise:

| Theorem | Statement |
|---|---|
| `DeployingRecorded` | `Spec => []DeployingJobIsRecorded` |
| `DeletionCarriedOut` | `Spec => JobDeletionIsCarriedOut` |
| `HubReleased` | `Spec => []EnsuredDeleteReleasesHub` |

They assume only the named assumptions on constants in `TenantStore`, which TLC evaluates in
every run.

**The invariant.** `ReadyTenantIsProvisioned` is not inductive: a process may hold a copy of a
row that says "deployed" and write it later, or hold an operation that will take the hub
away. `IInv` adds what makes these harmless:

- `WorkHasTarget`: a process at work has a tenant.
- `RemovalsAreCondemned`: everything that removes a resource (a request past the guard, a
  record, an item of the task's batch, a resource being deleted) is for a tenant whose
  deletion was begun. Without it a provisioned tenant could lose its hub.
- `CopiesAreProvisioned`: a copy of a row that says "deployed" is of a provisioned tenant, so
  writing it back late tells no lie.
- `MonitorProgress`: at each label the monitor has deployed all that comes before it, so the
  row it writes at the end is true.
- `FittingETagIsOfDeployedRow`: an ETag that still fits is of the row that passed the guard;
  `DeleteTakesDeployed` follows from it, with the fact that only `DeleteRow` drops a row.

**The argument.** Each of the service's steps is first summarised by its effect on what `IInv` reads:
`RequestEffect` for requests, `TaskEffect` for the tasks. One lemma shows that such an effect keeps
`IInv` (`RequestKeepsIInv`, `TaskKeepsIInv`), and one lemma per action shows that the action has it.
`LiveKept` states what all steps of the operations task do for tenants that are not condemned:
nothing they need is taken away.

**Records.** A record may be struck off by an item taken up long before, and what the item knows was learned some calls
ago; neither is in the three properties. Only the operations task deletes records, everybody else adds them (`RecordsKept`), so what the
task has taken up is recorded until it strikes it off itself (`TakenIsRecorded`). `JobInv` adds what the task knows of the job at each of
its labels: a creation is struck off when the job has appeared (`CompletedJobIsThere`), a deletion when it is gone or a creation will bring it
back (`DeletedJobIsGone`). `HubInv` does the same for the hub, on both sides: a delete that passed the guard found
the hub active (`EnsuredHubWasActive`), its record stays until the hub is released (`QueuedHubIsReleased`, `DeletedHubIsReleased`), and
the row of a tenant somebody was given is only taken away by its deletion (`GivenTenantHasRow`). Both are inductive together with `IInv`.

**HTTP client.** `HttpClientProofs` proves, for every set of calls and every number of retries:

| Theorem | Statement |
|---|---|
| `HttpInvariance` | `HttpSpec => []HttpInv` |
| `HttpTypeCorrect` | `HttpSpec => []HttpTypeOK` |
| `AnsweredApplied` | `HttpSpec => []AnsweredWasApplied` |
| `OncePerAttempt` | `HttpSpec => []AppliedOncePerAttempt` |
| `HttpRefinement` | `HttpSpec => ImplementsRemoteCall` |

The only assumption is `CallAssumption`: MaxRetries is a natural number. `HttpInv` adds what makes the three inductive: an answer of success that waits to be
received is of an attempt that was executed; attempts on the wire and executed ones are not later than the
present one; a call not yet subscribed to has none. The refinement maps a phase to what the caller sees of it
(`OutcomeOf`), and the attempts executed to the effects of the abstract call. Each
step of the pipe is a stutter, an `End` or an `Answer` (`PipeStepRefines`, `ReceiveRefines`); an
execution is a `TakeEffect` of a sending that had none (`ExecuteRefines`), which is where
`AppliedOncePerAttempt` is needed, and an `Answer` needs `AnsweredWasApplied`.

**Lists and panels.** `UiPagesProofs` proves, for any objects, devices, calls, refreshes and retries:

| Theorem | Statement |
|---|---|
| `ListInvariance` | `ListSpec => []ListInv` |
| `QuietListServed` | `PagesSpec => []QuietListIsServer` |
| `ListEpicsEndInDoubt` | `ListSpec => ListEpicsDieOnlyInDoubt` |
| `FeedInvariance` | `FeedSpec => []FeedInv` |
| `ShownOfPage` | `PagesSpec => []ShownIsOfPage` |

`ListsAssumption` says that there are finitely many objects and that the lists are among the six of the code. `QuietListIsServer` speaks of
moments without a call in flight. `ListInv` says, while the list is not in doubt, how far it and the service are apart at any other
moment: by the calls that were executed and not answered yet, which are one call, or deletions of different objects (`CallsInTurn`).
The reducers cut a list at positions; `FiniteListings` has the facts about lists without repetition that this needs. `FeedInv` adds to
`ShownIsOfPage` that a stream still running asks for the devices of the page, which is what switchMap is for, and that a
panel whose subject nobody listens to has no stream.

**Device groups and the grid.** `UiDeviceGridProofs` proves, for any groups, conditions and devices and any number
of choices (`MaxChoices` is not bounded):

| Theorem | Statement |
|---|---|
| `GridInvariance` | `GridSpec => []GridInv` |
| `ActiveGroupKnown`, `PagesActiveGroupKnown` | `GridSpec => []ActiveGroupIsKnown`, and the same of `PagesSpec` |
| `RowsInvariance` | `GridSpec => []RowsInv` |
| `GridRowsAreOfGroup` | `PagesSpec => []GridIsOfActiveGroup` |
| `PagesTyped` | `PagesSpec => []PagesTypeOK` |
| `EpicsEndOnlyInDoubt` | `PagesSpec => EpicsDieOnlyInDoubt` |

`GridAssumption` is what is assumed: devices are finitely many, groups are numbered in the order of their names, and any of them have a first one. By itself
`ActiveGroupIsKnown` is not kept by the answer of a deletion, which takes its group away without asking whether it is active.
`GridInv` adds that no deletion of the active group is in flight (`ActiveGroupStays`), and that before the
first answer, which replaces all groups, there is one call for it and none about a group (`GroupsComeFirst`), which is why the calls are counted.
Making a group active keeps this by `ActivateKeeps`; all steps that are about devices only are one lemma, `ListStepKeeps`.
`GridIsOfActiveGroup` says nothing of the time while calls are in flight. `RowsInv` does: a list that is not in doubt has at most one
call, which is a fetch of the active group or for the page after those shown (`SureInv`); what refreshDevices saw last is active, so
that a group it does not fetch is the one that is shown (`RefreshedIsActive`); and an epic that no longer listens has left its trace
in `gridDoubt` or `crossed` (`EpicsInv`).

**Alerts.** `UiTablesProofs` proves, for any alerts and any number of fetches and changes, `AlertInvariance`
(`TablesSpec => []AlertInv`) and `AlertsServed` (`TablesSpec => []AlertsShownAreServed`). They assume that the bound of the
fetches is a natural number (`AlertsAssumption`). `AlertInv` says which alerts are up to
date while a change or a fetch is in flight, and that calls do not overlap unless `calm` says so.

**Columns.** The same module proves, for any columns, any finite set of groups and any number of saves:

| Theorem | Statement |
|---|---|
| `ColumnsInvariance` | `TablesSpec => []ColumnsInv` |
| `SavedServed` | `TablesSpec => []SavedIsServed` |
| `FreshAccepted` | `TablesSpec => []FreshSaveAccepted` |
| `ColumnsSanity` | `TablesSpec => []ColumnsSane` |
| `ColumnsGrouped` | `TablesSpec => []ColumnsOfTheirGroup` |
| `OrderMoves` | `TablesSpec => []OrderMovesMarked` |
| `ToggleMoves` | `TablesSpec => []ToggleMovesMarked` |
| `TablesTyped` | `TablesSpec => []TablesTypeOK`, if `ColumnsAreDistinct` |

`ColumnsAssumption` says that columns and groups are finitely many and that groups are not numbers of saves (both are keys of rows).
`SavedIsServed` and `FreshSaveAccepted` speak of answered saves. `ColumnsInv` says, while saves are made in turn and none fails, what holds in between: only the last save is in flight
(`SavesInOrder`); it is for a group without a row or for a row there is, with its tag if the last one was just answered
(`SavesAreMeant`); the row of the page is in the store or is that answer (`ModelIsKnown`), which is why a save follows the
one in whose place it came; and store and service have the same keys but for a creation not answered yet (`RowsAreStored`).

`ColumnsSane` is about the selections themselves, whether or not saves overlap. It goes through every place that keeps one (page, dialog,
store, service, the calls in flight), says of which group it is while that is sure, and that a tag is of a save that was made. `ColumnsOfTheirGroup`
alone is not inductive: it says nothing of the dialog and of the calls, out of which the options of a group come. The two properties of
the list box are proved of lists of any length. `MovedUp` and `MovedDown` are recursive functions, one pass of the code's
loop after the other; `UpLoop` and `DownLoop` say what holds after each pass (`LoopsOf` and `InductionOverNat` of
`FiniteListings`), and `MovedUpIs`, `MovedDownIs`, `AvailableIs` and `ToggledIs` what comes of them.
`ColumnsAreDistinct`, which `TablesTyped` needs to say that no column is chosen twice, is that no column is twice among the default columns and those of a
group. The form of a group's mapping checks that (`columnmapper.js:335-367`), the form of the default mapping does not
look at the groups; the other theorems do without it.

**Forms.** `UiFormsProofs` proves, for any set of forms, any finite set of rows and any number of submissions:

| Theorem | Statement |
|---|---|
| `GreenServed` | `FormSpec => []GreenMeansServed` |
| `AtMostOne` | `FormSpec => []OneAtATime` |
| `CountsTheSuccess` | `FormSpec => []CountIsOfSubmission` |
| `NoSecondDeletion` | `FormSpec => []DeletedOnce` |
| `FormTyped` | `FormSpec => []FormTypeOK` |

They assume `FormAssumption` (the grid behind a form has finitely many rows) and `WatchAssumption` (retries are natural numbers).
None of the five is inductive. A check mark does not say by itself that a submission completed, nor a complete submission that
the service executed all of it. `FormInv` does: a request is in one place, asked, answered, failed, told or still to come (`SubmissionOK`); an open
submission has each of its requests somewhere, a complete one was told of all (`NothingLost`; only deleteModal, whose epics
go on after a failure, loses some, and it closes instead of showing the mark); and a check mark comes with a complete submission
(`GreenIsCompleted`). Every action is shown to be an `Effect` or a switch of forms, and each of its changes of a submission one of
seven (`Moves`), for which `MoveIsSound` is proved once. `OneInv` adds that a guarded form that listens is waiting, hence its button disabled.
`CountInv` says what the count is while a submission is under way (the answers told) and before one (zero), which is why the
reset of `successCount` is needed. `OnceInv` says that submissions are numbered in their order, that only the last is listened to, and that
rows whose deletion was told are no longer chosen. `FormTyped` rests on `CountBound`: a step that adds one to the count takes an answer (`NextCounts`, `TellGrows`).

**What the proofs corrected.** Several properties had been stated stronger than they are, and every run passed, for the counterexamples
were out of its bounds. `EnsuredDeleteReleasesHub` fails with three requests unless it ends when the monitor
deploys a hub again (finding 1). `FreshSaveAccepted` fails at a third save unless the saves are made in turn. The bound of the
count in `FormTypeOK` was false without rows. Two arms of a CASE of the reducers overlapped, which leaves the choice open where
the code has an order. And `ColumnsOfTheirGroup` asked for
columns of the mapping only, which those of options saved before need not be. Model and properties were changed accordingly.

**Only model-checked.** The liveness properties, which need fairness and ENABLED: `EveryCallEnds`, `WaitingEnds`, `PendingEnds`,
`TenantEventuallyReady`, `HubEventuallyGone`, `JobCreationEnds` and `JobDeletionEnds`. Every invariant and every other property of
a passing run is stated by a theorem.
The proof system does not expand the community modules' FoldLeft, SelectSeq and SortSeq; where a
list matters to a proof, the modules say what it is (`InOrder`, `Keep`) or compute it by a recursive function.

## 6. Known limits of the code that no property covers

A restart in the middle of a delete leaves the tenant without a row and with resources no
record asks for; nothing resumes the delete. A row older than an hour is not deployed any
more until something writes it. The monitor's replace drops a SAJobName merged meanwhile. A
DPS or job whose deployment was begun when its deletion ran appears afterwards. A retry of
the Grafana operation loses the organization's id. The operations task ends for good when its
query throws. All of these are behaviours of the model; the properties state what holds in
spite of them.

In the web UI, in the same sense:

- *Forms.* ruleStatus shows its check mark at the first of several answers. The job forms take
  back isPending when the selection changes, so that a second job can be submitted. systemAdminNew, systemAdminDelete,
  packageNew, the disable button of deleteRule and createTenant are not guarded by isPending. A submission of
  ruleEditor is dropped when the device group is changed, and a failed query of its fields leaves it pending.
  deploymentStatus has no error callback. Deleting the only device group throws after isPending was set. deviceGroups
  saves with the ETags of its copy and swallows the errors. The logo flyout and deleteModal close at the first of two answers.
- *Calls.* A form that was told of a failure may find its object created: nothing in the UI
  looks before the user tries again.
- *Panels.* After an error of a stream no refresh has an effect until the page is left. The calls of deviceDetails for the
  device before overwrite those of the present one. Analytics and alerts of a group without devices are those of all devices.
- *Lists.* A reducer that throws (a package inserted before the list was fetched) ends all epics of the UI.
- *Grid.* Load more turned on, off and on during one call, or a device loaded by id that a page then repeats, makes
  insertDevices throw and ends all epics. The refresh button before the groups are there, or once the active one is unknown,
  ends the fetch epic alone (`devicesReducer.js:56`): the list is pending until the page is loaded again. A group whose deletion is under way can
  become active and stays so. Late pages of a group that was left are merged into the new one's. An edit of the active group fetches nothing. The pending
  flag of a device fetched by id into the grid is never taken back.
- *Columns.* Two saves in flight at once, or one before the options were fetched, create two rows or lose an update;
  the conflict is swallowed. A dialog opened before a change of the group is saved for the group after it. Indexes of options are
  given after filtering (`columnMapper.js:698`).
- *Alerts.* A failed update leaves the indicator; setAlertStatus throws for an alert a refresh has taken away,
  and a fetch that read before an update brings back the old status.
