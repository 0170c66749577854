# A formal model of xenon-ext

xenon-ext adds three things to VMware Xenon: a finite state machine for stateful
services with a monitoring page (`xenon-fsm`), JAX-RS style contracts for Xenon services and clients
(`jaxrs-support`), and feature flags built on the latter
(`jaxrs-support/.../util/feature`). This directory holds TLA+ models of their
behaviour, the TLC configurations that check them on small instances, and
proofs, checked by TLAPS, that the main properties hold for all instances.

`PROJECT.json` records for every definition the source lines it stands for, for
every run what it checks, for every property a plausible bug in a mapped
definition that the run finds, the hazards of the code and the findings.

Paths below are relative to `src/`; `fsm/` stands for
`xenon-fsm/src/main/java/com/tteky/xenonext/fsm/` and `jaxrs/`, `feature/` for
`jaxrs-support/src/main/java/com/tteky/xenonext/jaxrs/` and
`.../xenonext/util/feature/`, `ui/` for
`xenon-fsm/src/main/resources/ui/com/tteky/xenonext/fsm/stats/FSMUIService/`.

## 1. Inventory

### FSM service: `fsm/FSMService.java`, `fsm/FSMServiceDoc.java`

*State*: a document in the Xenon index with `currentState`, `lastTrigger`,
`expireFromState`; the operation in flight.
*Operations*: `handleStart` (default state, initial self-patch), `handleCreate`
(registers the service with the stats service), `handlePatch` (checks the body,
fires the trigger, lets an exit or entry action complete the operation),
`selfPatch`.
*Interacts with*: the platform, which gives the document to one update at a
time until `complete()` or `fail()`; the state machine, built once in the
constructor (`:37`), to which each patch gives its scheduler (`:119`) and the
access to the document's state; the expiry scheduler; itself, by self-patches.
*Hard*: the handler goes on after it completed the operation, so its tail runs
beside the handler of the next patch; actions may throw before or after the
completion; `handleStart` runs again, on the stored document, at every restart;
nothing but the user's actions ever completes an operation.
*Correct if*: consecutive versions are joined by configured edges; a patch that
names a state takes effect only in that state; answers agree with what was
stored; each patch is answered.

### State machine core: `fsm/core/*.java`

*State*: an immutable configuration (behaviours, entry, exit and expiry of each
state) and a current state read and written through two callbacks.
*Operations*: the fluent builder; `validateTrigger`, `transit`, `exit`,
`enter`; two dot graphs, of a configuration and of the versions of a document.
*Hard*: the behaviour of a trigger is looked up twice and guards may answer
differently the second time; ambiguity throws; an unconfigured destination is
found only after the exit actions ran.

### Expiry scheduler: `fsm/ExpiryScheduler.java`

*State*: tasks in the scheduled executor of the host.
*Operations*: arms one task for each expiry trigger of the state that is
entered; a task GETs the document and patches the trigger with the name of the
state it was armed in.
*Hard*: tasks are never cancelled and not durable; they race patches; the write
of `expireFromState` races the storing of the document.
*Correct if*: an expiring state that is not left gets its trigger, and a timer
never expires another state.

### FSM stats registry: `fsm/stats/FSMStatsServiceImpl.java`, `handleCreate` of `fsm/FSMService.java`

*State*: on each host a `HashMap` from the links of FSM services to graphs.
*Operations*: `registerFSMService`, called by `handleCreate` and by hosts;
`allServices`, `svcGraphson`, `docGraphson`, asked by the page.
*Hard*: requests of many threads put into the map and read it, unsynchronized;
the map is lost with the process and `handleCreate` does not run again for the
documents there are; the call comes after the POST was answered and may throw;
the link that is registered is made from the document's by taking out its id,
read as a regular expression, wherever it matches: also where it is the
beginning of a longer segment (`/fsm/task/t` registers `/fsmask`).
*Correct if*: a service of which a document was created is listed, and stays so,
and what is listed can be looked up.

### FSM monitoring page: `ui/js/app.js`, `ui/index.html`

*State*: the drop-down list of services and its value, the graph of a service,
the list of documents, the graph of a document, all in the page; the requests
under way.
*Operations*: loading the page, selecting a service (two requests), clicking a
document (one), the callbacks, the error function common to all of them.
*Hard*: callbacks look at no state of the page: answers that come late, out of
order, or only one of two, are shown all the same; what is not replaced stays.
*Correct if*: what is shown belongs together and to what is selected, and a
selection leads to a graph or to an alert.

### FSM UI hosting: `fsm/stats/FSMUIService.java`, `fsm/FSMServices.java`, `ui/js/viz.js`

Serves the files of the page and names the services to start; `viz.js` is a
copy of a library that draws dot graphs.

### Feature documents, service and cache: `feature/*.java`

*State*: one document per feature, linked by `group::name`; on each host a
static map from links to the last notification.
*Operations*: `newFeature`, `enableFeature`, `disableFeature`, deletion;
`start` of the cache (continuous query task, then subscription with replay),
`handleFeatureUpdate`, `findFeature`, `isFeatureEnabled`.
*Hard*: notifications race look-ups and each other and are not compared by
version; documents change between the query and the subscription; deletion; a
setup that fails is not retried.
*Correct if*: the cache holds only what a document was, misses no last version
once no notification is under way, and what it tells changes by notifications
only.

### JAX-RS client: `jaxrs/client/*.java`

*State*: the future of each call. *Operations*: `invoke` of the proxy (builds
the operation and its path, runs interceptors, sends it), its completion
(interceptors, the error handler, decoding).
*Hard*: anything on the way may throw; arguments are put into the path by
`replaceAll`, as replacement strings and one after the other; a synchronous call
waits without a timeout; the sender may give up on an operation the server still
works on.
*Correct if*: each call returns, and with a value only if the method succeeded.

### JAX-RS service: `jaxrs/service/*.java`, `jaxrs/reflect/*.java`

*State*: the processing chain, built by the first request, with the routes to
the methods; the fields that `initializeInstance` sets. *Operations*:
`getOperationProcessingChain`, the choice of a route, `accept`: find inputs,
invoke the method, bind and complete.
*Hard*: the first requests come on several threads, and the chain is published
before `initializeInstance` runs, which may throw; methods are synchronous, return a future or
take the operation and answer it themselves, then perhaps throw; futures fail in
several ways; callbacks may throw too; routes are tried in an order nobody
chose; path parameters are found by counting slashes, with different offsets
for templates with and without a leading one.
*Correct if*: every operation reaches the method that was called, with its
arguments, and is answered with what the method did.

### The rest

`client/StatefulServiceContract`, `client/QueryContract`,
`client/ServiceClientUtil`, `util/HttpError*` are interfaces and value classes.

## 2. Modules

| module | role | code |
|---|---|---|
| `StateMachineConfig` | configurations as data, look-up of behaviours, the two graphs | `fsm/core/` |
| `StateConfiguration` | the builder, used to write configurations for TLC as a service writes them | `fsm/core/StateConfiguration.java` |
| `FSMService` | one document: creation, patches, handlers, timers, crashes | `fsm/FSMService.java`, `fsm/core/StateMachine.java`, `fsm/ExpiryScheduler.java` |
| `AbstractStateMachine` | what a document promises its clients | - |
| `FSMServiceProofs` | safety theorems of `FSMService` | - |
| `FSMHandlerProofs` | what handlers leave behind, for any actions: the slot, overlap, the record of an expiry and its timer | - |
| `FSMHistoryProofs` | who made the versions: what the builder makes, re-entry, the initial transition, the state and the stay a timer ends | - |
| `FSMServiceRefinement` | `FSMService` implements `AbstractStateMachine` | - |
| `FSMStats` | the registry of a host: registrations, crashes, answers | `fsm/FSMService.java` (`handleCreate`), `fsm/stats/FSMStatsServiceImpl.java` |
| `FSMMonitor` | the page, composed with `FSMStats` | `ui/js/app.js` |
| `FSMMonitorProofs` | safety theorems of the two | - |
| `Features` | feature documents and a cache | `feature/` |
| `FeatureFlags` | what a host promises those who ask it for a feature | - |
| `FeaturesProofs` | safety theorems of `Features`; it implements `FeatureFlags` | - |
| `JaxRsCall` | calls from proxy to method and back | `jaxrs/client/`, `jaxrs/service/` |
| `RemoteCall` | what a call promises its caller | - |
| `JaxRsCallProofs` | safety theorems of `JaxRsCall`; it implements `RemoteCall` | - |
| `Routing` | the path of a call: filling a template, choosing a method, taking the arguments out | `jaxrs/reflect/MethodInfoBuilder.java`, `jaxrs/client/ProxyHandler.java`, `jaxrs/service/` |
| `RoutingProofs` | safety theorems of `Routing` | - |
| `MCFSMService`, `MCFSMMonitor`, `MCFeatures`, `MCJaxRsCall`, `MCRouting` | instances for TLC | tests, READMEs |

A definition whose comment starts with "Faulty variant of" is not part of any
specification: it is a plausible bug that a property must find.

### FSMService

`op` holds the patches, whoever sends them. `pc` is how far the thread that
runs the handler has come (`queued`, `validate`, `transit`, `exit`, `entry`,
`done`, or `failed`), `answer` what became of the operation (`completed`,
`stored`, `ok`, or `error`, `lost`). The two advance separately: that is how a
handler runs on after `complete()`. `busy` is the patch that holds the update
slot, `index` the versions of the document, `timers` the armed expiry tasks. A task
whose GET failed stays in `timers` with the mark `lost`: it does nothing more, and
the mark tells why its trigger does not come. The calls of the builder are those
of `StateConfiguration`; a behaviour that leads back to its own state and was not
permitted as re-entry throws (`IdentityTransition`), which ends the constructor of
the service, so that the representation stays as the calls before left it.

| action | code |
|---|---|
| `Create` | POST through `handleStart` with `validateStartPost` |
| `Restart`, `RestartRejected`, `Crash` | `handleStart` on the stored document; loss of memory |
| `RejectPatch`, `BeginPatch` | `handlePatch`, `validatePatch` |
| `ValidateTrigger`, `RefuseTrigger` | `StateMachine.validateTrigger` |
| `Transit`, `TransitFails` | `StateMachine.transit`, `statePopulator` |
| `ExitAction`, `EntryAction` | one action of `exit` and `enter`; it works, completes, or throws |
| `ScheduleExpiry`, `DanglingDestination`, `Finish` | the destination's timers, a destination nobody configured, the return of `fireTrigger` |
| `Store`, `Reply` | the platform's part of `complete()` |
| `ExpiryPatch`, `ExpiryLost` | a task of `ExpiryScheduler` |
| `ClientPatch`, `FlipGuard` | the environment |

### Features

`index` holds the versions of each document, `cache` the static map, `phase`
how far `start` has come, `inflight` the notifications under way. Documents are
updated in one step (Xenon serializes the updates of a document, and the
handlers of `FeatureDao` complete at their end). Groups and names are sequences
of tokens so that the links `formId` makes are not the identity.

`handleFeatureUpdate` compares no versions, and notifications are handled in any
order. Two history variables say what came of that: `heard` has the versions whose
notification was handled since the host started, `overtaken` the documents of which
the last notification handled was older than one handled before.

`FeatureFlags` has of each feature what it has been, what the host tells of it,
with its place in that history, and what it has heard of; `Told` maps the cache to
the second. An empty entry means that the host never heard of the feature or that
it heard of its deletion: `heard` tells which.

### JaxRsCall

`call` holds for each call what the caller has (`waiting`, `value`, `error`, or
a `forgotten` future), how far the server's thread has come (`pc`), what the
method did (`method`) and how the operation was `answer`ed; `chain` and `ready`
are the two fields of the service that its first requests race for. The chain is
set before `initializeInstance` runs, and if that throws (`ChainThrows`, `pc` is
`aborted`) it stays set: later requests go through it.

`RemoteCall` leaves the threads, futures and the chain out: of a call it has
whether its method runs or ended, the answer to the operation, and what the
caller was told. A method runs at most once and only while nobody answered, the
first answer stays, success comes only after the end of a method, and the caller
is handed a value only after a success (or, with `Masked`, by an error handler
that makes values of failures). `Seen` maps the calls of `JaxRsCall` to these.

### FSMStats and FSMMonitor

Links are sequences of pieces of text, "/" one of them, because the two places
that make the link of a service from that of a document disagree: `docGraphson`
cuts it at the last slash (`Factory`), `handleCreate` cuts "/" and the id, read as a
regular expression, wherever it matches (`Cut`, `svcUri`), also inside a longer
segment. Of regular expressions "." is modelled; other metacharacters only so far
as an id that is no expression makes the registration fail. `create` is how far
`handleCreate` has come for each document, `fsmSvcs` the keys of the map, `seen` those
a put found when it began; `overlapped` is history: the documents whose put ran
beside the put of another key.

| action | code |
|---|---|
| `HandleCreate`, `BeginPut`, `EndPut`, `RegistrationFails` | `FSMService.handleCreate`, `registerFSMService` |
| `DeleteDocument` | DELETE, the platform's; the map is not told |
| `HostCrash`, `HostStart` | loss of the map; a host registers its `Manual` services when it starts |
| `Load`, `ListServices` | `app.js`: the ready callback and its request |
| `ChangeSelection`, `ShowService`, `ListDocuments` | the change handler of `#svcSelect` and its two requests |
| `ClickDocument`, `ShowDocument` | the click handler of a document and its request |
| `Serve` | the answer of the host (`allServices`, `svcGraphson`, `docGraphson`, the factory's GET), or a failure on the way |
| `Alerted` | the error function of `ajaxSetup` |

`requests` holds the requests of the page until their callback ran. A callback
handles one answer, whichever comes first. What
callbacks show they do not compare with the selection, and so the model does not
either. `overtaken` is history: the kinds of request (graph, documents) whose
answer for the selected service was handled before that for an earlier one. `alert` remembers the last alert since a service was selected.

### Routing

One call at a time: `BuildOperation` fills the template of a method with
arguments, `Route` takes the first registered route whose matcher accepts the
path, `FindMethodInputs` takes the segments at the index of each parameter plus
`resourcePathOffset`. A path is a sequence of segments and a segment one of pieces
of text, so the offset of a template with a leading slash (whose first segment is
empty) is a matter of arithmetic, as in the code.

The client calls `replaceAll` for one parameter after the other, in the order of
the signature (`Order`), and the argument is the replacement string: `$0` puts the
parameter's own name in braces back, any other `$` and a backslash at the end throw
(`Throws`, phase `thrown`), other backslashes are dropped (`Appended`), and the name
of a parameter that comes later is replaced in its turn (`Filled`). A null argument
is skipped and its name stays in the path. An argument may contain slashes: it is
then several segments, because the client does not encode it. A template that names
a parameter twice is filled in both places, and the method gets the segment of the
last. Left out: a name in braces as part of a segment, a second 0 after `$0`, and
arguments with segments that are empty or only backslashes (`split` drops a trailing
empty segment).

### What is assumed of Xenon, Java and the browser

Xenon is not part of the repository. The models assume of it:

- updates of a document are serial: the slot is taken when a PATCH handler
  starts and freed by the reply, which follows the storing of the new version;
- the first `complete()` or `fail()` of an operation decides, later ones have no
  effect; the completion nested by the logging of operations does not change it;
- an exception that leaves a handler fails the operation;
- any waiting patch may be the next (`BeginPatch`): senders are on many hosts;
- `handleStart` runs at creation and at each restart, `handleCreate` only at
  creation; a factory refuses a link that is in use, or was deleted;
- a service never fails an update by itself because its handler takes too long
  (the sender may: `GiveUp`, with `TimesOut`);
- a continuous query replays the documents there are when it is subscribed to
  and reports every later version, each once; the notifications of one document
  come in any order.

Of `HashMap`: a put of a key that is there replaces its value; two puts of new
keys at the same time may lose either of them; a read while a put adds a key
yields what is there or throws. Of the browser and jQuery: callbacks run one at a
time; answers come in any order; a request that times out has
status 0, so the branch of `app.js` for the error `timeout` is never reached and
the page says "You are offline" instead.

## 3. Runs

Deadlock is checked in `Feature`. In the other runs the system may stop: the
clients sent all their patches, every call returned, the user clicked as often
as the bound allows.

| run | instance | shows |
|---|---|---|
| `FSMPhone` | `PhoneService` of the tests, whose exit actions complete patches: 3 patches, 2 of them clients', 1 crash, GETs may fail | versions follow the configured graph; a document in an expiring state says so unless an exit action completed the patch that brought it there; the abstract specification is implemented |
| `FSMSample` | the sample of `xenon-fsm/README.md` with two guards that change at any time, overlapping behaviours, an unconfigured destination, actions that throw before and after completion, a `validateStartPost` that refuses a restart, creation in an expiring state; 3 patches, 1 crash, GETs may fail | answers agree with the index; a slot that is kept, transitions whose actions overlap and an expiry that is not armed each have one of the reasons named |
| `FSMTask` | two expiring states that take the same trigger, re-entry, completion in the last entry action; 4 patches, 1 of them a client's, no crash | a late timer ends only a stay in the state it was armed in, though the state the document is in would take its trigger; no timer is missing; every patch is answered and an expiring state is left |
| `Monitor` | 2 services, 3 documents of which 2 are created, one with an id that is the beginning of its service's name; one service is also registered by the host; 1 loss (a crash or a deletion), 1 load, 2 clicks, answers in any order | a service with a document is listed unless a put of another ran beside or the id matches elsewhere; the list is of one service; a page at rest shows what is selected unless answers overtook each other; what is offered has graphs; a selection leads to a graph or an alert |
| `Feature` | 2 features, 3 versions each and 5 together, 1 crash, setup may fail, notifications in any order | the cache holds real versions; when quiet it has heard of every last version and agrees with it unless an older one was handled later; every version reaches it or is overtaken; what it tells of a feature is the feature's history (`FeatureFlags`) |
| `Call` | 2 calls, every kind of method, every end of a future, timeouts, interceptors and an `initializeInstance` that throw, error handlers that lose the future | answers match methods, values mean success, unanswered operations have one of the known reasons, an instance that is not initialized is being so or threw, every call returns but for the named exceptions; callers see a call that runs at most once (`RemoteCall`) |
| `Routing` | 6 templates in every order of registration; arguments that equal a literal of another template, contain slashes, `$0`, `$1` or a backslash, are the name of another parameter, or null | a call with plain arguments reaches its method with them unless another template accepts its path; no part of a path is lost if the template names each parameter once |

Why the bounds are enough: three patches are the smallest number for which a
handler's tail overlaps two later patches of different origins (initial, client,
expiry). In `FSMPhone` exit actions complete before the scheduler writes, in `FSMTask`
nothing follows the completion, in `FSMSample` actions run, and throw, on both sides
of it; the properties that depend on this are checked where the case they speak of
occurs. A fourth patch is needed in `FSMTask` to leave `Waiting` for `Stopping` while
its timer runs, and in `FSMStaleTimer` to come back before it runs out. One crash is
followed by a restart with anything stored; two crashes add only longer histories.
Three versions make a creation, an update and a deletion, the shortest history in
which a replayed document, a notification and a deletion can be out of step; two
features are needed only to see that entries do not mix, and `MaxUpdates` leaves out
only the case that both have all three. Two calls race for the chain of a new
instance; the third, which finds the chain while the others build it, is in
`CallUnanswered` and in the theorems. In `Monitor` two clicks select a service and
then, before or after its answers came, another or a document of the list; two
documents created suffice for puts of one service or of two that overlap, and one
loss, a crash or a deletion, for lists that are out of date (`MaxDocuments`,
`MaxLosses`). What fails besides is the host's answer (500 beside a put, 404 for what
is no service) or the host itself; `Failures`, further errors of the network, is
empty because they end in the same alerts, and the theorems are about any. The
templates of `Routing` differ in a literal, in length, or, for some arguments, not at
all, with and without a leading slash; one has no segments, one names a parameter
twice. The theorems below have none of these bounds.

Five more runs check what a document, a comment or a test of the repository
says and what the code does not do. TLC finds each of these violated:

| run | what is said | what the code does |
|---|---|---|
| `FSMStaleTimer` | the trigger comes after the configured interval | a timer is not cancelled when its state is left; it ends a later stay in the same state early |
| `FSMLostTimer` | on expiry, self patch this trigger | `handleStart` arms no timer for a stored document that rests in an expiring state when the host restarts |
| `FSMInitialAgain` | the initial transition happens when a document is created | it happens again at each restart in the initial state |
| `CallUnanswered` | complete or fail in all scenarios | a future that fails with an empty `CompletionException`, or yields what cannot be a body, leaves the operation unanswered |
| `MonitorStale` | "Select a service to view the configured state machines" (`ui/index.html:36`) | of two quick selections the answers may overtake each other; the graph of the service selected first stays on the page (`ui/js/app.js:79`) |

Some more a reader of the models should know. `handleStart` arms no timer either
for a document that is created in an expiring state: that is one of the four reasons
of `ExpiryMissingForAReason`. The cache may keep an old version for good, because
`handleFeatureUpdate` compares no versions (`feature/FeaturesCache.java:154`): what
`CacheUpToDate` promises in any order of notifications is that none is missed, and
it excepts, by the name `overtaken`, a document of which an older version was
handled last. Whether entry actions run before or after the completion, or an
operation is completed at all, is decided by the actions a service registers:
`PhoneService` has a path with no completing action (`HungUp` while `Ringing`), after which the
document accepts no more patches. `SlotHeldForAReason` states, and
`SlotHeldForAReasonCorrect` proves, that this is the only way to get there.

Of the registry and its page:

- `fsm/FSMService.java:56` makes the link to register with `replaceAll` of "/" and
  the id: for a document whose id matches elsewhere in its link, in `Monitor` the
  document `t` of `/fsm/task`, a link that is not the service's is registered
  (`/fsmask`), the page offers it, and its documents cannot be had (404).
  `xenon-fsm/README.md:102` says that one created instance makes the service show;
  `ServiceIsListed` names this exception and the other, a put of another service
  that ran beside.
- After a restart no service is listed until a document of it is created anew;
  what the page still offers leads to an alert.
- `app.js:78` assigns to `.html` of a jQuery object, which clears nothing; an
  empty answer to the request for documents leaves the list as it was, with an
  alert. The services are asked for once per load of the page.
- A click on a document of the old list, before the new one comes, draws a graph
  beside a list that does not have it.

Of the services: the chain is published before `initializeInstance` ran
(`jaxrs/service/JaxRsBridgeStatelessService.java:31`), so a request that comes
while another builds it may find fields unset, and if `initializeInstance` throws
so does every later one; `ChainMeansReady` says that there is no third way. And of two templates that accept one path the one that
reflection happened to give first takes it.

## 4. Fairness

`FSMService`: weak fairness of the threads that run handlers and store and
answer patches, taken together (some thread makes progress while there is
something to do), and of the scheduled executor. None for clients, guards,
crashes or restarts. Since a bounded number of patches is sent, progress of the
whole is progress of each.

`Features`: weak fairness of the two completions of `start` and of the handling
of notifications. None for updates, look-ups, crashes or the call of `start`;
`CacheCatchesUp` therefore speaks of hosts whose setup was started, and excepts
those where it failed, and documents of which an older version was handled last.

`JaxRsCall`: weak fairness of each call's thread on the server, of the
completion at the caller, and of the method keeping its part (a future is
completed, an operation handed to a method is answered). The last is the
contract of methods, and `EveryCallReturns` is what follows from it.

`FSMMonitor`: requests are answered or fail (the browser ends a request whose
connection is lost), and the browser calls back. None for the user, the creation
of documents, crashes or starts of the host. `SelectionIsShown` needs no more,
because the failure of a request is an alert; it excepts selections whose answer
was overtaken.

## 5. Proofs

The theorems hold for every configuration, every number of patches, clients'
inputs and crashes, every set of features and calls. Assumptions on constants
are named in the modules that declare them (`ConfigAssumption`,
`InputAssumption`, `BoundAssumption`, `NoneAssumption`, `FeatureAssumption`,
`CallAssumption`, `StatsAssumption`, `MonitorAssumption`, `RoutingAssumption`); TLC evaluates them on its instances.

**`FSMServiceProofs`**: `TypeCorrect`, `DocGraphCorrect`,
`AnswersMatchIndexCorrect`. None of these is inductive. The version `Store`
appends takes its state from a transition that was chosen many steps earlier, so
`OpInv` says of each patch whose version is still to be made that it holds the
slot and that the state it read is the one the document still has, and of each
patch whose destination is decided that the transition is configured. With it
`IndexInv` says for every version after the first who made it, from what, and
that it was made once. One lemma for each action; those that change one patch
and leave the index alone share `LocalStep`; those that fail a patch share
`FailInv`.

**`FSMHandlerProofs`**: four theorems for every configuration, with crashes, failed
GETs and actions that throw. They name what the code leaves to the actions of a
service, an action that completes the patch before others run or none that does,
as the only reasons of what goes wrong.

- `SlotHeldForAReasonCorrect`: a handler that returned says nothing of the actions it
  ran, so `SlotInv` carries along for each patch that no action completed that
  those that have run, of the exit list and then of the entry list, complete
  nothing (`PathInv`), and says in which steps a patch may hold the slot (`MayHold`).
- `HandlersOverlapForAReasonCorrect`: conversely `WaysInv` says of each patch that is
  completed while it may still act which of the actions that ran did it. Of two
  patches that act one does not hold the slot, so it was answered.
- `ExpiryIsRecordedCorrect`: `VersionInv` ties each version to the patch that made it;
  if no exit action completed that, the scheduler wrote before the version was
  stored, and nothing writes in between (`RecordedInv`).
- `ExpiryMissingForAReasonCorrect`: the timers of each patch past the scheduler are
  armed, lost their GET, or have become patches, which remain (`PendingInv`); a patch
  whose version is stored and that did not come past the scheduler failed after an
  exit action completed it, or died with the host.

**`FSMHistoryProofs`**: who made the versions, and when things that the runs of
section 3 refute are true after all.

- `ConditionalPatchCorrect`: `TimerInv` says of each timer and each patch of one that
  it names the state and the trigger with which another patch armed it; `handlePatch`
  compares that state with the one it read, and the slot is held until the version
  is stored.
- `ConfigureCorrect`: whatever calls of the builder a state is configured with,
  `configure` yields a representation, and its behaviours that stay in the state
  are those of `permitReentry`. `configure` is a recursion over the calls; that
  it has a value, and which, is shown of the first call for which it would be
  false. `StateRepeatedByReentry`: hence what a service configures this way is a
  configuration as all the theorems here assume it, and consecutive versions
  with the same state come only from a trigger of `permitReentry`.
- `InitialOnceBeforeCrashes`: what `FSMInitialAgain` refutes holds until the
  first crash. `InitialInv` adds that a patch of `handleStart` is there only once,
  and only if the document was created in the initial state.
- `ExpiryEndsItsOwnStayOnce`: what `FSMStaleTimer` refutes holds, with crashes,
  lost GETs and any order of patches, on two conditions. `EnteredOnce`: a document
  enters an expiring state once at most, that is, some rank of the states never
  falls along an edge and rises into each expiring state; else the old timer ends
  the second stay, which is the finding. `EntryReturns`: no entry action
  of an expiring state throws; one that does fails the patch after its timers were
  armed, and they wait for the stay that some other patch begins. A
  configuration without cycles, such as a task that is created, started, and
  ends or times out, meets the first, one without risky actions the second;
  `FSMTask` meets only the second. `ArmedInv` says
  that each armed timer and each unapplied expiry patch names a patch that
  brought the document into its state or, holding the slot, is about to
  (`Brings`); `RankInv` that only one patch can have; `StayInv` that crashes and
  failures leave no handler that could still arm one.

**`FSMServiceRefinement`**: `Spec => AbstractSpec`. `Create` maps to `ACreate`,
`Store` to `AApply`, `Reply` to `AGrant`, the failing of a patch that was not
completed to `ARefuse`; every other step stutters, crashes included. It uses the
invariant for the edge `AApply` needs and for the freshness of the patch.

**`FeaturesProofs`**: `TypeCorrect`; `FormIdInjective` (links of different features differ if
no group contains the separator); `CacheHoldsAVersionCorrect`, for any order of
notifications, as the others. `CacheUpToDateCorrect`: the last version of each document
was heard of or its notification is under way (`LatestComes`), each notification
counts once (`HeardOnce`), and the entry is the last version once that was heard of,
unless overtaken (`CacheFollows`).
`Refinement`: `Spec => FlagsSpec`. An update maps to `Change`, the handling of a
notification to `Hear`, a crash to `Forget`, look-ups and the setup to nothing. It
needs that a deletion is the last version (`GoneIsLast`): nothing is heard that is
newer, and an entry that is missing once it was heard of stands for it.

**`JaxRsCallProofs`**: `TypeCorrect`, `AnswerMatchesMethodCorrect`, `ValueMeansSuccessCorrect`,
`UnansweredForAReasonCorrect`, `ChainMeansReadyCorrect`. `Consistent` ties the
progress of the thread to what the method did and to the answer: an answer is
left by the thread, the future or the method, each with its mark. `ChainInv`
says of a chain that is set that the instance is initialized or some thread that
set it is initializing it, or was aborted by `initializeInstance`.
`AnsweredIfFuturesBehave`: what `CallUnanswered` refutes holds if futures end
with what can be a body or with an exception that has a cause.
`Refinement`: `Spec => RemoteCallSpec`. The chain calling the method maps to
`Run`, a rejected path or body to `Refuse`, the end of the method with the
answer it leaves to `End`, an answer that follows to `Reply`, a future of the
caller that ends to `Tell`; everything else stutters. It uses that whoever
answers finds the operation unanswered and the method ended, and that the caller
hears of a success only when the answer is one.

**`FSMMonitorProofs`**: `TypeCorrect`, `ListIsOfOneServiceCorrect`,
`ServiceIsListedCorrect`, `OfferedHasGraphsCorrect`,
`PageAgreesWithSelectionCorrect`. The first two need that what a request carries
and is answered is of its kind (`Inv`). `PutInv` says what puts under way know of
the map: those of different keys beside each other are in `overlapped`, one that is
not has seen the map as it is or as a put of the same key left it, and the link of
each document whose put is over and not in `overlapped` is in the map. That this
link is the service's if the id does not match elsewhere is the lemma
`CutLeavesFactory`, about the recursion of `Cut` and for links of any length.
`OfferInv` follows the links through the requests: while nothing crashed
or overlapped, what an answer under way or the page lists is registered.
`FollowInv` says that the newest request of each kind is for what is selected, and
that when none of a kind is left, and none was overtaken, the page shows it or an
alert was raised.

**`RoutingProofs`**: `RoundTripCorrect`, `InputsSpellPathCorrect`, for any
templates, link and arguments, any order of registration and of parameters. `Inv`
ties the path to the method that was called and what was routed to the path. The
work is in `SelectSeq` and `FlattenSeq`, by which the path is made: where the elements
of a flattened sequence lie is shown of the shortest prefix for which it would be
false (`LeastNatural`). `FilledType` says of any arguments that filling yields a path,
`PlainFilled` of plain ones that after k parameters the first k stand in their
places and the others are as in the template: a plain segment is appended as it
is, and is no name of a parameter still to come. So the filled template has the
length of the template, its own method accepts it and each parameter is found at
its place. For `InputsSpellPath` the template must name each parameter once
(`NamesOnce`): of one named twice the method gets the last segment only.

**Only model-checked**: the liveness properties `EveryPatchAnswered`,
`ExpiringStateIsLeft`, `SelectionIsShown`, `CacheCatchesUp`, `EveryCallReturns`,
which rest on fairness and so on ENABLED, out of the prover's reach. Every
refinement and every safety property that a passing run checks is a theorem but
one, `ExpiryIsPending`, which does not hold of every configuration (it is refuted by
`FSMLostTimer`): `FSMTask` checks that none of the reasons for a missing timer occurs
there, and `ExpiryMissingForAReasonCorrect` proves that there are no others. The
properties that the five other runs refute are, for `FSMInitialAgain`,
`FSMStaleTimer` and `CallUnanswered`, theorems on the conditions named above.
Where something is defined by recursion the library's theorems of induction
cannot be used; the proofs take the least counterexample instead, which
exists because the order of the naturals is well-founded.

## 6. What is not modelled

- the serving of the page's files, the names of the services, the layout of the
  page, the drawing of graphs (`viz.js`, a copy of a library without state of
  this system): nothing there that could go wrong depends on an order of events;
- headers, cookies and query parameters, which are copied by name;
- a method that is given the operation and also returns a value, whose body is
  set after another thread may have completed the operation;
- a parameter that its template does not have (index -1 in
  `RoutingOperationHandler.java:143`), an error in the contract;
- reflection on annotations, (de)serialization, validation of constraints: a
  rejected body is a choice of `RejectInputs`, a body that cannot be set one of
  `Complete` and `FutureCompletes`;
- `StatefulServiceContract`, `QueryContract`, `ServiceClientUtil`, `HttpError*`:
  interfaces and value classes;
- a PUT or DELETE on an FSM document, which the service leaves to the platform;
- replication of documents on several nodes;
- delays: a timer may run out at any time after it was armed.

## 7. Order of the work

The modules were written so that the most important behaviour came first: the
configuration and one document (`StateMachineConfig`, `FSMService`), its
abstract specification and proofs, features and calls, then the registry, the
page and routing, the proofs about what handlers leave behind, and last what a call
and the cache promise, routing, and who made the versions of a document. What could follow:

1. methods that are given the operation and return a value, in `JaxRsCall`;
2. several hosts, and a `start` called twice, in `Features`;
3. `FSMService` with several documents composed with `FSMStats`, so that the
   creation of a document is one action of both.
