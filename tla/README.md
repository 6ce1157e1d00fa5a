# Verification of modden

`modden` runs test documents against a Kubernetes cluster. A document is a
sequence of fragments: Kubernetes objects to apply or delete, and Rego checks
that are evaluated again and again, until they find nothing, against what the
cluster holds. This directory models the program in TLA+, checks the models
with TLC and proves theorems about them with TLAPS.

## The system

| Component | State | Operations | Talks to |
|---|---|---|---|
| Run command (`cmd/run.go`) | the documents still to run | load fixtures, open, validate, run, close a document; exit status | recorder, test runner, fixtures |
| Test runner (`pkg/test/runner.go`) | object and result of the fragment, clock of the check | hydrate, match, update, check, clean up | environment, drivers, recorder |
| Recorder, writers (`pkg/test`) | documents, steps, results; counters of the printers | NewDocument, NewStep, Update, ShouldContinue, Failed | - |
| Object driver (`pkg/driver/object.go`, `handlers.go`) | `objectPool`, `informerPool`, the registered handlers, two locks | Apply, Delete, Adopt, DeleteAll, InformOn, Watch, Done, event handlers | API server, informers |
| Rego store (`pkg/driver/rego.go`) | the data document | StoreItem, StorePath, RemovePath, Eval | OPA |
| Checks (`rules.go`, `pkg/test/defaults.go`) | - | which rules assert, with what severity | Rego store |
| Kubernetes client (`kubernetes.go`) | discovery cache | NamespaceExists, SelectObjects, RunIDFor, lookups of kinds and resources | API server |
| Environment, filters (`environment.go`, `pkg/filter`) | run ID | HydrateObject: marks, special operations, renaming | fixture set |
| Fixtures (`pkg/fixture`) | the fixture set | AddFromFile, Match | documents |
| Documents (`pkg/doc`) | the line, the buffer, the parts | split a file into fragments, decode each | - |
| `get objects` (`cmd/get.go`) | - | list what runs have left, with their IDs | Kubernetes client |
| Utilities, built-in assets | - | pure helpers, embedded files | - |

Two kinds of threads meet. The document's thread runs `runCmd`, `Run`,
`runCheck`. Every informer has a goroutine that delivers its events, in order,
first to the driver's own function (under `objectLock`) and then, through
`Next`, to the handlers that `Run` registered (under `watcherLock`). They share
the pool, the handlers and the Rego store. The API server changes meanwhile,
by itself and for other clients.

What is hard here: replies to calls race with the events about the same
objects; a name may be deleted and created again, so that events of an earlier
incarnation come late; a watch may break; a call may be refused, fail, or
succeed without an answer; cleanup works on a copy of a pool that events
change; one step of a document fails and the ones after it must not act, but
cleanup must; the store is written in several transactions; a run meets what
earlier runs left in the cluster, and the discovery cache holds what the server
once said. `PROJECT.json`
lists these hazards line by line, with the properties that cover them.

## The modules

| Module | Models | Interacts through |
|---|---|---|
| `Cluster` | the API server (external): per key a phase, an incarnation (the UID), a generation and a revision | `server` |
| `Informers` | client-go's shared informers (external): what each has seen, what it has queued | `known`, `pending` |
| `ObjectDriver` | a driver session: the document's thread and the handlers of every informer | extends `Informers` |
| `Session` | what a session of the object driver promises the run of a document | abstract; implemented by `ObjectDriver` |
| `Recorder` | `DefaultRecorder`, `TreeWriter` and `TapWriter`, stacked | operators used by `TestRun` |
| `Checks` | rule names, their severities, `Eval` and the default checks | extends `Recorder` |
| `TestRun` | `runCmd`, `validateDocument`, `Run`, `runCheck` | extends `Checks` |
| `Suite` | what `modden run` promises its caller | abstract; implemented by `TestRun` |
| `Documents` | `ReadDocument`, `Decode` | operators used by `Hydration` |
| `Hydration` | `HydrateObject`, `MetaInjectionFilter`, `Rename`, `SpecialOpsFilter`, the fixture set | extends `Documents` |
| `Fixtures` | the object fragments of several runs that share a cluster, with their fixtures | extends `Hydration` |
| `Discovery` | the lookups of `KubeClient` through the memory cache, while definitions come and go | operators used by `ResourceStore` |
| `ItemStore` | what the data document promises: items stored and removed in one step | abstract |
| `ResourceStore` | the same with `storeItem`'s transactions and two threads | extends `Discovery`, implements `ItemStore` |
| `MCObjectDriver`, `MCTestRun`, `MCFixtures`, `MCResourceStore` | the small clusters, rules, fragments and paths of the runs | - |
| `ObjectDriverProofs`, `MirrorProofs`, `SessionProofs`, `TestRunProofs`, `DocumentsProofs`, `FixturesProofs`, `ResourceStoreProofs` | the theorems | - |

The program has two views of the cluster: the course of a call, with everything
that can come between its reply and its events (`ObjectDriver`), and what calls
do to objects from one fragment and one run to the next (`Fixtures`, in which
they succeed at once). Likewise `TestRun` is about the order of steps, whatever
each of them comes to.

**ObjectDriver.** `pool` is `objectPool`, `started` the keys of `informerPool`,
`watching` whether `Run`'s handler is registered, `mirror` the part of the data
document below `data.resources`, one item per key. `pc` is where the
document's thread is. An action is a stretch of code between two points at
which another thread or the server can act: a call to the server, a critical
section, a statement that others can see. So `Apply` is `ApplyObject`,
`CheckNamespace`, `CreateObject` or `CreateConflict` and `PatchObject`, `Adopt`; `Delete`
is `DeleteObject` (the scan of the pool) and `DeleteCall`; `DeleteAll` is the
copy of the pool followed by one `PurgeDelete` per object and `PurgeEnd`; `Done`
is `StopInformers`, `ClearWatchers`, `ClearPool`. An event is handled in two
actions, `HandleInPool` and `NotifyWatcher`, since both locks are free in
between. Between two operations the thread is `idle`, for as long as the
checks of the document take. `Run` registers one handler, so the mux of any
number of handlers (`MuxingResourceEventHandler`) is the flag `watching`.
`created`, `orphaned` and `unfound` (what the `Apply` in progress has looked for
in vain) are history variables.

Not in it: the contents of objects beyond generation and revision, the
discovery lookups at the head of `Apply` and `Delete`, and a refusal of a create
for any reason but a missing namespace, unless `ApiFaults` allows every call to
be refused. Objects of the same kind, namespace and name but of another API
group share a key; two resources may show the same keys (`Watches`).

**Session.** `made` are the objects that the run created and heard about, `held` those that
nobody has deleted, `failed` what a deletion by DeleteAll came to an error for.
Objects are lost at any time, but created only while the session is open, and it
comes to be `clean` only if nothing is held and nothing failed. `ObjectDriver`
implements it with `created`, what of it is live on the server, and `errs`.

**TestRun.** What the cluster and the checks answer is nondeterministic: an
operation succeeds, is refused or fails, and each rule of a module answers
anything a query can give (`Answers`), from which `EvalResults` follows as in the
code. `docs` is what `DefaultRecorder` holds, `allErrors` what `TreeWriter` and
`stepSkips` and `marks` what `TapWriter` do, `verdicts` what was printed of each
document. The documents are chosen with every combination of up to `MaxParts`
fragments. Time is counted in evaluations: `CheckTimeout` is how many of them
fit into the timeout, and a slow one may use it up sooner, though never before
the first. A step, from NewStep to its Closer, is one operator (`RecordStep`),
as nothing else happens to the recorder in between. `raised` and `left` are
history variables; `left` says whether there may be objects of the document in the
cluster, and whether a DeleteAll has come to an error for some of them.

**Suite.** `outcomes` grows by one set of results per document, and the exit
status follows from it. `TestRun` implements it with the results of the documents
that are closed.

**Documents, Hydration, Fixtures.** Lines are told apart by what `ReadDocument`
does with them, and bytes are sequences of the numbers of their lines. Of an object is kept what hydration reads or writes: kind,
name, namespace (which may be a YAML alias of the name), the label and the
annotation, the template and how it is marked. `Text` is a fragment with its
`$apply` and `$check` fields. `cluster` records which run applied an object and
which object a controller made it of, and `said` which parts of an object's
template the fragments of the run that applied it last have given: none of them
is anything the program sees,
and the properties compare what the program selects by label and annotation with
them. `Patched` is a merge of marks and template only. An anonymous fragment selects by
all its labels: the management label, which is modelled, and its own, which leave
any part of what bears that one (`MatchAnonymous`).

**Discovery, ResourceStore.** Every call of `regoDriver` is one transaction, as
OPA lets in one writer at a time. `op` holds what each of the two threads is
doing. Informers are one thread, since `watcherLock` serialises them. The
document's thread may store any of its paths at any time, a superset of what
`Run` does. Paths are looked up: `cache` is the memory cache, which the server's
lists (`served`) leave behind as definitions change. `ResourceStoreAssumption`
says that no path leads through another; the code does not ensure it when a
namespace has the name of a resource. An item bears the place where the
documentation has checks look for it, whatever path the code computes. That `ResourceStore` implements `ItemStore` is
why `ObjectDriver` may store and remove an item of `mirror` in one step.

## The runs

All runs finish within a minute or so on two cores, but for `Namespaced`, which takes two or three.

| Run | Question | Bounds |
|---|---|---|
| `OneObject` | Does the driver keep track of an object that it, and another client, create and delete in any order, with broken watches, refused calls and lost replies? | one key, two incarnations of it, one revision beyond creation, two queued events |
| `Namespaced` | And with a namespace that applyObject has to create, and that somebody deletes, or creates first? Does cleanup end with everything gone, and is the driver a `Session`? | a namespace and an object in it, two incarnations each, both of the namespace's possibly made by somebody else, one queued event per informer |
| `Convergence` | Do the store and the pool catch up with the server? | one key, two incarnations, resync |
| `TwoDocuments` | What does one document's failure do to its own steps, to its cleanup, to the other document, to what is printed and to the exit status? | two documents of up to two fragments, a timeout of two evaluations, three modules |
| `RunsShareCluster` | What becomes of objects from file to cluster, and whose are they when runs follow each other? | files of up to five lines, two runs, three fixtures, fifteen fragments |
| `ItemsStored` | Is an item stored in one step, although storeItem takes three, and always where checks look? | two objects of a custom kind with a subresource, one parameter, two values |

Two incarnations are enough for what is particular about names: an event or a
pool entry of an earlier one meets a later one. Two queued events are enough to
have an event of each in the queue. In `Namespaced` the first incarnation of the namespace
is there before the run and the second is made by the run or by somebody else, at
any time and so also between applyObject's lookup and its create. One revision suffices to make a reply and
an event disagree. Two documents are enough for one to influence the next; a
document of two fragments has one that runs after the other has failed. A
timeout of two allows a check that fails once and then succeeds, and one that
times out. Among the three modules are a rule for each severity, one that only
looks like one, and one that asserts nothing. Five lines hold two fragments
with a separator and an empty line to spare. Two runs suffice for one to meet
what another has left; the fragments have every form of `$apply` and every way
that hydration fails, and the fixtures a namespace that is missing, given, and an
alias.

Each property of a passing run is one that a plausible change of the code
breaks: `PROJECT.json` names, for each, a mutated definition (they stand beside
the definitions they change) under which TLC finds it violated.

### What the runs show to be otherwise than stated

| Run | Property | What happens |
|---|---|---|
| `DeletedTwice` | `DeleteAllSucceeds` | An object deleted by the document is still in the pool at the end, if its delete event has not come; DeleteAll is answered NotFound and `must.Must` panics. |
| `OverlappingInformers` | `NoHandlerPanic` | Two API groups that serve the same objects share their paths; the second delete event panics. |
| `NoGeneration` | `AdoptedFollowsChanges` | The pool's copy of a Secret or ConfigMap is never updated, since these have no generation. |
| `LostDelete` | `DeletedUnpublished` | A deletion that is reported by a tombstone is ignored, and the object stays in `data.resources`. |
| `SkippedAndFailed` | `SkippedNotFailed` | A check with a skip and an error is printed as skipped, and the command fails. |
| `RenamedFixture` | `RenamedWhereAsked` | A fixture that says a namespace, applied as `namespace/name`, goes to a namespace called `name`. |

`CleanupAttempted` is what remains true of cleanup despite the first: each
object is tried, and only those whose own deletion was answered with an error
may be left. The README has the rule that skips as one that "begins with" skip;
`matchRuleByName` takes the name itself or the name and an underscore, which is
what `PassMeansEvaluated` says.

### Fairness

- `WatchSpec` (`Convergence`, and the two temporal runs above): weak fairness
  of each informer's handlers, as Go runs every goroutine that can run, and
  strong fairness of what an informer observes. The queue of an informer has no
  bound in client-go, so that observing is only ever disabled by `MaxPending`,
  and comes to be enabled again and again: strong fairness undoes that bound.
  Nothing is assumed of the document's thread, which may wait in a check.
- `RunSpec` (`Namespaced`): weak fairness of the calls in progress and of the end of the
  run, and of the server's finishing of the deletions it has accepted. Nothing
  makes the document begin another operation.
- `FairSpec` of `TestRun`: weak fairness of its one thread. Calls to the server
  are taken to return, as the client's own timeouts have them do.

## The proofs

`ObjectDriverProofs` proves, for any sets of keys and resources, any overlap of
watches, any faults and any bounds (`ClusterAssumption`, `InformersAssumption`,
`ObjectDriverAssumption` are all that is assumed):

- `TypeCorrect`: `Spec => []TypeOK`. `TypeOK` is inductive, since it also says
  what each step of the thread has to work on.
- `NothingLost`: `Spec => []CreatedTracked`, from the invariant `Tracking`. A delete event
  must not take a present object out of the pool, so the invariant says that
  the events queued do not lie (`DeletionsTrue`): each is of an incarnation that
  is gone. For that to hold when the event is queued and to last,
  incarnations may only grow: what an informer knows (`KnownPast`) and what the
  run has created (`CreatedPast`) are of the server's present incarnation or
  an earlier one, so a vanished one never comes back.
- `NothingLeftBehind`: `Spec => []CleanupAttempted`, from `Cleaning` and `Tracking`:
  during cleanup every live object of the run is on the list or among the
  errors. When the list is made this is `CreatedTracked`; later no object is
  created, and a deletion ends the object's being live whichever incarnation of
  the name it meets.
- `GenerationsGrow` and `KeptUntilGone`: the action properties `GenerationMonotone` and
  `AdoptedUntilGone`, the latter from `DeletionsTrue`.

`TestRunProofs` proves every safety property of `TestRun`, for any number of
documents and fragments, any timeout and any modules (`TestRunAssumption`). The
invariant is `RunInv`:

- `RecorderInv`: at most one document is open, the last one (`OneOpen`), and what each
  writer counts is what that document has recorded (`TreeInv`, `TapInv`). It is shown once
  for each call of the recorder (`DocumentOpens`, `StepRecorded`, `DocumentCloses`), so
  that the proofs of the command's steps cite these. `TreeAgrees` and `TapAgrees`
  are parts of it.
- `PlaceInv`: a document is open within its steps and only there, and the command
  has its exit status when it is over. `NoFailureLost` follows with `RecorderInv`.
- `ControlInv`, `NoNilDereference`, `LeftInv`: what a step may rely on when it begins. From them
  follow the action properties `NothingAfterTerminal`, `DocumentsIndependent` and
  `PassMeansEvaluated`, and `CleanedUp`: what is left in the cluster is only
  what a DeleteAll has come to an error for, and that ends the command at once (`PanicInv`).
  `PassesEvaluated` assumes that `CheckTimeout` is not
  zero: with `--check-timeout=0` a check passes unevaluated.
- `SuiteImplemented`: `Spec => ImplementsSuite`. Closing a document is `Suite`'s
  `RunDocument`, since a longer front of `docs` ends with the open document; every
  other step leaves the front alone (`OutcomesStay`).

`DocumentsProofs` proves for files of any length that reading keeps every line of text, that
each fragment is an unbroken run of lines up to the next separator or the end, and that
fragments are in order (`NoLineLost`); and that the reported lines bound them
(`LocationsCorrect`). Both need that the buffer is such a run itself (`BufferBound`) and lies
behind every fragment that was completed (`PartsBehind`).

`FixturesProofs` proves every safety property of `Fixtures`, for any files, texts,
fixtures and number of runs (`FixturesAssumption`, `HydrationAssumption`: no file holds a
run ID, which the program draws at random). The invariant is `RunsInv`:

- `Held` says of every object in the cluster that what bears the ID of the run at
  hand was applied by it (`Good`), and that what a controller made went by the template it
  was made of, or has been applied since (`Made`). No object bears the ID of a run that has cleaned up,
  in its metadata or in its template, since the template would pass it on.
- `Tracked`: what bears the ID of the run, or would pass it on, has been adopted or was
  made of something that was. So the cleanup of the run takes all of it, and
  `RunIdsGone` follows.
- `Hydrated`: the object of a fragment is what hydration makes of its text, or
  one that an anonymous fragment matched, which bears the run's ID. With `Good`
  this is `MatchedOnlyOwn`.

`OwnIsSelected` needed `OwnSelected` to be corrected. As first stated, without its third
disjunct, no invariant could be found for it, and TLC found why once a fragment without a
template was among those of `MCFixtures`: a run patches an object that an earlier
run left, the fragment says nothing of the template, so that the merge keeps it as the
earlier run annotated it, and what a controller makes of it bears the ID of
the earlier run. `OwnSelected` now leaves out what is made of a template that the run
has not given, and says so. `ReaderInv` of `DocumentsProofs` is a part of `RunsInv`, as
`Fixtures` reads its files with `Documents`.

`ResourceStoreProofs` proves every safety property of `ResourceStore` and that it
implements `ItemStore` (`Implements`), for any paths, parameters and resources for which
no path leads through another and every object has a resource that is no
subresource (`ResourceStoreAssumption`). The invariant `StoreInv` has, beside the
properties themselves:

- `TreeOfPaths`: every node is on the way to one of the paths. A node at a path
  is therefore no inner node of another, and a transaction meets what it expects.
- `ThreadsApart` and `PathsThere`: the threads write below different paths, so what one
  has found or made is still there in its next transaction.
- `KindsComplete`: the cache holds all the resources of a kind or none, so that a
  handler finds for its object the one that an informer was started for, whatever
  the server has come to serve since.

`NothingElsewhere` (`StoredWhereDocumented`) says of every item that it lies at its own documented
place; with `KindsComplete` this is so although handlers go by the kind alone.

Under the refinement an item is stored when its path holds it: a first
`StoreItem` that finds no parent and the `StorePath` after it are stutters, and the second
`StoreItem` is `Store`. That `Remove` finds the item is `PathsThere` again.

Of `ObjectDriver`, besides, without any further assumption `LateEventsIgnored`
(`NoneComesBack`) and `OnlyMissingAdopted`, and `NoHandlerPanic` with a hypothesis of which
the models show that it is needed:

- `NoPanic`, in `MirrorProofs`: `NoHandlerPanic` when no two informers report the same
  object (`OneInformerPerKey`; `OverlappingInformers` is the run in which they do). The invariant
  `Mirroring` says of every deletion in a queue that, by the time it is handled,
  the path is there: it is there now and no earlier event in the queue removes
  it, or an earlier one stores it and none after that removes it
  (`MirroredAfter`). It holds from the registration of the handlers on only because `Run` registers
  them before it starts any informer.
- `OnlyMissing`: an object that the document does not mention is adopted only if it came to
  be after the `Apply` in progress had looked for it in vain. Somebody else may be the one who made
  it, between `CheckNamespace` and the create; then it is patched, adopted, and deleted in the
  end. The property says that no more than this can happen: a namespace that was there at the
  lookup is never taken over. The invariant is `Owning`: until the create or the patch, what is there
  under the name is of a later incarnation than the one that was not found (`MissingSince`), since
  incarnations only grow.

`SessionProofs` proves that the driver implements `Session` (`DriverImplements`), from
`TypeOK`, `Tracking` and `Cleaning`. An answered create is `Create`, since what it
makes is an incarnation that the run has not had (`CreatedPast`); a create whose reply is
lost is none of the session's. Whatever else happens loses objects or nothing
(`HeldShrinks`), and the guard of `Conclude`, that all that is held has failed, is
`Cleaning` when the list has come to its end.

Only model-checked: `CleanupCompletes`, `MirrorConverges`, `AdoptedCatchesUp` and
`CommandEnds`, since fairness and ENABLED are beyond the prover's reach. Every other
property of the passing runs is stated by a theorem.

## Not modelled

`PROJECT.json` lists every part with the reason. In short: YAML and Rego
themselves (parsing, printing, evaluation), what compileDocument compiles and
policies beyond their failing, tracing, descriptions, times and layout of
results, walking directories, the chaining of errors, the embedded assets, and
the limit of 10000 to a list of objects.

Known hazards that no run covers: `Delete` may return an earlier incarnation as
the latest; pods made of a template that still
bears an earlier run's ID, which `OwnSelected` leaves out; nested paths; `/test/params/run-id`,
whose StoreItem error is ignored; a custom resource definition that a document
applies, whose kind the cache does not know; the exit codes of errors returned
by value; the namespace of applyObject, which bears no mark.

## Plan

1. (done) `Cluster`, `Informers`, `ObjectDriver` with its runs and proofs; `Recorder` and
   `TestRun`; `ItemStore` and `ResourceStore`.
2. (done) `Suite`, implemented by `TestRun`; both writers; `Checks`; `Documents`, `Hydration`,
   `Fixtures`; `Discovery` beneath `ResourceStore`; the proofs of `TestRun` and `Documents`.
3. (done) The proofs of `Fixtures` and `ResourceStore` with its refinement; `LateEventsIgnored`,
   `OnlyMissingAdopted`, and `NoHandlerPanic` under what it needs.
4. (done) `Session`, implemented by `ObjectDriver`.
5. Registration and removal of several handlers while events are delivered.
