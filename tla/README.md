# A formal model of scakka-zoo-cache

scakka-zoo-cache keeps a copy of parts of a ZooKeeper tree in memory and follows
the tree with watches. This directory holds TLA+ modules of its core, the TLC
configurations that check them on small instances, and theorems about them that
TLAPS has checked. Paths below are relative to
`src/src/main/scala/com/github/astonbitecode/zoocache/` unless they start with `src/`.

## 1. The system

### Components, their state and operations

| Component | State | Operations | Module |
|---|---|---|---|
| Updater actor, `CacheUpdaterActor` | `watchedNodes`, `addedPaths`, its mailbox, the cache (it alone changes it) | one handler per message: `ScakkaApiWatchUnderPath`, `ScakkaApiRemovePath`, `ScakkaApiShutdown`, `Add`, `Update`, `Remove`, `SetWatcher`, `Unwatch`; `setWatchers` | `CacheUpdaterActor` |
| Watcher, `ZooKeeperWatcher` in the same file | none of its own; it reads `watchedNodes` | `process(event)` on the event thread of the ZooKeeper client | `CacheUpdaterActor` |
| Messages and notifyables, `CacheUpdaterActorMessages`, `MessageNotifyable`, `NotifyableDecorator` | one promise per call | `success(path)`, `failure(path, error)` | `UpdaterMessages` |
| Scala API, `impl/scala/ScakkaZooCacheImpl` | `cache`, a `TrieMap` | `addPathToCache`, `removePathFromCache`, `stop`; the reads `getChildren`, `getData`, `find` | `ScakkaZooCache` |
| ZooKeeper manager, `zk/impl/ZookeeperInstanceManager` | none | `setWatchers`, `getChildren`, `getData`, `registerWatcher` | `ZooKeeper` (end) |
| ZooKeeper itself (external) | tree, watches, event queue, the connection of the session | writes of other clients, reads with and without watches, a connection that is lost and found again | `ZooKeeper`, `ZnodePaths` |
| Akka API, `impl/akka/ScakkaZooCacheActor` | the sender of each message under way | one handler per message; a callback for each call that returns a future | `ScakkaZooCacheActor` |
| Java API, `impl/java/ScakkaZooCacheJavaImpl` | none | calls that return futures; `get` | `ScakkaZooCacheJavaImpl` |
| Factory, `Internals`, dtos, exceptions | none | construction | not modelled: nothing happens over time |
| `src/docs` | - | generated scaladoc | not modelled |

### How they interact

- A **caller's thread** reads the cache, and then sends a message to the actor with or
  without its promise (`ScakkaZooCacheImpl`, lines 48-71).
- The **actor** handles one message at a time and sends itself the next ones:
  `ScakkaApiWatchUnderPath` becomes `Update`, `Update` reads the data and becomes `Add`
  (or `SetWatcher`, when there is no node), `Add` sets watches, lists the children, stores
  the entry and sends an `Update` for each child. `Remove` works down the subtree
  likewise. The notifyable of a call travels with all of these, and acts only for the
  path that the call named.
- The **event thread** runs the watcher: for a path that it finds in `watchedNodes` it
  sends `Unwatch`, then an `Update` or a `Remove`.
- **Other clients** change the tree at any moment, also between two calls of a handler.
- The **Akka facade** is an actor of its own in front of the cache. It answers reads at
  once; for `AddPathToCache`, `RemovePathFromCache` and `Stop` it calls the Scala API,
  keeps the sender, and a **callback** of the future sends the response from another thread.
- **Java threads** call the Scala API and wait in `get()`.

### What is hard, and what makes each part correct

| Part | Hard | Correct means |
|---|---|---|
| actor and watcher | the watcher reads an unsynchronised set; watches are one-shot, set by three calls that are not atomic; data is read before the watch is set and stored later | at rest the cache mirrors the tree under every added path; entries are watched; data never goes back; the messages die out |
| notifyables | one object is asked for success many times, for many paths, by two kinds of calls | a promise is completed once, and always |
| API | check in one thread, act in another; racing calls; stop while others run; a timeout | an add of a node that stays, and one of several racing removals, is answered; what was removed stays out; after a successful stop nothing is left |
| ZooKeeper manager | a call fails in the middle of `setWatchers` | the cache comes to rest; safety holds |
| session | after a reconnect several events of one path arrive in a row | no entry is left unwatched, data never goes back |
| Akka facade | the sender changes with the next message; callbacks run on other threads; calls that are never answered | a response goes to its sender, once; reads are answered whatever the updater does; what is read never goes back |
| Java futures | Java threads call beside the Akka clients, and may wait for a promise that is never completed | what both facades promise holds for their calls together |

The hazards, each at its line, are listed in `PROJECT.json`.

## 2. The modules

    ZnodePaths <- ZooKeeper <- UpdaterMessages <- CacheUpdaterActor <- ScakkaZooCache
    ScakkaZooCache <- ScakkaZooCacheActor, ScakkaZooCacheJavaImpl <- CacheApis
    ScakkaZooCache  implements  CacheContract         (INSTANCE ... WITH, KeepsContract)
    MCScakkaZooCache, MCCacheApis                     small instances for TLC

    ScakkaZooCache_proofs <- ScakkaZooCachePromises_proofs <- ScakkaZooCacheStop_proofs
                          <- ScakkaZooCacheData_proofs
    ScakkaZooCacheData_proofs <- CacheContract_proofs <- ScakkaZooCacheWatched_proofs
                              <- CacheApis_proofs  (with CacheApis)
    ScakkaZooCacheWatched_proofs <- ScakkaZooCacheCoherence_proofs

Each extends the one before it; `ScakkaZooCache` composes them into `Init`, `Next`,
`Spec` and `FairSpec` and states the properties.

**ZnodePaths.** A path is a sequence of names. `ChildPath` is what the interpolation
`s"$path/$child"` yields: for the root it yields a path with an empty name, `//child`,
which is no znode.

**ZooKeeper.** `zk[p]` is the zxid of the last write of node `p`'s data, 0 when there is
no node; data is told apart by that number and by nothing else. Watches are two sets, the
queue of the event thread is a sequence. A synchronous call may return before earlier
events have been processed: the event thread takes its queue at its own pace. Each
call has the outcomes `ok`, `noNode` and `error`; an error is a malformed path or,
at most `MaxFaults` times, a lost connection (then no watch is left behind). The operators
at the end are the calls of `ZookeeperInstanceManager`; the rest is
external and modelled from what the cache relies on.

The session can lose its connection (`Disconnect`, at most `MaxDrops` times). Meanwhile
calls fail or wait, and writes raise no event. `Reconnect` is what the client library and
the server do then: for each watch that has missed a change the server raises one event, the
data watches before the child watches, and the watch is used up. So the data event and the
child event of one path arrive in a row, which without a lost connection they hardly do.
`missed` remembers the tree as it was seen last.

**UpdaterMessages.** A message is a record. The notifyable in it is the number of
the call (`NoOne` for `None`), since the notifyable is the object made of the call's path and
promise. `attached` says whether the call's promise went with its message:
`addPathToCache` of a path that is not cached sends `None` and succeeds at once.
A second completion of a promise, which throws in Scala, is kept as the value `"double"`.

**CacheUpdaterActor.** `handler` is how far the handler of the present message
has come; every call of ZooKeeper is a step of its own, and so is what the handler does
between two calls.

| Code | Actions |
|---|---|
| `receive`, `ScakkaApiWatchUnderPath`, `ScakkaApiRemovePath`, `ScakkaApiShutdown` | `HandleWatchUnderPath`, `HandleRemovePath`, `HandleShutdown` |
| `Update` | `HandleUpdate` (takes the message, calls `getData`), `FinishUpdate` |
| `Add` | `HandleAdd`, the steps of `setWatchers`, `ListChildren`, then `StoreEntry` or `FailAdd` |
| `Remove` | `HandleRemove`, the steps of `setWatchers` for an added path, `Evict` |
| `SetWatcher`, `Unwatch` | `HandleSetWatcher` and the steps of `setWatchers`, `HandleUnwatch` |
| `setWatchers` and `ZookeeperInstanceManager.setWatchers` | `WatchExists`, `WatchChildren`, `WatchData`, `RecordWatch`, `WatchMissing` |
| `ZooKeeperWatcher.process` | `ProcessEvent` (the check), `SendUnwatch`, `SendFollowUp` |

The messages that `children.foreach` sends are appended at once, in any order of the
set: between two of them only the event thread could put in a message of its own.
The messages of two children do not depend on each other.

`watchedNodes` is a plain `HashSet` that the actor changes while the event thread reads
it. With `RacyReads`, a read may miss an element that is there whenever the actor has
something to do, as in a rehash or a removal that moves elements. The other outcomes of
the race, seeing an element that was just removed or not one just added, are those of an
earlier read and come from the interleaving.

**ScakkaZooCache.** Calls are numbered. `CheckAdd` and `CheckRemove` are the read of the
cache, `SendAdd` and `SendRemove` the send. `CallStop` is `gracefulStop`;
`StopCompletes` and `StopTimesOut` are how it can end. `Patient` names those who act only
when nothing is under way: with `{}` everything interleaves; with `{"writers"}`
each write finds the cache at rest, which separates questions about races with
writers from questions about the protocol.

**CacheContract.** What callers may rely on, without messages, watches and handlers: a map
of entries, and calls with outcomes. Its actions say what a success means: `Accept`, an add
of a path that was not cached (nothing is promised); `Store`, an add of one that was (it was
stored just now); `Evict`, a removal; `Confirm`, a stop. Data never gets older while an entry
is served, entries lie under added paths, and after `Close` there are none. In the mapping
`served` is `cache`, `open` is `alive`, `clock` is `zxid`, `outcome` is `promise`, and
`calls` what each call asked for. The steps of handlers that no caller can see are stutters.

**ScakkaZooCacheActor.** The messages of clients are numbered, and the number is the
correlation. `Handle...` are the handlers of `receive`. The handlers of `AddPathToCache` and
`RemovePathFromCache` are two steps, as the call they make: the check of the
cache and then, in `FinishCall`, the send. `RunCallback` is the `andThen` of the future.
A regular expression for `find` is one that matches the paths of a subtree, or one
that does not compile.

**ScakkaZooCacheJavaImpl.** `futures` is what the thread of a Java call does with its
future. `Get` is an `Await.result` that returns. One that gives up changes nothing that anyone
sees, and may be called again, so it is not a step.

**CacheApis** composes the cache with both facades: every call of the Scala API comes from
one of them.

Definitions marked *Mutant* are plausible bugs; each property is shown to fail when the
definition below the mutant is replaced by it (`mutants` in `PROJECT.json`).

## 3. The runs

`Apis` and `Unanswered` are on `MCCacheApis`, all others on `MCScakkaZooCache`. Deadlock is
not checked: when callers, clients and writers have used up their bounds and the cache is at
rest, the system rightly stops.

| Run | Shows | Bounds |
|---|---|---|
| `Safety` | `TypeOK`, `PromiseCompletedOnce`, `OnlyRequestedSubtrees`, `StoppedMeansEmpty`, `KeptMeansWatched`, and the refinement `KeepsContract`, under every interleaving | `/a` and `/a/b`, 2 writes, an add and any second call, racy reads; 2.7 million states |
| `Coherence` | `QuietMeansCoherent`, `EntriesHaveWatches`, `FollowsZooKeeper` when writers wait for the cache to come to rest and callers do not | `/a` with two children, 3 writes, an add, a removal and another add of `/a` in any order; 1.5 million states |
| `Nested` | `QuietMeansCoherent` for calls one at a time | any two adds of `/a` and its two children, 4 writes; 0.2 million states |
| `Progress` | `ComesToRest`, `StopEnds`, `AddsAreAnswered`, `KeptMeansWatched`, `CachedDataNeverRegresses` when a call of ZooKeeper fails and a connection is lost | as `Safety`, with one write, one failing call and one lost connection; 0.4 million states |
| `Apis` | `ApisTypeOK`, `AnswersFindTheirSender`, `ReadsNeverGoBack`, `StopEndsReads`, `RemovalsAreAnswered`, `ReadsAreAnswered` through both facades | `/a`, one write of its data, three calls, one of them by a Java thread, four messages of two Akka clients: a call or a read, a read, a removal, a `Find`; 1.6 million states |

Two writes suffice for a change during each window of `setWatchers` and `Update` and one
after it. Three or four let an added node be deleted and created again with
a child. Two calls give every race of two callers. With three, in `Coherence`, a path is added
after a removal that took effect: such a removal empties `addedPaths` (nothing needs to be
mirrored then), and the add that follows must bring the subtree back although watches, events
and messages of its first life are still there. A node with a child, or with two, shows
what a subtree and the order of a set's traversal add; two siblings are treated alike, and a
deeper level repeats what the second does. One lost connection with one write before, during
or after it gives bursts of two events; the theorems below hold for any number of all of these,
and say so where they need a condition.
With two clients the sender changes while a callback is due; the reads of the second one come
before, between and after the steps of the first one's calls. The three calls and four messages
of `Apis` are the fewest with which, between two reads of one path that both found data, the
path is evicted by a removal and cached again, or the `Add`s of two overlapping `Update`s are
stored; and with which two removals race for an entry.

`KeptMeansWatched` is about states at rest without a failing call: the code does not try a
failed call again. It says that the watcher would act on an event of every entry and of every
added path, not that ZooKeeper still has a watch that raises one: when an event is dropped, as
in `RacyRead`, the path stays in `watchedNodes` although its one-shot watch is gone.
`EntriesHaveWatches` says that the watches are there, and holds only where no event is dropped.

These runs find what the code does otherwise than its documents say:

| Run | Found |
|---|---|
| `LostUpdate` | `Update` reads data without a watch (`CacheUpdaterActor.scala:94`), `Add` sets the watches later (`:73`) and stores the old data. A change in between is never followed. |
| `RacyRead` | a read of `watchedNodes` that misses a path (`:138`) drops the only event of its watch |
| `Unanswered` | two removals of one cached path through the Akka API: the second finds no entry (`:113`), its promise is never completed, and its client gets no response |
| `RemovedReturns` | `Remove` watches the path again (`:105`) before it leaves `addedPaths` (`:110`): the next change caches it again |
| `EarlyAdded` | a path added before it exists never enters `addedPaths` (`:96`, `:117`), and is forgotten when it is deleted |
| `WholeTree` | the children of `/` are asked for as `//child` (`:78`) |
| `Reconnected` | the data event and the child event of a path arrive in a row after a reconnect: the second finds the path taken out of `watchedNodes` (`:138`) and is dropped, so a new child is never cached |

`Coherence` and `Nested` use the same properties as these, and show that outside
the situations named here they hold.

**Fairness.** `FairSpec` assumes weak fairness of the actor, of the event thread and of a
caller between its check and its send: Akka's dispatcher and the JVM schedule a
thread that can run, and a ZooKeeper call returns or fails; and of `FindConnection`, since
the client library tries again until it is connected or the session has expired. Nobody has
to call or to write, no connection has to be lost, and no timeout has to happen.

`ApisFairness` assumes weak fairness of the facade and of the callbacks, and nothing of the
updater: `ReadsAreAnswered` holds although it may hang in a call of ZooKeeper for ever.

## 4. The proofs

For every finite set of names and of znodes, every tree, any number of calls, messages,
writes, failing calls and lost connections, and any bound (three of them under
conditions that are explained below):

| Theorem | Statement | Module |
|---|---|---|
| `TypeCorrect` | `Spec => []TypeOK` | `ScakkaZooCache_proofs` |
| `OnlyRequested` | `Spec => []OnlyRequestedSubtrees` | `ScakkaZooCache_proofs` |
| `PromiseOnce` | `Spec => []PromiseCompletedOnce` | `ScakkaZooCachePromises_proofs` |
| `StoppedIsEmpty` | `Spec => []StoppedMeansEmpty` | `ScakkaZooCacheStop_proofs` |
| `DataGoesForward` | `Spec => CachedDataNeverRegresses` | `ScakkaZooCacheData_proofs` |
| `EntriesAreWatched` | `Spec => []KeptMeansWatched` | `ScakkaZooCacheWatched_proofs` |
| `CacheKeepsContract` | `Spec => KeepsContract` | `CacheContract_proofs` |
| `CoherentAtRest` | `Calm /\ Spec => [](Undisturbed => QuietMeansCoherent)` | `ScakkaZooCacheCoherence_proofs` |
| `EntriesWatchedAtRest` | `Calm /\ Spec => [](Undisturbed => EntriesHaveWatches)` | `ScakkaZooCacheCoherence_proofs` |
| `AddsAnswered` | `Spec => AddsAreAnswered` | `CacheContract_proofs` |
| `RemovalsAnswered` | `"delete" \notin WriterOps /\ Spec => []RemovalsAreAnswered` | `CacheContract_proofs` |
| `ApisTypeCorrect` | `ApisSpec => []ApisTypeOK` | `CacheApis_proofs` |
| `SendersAreAnswered` | `ApisSpec => []AnswersFindTheirSender` | `CacheApis_proofs` |
| `ReadsGoForward` | `ApisSpec => []ReadsNeverGoBack` | `CacheApis_proofs` |
| `NothingReadAfterStop` | `ApisSpec => []StopEndsReads` | `CacheApis_proofs` |

They rest on the assumptions named in the modules: names form a finite set without the
empty one, znodes form a finite set of paths of names, callers name znodes, and the bounds
are of their types.

*TypeCorrect.* `TypeInv` adds to `TypeOK` what each stage of a handler knows of its
message (`HandlerOK`): the steps of `setWatchers` end in different ways for `Add`,
`Remove` and `SetWatcher`, and only for these.

*OnlyRequested.* `SubtreeInv` extends the property from the cache to all that can still
reach it: messages in the mailbox, the message being handled, watched paths, and the event
that the watcher acts on. All of their paths are below a path that was asked for, and
handlers only append names.

*PromiseOnce.* The property is not inductive: it says nothing of the messages that are going
to complete promises. `PromiseInv` counts tokens: messages with a call's number and
exactly its path. A call has at most one, in the mailbox or with the handler. A handler
passes it on or uses it up; the messages for children have longer paths than
the call and can never be tokens. While there is a token the promise is open.

*StoppedIsEmpty.* That the cache stays empty does not follow from what the callers know, but
from the end of the actor: `StopInv` says that a stopped actor has no message, no
handler under way and empty sets, so it takes no step, and that only its end makes a stop
succeed (`EndIsFinal`). That no notifyable answers a stop comes from `PromiseInv`.

*DataGoesForward.* Data is read by `Update` and stored by `Add`, several messages later.
`FreshInv` says that whatever was read of a path is known: no `Add` of the path still to
come carries older data than the entry, the `Add`s of one path wait in the order of their
reads, and nothing in ZooKeeper is older than what was read from it. `Seen(p, d)`, "data as new as
`d` has been seen of `p`", is stable under every step, also while `p` is evicted and cached
again; this is what `ReadsGoForward` needs.

*CacheKeepsContract.* The refinement needs all the invariants above, and one fact more,
`FitInv`: a notifyable travels only in messages that serve the operation of its call. Without
it the success of an `Add` could be the answer to a removal. Each step of the system is then
shown to be one action of the contract or a stutter.

*EntriesAreWatched.* What is taken out of `watchedNodes` while its entry stays must be put
back or evicted, and an added path must be put back in any case. `WatchedInv` says by whom:
behind every `Unwatch` in the mailbox there is a message of the same path that handles it
(`Update`, `Add`, `SetWatcher` or `Remove`), or the watcher is about to send one; and each of
these hands the path on to another until the path is recorded or the entry is gone. That the
end of a `Remove` never adds a path, as the notifyable of an `addPathToCache` would, comes from
`FitInv`. The theorem holds as long as no call has failed: the code does not try a failed
call again, and then an entry may indeed be left unwatched.

*CoherentAtRest* and *EntriesWatchedAtRest* are the runs `Coherence` and `Nested` for every
tree, any number of added paths and of writes. They state their conditions, because the code
does not mirror the tree without them; each is the subject of a run that violates it:

| Condition | Without it |
|---|---|
| `Calm`: other clients write when the cache is at rest (`"writers" \in Patient`) | `LostUpdate` |
| `Calm`: a read of `watchedNodes` does not miss a path (`~RacyReads`) | `RacyRead` |
| `Calm`: the model's `Znode` has the parent of each of its paths below the first level | the tree of ZooKeeper is like that; only the model's constant could be otherwise |
| `Undisturbed`: no call of ZooKeeper has failed (`faults = 0`) | the handler logs it and does not try again |
| `Undisturbed`: no connection was lost (`drops = 0`) | `Reconnected` |
| `Undisturbed`: nobody has added `/` | `WholeTree` |
| `Undisturbed`: nobody has called `removePathFromCache`, the actor is alive | `RemovedReturns`; a removal under way takes watched paths out of the cache (the run `Coherence` has removals, the proof does not) |

What is proved does not require callers to wait: adds may overlap in any way with each other
and with what follows a write. `Undisturbed` is about the past of the state
and never becomes true again once it is false (`UndisturbedBefore`).

At rest the cache mirrors the tree; in between it does not, and `QuietMeansCoherent` says
nothing there. The invariant `MirrorInv` says who will mend each difference. A `Task` for a path is an event
that the watcher will act on, the event it acts on now, a message in the mailbox, or the
message being handled, and it has a kind: `tree` (a recursive `Update` or `Add`), `node` (one that is not recursive),
`remove`, `unwatch`. `GoneOK`: an entry whose node is gone has a `remove` task and no
children. `CoveredOK`: a node that the updater has touched is cached, and each child
is cached or has a `tree` task of its own, unless there is a `tree` task for the node.
`FreshOK`: its entry is what ZooKeeper has, unless there is a `tree` or a `node`
task. `WatchOK`: a watched path has its one-shot watches, or they are used up and its
`Unwatch` is on the way. `FactsOK` says that what events and messages claim of a node is
still true, which is where the waiting writers come in. Every handler is shown to take its
own task away only together with the difference, and to leave tasks for the children it finds.
At rest there are no tasks (`RestFacts`), so no difference is left at the nodes the cache
knows; that it knows every node below an added path follows by looking at a
shortest one that is missing (`RestMirrors`, with `WellFoundedInduction`).

*AddsAnswered.* Which calls are answered? Not all: an `addPathToCache` that found an entry is
left open when its node is deleted before `Update` reads it, because `SetWatcher` ignores the
notifyable. `AddsAreAnswered` says that this, a failing call and the end of the actor are
the only ways: if the node exists from the call on, the promise has been completed
whenever the cache is at rest, whoever else adds, removes, writes or loses the connection
meanwhile. `AddUnderWay` follows the notifyable: the caller is about to send it, or it is in
a message of its own path (`ScakkaApiWatchUnderPath`, `Update`, `Add`) in the mailbox or
with the handler, or the promise is completed, or a call has failed or the actor has ended.
Each step keeps that as long as the node is there.

*RemovalsAnswered.* Of removals that race for an entry only one finds it; the `Remove`s of the
others ignore their notifyables (`Unanswered`). `RemovalsAreAnswered` says that somebody is
told: a removal that is open at rest was overtaken by one of its path, or of a path above,
that has succeeded. `RemovalInv` says why: as long as an open removal is not overtaken, its
entry is cached and its message is on the way, since only a `Remove` evicts an entry, the
notifyable of each `Remove` is that of a removal of the path or above it, and the promise of the latter is
completed in the step that evicts the entry it names, before its children's. The theorem needs that
no other client deletes a node: the `Remove` that follows a deletion evicts for nobody, and
may win the race. `StandingInv` is what this condition gives: no event of a deletion, and no
handler that finds a node missing which was there.

*The facades.* A step of `CacheApis` is a step of the cache or leaves it alone, so all
invariants of the cache hold in it as well. `SenderInv` says that responses and callbacks under way
are for different messages that the facade has taken, and name their senders; `ToldInv`
that the cache has seen all that was told; `EndInv` that a `StopResponse` is sent
only when the actor has ended, from when on `StopInv` keeps the cache empty.

**Only model-checked:** `FollowsZooKeeper`, `ComesToRest`, `StopEnds`, `ReadsAreAnswered`,
which are liveness under fairness and beyond the prover; and
`QuietMeansCoherent` and `EntriesHaveWatches` where a path is removed while calls add
it and afterwards (`Coherence`). As long as a path is removed and not added again, these two say
little of it: it is in no set then and may stay out of the cache.

## 5. What is not modelled

- A session that expires. All watches are gone then, `watchedNodes` still claims them, and
  the code does nothing about it: the cache is stale for ever. No document says otherwise.
- The construction: the factory, `Internals`, `registerWatcher` before the actor's fields are
  initialised (`CacheUpdaterActor.scala:37`), and a second cache on the same handle.
- The iteration of `find`: it filters a `TrieMap`, whose iterator works on a snapshot that is
  taken at once, so the model reads all entries in one step.
- The values of regular expressions, data, `Stat`, ephemeral nodes, access rights, logging,
  data transfer objects and exceptions other than as outcomes.
- `isDone`, `isCancelled` and `cancel` of the Java futures: the first reads the promise, the
  others throw.
- The ten seconds of `gracefulStop`: the timeout may come at any time. The 30 minutes of `get()`:
  giving up has no effect on the cache.
- A restart of the actor by an exception: only a second completion of a promise could
  throw out of a handler, and that is proved not to happen.
- The documentation under `src/docs`. Its JavaScript (`src/docs/lib/*.js`: jQuery and its
  plugins, Modernizr, and the scripts that scaladoc puts into its output) is vendored or
  generated and no part of the cache. All of the program is Scala, below
  `src/src/main/scala`; a count of covered lines that does not know Scala sees the
  JavaScript only, and so nothing of what is modelled here.

## 6. Plan

1. Done: paths, ZooKeeper, messages, the actor with its watcher, the Scala API; lost
   connections; the contract and its refinement; the Akka and Java APIs. Every safety
   property of a passing run is proved, those of the mirror under the conditions that they need.
2. Open: removals in the proof of coherence. A `remove` task would have two sources, a
   node that is gone and a caller, and only the first one has to find the node missing.
3. Open: two caches on one handle and the order of construction, with the watcher running
   before the actor's fields are there.
