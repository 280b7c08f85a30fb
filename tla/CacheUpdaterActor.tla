-------------------------- MODULE CacheUpdaterActor -------------------------
(***************************************************************************)
(* The actor that alone changes the cache, and the watcher it registers.   *)
(*                                                                         *)
(* Two threads meet here: the actor, which handles one message at a time,  *)
(* and the event thread of the ZooKeeper client, which runs the watcher.   *)
(* Every call of ZooKeeper that a handler makes is a step of its own, and  *)
(* so is what the handler does locally between two calls: the event thread *)
(* and the other clients of ZooKeeper may act in between.                  *)
(***************************************************************************)
EXTENDS UpdaterMessages

CONSTANT
  RacyReads    \* the watcher may read watchedNodes while the actor changes it

ASSUME RacyReadsAssumption == RacyReads \in BOOLEAN

VARIABLES
  mailbox,       \* the messages that wait for the actor
  handler,       \* how far the handler of the present message has come
  watchedNodes,  \* the paths on which the actor believes it left watches
  addedPaths,    \* the paths that callers have added
  cache,         \* the entries, by path
  alive,         \* the actor has not been stopped
  watcher        \* how far the watcher has come with the present event

actorVars == <<mailbox, handler, watchedNodes, addedPaths, cache, alive, watcher>>

Entry  == [data : Nat, children : SUBSET Name]
Stages == {"idle", "fetched", "fetchMissing",
           "watchExists", "watchChildren", "watchData", "recordWatch", "watchMissing",
           "list", "store", "addMissing", "addFailed", "evict"}

Handling(stage, msg, listed) == [stage |-> stage, msg |-> msg, listed |-> listed]
Idle    == Handling("idle", NoMessage, {})
NoEvent == [stage |-> "idle", event |-> [type |-> "None", path |-> Root]]

ActorTypeOK ==
  /\ mailbox \in Seq(Message)
  /\ handler \in [stage : Stages, msg : Message, listed : SUBSET Name]
  /\ watchedNodes \in SUBSET PathString
  /\ addedPaths \in SUBSET PathString
  /\ DOMAIN cache \in SUBSET PathString
  /\ \A p \in DOMAIN cache : cache[p] \in Entry
  /\ alive \in BOOLEAN
  /\ watcher \in {NoEvent} \cup [stage : {"unwatch", "followUp"}, event : Event]

ActorInit ==
  /\ mailbox = << >> /\ handler = Idle
  /\ watchedNodes = {} /\ addedPaths = {}
  /\ cache = << >>
  /\ alive = TRUE
  /\ watcher = NoEvent

-----------------------------------------------------------------------------
(* The cache, a TrieMap. *)

Cached(p)            == p \in DOMAIN cache
CacheWithout(p)      == [q \in DOMAIN cache \ {p} |-> cache[q]]

(* Mutant: the entry lists the paths of the children, not their names. *)
CacheWithPaths(p, entry) ==
  LET paths == [entry EXCEPT !.children = {ChildPath(p, c) : c \in @}]
  IN  [q \in DOMAIN cache \cup {p} |-> IF q = p THEN paths ELSE cache[q]]
CacheWith(p, entry)  == [q \in DOMAIN cache \cup {p} |-> IF q = p THEN entry ELSE cache[q]]

(* The actor takes the first message, which is of the given type. *)
Received(type) == /\ alive /\ handler = Idle
                  /\ mailbox # << >> /\ Head(mailbox).type = type

(* It has taken it, and has sent itself the messages ms. *)
Consume(ms) == mailbox' = Tail(mailbox) \o ms

(* The messages ms are sent; a stopped actor has no mailbox any more. *)
Send(ms) == mailbox' = IF alive THEN mailbox \o ms ELSE mailbox

(* The handler goes on with its message, or ends. *)
At(stage)   == handler.stage = stage
GoTo(stage) == handler' = [handler EXCEPT !.stage = stage]
Done        == handler' = Idle

(* notif.success(path) of the decorated notifyable *)
SucceedNotifyable(r, path) ==
  /\ Notify(r, path, "succeeded")
  /\ addedPaths' = IF ~Notifies(r, path) THEN addedPaths
                   ELSE IF request[r].op = "addPathToCache" THEN addedPaths \cup {path}
                   ELSE addedPaths \ {path}

-----------------------------------------------------------------------------
(* Messages of the API *)

(* Mutant: only the path itself is cached. *)
HandleWatchPath ==
  /\ Received("ScakkaApiWatchUnderPath")
  /\ LET wp == Head(mailbox) IN Consume(<<Update(wp.path, FALSE, wp.notify)>>)
  /\ UNCHANGED <<handler, watchedNodes, addedPaths, cache, alive, watcher, zkVars, callVars>>

HandleWatchUnderPath ==
  /\ Received("ScakkaApiWatchUnderPath")
  /\ LET wp == Head(mailbox) IN Consume(<<Update(wp.path, TRUE, wp.notify)>>)
  /\ UNCHANGED <<handler, watchedNodes, addedPaths, cache, alive, watcher, zkVars, callVars>>

(* Mutant: the caller is told before the entry is evicted. *)
HandleRemovePathAtOnce ==
  /\ Received("ScakkaApiRemovePath")
  /\ LET rp == Head(mailbox)
     IN  /\ Consume(<<Remove(rp.path, NoOne)>>)
         /\ SucceedNotifyable(rp.notify, rp.path)
  /\ UNCHANGED <<handler, watchedNodes, cache, alive, watcher, zkVars, request>>

HandleRemovePath ==
  /\ Received("ScakkaApiRemovePath")
  /\ LET rp == Head(mailbox) IN Consume(<<Remove(rp.path, rp.notify)>>)
  /\ UNCHANGED <<handler, watchedNodes, addedPaths, cache, alive, watcher, zkVars, callVars>>

(* Mutant: everything is cleared, but the actor goes on. *)
HandleShutdownAsClear ==
  /\ Received("ScakkaApiShutdown")
  /\ Consume(<< >>)
  /\ addedPaths' = {} /\ watchedNodes' = {} /\ cache' = << >>
  /\ UNCHANGED <<handler, alive, watcher, zkVars, callVars>>

(* What is left in the mailbox of a stopped actor goes to the dead letters. *)
HandleShutdown ==
  /\ Received("ScakkaApiShutdown")
  /\ addedPaths' = {} /\ watchedNodes' = {} /\ cache' = << >>
  /\ alive' = FALSE /\ mailbox' = << >>
  /\ UNCHANGED <<handler, watcher, zkVars, callVars>>

-----------------------------------------------------------------------------
(* Update: getData without a watch, then Add or SetWatcher *)

HandleUpdate ==
  /\ Received("Update")
  /\ Consume(<< >>)
  /\ LET update == Head(mailbox)
     IN  \/ /\ Read(update.path, "ok")
            /\ handler' = Handling("fetched", [update EXCEPT !.data = zk[update.path]], {})
         \/ /\ Read(update.path, "noNode")
            /\ handler' = Handling("fetchMissing", update, {})
         \/ Read(update.path, "error") /\ Done
  /\ UNCHANGED <<watchedNodes, addedPaths, cache, alive, watcher, callVars>>

(* Mutant: a change that the watcher has announced is stored first. *)
FinishUpdateUrgent ==
  /\ LET m == handler.msg
     IN  \/ /\ At("fetched")
            /\ LET add == <<Add(m.path, m.data, m.recursive, m.notify)>>
               IN  IF m.notify = NoOne /\ alive THEN mailbox' = add \o mailbox ELSE Send(add)
         \/ At("fetchMissing") /\ Send(<<SetWatcher(m.path, m.notify)>>)
  /\ Done
  /\ UNCHANGED <<watchedNodes, addedPaths, cache, alive, watcher, zkVars, callVars>>

FinishUpdate ==
  /\ LET m == handler.msg
     IN  \/ At("fetched") /\ Send(<<Add(m.path, m.data, m.recursive, m.notify)>>)
         \/ At("fetchMissing") /\ Send(<<SetWatcher(m.path, m.notify)>>)
  /\ Done
  /\ UNCHANGED <<watchedNodes, addedPaths, cache, alive, watcher, zkVars, callVars>>

-----------------------------------------------------------------------------
(***************************************************************************)
(* setWatchers(path), which the handlers of Add, Remove and SetWatcher     *)
(* call: nothing for a watched node, otherwise exists, getChildren and     *)
(* getData with watches, and the node is recorded as watched.  Whatever    *)
(* comes of it, the handler then goes on as before.                        *)
(***************************************************************************)
AfterWatchers(msg) ==
  CASE msg.type = "Add"        -> Handling("list", msg, {})
    [] msg.type = "Remove"     -> Handling("evict", msg, {})
    [] msg.type = "SetWatcher" -> Idle
Resume == handler' = AfterWatchers(handler.msg)

(* Mutant: a watched node ends the whole handler. *)
SetWatchersReturning(msg) ==
  handler' = IF msg.path \in watchedNodes THEN Idle ELSE Handling("watchExists", msg, {})
SetWatchers(msg) ==
  handler' = IF msg.path \in watchedNodes THEN AfterWatchers(msg)
                                          ELSE Handling("watchExists", msg, {})

WatchExists ==
  /\ At("watchExists")
  /\ LET path == handler.msg.path
     IN  \/ ExistsWithWatch(path, "ok") /\ GoTo("watchChildren")
         \/ ExistsWithWatch(path, "noNode") /\ GoTo("recordWatch")
         \/ ExistsWithWatch(path, "error") /\ Resume
  /\ UNCHANGED <<mailbox, watchedNodes, addedPaths, cache, alive, watcher, callVars>>

WatchChildren ==
  /\ At("watchChildren")
  /\ LET path == handler.msg.path
     IN  \/ GetChildrenWithWatch(path, "ok") /\ GoTo("watchData")
         \/ GetChildrenWithWatch(path, "noNode") /\ GoTo("watchMissing")
         \/ GetChildrenWithWatch(path, "error") /\ Resume
  /\ UNCHANGED <<mailbox, watchedNodes, addedPaths, cache, alive, watcher, callVars>>

WatchData ==
  /\ At("watchData")
  /\ LET path == handler.msg.path
     IN  \/ GetDataWithWatch(path, "ok") /\ GoTo("recordWatch")
         \/ GetDataWithWatch(path, "noNode") /\ GoTo("watchMissing")
         \/ GetDataWithWatch(path, "error") /\ Resume
  /\ UNCHANGED <<mailbox, watchedNodes, addedPaths, cache, alive, watcher, callVars>>

RecordWatch ==
  /\ At("recordWatch")
  /\ watchedNodes' = watchedNodes \cup {handler.msg.path}
  /\ Resume
  /\ UNCHANGED <<mailbox, addedPaths, cache, alive, watcher, zkVars, callVars>>

(* The node was deleted between exists and the calls after it. *)
WatchMissing ==
  /\ At("watchMissing")
  /\ Send(<<Remove(handler.msg.path, NoOne)>>)
  /\ Resume
  /\ UNCHANGED <<watchedNodes, addedPaths, cache, alive, watcher, zkVars, callVars>>

HandleSetWatcher ==
  /\ Received("SetWatcher")
  /\ Consume(<< >>)
  /\ SetWatchers(Head(mailbox))
  /\ UNCHANGED <<watchedNodes, addedPaths, cache, alive, watcher, zkVars, callVars>>

HandleUnwatch ==
  /\ Received("Unwatch")
  /\ Consume(<< >>)
  /\ watchedNodes' = watchedNodes \ {Head(mailbox).path}
  /\ UNCHANGED <<handler, addedPaths, cache, alive, watcher, zkVars, callVars>>

-----------------------------------------------------------------------------
(* Add: setWatchers, getChildren without a watch, then the entry is put *)

HandleAdd ==
  /\ Received("Add")
  /\ Consume(<< >>)
  /\ SetWatchers(Head(mailbox))
  /\ UNCHANGED <<watchedNodes, addedPaths, cache, alive, watcher, zkVars, callVars>>

ListChildren ==
  /\ At("list")
  /\ LET add == handler.msg
     IN  \/ /\ Read(add.path, "ok")
            /\ handler' = Handling("store", add, ChildNames(add.path))
         \/ Read(add.path, "noNode") /\ GoTo("addMissing")
         \/ Read(add.path, "error") /\ GoTo("addFailed")
  /\ UNCHANGED <<mailbox, watchedNodes, addedPaths, cache, alive, watcher, callVars>>

(* children.foreach sends in the order of a set, which is any order. *)
ForEachChild(send) == {[i \in DOMAIN s |-> send[s[i]]] : s \in Traversals(DOMAIN send)}

StoreEntry ==
  /\ At("store")
  /\ LET add    == handler.msg
         update == [c \in handler.listed |-> Update(ChildPath(add.path, c), TRUE, add.notify)]
     IN  /\ cache' = CacheWith(add.path, [data |-> add.data, children |-> handler.listed])
         /\ \E updates \in ForEachChild(update) :
              Send(IF add.recursive THEN updates ELSE << >>)
         /\ SucceedNotifyable(add.notify, add.path)
  /\ Done
  /\ UNCHANGED <<watchedNodes, alive, watcher, zkVars, request>>

(* Mutant: an Add that has failed is tried again, later. *)
FailAddRetrying ==
  /\ At("addMissing") \/ At("addFailed")
  /\ Send(<<handler.msg>>)
  /\ Done
  /\ UNCHANGED <<watchedNodes, addedPaths, cache, alive, watcher, zkVars, callVars>>

FailAdd ==
  /\ At("addMissing") \/ At("addFailed")
  /\ LET add == handler.msg
     IN  /\ Notify(add.notify, add.path, "failed")
         /\ Send(IF At("addMissing") THEN <<Remove(add.path, NoOne)>> ELSE << >>)
  /\ Done
  /\ UNCHANGED <<watchedNodes, addedPaths, cache, alive, watcher, zkVars, request>>

-----------------------------------------------------------------------------
(* Remove: watch an added path again, then take the entry out *)

(* Mutant: an added path that is deleted is not watched again. *)
HandleRemoveForGood ==
  /\ Received("Remove")
  /\ Consume(<< >>)
  /\ LET remove == Head(mailbox)
     IN  /\ watchedNodes' = watchedNodes \ {remove.path}
         /\ handler' = Handling("evict", remove, {})
  /\ UNCHANGED <<addedPaths, cache, alive, watcher, zkVars, callVars>>

HandleRemove ==
  /\ Received("Remove")
  /\ Consume(<< >>)
  /\ LET remove == Head(mailbox)
     IN  /\ watchedNodes' = watchedNodes \ {remove.path}
         /\ handler' = Handling(IF remove.path \in addedPaths THEN "watchExists" ELSE "evict",
                                remove, {})
  /\ UNCHANGED <<addedPaths, cache, alive, watcher, zkVars, callVars>>

(* Without an entry nothing happens, and nobody is notified. *)
Evict ==
  /\ At("evict")
  /\ LET remove == handler.msg
     IN  \/ /\ Cached(remove.path)
            /\ cache' = CacheWithout(remove.path)
            /\ SucceedNotifyable(remove.notify, remove.path)
            /\ \E removes \in ForEachChild([c \in cache[remove.path].children |->
                                 Remove(ChildPath(remove.path, c), remove.notify)]) :
                 Send(removes)
         \/ /\ ~Cached(remove.path)
            /\ UNCHANGED <<cache, promise, addedPaths, mailbox>>
  /\ Done
  /\ UNCHANGED <<watchedNodes, alive, watcher, zkVars, request>>

ActorStep ==
  \/ HandleWatchUnderPath \/ HandleRemovePath \/ HandleShutdown
  \/ HandleUpdate \/ FinishUpdate
  \/ HandleAdd \/ ListChildren \/ StoreEntry \/ FailAdd
  \/ HandleRemove \/ Evict
  \/ HandleSetWatcher \/ HandleUnwatch
  \/ WatchExists \/ WatchChildren \/ WatchData \/ RecordWatch \/ WatchMissing

-----------------------------------------------------------------------------
(***************************************************************************)
(* The watcher, on the event thread.  It reads the actor's watchedNodes,   *)
(* an unsynchronised hash set: while the actor is at work, a rehash or a   *)
(* removal can hide an element that is there.  (That it sees an element    *)
(* just removed, or not one just added, is the same as reading earlier.)   *)
(***************************************************************************)
ActorAtWork == handler # Idle \/ mailbox # << >>

WatchedSeen(path) ==
  {path \in watchedNodes} \cup IF RacyReads /\ ActorAtWork THEN {FALSE} ELSE {}

ProcessEvent ==
  /\ watcher = NoEvent /\ events # << >>
  /\ events' = Tail(events)
  /\ \E watched \in WatchedSeen(Head(events).path) :
       watcher' = IF watched THEN [stage |-> "unwatch", event |-> Head(events)] ELSE NoEvent
  /\ UNCHANGED <<mailbox, handler, watchedNodes, addedPaths, cache, alive,
                 zk, zxid, dataWatch, childWatch, missed, faults, drops, callVars>>

(* Mutant: a used-up watch is not reported to the actor. *)
SkipUnwatch ==
  /\ watcher.stage = "unwatch"
  /\ watcher' = [watcher EXCEPT !.stage = "followUp"]
  /\ UNCHANGED <<mailbox, handler, watchedNodes, addedPaths, cache, alive, zkVars, callVars>>

SendUnwatch ==
  /\ watcher.stage = "unwatch"
  /\ Send(<<Unwatch(watcher.event.path)>>)
  /\ watcher' = [watcher EXCEPT !.stage = "followUp"]
  /\ UNCHANGED <<handler, watchedNodes, addedPaths, cache, alive, zkVars, callVars>>

(* Mutants: new children are not cached; changed data is not read; the *)
(* parent of a deleted node is updated.                                *)
FollowUpFlat(event) ==
  IF event.type = "NodeDeleted" THEN Remove(event.path, NoOne)
                                ELSE Update(event.path, FALSE, NoOne)
FollowUpWithoutData(event) ==
  CASE event.type = "NodeDeleted"     -> Remove(event.path, NoOne)
    [] event.type = "NodeDataChanged" -> Unwatch(event.path)
    [] OTHER                          -> Update(event.path, TRUE, NoOne)
FollowUpOnParent(event) ==
  CASE event.type = "NodeDeleted"     -> Update(ParentPath(event.path), TRUE, NoOne)
    [] event.type = "NodeDataChanged" -> Update(event.path, FALSE, NoOne)
    [] OTHER                          -> Update(event.path, TRUE, NoOne)

FollowUp(event) ==
  CASE event.type = "NodeDeleted"     -> Remove(event.path, NoOne)
    [] event.type = "NodeDataChanged" -> Update(event.path, FALSE, NoOne)
    [] OTHER                          -> Update(event.path, TRUE, NoOne)

SendFollowUp ==
  /\ watcher.stage = "followUp"
  /\ Send(<<FollowUp(watcher.event)>>)
  /\ watcher' = NoEvent
  /\ UNCHANGED <<handler, watchedNodes, addedPaths, cache, alive, zkVars, callVars>>

WatcherStep == ProcessEvent \/ SendUnwatch \/ SendFollowUp
=============================================================================
