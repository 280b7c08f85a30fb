---------------------------- MODULE ScakkaZooCache --------------------------
(***************************************************************************)
(* The whole system: the calls of ScakkaZooCacheImpl, the updater actor    *)
(* with its watcher, and the other clients of ZooKeeper.  getChildren,     *)
(* getData and find only read `cache'; what they return is what the        *)
(* properties below say of it.                                             *)
(***************************************************************************)
EXTENDS CacheUpdaterActor

CONSTANT
  Patient    \* who acts only when the cache is at rest: "callers", "writers"

ASSUME PatientAssumption == Patient \in SUBSET {"callers", "writers"}

vars == <<actorVars, callVars, zkVars>>

(* No message, no event and no unfinished call is under way. *)
AtRest ==
  /\ mailbox = << >> /\ handler = Idle
  /\ events = << >> /\ watcher = NoEvent
  /\ \A r \in Request : request[r].at # "checked"

(* Nor is there an event to come from a lost connection. *)
Quiet == AtRest /\ Connected

-----------------------------------------------------------------------------
(***************************************************************************)
(* The calls.  Each one reads the cache and then sends, in the thread of   *)
(* its caller: two steps between which the actor may change the cache.     *)
(* Calls are numbered in the order in which they begin.                    *)
(***************************************************************************)
Begin(r, op) ==
  /\ request[r] = NotMade /\ (r > 1 => request[r - 1] # NotMade)
  /\ op \in MayCall[r]
  /\ "callers" \in Patient => AtRest

Make(r, op, path, at, attached) ==
  request' = [request EXCEPT ![r] =
    [op |-> op, path |-> path, at |-> at, attached |-> attached]]

Return(r) == request' = [request EXCEPT ![r].at = "returned"]

IsPending(r, op) == request[r] # NotMade /\ request[r].op = op /\ request[r].at = "checked"

(* The promise goes with the message only if the path is cached already. *)
CheckAdd(r, path) ==
  /\ Begin(r, "addPathToCache")
  /\ Make(r, "addPathToCache", path, "checked", Cached(path))
  /\ UNCHANGED <<promise, actorVars, zkVars>>

SendAdd(r) ==
  /\ IsPending(r, "addPathToCache")
  /\ Return(r)
  /\ Send(<<Msg("ScakkaApiWatchUnderPath", request[r].path, r)>>)
  /\ IF request[r].attached THEN UNCHANGED promise ELSE Complete(r, "succeeded")
  /\ UNCHANGED <<handler, watchedNodes, addedPaths, cache, alive, watcher, zkVars>>

(* Mutant: the removal is sent whether or not the path is cached. *)
CheckRemoveBlindly(r, path) ==
  /\ Begin(r, "removePathFromCache")
  /\ Make(r, "removePathFromCache", path, "checked", TRUE)
  /\ UNCHANGED <<promise, actorVars, zkVars>>

(* A path that is not cached has nothing to remove: success at once. *)
CheckRemove(r, path) ==
  /\ Begin(r, "removePathFromCache")
  /\ \/ /\ Cached(path)
        /\ Make(r, "removePathFromCache", path, "checked", TRUE)
        /\ UNCHANGED promise
     \/ /\ ~Cached(path)
        /\ Make(r, "removePathFromCache", path, "returned", FALSE)
        /\ Complete(r, "succeeded")
  /\ UNCHANGED <<actorVars, zkVars>>

SendRemove(r) ==
  /\ IsPending(r, "removePathFromCache")
  /\ Return(r)
  /\ Send(<<Msg("ScakkaApiRemovePath", request[r].path, r)>>)
  /\ UNCHANGED <<promise, handler, watchedNodes, addedPaths, cache, alive, watcher, zkVars>>

(* gracefulStop: the actor is watched and told to shut down; its end, or   *)
(* ten seconds without it, completes the promise.                          *)
CallStop(r) ==
  /\ Begin(r, "stop")
  /\ Make(r, "stop", Root, "returned", FALSE)
  /\ Send(<<Shutdown>>)
  /\ UNCHANGED <<promise, handler, watchedNodes, addedPaths, cache, alive, watcher, zkVars>>

IsOpenStop(r) == request[r] # NotMade /\ request[r].op = "stop" /\ promise[r] = "open"

(* Mutant: success once the shutdown is sent. *)
StopCompletesAtOnce(r) ==
  /\ IsOpenStop(r)
  /\ Complete(r, "succeeded")
  /\ UNCHANGED <<request, actorVars, zkVars>>

StopCompletes(r) ==
  /\ IsOpenStop(r) /\ ~alive
  /\ Complete(r, "succeeded")
  /\ UNCHANGED <<request, actorVars, zkVars>>

StopTimesOut(r) ==
  /\ IsOpenStop(r)
  /\ Complete(r, "failed")
  /\ UNCHANGED <<request, actorVars, zkVars>>

ApiStep ==
  \E r \in Request :
    \/ \E path \in ApiPath : CheckAdd(r, path) \/ CheckRemove(r, path)
    \/ SendAdd(r) \/ SendRemove(r)
    \/ CallStop(r) \/ StopCompletes(r) \/ StopTimesOut(r)

(* Other clients of ZooKeeper *)
WriterStep ==
  /\ "writers" \in Patient => AtRest
  /\ \E p \in Znode : CreateNode(p) \/ DeleteNode(p) \/ SetNodeData(p)
  /\ UNCHANGED <<actorVars, callVars>>

(* The session of the handle *)
LoseConnection == Disconnect /\ UNCHANGED <<actorVars, callVars>>
FindConnection == Reconnect /\ UNCHANGED <<actorVars, callVars>>
SessionStep    == LoseConnection \/ FindConnection

-----------------------------------------------------------------------------
Init == ZkInit /\ CallsInit /\ ActorInit

Next == ActorStep \/ WatcherStep \/ ApiStep \/ WriterStep \/ SessionStep

Spec == Init /\ [][Next]_vars

(* Threads that run are scheduled: the actor, the event thread and the      *)
(* caller between its check and its send.  The client library reconnects.   *)
(* Nobody has to call or to write.                                          *)
Fairness ==
  /\ WF_vars(ActorStep)
  /\ WF_vars(WatcherStep)
  /\ WF_vars(FindConnection)
  /\ \A r \in Request : WF_vars(SendAdd(r)) /\ WF_vars(SendRemove(r))

FairSpec == Spec /\ Fairness

-----------------------------------------------------------------------------
(* Every variable keeps its type. *)
TypeOK == ZkTypeOK /\ CallsTypeOK /\ ActorTypeOK

(***************************************************************************)
(* A caller is told the outcome at most once, although the notifyable is   *)
(* handed down to the messages of the whole subtree (MessageNotifyable,    *)
(* CacheUpdaterActor Add and Remove).  A second completion would throw     *)
(* out of the handler and restart the actor with empty sets.               *)
(***************************************************************************)
PromiseCompletedOnce == \A r \in Request : promise[r] # "double"

(***************************************************************************)
(* What the cache serves for a path never goes back to data older than     *)
(* what it served before, although Update reads the data, and Add stores   *)
(* it several messages later.                                              *)
(***************************************************************************)
CachedDataNeverRegresses ==
  [][\A p \in DOMAIN cache \cap DOMAIN cache' : cache'[p].data >= cache[p].data]_vars

(***************************************************************************)
(* The cache holds, and the actor watches, nothing outside the subtrees    *)
(* that somebody has asked to cache.                                       *)
(***************************************************************************)
RequestedRoots ==
  {request[r].path : r \in {q \in Request : /\ request[q] # NotMade
                                            /\ request[q].op = "addPathToCache"}}
UnderRequested(p) == \E root \in RequestedRoots : IsUnder(root, p)
OnlyRequestedSubtrees ==
  \A p \in DOMAIN cache \cup watchedNodes \cup addedPaths : UnderRequested(p)

(***************************************************************************)
(* When a caller has been told that stop() succeeded, the cache is empty   *)
(* and stays so, whatever was under way: events that the watcher still     *)
(* handles, calls between check and send, queued updates.                  *)
(***************************************************************************)
StoppedMeansEmpty ==
  \A r \in Request :
    (request[r] # NotMade /\ request[r].op = "stop" /\ promise[r] = "succeeded")
      => DOMAIN cache = {} /\ watchedNodes = {} /\ addedPaths = {} /\ mailbox = << >>

(***************************************************************************)
(* At rest, and if no call has failed, the watcher would act on an event   *)
(* of every entry and of every added path: it is in watchedNodes.  The     *)
(* pair Unwatch and Update, the Remove of a missing node and the early     *)
(* return of setWatchers never leave a path behind that the watcher        *)
(* ignores; and an added path that is deleted is watched for its return.   *)
(***************************************************************************)
KeptMeansWatched ==
  Quiet /\ faults = 0 => DOMAIN cache \cup addedPaths \subseteq watchedNodes

(***************************************************************************)
(* At rest, ZooKeeper has both watches of every entry, the one for its     *)
(* data and the one for its children: one-shot watches are used up one by  *)
(* one, set by three calls, and skipped for a path in watchedNodes, and    *)
(* still no entry is left that a change would pass unnoticed.              *)
(***************************************************************************)
EntriesHaveWatches == Quiet => DOMAIN cache \subseteq dataWatch \cap childWatch

(***************************************************************************)
(* An addPathToCache that went with its promise is answered as long as its *)
(* node is not deleted: whatever other callers, other clients, the watcher *)
(* and the connection do meanwhile, the promise is completed when the      *)
(* cache comes to rest, unless a call of ZooKeeper failed or the actor has *)
(* ended.  (If the node is deleted, SetWatcher drops the notifyable.)      *)
(***************************************************************************)
StillThere(r) == request[r] # NotMade /\ Exists(request[r].path)
AddsAreAnswered ==
  \A r \in Request :
    [](IsPending(r, "addPathToCache") /\ []StillThere(r)
         => [](AtRest /\ alive /\ faults = 0 => promise[r] # "open"))

(***************************************************************************)
(* Of the removePathFromCache calls that race for an entry, one succeeds:  *)
(* at rest, a removal that nobody has answered was overtaken by a          *)
(* successful one, of the same path or of one above it.  (This is so while *)
(* no node is deleted: the Remove that follows a deletion overtakes too.)  *)
(***************************************************************************)
IsRemoval(r) == request[r] # NotMade /\ request[r].op = "removePathFromCache"
Overtaken(r) ==
  \E q \in Request \ {r} : /\ IsRemoval(q) /\ promise[q] = "succeeded"
                           /\ request[q].attached
                           /\ IsUnder(request[q].path, request[r].path)
RemovalsAreAnswered ==
  AtRest /\ alive =>
    \A r \in Request : IsRemoval(r) /\ promise[r] = "open" => Overtaken(r)

(***************************************************************************)
(* At rest, the cache mirrors ZooKeeper under every path that was added:   *)
(* the same nodes, with their present data and children, and no others.    *)
(***************************************************************************)
MirrorsUnder(root) ==
  \A p \in {q \in Znode : IsUnder(root, q)} :
    /\ Exists(p) <=> Cached(p)
    /\ Cached(p) => cache[p] = [data |-> zk[p], children |-> ChildNames(p)]
QuietMeansCoherent == Quiet => \A root \in addedPaths : MirrorsUnder(root)

(***************************************************************************)
(* The cache eventually follows: again and again it mirrors ZooKeeper      *)
(* under every added path.                                                 *)
(***************************************************************************)
FollowsZooKeeper == []<>(\A root \in addedPaths : MirrorsUnder(root))

(***************************************************************************)
(* At rest, what a caller has asked to cache mirrors ZooKeeper, whether or *)
(* not the node existed at the time (nobody removes paths here).           *)
(***************************************************************************)
RequestedIsMirrored == Quiet /\ alive => \A root \in RequestedRoots : MirrorsUnder(root)

(***************************************************************************)
(* At rest, nothing at or under a path whose removal has succeeded is in   *)
(* the cache, unless a later call has asked for a path.                    *)
(***************************************************************************)
RemovedStaysRemoved ==
  Quiet => \A r \in Request :
    /\ request[r] # NotMade /\ request[r].op = "removePathFromCache"
    /\ promise[r] = "succeeded"
    /\ \A later \in r .. MaxCalls : request[later] # NotMade => request[later].op # "addPathToCache"
    => \A p \in DOMAIN cache : ~IsUnder(request[r].path, p)

(***************************************************************************)
(* The cache keeps its contract with the callers: every step of a handler, *)
(* of the watcher or of a call is a step that the contract allows, or      *)
(* nothing that a caller could see.                                        *)
(***************************************************************************)
AsAsked(call) ==
  IF call = NotMade THEN [op |-> "none", path |-> << >>, served |-> FALSE]
                    ELSE [op |-> call.op, path |-> call.path, served |-> call.attached]

Contract == INSTANCE CacheContract WITH
  ChildName <- Name, CallNumber <- Request, CallPath <- ApiPath,
  served <- cache, open <- alive, clock <- zxid,
  calls <- [r \in Request |-> AsAsked(request[r])], outcome <- promise

KeepsContract == Contract!ContractSpec

(* The cache always comes to rest again: the messages that a handler sends *)
(* to its own mailbox do not feed on each other for ever.                  *)
ComesToRest == []<>Quiet

(* A stop() that was called ends the actor, whatever is in the mailbox.    *)
StopEnds == \A r \in Request : IsOpenStop(r) ~> ~alive
=============================================================================
