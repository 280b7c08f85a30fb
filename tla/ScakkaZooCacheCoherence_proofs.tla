------------------- MODULE ScakkaZooCacheCoherence_proofs -------------------
(***************************************************************************)
(* At rest the cache mirrors ZooKeeper, under the conditions of the runs   *)
(* Coherence and Nested, for adds that overlap in any way.                 *)
(*                                                                         *)
(* Other clients write only while the cache is at rest.  From then on the  *)
(* tree stands still until everything has died down, and at any moment     *)
(* each difference between the cache and the tree has a task that will     *)
(* remove it: an event that the watcher will act on, the event it acts on  *)
(* now, a message in the mailbox or the one that is handled.  When there   *)
(* is no task any more there is no difference.                             *)
(***************************************************************************)
EXTENDS ScakkaZooCacheWatched_proofs, WellFoundedInduction

(* Assumed of the constants: writers wait, the watcher reads watchedNodes  *)
(* as it is, and a znode below the first level has a parent.               *)
Calm ==
  /\ "writers" \in Patient /\ ~RacyReads
  /\ \A p \in Znode : Len(p) > 1 => ParentPath(p) \in Znode

IsOp(r, op) == request[r] # NotMade /\ request[r].op = op

(* Assumed of the state: no call of ZooKeeper has failed, no connection    *)
(* was lost, nobody has removed a path, added "/" or stopped the actor.    *)
Undisturbed ==
  /\ alive /\ faults = 0 /\ drops = 0
  /\ \A r \in Request : ~IsOp(r, "removePathFromCache")
  /\ Root \notin RequestedRoots

-----------------------------------------------------------------------------
(* Tasks *)

Kind == {"tree", "node", "remove", "unwatch"}

MsgKind(m) ==
  CASE m.type = "Remove"                               -> "remove"
    [] m.type = "Unwatch"                              -> "unwatch"
    [] m.type \in {"Update", "Add"} /\ m.recursive     -> "tree"
    [] m.type \in {"Update", "Add"} /\ ~m.recursive    -> "node"
    [] OTHER                                           -> "none"
EventKind(e) ==
  CASE e.type = "NodeDeleted"     -> "remove"
    [] e.type = "NodeDataChanged" -> "node"
    [] OTHER                      -> "tree"

Doing(p, k)   == {m \in Message : m.path = p /\ MsgKind(m) = k}
Raising(p, k) == {e \in Event : e.path = p /\ EventKind(e) = k}

Waiting(p, k) == Has(mailbox, handler.msg, Doing(p, k))
Noticing(p, k) ==
  \/ watcher.event \in Raising(p, k)
  \/ p \in watchedNodes /\ ~NoneOf(events, Raising(p, k))
Task(p, k) == Waiting(p, k) \/ Noticing(p, k)

-----------------------------------------------------------------------------
(* The invariant *)

TreeOK ==
  /\ Root \in Znode => Exists(Root)
  /\ \A p \in Znode : Exists(p) => ParentExists(p)

(* What events and messages say of a node is still true. *)
EventFits(e) == e.type = "NodeDeleted" <=> ~Exists(e.path)
NoEventOf(p) == \A i \in DOMAIN events : events[i].path # p

MsgFits(m) ==
  /\ m.type # "ScakkaApiRemovePath"
  /\ m.type \in {"ScakkaApiWatchUnderPath", "Update", "Add", "SetWatcher", "Remove"} => m.path \in Znode
  /\ m.type = "Add" => Exists(m.path) /\ m.data = zk[m.path]
  /\ m.type \in {"SetWatcher", "Remove"} => ~Exists(m.path)
  /\ m.type = "Unwatch" => NoEventOf(m.path)
Sound == {m \in Message : MsgFits(m)}

HasWatches(p) == p \in dataWatch /\ (Exists(p) => p \in childWatch)

StageFits(stage, m, listed) ==
  /\ stage = "fetched" => Exists(m.path) /\ m.data = zk[m.path]
  /\ stage = "fetchMissing" => ~Exists(m.path)
  /\ stage \in {"watchChildren", "watchData"} => m.path \in dataWatch /\ Exists(m.path)
  /\ stage = "watchData" => m.path \in childWatch
  /\ stage = "recordWatch" => HasWatches(m.path)
  /\ stage \in {"list", "store"} => m.path \in watchedNodes
  /\ stage = "store" => listed = ChildNames(m.path)
  /\ stage \notin {"watchMissing", "addMissing", "addFailed"}

FactsOK ==
  /\ missed = Nothing /\ TreeOK
  /\ \A i \in DOMAIN events : EventFits(events[i])
  /\ watcher.stage # "idle" => EventFits(watcher.event)
  /\ mailbox \in Seq(Sound) /\ handler.msg \in Sound
  /\ StageFits(handler.stage, handler.msg, handler.listed)
  /\ \A r \in Request : IsOp(r, "addPathToCache") => request[r].path \in Znode

(* There is one event of a path at a time. *)
Distinct ==
  /\ \A i, j \in DOMAIN events : events[i].path = events[j].path => i = j
  /\ watcher.stage # "idle" => NoEventOf(watcher.event.path)

(* A path in watchedNodes has its watches, or they were used up and the    *)
(* path is about to leave watchedNodes.                                    *)
UsedUp(p) ==
  \/ ~NoEventOf(p)
  \/ watcher.stage = "unwatch" /\ watcher.event.path = p
  \/ Task(p, "unwatch")
WatchOK == \A p \in watchedNodes : HasWatches(p) \/ UsedUp(p)

(* An entry without a node has no children, and will be evicted. *)
GoneOK == \A p \in DOMAIN cache : ~Exists(p) => cache[p].children = {} /\ Task(p, "remove")

(* A node that the updater knows of is cached with its children, and its   *)
(* entry is what ZooKeeper has, unless a task will make it so.             *)
Fresh(p)   == cache[p] = [data |-> zk[p], children |-> ChildNames(p)]
Touched(p) == p \in watchedNodes \/ Cached(p) \/ Task(p, "node")
ChildrenCovered(p) ==
  \A c \in ChildNames(p) : Cached(Append(p, c)) \/ Task(Append(p, c), "tree")
CoveredOK ==
  \A p \in Znode : Exists(p) /\ Touched(p) /\ ~Task(p, "tree") => Cached(p) /\ ChildrenCovered(p)
FreshOK ==
  \A p \in Znode : Exists(p) /\ Touched(p) /\ ~Task(p, "tree") /\ ~Task(p, "node") => Fresh(p)

MirrorInv == FactsOK /\ Distinct /\ WatchOK /\ GoneOK /\ CoveredOK /\ FreshOK

Steady       == Calm /\ QuietInv /\ Undisturbed /\ MirrorInv
CoherentInv  == Calm /\ QuietInv /\ (Undisturbed => MirrorInv)

-----------------------------------------------------------------------------
(* Messages and their tasks *)

(* What waits after a message was taken, and after messages were sent. *)
LEMMA WaitingTaken ==
  ASSUME NEW M, mailbox \in Seq(M), mailbox # << >>, NEW ms \in Seq(M), Consume(ms),
         NEW T, handler.msg \notin T
  PROVE  /\ Has(mailbox, handler.msg, T) <=> Head(mailbox) \in T \/ ~NoneOf(Tail(mailbox), T)
         /\ Has(mailbox', handler'.msg, T) <=>
              handler'.msg \in T \/ ~NoneOf(Tail(mailbox), T) \/ ~NoneOf(ms, T)
BY NoneOfTail, NoneOfConcat DEF Has, Consume

LEMMA WaitingSent ==
  ASSUME alive, NEW M, mailbox \in Seq(M), NEW ms \in Seq(M), Send(ms), NEW T
  PROVE  Has(mailbox', handler'.msg, T) <=>
           handler'.msg \in T \/ ~NoneOf(mailbox, T) \/ ~NoneOf(ms, T)
BY NoneOfConcat DEF Has, Send

LEMMA MessageKinds ==
  ASSUME NEW p \in PathString, NEW r \in Notifyable, NEW d \in Nat
  PROVE  /\ MsgKind(Update(p, TRUE, r)) = "tree" /\ MsgKind(Update(p, FALSE, r)) = "node"
         /\ MsgKind(Add(p, d, TRUE, r)) = "tree" /\ MsgKind(Add(p, d, FALSE, r)) = "node"
         /\ MsgKind(Remove(p, r)) = "remove" /\ MsgKind(SetWatcher(p, r)) = "none"
         /\ MsgKind(Unwatch(p)) = "unwatch"
<1>1. /\ Update(p, TRUE, r).type = "Update" /\ Update(p, TRUE, r).recursive = TRUE
      /\ Update(p, FALSE, r).type = "Update" /\ Update(p, FALSE, r).recursive = FALSE
  BY DEF Update, Msg
<1>2. /\ Add(p, d, TRUE, r).type = "Add" /\ Add(p, d, TRUE, r).recursive = TRUE
      /\ Add(p, d, FALSE, r).type = "Add" /\ Add(p, d, FALSE, r).recursive = FALSE
  BY DEF Add, Msg
<1>3. Remove(p, r).type = "Remove" /\ SetWatcher(p, r).type = "SetWatcher" /\ Unwatch(p).type = "Unwatch"
  BY DEF Remove, SetWatcher, Unwatch, Msg
<1> QED
  BY <1>1, <1>2, <1>3 DEF MsgKind

LEMMA MessagePaths ==
  ASSUME NEW p, NEW r, NEW rec, NEW d
  PROVE  /\ Update(p, rec, r).path = p /\ Add(p, d, rec, r).path = p /\ Remove(p, r).path = p
         /\ SetWatcher(p, r).path = p /\ Unwatch(p).path = p
BY DEF Update, Add, Remove, SetWatcher, Unwatch, Msg

LEMMA IdleHasNoTask ==
  /\ Idle.msg = NoMessage /\ NoMessage \in Sound /\ Idle.stage = "idle"
  /\ \A p : \A k \in Kind : NoMessage \notin Doing(p, k)
<1>1. Idle.msg = NoMessage /\ Idle.stage = "idle" /\ NoMessage.type = "None"
  BY DEF Idle, Handling, NoMessage, Msg
<1> QED
  BY <1>1, RootMessageTypes DEF Sound, MsgFits, Doing, MsgKind, Kind

LEMMA SteadyFacts ==
  ASSUME Steady
  PROVE  /\ TypeInv /\ StageInv /\ SubtreeInv /\ FitInv /\ WatchedInv
         /\ alive /\ faults = 0 /\ missed = Nothing
         /\ mailbox \in Seq(Sound) /\ handler.msg \in Sound
         /\ mailbox \in Seq(Message) /\ handler.msg \in Message
         /\ handler \in [stage : Stages, msg : Message, listed : SUBSET Name]
         /\ handler.msg.path \in PathString /\ handler.msg.notify \in Notifyable
         /\ handler.msg.data \in Nat /\ handler.msg.recursive \in BOOLEAN
         /\ events \in Seq(Event) /\ zk \in [Znode -> Nat]
         /\ watcher \in {NoEvent} \cup [stage : {"unwatch", "followUp"}, event : Event]
         /\ StageFits(handler.stage, handler.msg, handler.listed)
<1>1. /\ TypeInv /\ StageInv /\ SubtreeInv /\ FitInv /\ FaultlessInv
      /\ alive /\ faults = 0 /\ FactsOK
  BY DEF Steady, QuietInv, ContractInv, DataInv, Undisturbed, MirrorInv
<1>2. /\ mailbox \in Seq(Message)
      /\ handler \in [stage : Stages, msg : Message, listed : SUBSET Name]
      /\ events \in Seq(Event) /\ zk \in [Znode -> Nat]
      /\ watcher \in {NoEvent} \cup [stage : {"unwatch", "followUp"}, event : Event]
  BY <1>1 DEF TypeInv, TypeOK, ActorTypeOK, ZkTypeOK
<1>3. handler.msg \in Message
  BY <1>2
<1>4. /\ handler.msg.path \in PathString /\ handler.msg.notify \in Notifyable
      /\ handler.msg.data \in Nat /\ handler.msg.recursive \in BOOLEAN
  BY <1>3 DEF Message
<1> QED
  BY <1>1, <1>2, <1>3, <1>4 DEF FactsOK, FaultlessInv

-----------------------------------------------------------------------------
(* Steps that leave the nodes alone *)

(* Entries stay as good as they were, if tasks only vanish for paths       *)
(* without a node.                                                         *)
LEMMA EntriesKept ==
  ASSUME GoneOK, CoveredOK, FreshOK, zk' = zk,
         \A p \in Znode : Exists(p) =>
           /\ Task(p, "tree") => Task(p, "tree")'
           /\ Task(p, "node") => Task(p, "node")'
           /\ Touched(p)' => Touched(p) \/ Task(p, "tree")'
           /\ Cached(p) => Cached(p)',
         \A p \in DOMAIN cache' :
           /\ Cached(p) /\ cache'[p] = cache[p]
           /\ ~Exists(p) /\ Task(p, "remove") => Task(p, "remove")'
  PROVE  GoneOK' /\ CoveredOK' /\ FreshOK'
<1>1. /\ \A p : Exists(p)' <=> Exists(p)
      /\ \A p : ChildNames(p)' = ChildNames(p)
  BY DEF Exists, ChildNames
<1>2. ASSUME NEW p \in DOMAIN cache', ~Exists(p)
      PROVE  cache'[p].children = {} /\ Task(p, "remove")'
  BY <1>2 DEF GoneOK, Cached
<1>3. ASSUME NEW p \in Znode, Exists(p), Touched(p)', ~Task(p, "tree")'
      PROVE  Cached(p)' /\ ChildrenCovered(p)'
  <2>1. Cached(p) /\ ChildrenCovered(p)
    BY <1>3 DEF CoveredOK
  <2>2. ASSUME NEW c \in ChildNames(p)
        PROVE  Cached(Append(p, c))' \/ Task(Append(p, c), "tree")'
    <3>1. Append(p, c) \in Znode /\ Exists(Append(p, c))
      BY <2>2 DEF ChildNames, Exists
    <3> QED
      BY <2>1, <2>2, <3>1 DEF ChildrenCovered
  <2> QED
    BY <1>1, <1>3, <2>1, <2>2 DEF ChildrenCovered
<1>4. ASSUME NEW p \in Znode, Exists(p), Touched(p)', ~Task(p, "tree")', ~Task(p, "node")'
      PROVE  Fresh(p)'
  <2>1. Fresh(p)
    BY <1>4 DEF FreshOK
  <2>2. p \in DOMAIN cache'
    BY <1>3, <1>4 DEF Cached
  <2> QED
    BY <1>1, <2>1, <2>2 DEF Fresh
<1>5. GoneOK'
  BY <1>1, <1>2 DEF GoneOK
<1>6. CoveredOK'
  BY <1>1, <1>3 DEF CoveredOK
<1>7. FreshOK'
  BY <1>1, <1>4 DEF FreshOK
<1> QED
  BY <1>5, <1>6, <1>7

(* No event asks for an Unwatch: only messages do. *)
LEMMA UnwatchWaits == ASSUME NEW p PROVE Task(p, "unwatch") <=> Waiting(p, "unwatch")
BY DEF Task, Noticing, Raising, EventKind, NoneOf

LEMMA EventKindOf ==
  ASSUME NEW e, EventFits(e), NEW p, NEW k, e \in Raising(p, k)
  PROVE  ~Exists(p) <=> k = "remove"
BY DEF EventFits, Raising, EventKind, Event, EventType

(* The facts and the watches after a step of the updater or of a caller. *)
LEMMA UpdaterFacts ==
  ASSUME Steady,
         UNCHANGED <<zk, events, watcher, missed>>,
         dataWatch \subseteq dataWatch', childWatch \subseteq childWatch',
         mailbox' \in Seq(Sound), handler'.msg \in Sound,
         StageFits(handler.stage, handler.msg, handler.listed)',
         \A r \in Request : IsOp(r, "addPathToCache")' => request'[r].path \in Znode,
         \A p \in watchedNodes' : Waiting(p, "unwatch") => Waiting(p, "unwatch")',
         \A p \in watchedNodes' \ watchedNodes : HasWatches(p)
  PROVE  FactsOK' /\ Distinct' /\ WatchOK'
<1>1. FactsOK /\ Distinct /\ WatchOK /\ GoneOK /\ CoveredOK /\ FreshOK
  BY DEF Steady, MirrorInv
<1>2. /\ \A p : Exists(p)' <=> Exists(p)
      /\ \A p : NoEventOf(p)' <=> NoEventOf(p)
      /\ Sound' = Sound
  BY DEF Exists, NoEventOf, Sound, MsgFits
<1>3. FactsOK'
  <2>1. missed' = Nothing /\ TreeOK'
    BY <1>1, <1>2 DEF FactsOK, TreeOK, ParentExists
  <2>2. /\ \A i \in DOMAIN events' : EventFits(events[i])'
        /\ watcher'.stage # "idle" => EventFits(watcher.event)'
    BY <1>1, <1>2 DEF FactsOK, EventFits
  <2> QED
    BY <1>2, <2>1, <2>2 DEF FactsOK
<1>4. Distinct'
  BY <1>1 DEF Distinct, NoEventOf
<1>5. WatchOK'
  <2> SUFFICES ASSUME NEW p \in watchedNodes' PROVE HasWatches(p)' \/ UsedUp(p)'
    BY DEF WatchOK
  <2>1. HasWatches(p) => HasWatches(p)'
    BY <1>2 DEF HasWatches
  <2>2. ASSUME UsedUp(p) PROVE UsedUp(p)'
    <3>1. Task(p, "unwatch") => Task(p, "unwatch")'
      <4>1. Waiting(p, "unwatch")' => Task(p, "unwatch")'
        BY DEF Task
      <4> QED
        BY <4>1, UnwatchWaits
    <3> QED
      BY <1>2, <2>2, <3>1 DEF UsedUp
  <2> QED
    BY <1>1, <2>1, <2>2 DEF WatchOK
<1> QED
  BY <1>3, <1>4, <1>5

(* A step of the updater or of a caller, told by what it does to messages. *)
LEMMA UpdaterKeeps ==
  ASSUME Steady,
         UNCHANGED <<zk, events, watcher, missed>>,
         dataWatch \subseteq dataWatch', childWatch \subseteq childWatch',
         mailbox' \in Seq(Sound), handler'.msg \in Sound,
         StageFits(handler.stage, handler.msg, handler.listed)',
         \A r \in Request : IsOp(r, "addPathToCache")' => request'[r].path \in Znode,
         \A p \in Znode : Exists(p) =>
           /\ Waiting(p, "tree") => Waiting(p, "tree")'
           /\ Waiting(p, "node")' <=> Waiting(p, "node")
           /\ Cached(p) => Cached(p)',
         \A p \in watchedNodes' : Waiting(p, "unwatch") => Waiting(p, "unwatch")',
         \A p \in watchedNodes \ watchedNodes' :
           NoEventOf(p) \/ (~Exists(p) /\ Waiting(p, "remove")'),
         \A p \in watchedNodes' \ watchedNodes :
           HasWatches(p) /\ (Exists(p) => Waiting(p, "tree")' \/ Waiting(p, "node")),
         \A p \in DOMAIN cache' :
           /\ Cached(p) /\ cache'[p] = cache[p]
           /\ ~Exists(p) /\ Waiting(p, "remove") => Waiting(p, "remove")'
  PROVE  MirrorInv'
<1>1. FactsOK /\ Distinct /\ WatchOK /\ GoneOK /\ CoveredOK /\ FreshOK
  BY DEF Steady, MirrorInv
<1>2. /\ \A p : Exists(p)' <=> Exists(p)
      /\ \A p : NoEventOf(p)' <=> NoEventOf(p)
  BY DEF Exists, NoEventOf
<1>3. FactsOK' /\ Distinct' /\ WatchOK'
  BY UpdaterFacts
<1>5. ASSUME NEW p, NEW k, Noticing(p, k), p \in watchedNodes'
      PROVE  Noticing(p, k)'
  BY <1>5 DEF Noticing, Raising
<1>6. ASSUME NEW p, NEW k, Noticing(p, k), NoEventOf(p)
      PROVE  Noticing(p, k)'
  BY <1>6 DEF Noticing, Raising, NoEventOf, NoneOf
<1>7. ASSUME NEW p, NEW k, Noticing(p, k)', ~Noticing(p, k)
      PROVE  p \in watchedNodes' \ watchedNodes
  BY <1>7 DEF Noticing, Raising
<1>8. ASSUME NEW p, NEW k, Noticing(p, k), k \in {"tree", "node"}
      PROVE  Exists(p)
  <2>1. watcher.event \in Raising(p, k) => watcher.stage # "idle"
    BY SteadyFacts DEF NoEvent, Raising, Event, EventType
  <2>2. PICK e : e \in Raising(p, k) /\ EventFits(e)
    BY <1>1, <1>8, <2>1 DEF Noticing, NoneOf, FactsOK
  <2> QED
    BY <1>8, <2>2, EventKindOf
<1>10. ASSUME NEW p \in Znode, Exists(p), NEW k \in {"tree", "node"}, Task(p, k)
       PROVE  Task(p, k)'
  <2>1. CASE Waiting(p, k)
    BY <1>10, <2>1 DEF Task
  <2>2. CASE Noticing(p, k)
    <3>1. p \in watchedNodes => p \in watchedNodes' \/ NoEventOf(p)
      BY <1>10
    <3>2. CASE p \notin watchedNodes
      BY <2>2, <3>2 DEF Noticing, Task, Raising
    <3> QED
      BY <1>5, <1>6, <2>2, <3>1, <3>2 DEF Task
  <2> QED
    BY <1>10, <2>1, <2>2 DEF Task
<1>11. ASSUME NEW p \in DOMAIN cache', ~Exists(p), Task(p, "remove")
       PROVE  Task(p, "remove")'
  <2>1. CASE Waiting(p, "remove")
    BY <1>11, <2>1 DEF Task
  <2>2. CASE Noticing(p, "remove")
    <3>1. CASE p \notin watchedNodes
      BY <2>2, <3>1 DEF Noticing, Task, Raising
    <3>2. CASE p \in watchedNodes
      BY <1>5, <1>6, <2>2, <3>2 DEF Task
    <3> QED
      BY <3>1, <3>2
  <2> QED
    BY <1>11, <2>1, <2>2 DEF Task
<1>12. ASSUME NEW p \in Znode, Exists(p), Touched(p)'
       PROVE  Touched(p) \/ Task(p, "tree")'
  <2>1. ASSUME p \in watchedNodes' PROVE Touched(p) \/ Task(p, "tree")'
    BY <1>12, <2>1 DEF Touched, Task
  <2>2. CASE Waiting(p, "node")'
    BY <1>12, <2>2 DEF Touched, Task
  <2>3. CASE Noticing(p, "node")'
    BY <1>7, <2>1, <2>3 DEF Touched, Task
  <2>4. CASE Cached(p)'
    BY <2>4 DEF Touched, Cached
  <2> QED
    BY <1>12, <2>1, <2>2, <2>3, <2>4 DEF Touched, Task
<1>13. GoneOK' /\ CoveredOK' /\ FreshOK'
  BY <1>1, <1>10, <1>11, <1>12, EntriesKept
<1> QED
  BY <1>3, <1>13 DEF MirrorInv

(* A step that leaves cache and watchedNodes alone as well. *)
LEMMA MessagesKeep ==
  ASSUME Steady,
         UNCHANGED <<zk, events, watcher, missed, request, cache, watchedNodes>>,
         dataWatch \subseteq dataWatch', childWatch \subseteq childWatch',
         mailbox' \in Seq(Sound), handler'.msg \in Sound,
         StageFits(handler.stage, handler.msg, handler.listed)',
         \A p : \A k \in Kind : (k \in {"tree", "node"} => Exists(p)) =>
           /\ Waiting(p, k) => Waiting(p, k)'
           /\ Waiting(p, k)' => Waiting(p, k) \/ k # "node"
  PROVE  MirrorInv'
<1>1. "tree" \in Kind /\ "node" \in Kind /\ "remove" \in Kind /\ "unwatch" \in Kind
  BY DEF Kind
<1>2. \A p : Exists(p) =>
        /\ Waiting(p, "tree") => Waiting(p, "tree")'
        /\ Waiting(p, "node")' <=> Waiting(p, "node")
  BY <1>1
<1>3. \A p : /\ Waiting(p, "unwatch") => Waiting(p, "unwatch")'
             /\ Waiting(p, "remove") => Waiting(p, "remove")'
  BY <1>1
<1>4. \A r \in Request : IsOp(r, "addPathToCache")' => request'[r].path \in Znode
  BY DEF Steady, MirrorInv, FactsOK, IsOp
<1>5. \A p : Cached(p)' <=> Cached(p)
  BY DEF Cached
<1> QED
  BY <1>2, <1>3, <1>4, <1>5, UpdaterKeeps DEF Cached

-----------------------------------------------------------------------------
(* Steps of the updater *)

LEMMA SteadyReceived ==
  ASSUME Steady, NEW type, Received(type)
  PROVE  /\ mailbox # << >> /\ Head(mailbox) \in Sound /\ Head(mailbox).type = type
         /\ Head(mailbox) \in Message /\ Head(mailbox).path \in PathString
         /\ Head(mailbox).notify \in Notifyable /\ Head(mailbox).recursive \in BOOLEAN
         /\ handler = Idle /\ handler.msg = NoMessage
         /\ \A p : \A k \in Kind : handler.msg \notin Doing(p, k)
<1>1. mailbox # << >> /\ Head(mailbox).type = type /\ handler = Idle
  BY DEF Received
<1>2. Head(mailbox) \in Sound
  BY <1>1, SteadyFacts, NoneOfTail
<1>3. Head(mailbox) \in Message
  BY <1>2 DEF Sound
<1> QED
  BY <1>1, <1>2, <1>3, IdleHasNoTask DEF Message

(* The handler holds the message it has taken, or one that does the same. *)
LEMMA TakenWaits ==
  ASSUME Steady, NEW type, Received(type), Consume(<< >>),
         \A p : \A k \in Kind : Head(mailbox) \in Doing(p, k) <=> handler'.msg \in Doing(p, k)
  PROVE  /\ \A p : \A k \in Kind : Waiting(p, k)' <=> Waiting(p, k)
         /\ mailbox' \in Seq(Sound)
<1>1. << >> \in Seq(Sound)
  OBVIOUS
<1>2. ASSUME NEW p, NEW k \in Kind PROVE Waiting(p, k)' <=> Waiting(p, k)
  <2>1. Head(mailbox) \in Doing(p, k) <=> handler'.msg \in Doing(p, k)
    OBVIOUS
  <2>2. NoneOf(<< >>, Doing(p, k))
    BY DEF NoneOf
  <2>3. mailbox \in Seq(Sound) /\ mailbox # << >> /\ handler.msg \notin Doing(p, k)
    BY SteadyFacts, SteadyReceived
  <2>4. /\ Has(mailbox, handler.msg, Doing(p, k)) <=>
             Head(mailbox) \in Doing(p, k) \/ ~NoneOf(Tail(mailbox), Doing(p, k))
        /\ Has(mailbox', handler'.msg, Doing(p, k)) <=>
             handler'.msg \in Doing(p, k) \/ ~NoneOf(Tail(mailbox), Doing(p, k))
    BY <1>1, <2>2, <2>3, WaitingTaken
  <2> QED
    BY <2>1, <2>4 DEF Waiting, Doing
<1>3. mailbox' \in Seq(Sound)
  BY <1>1, SteadyFacts, SteadyReceived, MailboxOf
<1> QED
  BY <1>2, <1>3

(* The handler goes on with its message. *)
LEMMA MovedWaits ==
  ASSUME mailbox' = mailbox, handler'.msg = handler.msg
  PROVE  \A p : \A k \in Kind : Waiting(p, k)' <=> Waiting(p, k)
BY DEF Waiting, Doing

(* The handler ends, and sends at most messages of the kind of its own. *)
LEMMA SentWaits ==
  ASSUME Steady, Done, NEW ms \in Seq(Sound), Send(ms)
  PROVE  /\ \A p : \A k \in Kind :
              Waiting(p, k)' <=> ~NoneOf(mailbox, Doing(p, k)) \/ ~NoneOf(ms, Doing(p, k))
         /\ mailbox' \in Seq(Sound) /\ handler'.msg \in Sound
         /\ handler'.stage = "idle" /\ handler'.msg = NoMessage
<1>1. handler' = Idle
  BY DEF Done
<1>2. ASSUME NEW p, NEW k \in Kind
      PROVE  Waiting(p, k)' <=> ~NoneOf(mailbox, Doing(p, k)) \/ ~NoneOf(ms, Doing(p, k))
  <2>1. Has(mailbox', handler'.msg, Doing(p, k)) <=>
           handler'.msg \in Doing(p, k) \/ ~NoneOf(mailbox, Doing(p, k)) \/ ~NoneOf(ms, Doing(p, k))
    BY SteadyFacts, WaitingSent
  <2> QED
    BY <1>1, <2>1, IdleHasNoTask DEF Waiting, Doing
<1>3. mailbox' \in Seq(Sound)
  BY SteadyFacts, MailboxOf
<1> QED
  BY <1>1, <1>2, <1>3, IdleHasNoTask

LEMMA IdleFits == \A m, listed : StageFits("idle", m, listed) /\ StageFits("idle", m, listed)'
BY DEF StageFits

LEMMA SeqOfOne == ASSUME NEW M, NEW m \in M PROVE <<m>> \in Seq(M)
OBVIOUS

(* What is sent for a path that is still to be looked at is sound. *)
LEMMA SoundUpdate ==
  ASSUME NEW p \in Znode, NEW r \in Notifyable
  PROVE  Update(p, TRUE, r) \in Sound /\ Update(p, FALSE, r) \in Sound
<1>1. p \in PathString /\ 0 \in Nat
  BY ZnodeIsPathString
<1>2. Update(p, TRUE, r) \in Message /\ Update(p, FALSE, r) \in Message
  BY <1>1, MessageTypes
<1>3. /\ Update(p, TRUE, r).type = "Update" /\ Update(p, TRUE, r).path = p
      /\ Update(p, FALSE, r).type = "Update" /\ Update(p, FALSE, r).path = p
  BY DEF Update, Msg
<1> QED
  BY <1>2, <1>3 DEF Sound, MsgFits

LEMMA WatchUnderPathKeeps == Steady /\ HandleWatchUnderPath => MirrorInv'
<1> SUFFICES ASSUME Steady, HandleWatchUnderPath PROVE MirrorInv'
  OBVIOUS
<1> DEFINE wp == Head(mailbox)
           m  == Update(wp.path, TRUE, wp.notify)
<1>1. Received("ScakkaApiWatchUnderPath") /\ Consume(<<m>>)
  BY DEF HandleWatchUnderPath
<1>2. UNCHANGED <<handler, watchedNodes, cache, watcher, zk, dataWatch, childWatch, events, missed, request>>
  BY DEF HandleWatchUnderPath, zkVars, callVars
<1>3. wp \in Sound /\ wp.type = "ScakkaApiWatchUnderPath" /\ wp.notify \in Notifyable
  BY <1>1, SteadyReceived
<1>z. wp.path \in Znode
  BY <1>3 DEF Sound, MsgFits
<1>4. m \in Sound /\ <<m>> \in Seq(Sound)
  <2>1. m \in Sound
    BY <1>3, <1>z, SoundUpdate
  <2> QED
    BY <2>1, SeqOfOne
<1>5. ASSUME NEW p, NEW k \in Kind
      PROVE  /\ Waiting(p, k) => Waiting(p, k)'
             /\ Waiting(p, k)' => Waiting(p, k) \/ k = "tree"
  <2>1. wp \notin Doing(p, k)
    BY <1>1, SteadyReceived DEF Doing, MsgKind, Kind
  <2>2. m \in Doing(p, k) => k = "tree"
    <3>1. wp.path \in PathString /\ 0 \in Nat
      BY <1>z, ZnodeIsPathString
    <3> QED
      BY <1>3, <3>1, MessageKinds DEF Doing
  <2>3. NoneOf(<<m>>, Doing(p, k)) <=> m \notin Doing(p, k)
    BY <1>4, SingletonToken
  <2>4. mailbox \in Seq(Sound) /\ mailbox # << >> /\ handler.msg \notin Doing(p, k)
    BY <1>1, SteadyFacts, SteadyReceived
  <2>5. /\ Has(mailbox, handler.msg, Doing(p, k)) <=>
             wp \in Doing(p, k) \/ ~NoneOf(Tail(mailbox), Doing(p, k))
        /\ Has(mailbox', handler'.msg, Doing(p, k)) <=>
             handler'.msg \in Doing(p, k) \/ ~NoneOf(Tail(mailbox), Doing(p, k)) \/ ~NoneOf(<<m>>, Doing(p, k))
    BY <1>1, <1>4, <2>4, WaitingTaken
  <2>6. handler'.msg \notin Doing(p, k)
    BY <1>2, <2>4
  <2> QED
    BY <2>1, <2>2, <2>3, <2>5, <2>6 DEF Waiting, Doing
<1>6. mailbox' \in Seq(Sound)
  BY <1>1, <1>4, SteadyFacts, SteadyReceived, MailboxOf
<1>7. /\ handler'.msg \in Sound
      /\ StageFits(handler.stage, handler.msg, handler.listed)'
  BY <1>1, <1>2, SteadyFacts, SteadyReceived, IdleFits, IdleHasNoTask
<1> QED
  BY <1>2, <1>5, <1>6, <1>7, MessagesKeep

(* A call for a path where a znode can exist does not fail. *)
LEMMA SteadyCall ==
  ASSUME Steady, faults' = 0, NEW p \in Znode, NEW o, RoundTrip(p, o)
  PROVE  /\ (o = "ok" /\ Exists(p)) \/ (o = "noNode" /\ ~Exists(p))
         /\ UNCHANGED <<zk, zxid, events, missed>>
<1>1. o # "error"
  BY SteadyFacts, NoFaultOfZnode
<1> QED
  BY <1>1 DEF RoundTrip

LEMMA UpdateKeeps == Steady /\ HandleUpdate /\ faults' = 0 => MirrorInv'
<1> SUFFICES ASSUME Steady, HandleUpdate, faults' = 0 PROVE MirrorInv'
  OBVIOUS
<1> DEFINE update == Head(mailbox)
           fetched == [update EXCEPT !.data = zk[update.path]]
<1>1. /\ Received("Update") /\ Consume(<< >>)
      /\ UNCHANGED <<watchedNodes, cache, watcher, request>>
  BY DEF HandleUpdate, callVars
<1>2. update \in Sound /\ update \in Message /\ update.type = "Update"
  BY <1>1, SteadyReceived
<1>3. update.path \in Znode
  BY <1>2 DEF Sound, MsgFits
<1>4. PICK o : Read(update.path, o)
  BY DEF HandleUpdate
<1>5. /\ (o = "ok" /\ Exists(update.path)) \/ (o = "noNode" /\ ~Exists(update.path))
      /\ UNCHANGED <<zk, zxid, events, missed, dataWatch, childWatch>>
  BY <1>3, <1>4, SteadyCall DEF Read
<1>6. /\ fetched \in Message /\ fetched.type = "Update" /\ fetched.path = update.path
      /\ fetched.recursive = update.recursive
      /\ fetched.data = zk[update.path]
  BY <1>2, <1>3, SteadyFacts DEF Message
<1>7. /\ handler'.msg \in Message /\ handler'.msg.type = "Update"
      /\ handler'.msg.path = update.path /\ handler'.msg.recursive = update.recursive
      /\ \/ handler'.stage = "fetched" /\ Exists(update.path) /\ handler'.msg.data = zk[update.path]
         \/ handler'.stage = "fetchMissing" /\ ~Exists(update.path)
  <2>1. CASE Read(update.path, "ok") /\ handler' = Handling("fetched", fetched, {})
    <3>1. Exists(update.path)
      BY <1>3, <2>1, SteadyCall DEF Read
    <3> HIDE DEF fetched
    <3> QED
      BY <1>6, <2>1, <3>1 DEF Handling
  <2>2. CASE Read(update.path, "noNode") /\ handler' = Handling("fetchMissing", update, {})
    <3>1. ~Exists(update.path)
      BY <1>3, <2>2, SteadyCall DEF Read
    <3> QED
      BY <1>2, <2>2, <3>1 DEF Handling
  <2>3. ~Read(update.path, "error")
    BY <1>3, SteadyCall DEF Read
  <2> QED
    BY <2>1, <2>2, <2>3 DEF HandleUpdate
<1>8. MsgKind(handler'.msg) = MsgKind(update)
  BY <1>2, <1>7 DEF MsgKind
<1>9. handler'.msg \in Sound
  BY <1>3, <1>7 DEF Sound, MsgFits
<1>10. StageFits(handler.stage, handler.msg, handler.listed)'
  BY <1>5, <1>7 DEF StageFits, Exists
<1>11. /\ \A p : \A k \in Kind : Waiting(p, k)' <=> Waiting(p, k)
       /\ mailbox' \in Seq(Sound)
  <2>1. \A p : \A k \in Kind : update \in Doing(p, k) <=> handler'.msg \in Doing(p, k)
    BY <1>2, <1>7, <1>8 DEF Doing
  <2> QED
    BY <1>1, <2>1, TakenWaits
<1> QED
  BY <1>1, <1>5, <1>9, <1>10, <1>11, MessagesKeep

LEMMA FinishUpdateKeeps == Steady /\ FinishUpdate => MirrorInv'
<1> SUFFICES ASSUME Steady, FinishUpdate PROVE MirrorInv'
  OBVIOUS
<1> DEFINE m == handler.msg
<1>1. /\ Done /\ handler.stage \in {"fetched", "fetchMissing"}
      /\ UNCHANGED <<watchedNodes, cache, watcher, request, zk, dataWatch, childWatch, events, missed>>
  BY DEF FinishUpdate, At, callVars, zkVars
<1>2. /\ m \in Message /\ m \in Sound /\ m.type = "Update" /\ m.path \in PathString
      /\ m.notify \in Notifyable /\ m.data \in Nat /\ m.recursive \in BOOLEAN
  BY <1>1, SteadyFacts DEF StageInv
<1>3. m.path \in Znode
  BY <1>2 DEF Sound, MsgFits
<1>4. PICK x \in Message :
        /\ Send(<<x>>) /\ x.path = m.path
        /\ \/ x.type = "Add" /\ x.recursive = m.recursive /\ x.data = m.data /\ Exists(m.path) /\ m.data = zk[m.path]
           \/ x.type = "SetWatcher" /\ ~Exists(m.path)
  <2>1. CASE At("fetched") /\ Send(<<Add(m.path, m.data, m.recursive, m.notify)>>)
    <3> DEFINE x == Add(m.path, m.data, m.recursive, m.notify)
    <3>1. x \in Message
      BY <1>2, MessageTypes
    <3>2. x.type = "Add" /\ x.path = m.path /\ x.recursive = m.recursive /\ x.data = m.data
      BY DEF Add, Msg
    <3>3. Exists(m.path) /\ m.data = zk[m.path]
      BY <2>1, SteadyFacts DEF StageFits, At
    <3> HIDE DEF x
    <3>4. Send(<<x>>)
      BY <2>1 DEF x
    <3> QED
      BY <3>1, <3>2, <3>3, <3>4
  <2>2. CASE At("fetchMissing") /\ Send(<<SetWatcher(m.path, m.notify)>>)
    <3> DEFINE x == SetWatcher(m.path, m.notify)
    <3>1. x \in Message
      BY <1>2, MessageTypes
    <3>2. x.type = "SetWatcher" /\ x.path = m.path
      BY DEF SetWatcher, Msg
    <3>3. ~Exists(m.path)
      BY <2>2, SteadyFacts DEF StageFits, At
    <3> HIDE DEF x
    <3>4. Send(<<x>>)
      BY <2>2 DEF x
    <3> QED
      BY <3>1, <3>2, <3>3, <3>4
  <2> QED
    BY <2>1, <2>2 DEF FinishUpdate
<1>5. x \in Sound /\ <<x>> \in Seq(Sound)
  <2>1. x \in Sound
    BY <1>3, <1>4 DEF Sound, MsgFits
  <2> QED
    BY <2>1, SeqOfOne
<1>6. ASSUME NEW p, NEW k \in Kind, k \in {"tree", "node"} => Exists(p)
      PROVE  Waiting(p, k)' <=> Waiting(p, k)
  <2>1. m \in Doing(p, k) <=> x \in Doing(p, k)
    <3>1. CASE x.type = "Add" /\ x.recursive = m.recursive
      <4>1. MsgKind(x) = MsgKind(m)
        BY <1>2, <3>1 DEF MsgKind
      <4> QED
        BY <1>2, <1>4, <4>1 DEF Doing
    <3>2. CASE x.type = "SetWatcher" /\ ~Exists(m.path)
      BY <1>2, <1>4, <1>6, <3>2 DEF Doing, MsgKind, Kind
    <3> QED
      BY <1>4, <3>1, <3>2
  <2>2. NoneOf(<<x>>, Doing(p, k)) <=> x \notin Doing(p, k)
    BY <1>5, SingletonToken
  <2>3. Waiting(p, k)' <=> ~NoneOf(mailbox, Doing(p, k)) \/ ~NoneOf(<<x>>, Doing(p, k))
    BY <1>1, <1>4, <1>5, SentWaits
  <2> QED
    BY <2>1, <2>2, <2>3 DEF Waiting, Has
<1>7. /\ mailbox' \in Seq(Sound) /\ handler'.msg \in Sound
      /\ StageFits(handler.stage, handler.msg, handler.listed)'
  BY <1>1, <1>4, <1>5, SentWaits, IdleFits
<1> QED
  BY <1>1, <1>6, <1>7, MessagesKeep

(* Messages of these types are no task. *)
LEMMA NoTask ==
  ASSUME NEW m, m.type \notin {"Update", "Add", "Remove", "Unwatch"}
  PROVE  \A p : \A k \in Kind : m \notin Doing(p, k)
BY DEF Doing, MsgKind, Kind

LEMMA AddKeeps == Steady /\ HandleAdd => MirrorInv'
<1> SUFFICES ASSUME Steady, HandleAdd PROVE MirrorInv'
  OBVIOUS
<1> DEFINE add == Head(mailbox)
<1>1. /\ Received("Add") /\ Consume(<< >>) /\ SetWatchers(add)
      /\ UNCHANGED <<watchedNodes, cache, watcher, request, zk, dataWatch, childWatch, events, missed>>
  BY DEF HandleAdd, callVars, zkVars
<1>2. add \in Sound /\ add.type = "Add"
  BY <1>1, SteadyReceived
<1>3. /\ handler'.msg = add
      /\ \/ handler'.stage = "watchExists"
         \/ handler'.stage = "list" /\ add.path \in watchedNodes
  <2>1. CASE add.path \in watchedNodes
    BY <1>1, <1>2, <2>1 DEF SetWatchers, AfterWatchers, Handling
  <2>2. CASE add.path \notin watchedNodes
    BY <1>1, <1>2, <2>2 DEF SetWatchers, Handling
  <2> QED
    BY <2>1, <2>2
<1>4. StageFits(handler.stage, handler.msg, handler.listed)'
  BY <1>1, <1>3 DEF StageFits
<1>5. /\ \A p : \A k \in Kind : Waiting(p, k)' <=> Waiting(p, k)
      /\ mailbox' \in Seq(Sound)
  BY <1>1, <1>3, TakenWaits
<1> QED
  BY <1>1, <1>2, <1>3, <1>4, <1>5, MessagesKeep

LEMMA SetWatcherKeeps == Steady /\ HandleSetWatcher => MirrorInv'
<1> SUFFICES ASSUME Steady, HandleSetWatcher PROVE MirrorInv'
  OBVIOUS
<1> DEFINE m == Head(mailbox)
<1>1. /\ Received("SetWatcher") /\ Consume(<< >>) /\ SetWatchers(m)
      /\ UNCHANGED <<watchedNodes, cache, watcher, request, zk, dataWatch, childWatch, events, missed>>
  BY DEF HandleSetWatcher, callVars, zkVars
<1>2. m \in Sound /\ m.type = "SetWatcher"
  BY <1>1, SteadyReceived
<1>3. \/ handler'.msg = m /\ handler'.stage = "watchExists"
      \/ handler' = Idle
  <2>1. CASE m.path \in watchedNodes
    BY <1>1, <1>2, <2>1 DEF SetWatchers, AfterWatchers
  <2>2. CASE m.path \notin watchedNodes
    BY <1>1, <1>2, <2>2 DEF SetWatchers, Handling
  <2> QED
    BY <2>1, <2>2
<1>4. /\ StageFits(handler.stage, handler.msg, handler.listed)'
      /\ handler'.msg \in Sound
  BY <1>1, <1>2, <1>3, IdleHasNoTask DEF StageFits
<1>5. /\ \A p : \A k \in Kind : Waiting(p, k)' <=> Waiting(p, k)
      /\ mailbox' \in Seq(Sound)
  <2>1. \A p : \A k \in Kind : m \notin Doing(p, k)
    BY <1>2, NoTask
  <2>2. \A p : \A k \in Kind : handler'.msg \notin Doing(p, k)
    BY <1>3, <2>1, IdleHasNoTask
  <2> QED
    BY <1>1, <2>1, <2>2, TakenWaits
<1> QED
  BY <1>1, <1>4, <1>5, MessagesKeep

LEMMA ListChildrenKeeps == Steady /\ ListChildren /\ faults' = 0 => MirrorInv'
<1> SUFFICES ASSUME Steady, ListChildren, faults' = 0 PROVE MirrorInv'
  OBVIOUS
<1> DEFINE add == handler.msg
<1>1. /\ handler.stage = "list"
      /\ UNCHANGED <<mailbox, watchedNodes, cache, watcher, request>>
  BY DEF ListChildren, At, callVars
<1>2. /\ add \in Sound /\ add.type = "Add"
      /\ add.path \in watchedNodes
  BY <1>1, SteadyFacts DEF StageInv, StageFits
<1>3. add.path \in Znode /\ Exists(add.path)
  BY <1>2 DEF Sound, MsgFits
<1>4. /\ handler' = Handling("store", add, ChildNames(add.path))
      /\ UNCHANGED <<zk, events, missed, dataWatch, childWatch>>
  <2>1. CASE Read(add.path, "ok") /\ handler' = Handling("store", add, ChildNames(add.path))
    BY <1>3, <2>1, SteadyCall DEF Read
  <2>2. CASE Read(add.path, "noNode") \/ Read(add.path, "error")
    BY <1>3, <2>2, SteadyCall DEF Read
  <2> QED
    BY <2>1, <2>2 DEF ListChildren
<1>5. handler'.stage = "store" /\ handler'.msg = add /\ handler'.listed = ChildNames(add.path)
  BY <1>4 DEF Handling
<1>7. StageFits(handler.stage, handler.msg, handler.listed)'
  <2>1. ChildNames(handler'.msg.path) = ChildNames(add.path)
    BY <1>5
  <2>2. \A p : ChildNames(p)' = ChildNames(p)
    BY <1>4 DEF ChildNames, Exists
  <2> QED
    BY <1>1, <1>2, <1>5, <2>1, <2>2 DEF StageFits
<1>8. /\ \A p : \A k \in Kind : Waiting(p, k)' <=> Waiting(p, k)
      /\ mailbox' \in Seq(Sound)
  BY <1>1, <1>5, SteadyFacts, MovedWaits
<1> QED
  BY <1>1, <1>2, <1>4, <1>5, <1>7, <1>8, MessagesKeep

(* exists, getChildren and getData with watches *)
LEMMA WatchKeeps ==
  Steady /\ (WatchExists \/ WatchChildren \/ WatchData) /\ faults' = 0 => MirrorInv'
<1> SUFFICES ASSUME Steady, WatchExists \/ WatchChildren \/ WatchData, faults' = 0
             PROVE  MirrorInv'
  OBVIOUS
<1> DEFINE m == handler.msg
<1>1. /\ handler.stage \in WatchStages
      /\ UNCHANGED <<mailbox, watchedNodes, cache, watcher, request>>
  BY DEF WatchExists, WatchChildren, WatchData, At, callVars, WatchStages
<1>2. m \in Sound /\ m.type \in {"Add", "Remove", "SetWatcher"}
  BY <1>1, SteadyFacts DEF TypeInv, HandlerOK
<1>3. m.path \in Znode
  BY <1>2 DEF Sound, MsgFits
<1>4. ASSUME NEW stage \in Stages, GoTo(stage)
      PROVE  handler'.stage = stage /\ handler'.msg = m
  BY <1>4, SteadyFacts DEF GoTo
<1>5. /\ UNCHANGED <<zk, events, missed>>
      /\ dataWatch \subseteq dataWatch' /\ childWatch \subseteq childWatch'
      /\ handler'.msg = m
      /\ \/ handler'.stage = "watchChildren" /\ m.path \in dataWatch' /\ Exists(m.path)
         \/ handler'.stage = "watchData" /\ m.path \in dataWatch' /\ Exists(m.path) /\ m.path \in childWatch'
         \/ handler'.stage = "recordWatch" /\ m.path \in dataWatch' /\ (Exists(m.path) => m.path \in childWatch')
  <2>1. CASE WatchExists
    <3>1. CASE ExistsWithWatch(m.path, "ok") /\ GoTo("watchChildren")
      BY <1>3, <1>4, <3>1, SteadyCall DEF ExistsWithWatch, Stages
    <3>2. CASE ExistsWithWatch(m.path, "noNode") /\ GoTo("recordWatch")
      BY <1>3, <1>4, <3>2, SteadyCall DEF ExistsWithWatch, Stages
    <3>3. ~ExistsWithWatch(m.path, "error")
      BY <1>3, SteadyCall DEF ExistsWithWatch
    <3> QED
      BY <2>1, <3>1, <3>2, <3>3 DEF WatchExists
  <2>2. CASE WatchChildren
    <3>0. m.path \in dataWatch /\ Exists(m.path)
      BY <2>2, SteadyFacts DEF WatchChildren, At, StageFits
    <3>1. CASE GetChildrenWithWatch(m.path, "ok") /\ GoTo("watchData")
      BY <1>3, <1>4, <3>0, <3>1, SteadyCall DEF GetChildrenWithWatch, Stages
    <3>2. ~GetChildrenWithWatch(m.path, "noNode") /\ ~GetChildrenWithWatch(m.path, "error")
      BY <1>3, <3>0, SteadyCall DEF GetChildrenWithWatch
    <3> QED
      BY <2>2, <3>1, <3>2 DEF WatchChildren
  <2>3. CASE WatchData
    <3>0. m.path \in dataWatch /\ Exists(m.path) /\ m.path \in childWatch
      BY <2>3, SteadyFacts DEF WatchData, At, StageFits
    <3>1. CASE GetDataWithWatch(m.path, "ok") /\ GoTo("recordWatch")
      BY <1>3, <1>4, <3>0, <3>1, SteadyCall DEF GetDataWithWatch, Stages
    <3>2. ~GetDataWithWatch(m.path, "noNode") /\ ~GetDataWithWatch(m.path, "error")
      BY <1>3, <3>0, SteadyCall DEF GetDataWithWatch
    <3> QED
      BY <2>3, <3>1, <3>2 DEF WatchData
  <2> QED
    BY <2>1, <2>2, <2>3
<1>6. StageFits(handler.stage, handler.msg, handler.listed)'
  BY <1>5 DEF StageFits, HasWatches, Exists
<1>7. /\ \A p : \A k \in Kind : Waiting(p, k)' <=> Waiting(p, k)
      /\ mailbox' \in Seq(Sound)
  BY <1>1, <1>5, SteadyFacts, MovedWaits
<1> QED
  BY <1>1, <1>2, <1>5, <1>6, <1>7, MessagesKeep

LEMMA RecordWatchKeeps == Steady /\ RecordWatch => MirrorInv'
<1> SUFFICES ASSUME Steady, RecordWatch PROVE MirrorInv'
  OBVIOUS
<1> DEFINE m == handler.msg
<1>1. /\ handler.stage = "recordWatch" /\ Resume
      /\ watchedNodes' = watchedNodes \cup {m.path}
      /\ UNCHANGED <<mailbox, cache, watcher, request, zk, dataWatch, childWatch, events, missed>>
  BY DEF RecordWatch, At, callVars, zkVars
<1>2. m \in Sound /\ m.type \in {"Add", "Remove", "SetWatcher"} /\ m \in Message
  BY <1>1, SteadyFacts DEF TypeInv, HandlerOK, WatchStages
<1>3. HasWatches(m.path)
  BY <1>1, SteadyFacts DEF StageFits
<1>4. \/ m.type = "Add" /\ handler'.stage = "list" /\ handler'.msg = m
      \/ m.type = "Remove" /\ handler'.stage = "evict" /\ handler'.msg = m
      \/ m.type = "SetWatcher" /\ handler' = Idle
  BY <1>1, <1>2 DEF Resume, AfterWatchers, Handling
<1>5. /\ StageFits(handler.stage, handler.msg, handler.listed)'
      /\ handler'.msg \in Sound
  BY <1>1, <1>2, <1>4, IdleHasNoTask DEF StageFits
<1>6. ASSUME NEW p, NEW k \in Kind PROVE Waiting(p, k)' <=> Waiting(p, k)
  <2>1. handler'.msg \in Doing(p, k) <=> m \in Doing(p, k)
    <3>1. CASE m.type = "SetWatcher" /\ handler' = Idle
      BY <3>1, NoTask, IdleHasNoTask
    <3> QED
      BY <1>4, <3>1
  <2> QED
    BY <1>1, <2>1 DEF Waiting, Has, Doing
<1>7. Exists(m.path) => Waiting(m.path, "tree") \/ Waiting(m.path, "node")
  <2> SUFFICES ASSUME Exists(m.path)
               PROVE  Waiting(m.path, "tree") \/ Waiting(m.path, "node")
    OBVIOUS
  <2>1. m.type = "Add"
    BY <1>2 DEF Sound, MsgFits
  <2>2. m.recursive \in BOOLEAN
    BY <1>2 DEF Message
  <2>3. MsgKind(m) \in {"tree", "node"}
    BY <2>1, <2>2 DEF MsgKind
  <2> QED
    BY <1>2, <2>3 DEF Waiting, Has, Doing
<1>8. "tree" \in Kind /\ "node" \in Kind /\ "remove" \in Kind /\ "unwatch" \in Kind
  BY DEF Kind
<1>9. \A r \in Request : IsOp(r, "addPathToCache")' => request'[r].path \in Znode
  BY <1>1 DEF Steady, MirrorInv, FactsOK, IsOp
<1>10. /\ \A p : Cached(p)' <=> Cached(p)
       /\ mailbox' \in Seq(Sound)
  BY <1>1, SteadyFacts DEF Cached
<1>11. \A p \in watchedNodes' \ watchedNodes :
         HasWatches(p) /\ (Exists(p) => Waiting(p, "tree")' \/ Waiting(p, "node"))
  BY <1>1, <1>3, <1>6, <1>7, <1>8
<1>12. watchedNodes \ watchedNodes' = {}
  BY <1>1
<1>13. \A p : /\ Waiting(p, "tree") <=> Waiting(p, "tree")'
              /\ Waiting(p, "node") <=> Waiting(p, "node")'
              /\ Waiting(p, "remove") <=> Waiting(p, "remove")'
              /\ Waiting(p, "unwatch") <=> Waiting(p, "unwatch")'
  BY <1>6, <1>8
<1> QED
  BY <1>1, <1>5, <1>9, <1>10, <1>11, <1>12, <1>13, UpdaterKeeps DEF Cached

LEMMA UnwatchKeeps == Steady /\ HandleUnwatch => MirrorInv'
<1> SUFFICES ASSUME Steady, HandleUnwatch PROVE MirrorInv'
  OBVIOUS
<1> DEFINE m == Head(mailbox)
<1>1. /\ Received("Unwatch") /\ Consume(<< >>)
      /\ watchedNodes' = watchedNodes \ {m.path}
      /\ UNCHANGED <<handler, cache, watcher, request, zk, dataWatch, childWatch, events, missed>>
  BY DEF HandleUnwatch, callVars, zkVars
<1>2. m \in Sound /\ m.type = "Unwatch" /\ handler = Idle /\ handler.msg = NoMessage
  BY <1>1, SteadyReceived
<1>3. NoEventOf(m.path)
  BY <1>2 DEF Sound, MsgFits
<1>4. << >> \in Seq(Sound)
  OBVIOUS
<1>5. ASSUME NEW p, NEW k \in Kind
      PROVE  /\ Waiting(p, k) => Waiting(p, k)' \/ (p = m.path /\ k = "unwatch")
             /\ Waiting(p, k)' => Waiting(p, k)
  <2>1. m \in Doing(p, k) => p = m.path /\ k = "unwatch"
    BY <1>2 DEF Doing, MsgKind
  <2>2. NoneOf(<< >>, Doing(p, k))
    BY DEF NoneOf
  <2>3. mailbox \in Seq(Sound) /\ mailbox # << >> /\ handler.msg \notin Doing(p, k)
    BY <1>1, SteadyFacts, SteadyReceived
  <2>4. /\ Has(mailbox, handler.msg, Doing(p, k)) <=>
             m \in Doing(p, k) \/ ~NoneOf(Tail(mailbox), Doing(p, k))
        /\ Has(mailbox', handler'.msg, Doing(p, k)) <=>
             handler'.msg \in Doing(p, k) \/ ~NoneOf(Tail(mailbox), Doing(p, k))
    BY <1>1, <1>4, <2>2, <2>3, WaitingTaken
  <2>5. handler'.msg \notin Doing(p, k)
    BY <1>1, <2>3
  <2> QED
    BY <2>1, <2>4, <2>5 DEF Waiting, Doing
<1>6. /\ mailbox' \in Seq(Sound) /\ handler'.msg \in Sound
      /\ StageFits(handler.stage, handler.msg, handler.listed)'
  <2>1. mailbox' \in Seq(Sound)
    BY <1>1, <1>4, SteadyFacts, SteadyReceived, MailboxOf
  <2>2. handler'.stage = "idle" /\ handler'.msg \in Sound
    BY <1>1, <1>2, IdleHasNoTask
  <2> QED
    BY <2>1, <2>2, IdleFits
<1>7. "tree" \in Kind /\ "node" \in Kind /\ "remove" \in Kind /\ "unwatch" \in Kind
  BY DEF Kind
<1>8. \A p : /\ Waiting(p, "tree") => Waiting(p, "tree")'
             /\ Waiting(p, "node") <=> Waiting(p, "node")'
             /\ Waiting(p, "remove") => Waiting(p, "remove")'
             /\ p # m.path /\ Waiting(p, "unwatch") => Waiting(p, "unwatch")'
  BY <1>5, <1>7
<1>9. \A r \in Request : IsOp(r, "addPathToCache")' => request'[r].path \in Znode
  BY <1>1 DEF Steady, MirrorInv, FactsOK, IsOp
<1>10. \A p : Cached(p)' <=> Cached(p)
  BY <1>1 DEF Cached
<1>11. m.path \notin watchedNodes' /\ watchedNodes' \ watchedNodes = {}
  BY <1>1
<1>12. \A p \in watchedNodes \ watchedNodes' : NoEventOf(p)
  BY <1>1, <1>3
<1> QED
  BY <1>1, <1>6, <1>8, <1>9, <1>10, <1>11, <1>12, UpdaterKeeps DEF Cached

LEMMA RemoveKeeps == Steady /\ HandleRemove => MirrorInv'
<1> SUFFICES ASSUME Steady, HandleRemove PROVE MirrorInv'
  OBVIOUS
<1> DEFINE m == Head(mailbox)
<1>1. /\ Received("Remove") /\ Consume(<< >>)
      /\ watchedNodes' = watchedNodes \ {m.path}
      /\ handler'.stage \in {"watchExists", "evict"} /\ handler'.msg = m
      /\ UNCHANGED <<cache, watcher, request, zk, dataWatch, childWatch, events, missed>>
  BY DEF HandleRemove, callVars, zkVars, Handling
<1>2. m \in Sound /\ m.type = "Remove" /\ m \in Message
  BY <1>1, SteadyReceived
<1>3. ~Exists(m.path)
  BY <1>2 DEF Sound, MsgFits
<1>4. StageFits(handler.stage, handler.msg, handler.listed)'
  BY <1>1 DEF StageFits
<1>5. /\ \A p : \A k \in Kind : Waiting(p, k)' <=> Waiting(p, k)
      /\ mailbox' \in Seq(Sound)
  BY <1>1, TakenWaits
<1>6. "tree" \in Kind /\ "node" \in Kind /\ "remove" \in Kind /\ "unwatch" \in Kind
  BY DEF Kind
<1>7. \A p : /\ Waiting(p, "tree") <=> Waiting(p, "tree")'
             /\ Waiting(p, "node") <=> Waiting(p, "node")'
             /\ Waiting(p, "remove") <=> Waiting(p, "remove")'
             /\ Waiting(p, "unwatch") <=> Waiting(p, "unwatch")'
  BY <1>5, <1>6
<1>p. PICK path : path = m.path
  OBVIOUS
<1>8. Waiting(path, "remove")'
  <2>1. m \in Doing(path, "remove")
    BY <1>2, <1>p DEF Doing, MsgKind
  <2>2. handler'.msg \in Doing(path, "remove")
    BY <1>1, <2>1
  <2> QED
    BY <2>2 DEF Waiting, Has, Doing
<1>9. \A r \in Request : IsOp(r, "addPathToCache")' => request'[r].path \in Znode
  BY <1>1 DEF Steady, MirrorInv, FactsOK, IsOp
<1>10. \A p : Cached(p)' <=> Cached(p)
  BY <1>1 DEF Cached
<1>11. watchedNodes' \ watchedNodes = {}
  BY <1>1
<1>12. \A p \in watchedNodes \ watchedNodes' : ~Exists(p) /\ Waiting(p, "remove")'
  BY <1>1, <1>3, <1>p, <1>8
<1> QED
  BY <1>1, <1>2, <1>4, <1>5, <1>7, <1>9, <1>10, <1>11, <1>12, UpdaterKeeps DEF Cached

(* The entry of a node that is gone has no children left: nothing is sent. *)
(* The entry of a missing node has no children: nothing is sent. *)
LEMMA EvictEffect ==
  ASSUME Steady, Evict
  PROVE  /\ handler.stage = "evict" /\ Done
         /\ UNCHANGED <<watchedNodes, watcher, request, zk, dataWatch, childWatch, events, missed>>
         /\ handler.msg \in Sound /\ handler.msg.type = "Remove" /\ handler.msg \in Message
         /\ ~Exists(handler.msg.path) /\ handler.msg.path \in Znode
         /\ Send(<< >>)
         /\ cache' = cache \/ cache' = CacheWithout(handler.msg.path)
         /\ handler.msg.path \notin DOMAIN cache'
<1> DEFINE m == handler.msg
<1>1. /\ handler.stage = "evict" /\ Done
      /\ UNCHANGED <<watchedNodes, watcher, request, zk, dataWatch, childWatch, events, missed>>
  BY DEF Evict, At, zkVars
<1>2. m \in Sound /\ m.type = "Remove" /\ m \in Message
  BY <1>1, SteadyFacts DEF StageInv
<1>3. ~Exists(m.path) /\ m.path \in Znode
  BY <1>2 DEF Sound, MsgFits
<1>4. Send(<< >>) /\ (cache' = cache \/ cache' = CacheWithout(m.path)) /\ m.path \notin DOMAIN cache'
  <2>1. CASE ~Cached(m.path) /\ cache' = cache /\ mailbox' = mailbox
    <3>1. mailbox \in Seq(Message)
      BY SteadyFacts
    <3>2. mailbox \o << >> = mailbox
      BY <3>1
    <3> QED
      BY <2>1, <3>2 DEF Send, Cached
  <2>2. CASE Cached(m.path) /\ cache' = CacheWithout(m.path)
    <3> DEFINE children == cache[m.path].children
               remove   == [c \in children |-> Remove(ChildPath(m.path, c), m.notify)]
    <3>1. children = {}
      BY <1>3, <2>2 DEF Steady, MirrorInv, GoneOK, Cached
    <3>2. PICK removes \in ForEachChild(remove) : Send(removes)
      BY <2>2 DEF Evict
    <3>3. remove \in [children -> {}] /\ children \in SUBSET Name
      BY <3>1
    <3>4. removes \in Seq({})
      BY <3>2, <3>3, ForEachChildType
    <3>5. removes = << >>
      <4>1. removes # << >> => removes[1] \in {}
        BY <3>4
      <4> QED
        BY <4>1
    <3>6. m.path \notin DOMAIN cache'
      BY <2>2 DEF CacheWithout
    <3> QED
      BY <2>2, <3>2, <3>5, <3>6
  <2> QED
    BY <2>1, <2>2 DEF Evict
<1> QED
  BY <1>1, <1>2, <1>3, <1>4

LEMMA EvictKeeps == Steady /\ Evict => MirrorInv'
<1> SUFFICES ASSUME Steady, Evict PROVE MirrorInv'
  OBVIOUS
<1> DEFINE m == handler.msg
<1>1. /\ handler.stage = "evict" /\ Done
      /\ UNCHANGED <<watchedNodes, watcher, request, zk, dataWatch, childWatch, events, missed>>
  BY EvictEffect
<1>2. m \in Sound /\ m.type = "Remove" /\ m \in Message
  BY EvictEffect
<1>3. ~Exists(m.path) /\ m.path \in Znode
  BY EvictEffect
<1>4. << >> \in Seq(Sound)
  OBVIOUS
<1>5. Send(<< >>) /\ (cache' = cache \/ cache' = CacheWithout(m.path)) /\ m.path \notin DOMAIN cache'
  BY EvictEffect
<1>6. ASSUME NEW p, NEW k \in Kind
      PROVE  /\ Waiting(p, k) => Waiting(p, k)' \/ (p = m.path /\ k = "remove")
             /\ Waiting(p, k)' => Waiting(p, k)
  <2>1. m \in Doing(p, k) => p = m.path /\ k = "remove"
    BY <1>2 DEF Doing, MsgKind
  <2>2. NoneOf(<< >>, Doing(p, k))
    BY DEF NoneOf
  <2>3. Waiting(p, k)' <=> ~NoneOf(mailbox, Doing(p, k))
    BY <1>1, <1>4, <1>5, <2>2, SentWaits
  <2> QED
    BY <2>1, <2>3 DEF Waiting, Has
<1>7. /\ mailbox' \in Seq(Sound) /\ handler'.msg \in Sound
      /\ StageFits(handler.stage, handler.msg, handler.listed)'
  BY <1>1, <1>4, <1>5, SentWaits, IdleFits
<1>8. "tree" \in Kind /\ "node" \in Kind /\ "remove" \in Kind /\ "unwatch" \in Kind
  BY DEF Kind
<1>9. \A p : /\ Waiting(p, "tree") => Waiting(p, "tree")'
             /\ Waiting(p, "node") <=> Waiting(p, "node")'
             /\ p # m.path /\ Waiting(p, "remove") => Waiting(p, "remove")'
             /\ Waiting(p, "unwatch") => Waiting(p, "unwatch")'
  BY <1>6, <1>8
<1>10. /\ \A p \in DOMAIN cache' : Cached(p) /\ cache'[p] = cache[p] /\ p # m.path
       /\ \A p : Cached(p) /\ p # m.path => Cached(p)'
  BY <1>5 DEF CacheWithout, Cached
<1>11. \A r \in Request : IsOp(r, "addPathToCache")' => request'[r].path \in Znode
  BY <1>1 DEF Steady, MirrorInv, FactsOK, IsOp
<1>12. watchedNodes' \ watchedNodes = {} /\ watchedNodes \ watchedNodes' = {}
  BY <1>1
<1> QED
  BY <1>1, <1>3, <1>7, <1>9, <1>10, <1>11, <1>12, UpdaterKeeps

(* Every child of the list is sent its message. *)
LEMMA ForEachChildSent ==
  ASSUME NEW C \in SUBSET Name, NEW M, NEW send \in [C -> M], NEW ms \in ForEachChild(send), NEW c \in C
  PROVE  \E i \in DOMAIN ms : ms[i] = send[c]
<1>1. PICK s \in Traversals(C) : ms = [i \in DOMAIN s |-> send[s[i]]]
  BY DEF ForEachChild
<1>2. /\ s \in [1 .. Cardinality(C) -> C]
      /\ \E i \in 1 .. Cardinality(C) : s[i] = c
  BY DEF Traversals, Bijection, Surjection
<1> QED
  BY <1>1, <1>2

(* "/" is nobody's subtree here, so ChildPath is the path of a child. *)
LEMMA NeverRoot ==
  ASSUME Steady, NEW p \in watchedNodes
  PROVE  p # Root /\ \A c \in Name : ChildPath(p, c) = Append(p, c)
<1>1. PICK root \in RequestedRoots : IsUnder(root, p)
  BY SteadyFacts DEF SubtreeInv, OnlyRequestedSubtrees, UnderRequested
<1>2. root \in Seq(Name)
  BY SteadyFacts DEF RequestedRoots, TypeInv, TypeOK, CallsTypeOK, Call
<1>3. Root \notin RequestedRoots
  BY DEF Steady, Undisturbed
<1>4. p # Root
  BY <1>1, <1>2, <1>3 DEF IsUnder, SeqExt!IsPrefix, Root
<1> QED
  BY <1>4 DEF ChildPath

(* What StoreEntry does to the cache and to the messages. *)
LEMMA StoreEffect ==
  ASSUME Steady, StoreEntry, NEW path, path = handler.msg.path
  PROVE  /\ Exists(path) /\ path \in watchedNodes
         /\ DOMAIN cache' = DOMAIN cache \cup {path}
         /\ cache'[path] = [data |-> zk[path], children |-> ChildNames(path)]
         /\ \A p \in DOMAIN cache \ {path} : cache'[p] = cache[p]
         /\ mailbox' \in Seq(Sound) /\ handler'.msg \in Sound /\ handler'.stage = "idle"
         /\ \A p : \A k \in Kind :
              /\ Waiting(p, k) /\ (p = path => k # MsgKind(handler.msg)) => Waiting(p, k)'
              /\ Waiting(p, k)' => Waiting(p, k) \/ k = "tree"
         /\ \E ms \in Seq(Sound) : Send(ms)
         /\ \/ MsgKind(handler.msg) = "node"
            \/ /\ MsgKind(handler.msg) = "tree"
               /\ \A c \in ChildNames(path) : Waiting(Append(path, c), "tree")'
<1> DEFINE m == handler.msg
           listed == handler.listed
           update == [c \in listed |-> Update(ChildPath(path, c), TRUE, m.notify)]
<1>1. handler.stage = "store" /\ Done
  BY DEF StoreEntry, At
<1>2. /\ m \in Sound /\ m \in Message /\ m.type = "Add" /\ m.notify \in Notifyable
      /\ path \in watchedNodes /\ listed = ChildNames(path)
  BY <1>1, SteadyFacts DEF StageInv, StageFits
<1>3. Exists(path) /\ m.data = zk[path] /\ m.recursive \in BOOLEAN
  BY <1>2 DEF Sound, MsgFits, Message
<1>4. cache' = CacheWith(path, [data |-> m.data, children |-> listed])
  BY DEF StoreEntry
<1>5. \A c \in listed : ChildPath(path, c) = Append(path, c) /\ Append(path, c) \in Znode
  BY <1>2, NeverRoot DEF ChildNames, Exists
<1>6. ASSUME NEW c \in listed
      PROVE  LET x == Update(Append(path, c), TRUE, m.notify)
             IN  x \in Sound /\ x.path = Append(path, c) /\ MsgKind(x) = "tree"
  <2>1. Append(path, c) \in PathString /\ Append(path, c) \in Znode /\ 0 \in Nat
    BY <1>5, <1>6, ZnodeIsPathString
  <2>2. Update(Append(path, c), TRUE, m.notify) \in Sound
    BY <1>2, <2>1, SoundUpdate
  <2>3. MsgKind(Update(Append(path, c), TRUE, m.notify)) = "tree"
    BY <1>2, <2>1, MessageKinds
  <2>4. Update(Append(path, c), TRUE, m.notify).path = Append(path, c)
    BY MessagePaths
  <2> QED
    BY <2>2, <2>3, <2>4
<1> DEFINE Trees == {x \in Sound : MsgKind(x) = "tree"}
<1>7. update \in [listed -> Trees] /\ listed \in SUBSET Name
  <2>1. \A c \in listed : Update(ChildPath(path, c), TRUE, m.notify) \in Trees
    BY <1>5, <1>6
  <2>2. listed \in SUBSET Name
    BY SteadyFacts
  <2> QED
    BY <2>1, <2>2
<1>8. PICK ms \in Seq(Trees) :
        /\ Send(ms)
        /\ m.recursive => \A c \in listed : \E i \in DOMAIN ms : ms[i] = update[c]
  <2>1. PICK updates \in ForEachChild(update) : Send(IF m.recursive THEN updates ELSE << >>)
    BY DEF StoreEntry
  <2> HIDE DEF update, Trees
  <2>e. << >> \in Seq(Trees)
    OBVIOUS
  <2>2. updates \in Seq(Trees)
    BY <1>7, <2>1, ForEachChildType
  <2>3. \A c \in listed : \E i \in DOMAIN updates : updates[i] = update[c]
    BY <1>7, <2>1, ForEachChildSent
  <2> QED
    BY <1>3, <2>e, <2>1, <2>2, <2>3
<1> HIDE DEF update
<1>9. ms \in Seq(Sound) /\ \A i \in DOMAIN ms : ms[i] \in Trees
  <2>1. Trees \subseteq Sound
    OBVIOUS
  <2> QED
    BY <2>1, SeqMonotonic
<1>10. /\ \A p : \A k \in Kind :
            Waiting(p, k)' <=> ~NoneOf(mailbox, Doing(p, k)) \/ ~NoneOf(ms, Doing(p, k))
       /\ mailbox' \in Seq(Sound) /\ handler'.msg \in Sound /\ handler'.stage = "idle"
  BY <1>1, <1>8, <1>9, SentWaits
<1>11. ASSUME NEW p, NEW k \in Kind
       PROVE  /\ Waiting(p, k) /\ (p = path => k # MsgKind(m)) => Waiting(p, k)'
              /\ Waiting(p, k)' => Waiting(p, k) \/ k = "tree"
  <2>1. m \in Doing(p, k) => p = path /\ k = MsgKind(m)
    BY DEF Doing
  <2>2. ~NoneOf(ms, Doing(p, k)) => k = "tree"
    BY <1>9 DEF NoneOf, Doing
  <2> QED
    BY <1>10, <2>1, <2>2 DEF Waiting, Has
<1>12. MsgKind(m) = IF m.recursive THEN "tree" ELSE "node"
  BY <1>2, <1>3 DEF MsgKind
<1>13. ASSUME m.recursive, NEW c \in ChildNames(path)
       PROVE  Waiting(Append(path, c), "tree")'
  <2>1. PICK i \in DOMAIN ms : ms[i] = update[c]
    BY <1>2, <1>8, <1>13
  <2>2. update[c] = Update(Append(path, c), TRUE, m.notify)
    BY <1>2, <1>5, <1>13 DEF update
  <2>3. update[c] \in Sound /\ update[c].path = Append(path, c) /\ MsgKind(update[c]) = "tree"
    BY <1>2, <1>6, <1>13, <2>2
  <2>4. ms[i] \in Doing(Append(path, c), "tree")
    BY <2>1, <2>3 DEF Doing, Sound
  <2>5. ~NoneOf(ms, Doing(Append(path, c), "tree")) /\ "tree" \in Kind
    BY <2>4 DEF NoneOf, Kind
  <2>6. \A p : ~NoneOf(ms, Doing(p, "tree")) => Waiting(p, "tree")'
    BY <1>10, <2>5
  <2> QED
    BY <2>5, <2>6
<1>14. /\ DOMAIN cache' = DOMAIN cache \cup {path}
       /\ cache'[path] = [data |-> zk[path], children |-> ChildNames(path)]
       /\ \A p \in DOMAIN cache \ {path} : cache'[p] = cache[p]
  BY <1>2, <1>3, <1>4 DEF CacheWith
<1> QED
  BY <1>2, <1>3, <1>8, <1>9, <1>10, <1>11, <1>12, <1>13, <1>14

LEMMA StoreKeeps == Steady /\ StoreEntry => MirrorInv'
<1> SUFFICES ASSUME Steady, StoreEntry PROVE MirrorInv'
  OBVIOUS
<1>1. PICK path : path = handler.msg.path
  OBVIOUS
<1>2. PICK kind : kind = MsgKind(handler.msg)
  OBVIOUS
<1>3. /\ UNCHANGED <<watchedNodes, watcher, request, zk, dataWatch, childWatch, events, missed>>
  BY DEF StoreEntry, zkVars
<1>4. /\ Exists(path) /\ path \in watchedNodes
      /\ DOMAIN cache' = DOMAIN cache \cup {path}
      /\ cache'[path] = [data |-> zk[path], children |-> ChildNames(path)]
      /\ \A p \in DOMAIN cache \ {path} : cache'[p] = cache[p]
      /\ mailbox' \in Seq(Sound) /\ handler'.msg \in Sound /\ handler'.stage = "idle"
      /\ \A p : \A k \in Kind :
           /\ Waiting(p, k) /\ (p = path => k # kind) => Waiting(p, k)'
           /\ Waiting(p, k)' => Waiting(p, k) \/ k = "tree"
      /\ \/ kind = "node"
         \/ kind = "tree" /\ \A c \in ChildNames(path) : Waiting(Append(path, c), "tree")'
  BY <1>1, <1>2, StoreEffect
<1>5. FactsOK /\ GoneOK /\ CoveredOK /\ FreshOK
  BY DEF Steady, MirrorInv
<1>6. FactsOK' /\ Distinct' /\ WatchOK'
  <2>1. StageFits(handler.stage, handler.msg, handler.listed)'
    BY <1>4, IdleFits
  <2>2. \A r \in Request : IsOp(r, "addPathToCache")' => request'[r].path \in Znode
    BY <1>3, <1>5 DEF FactsOK, IsOp
  <2>3. \A p : Waiting(p, "unwatch") => Waiting(p, "unwatch")'
    BY <1>4 DEF Kind
  <2>4. watchedNodes' \ watchedNodes = {}
    BY <1>3
  <2> QED
    BY <1>3, <1>4, <2>1, <2>2, <2>3, <2>4, UpdaterFacts
<1>7. ASSUME NEW p, NEW k \in Kind
      PROVE  /\ Task(p, k) /\ (p = path => k # kind) => Task(p, k)'
             /\ Task(p, k)' => Task(p, k) \/ k = "tree"
  <2>1. Noticing(p, k)' <=> Noticing(p, k)
    BY <1>3 DEF Noticing, Raising
  <2> QED
    BY <1>4, <2>1 DEF Task
<1>8. "tree" \in Kind /\ "node" \in Kind /\ "remove" \in Kind
  BY DEF Kind
<1>9. /\ \A p : Exists(p)' <=> Exists(p)
      /\ \A p : ChildNames(p)' = ChildNames(p)
      /\ \A p : Cached(p)' <=> Cached(p) \/ p = path
  BY <1>3, <1>4 DEF Exists, ChildNames, Cached
<1>10. GoneOK'
  <2> SUFFICES ASSUME NEW p \in DOMAIN cache', ~Exists(p)
               PROVE  cache'[p].children = {} /\ Task(p, "remove")'
    BY <1>9 DEF GoneOK
  <2>1. p # path /\ p \in DOMAIN cache /\ cache'[p] = cache[p]
    BY <1>4
  <2>2. cache[p].children = {} /\ Task(p, "remove")
    BY <1>5, <2>1 DEF GoneOK
  <2> QED
    BY <1>7, <1>8, <2>1, <2>2
<1>11. ASSUME NEW p \in Znode, Exists(p), Touched(p)', p # path, ~Task(p, "tree")'
       PROVE  Touched(p) /\ ~Task(p, "tree")
  <2>1. ~Task(p, "tree") /\ (Task(p, "node")' => Task(p, "node"))
    BY <1>7, <1>8, <1>11
  <2> QED
    BY <1>3, <1>9, <1>11, <2>1 DEF Touched
<1>12. CoveredOK'
  <2> SUFFICES ASSUME NEW p \in Znode, Exists(p), Touched(p)', ~Task(p, "tree")'
               PROVE  Cached(p)' /\ ChildrenCovered(p)'
    BY <1>9 DEF CoveredOK
  <2>1. ASSUME NEW q, Cached(q) \/ Task(q, "tree") PROVE Cached(q)' \/ Task(q, "tree")'
    BY <1>7, <1>8, <1>9, <2>1
  <2>2. ASSUME ChildrenCovered(p) PROVE ChildrenCovered(p)'
    BY <1>9, <2>1, <2>2 DEF ChildrenCovered
  <2>3. CASE p # path
    BY <1>5, <1>9, <1>11, <2>2, <2>3 DEF CoveredOK
  <2>4. CASE p = path /\ kind = "node"
    <3>1. ~Task(p, "tree") /\ Touched(p)
      BY <1>4, <1>7, <1>8, <2>4 DEF Touched
    <3> QED
      BY <1>5, <1>9, <2>2, <2>4, <3>1 DEF CoveredOK
  <2>5. CASE p = path /\ \A c \in ChildNames(path) : Waiting(Append(path, c), "tree")'
    <3>1. \A q : Waiting(q, "tree")' => Task(q, "tree")'
      BY DEF Task
    <3> QED
      BY <1>9, <2>5, <3>1 DEF ChildrenCovered
  <2> QED
    BY <1>4, <2>3, <2>4, <2>5
<1>13. FreshOK'
  <2> SUFFICES ASSUME NEW p \in Znode, Exists(p), Touched(p)', ~Task(p, "tree")', ~Task(p, "node")'
               PROVE  Fresh(p)'
    BY <1>9 DEF FreshOK
  <2>1. CASE p = path
    BY <1>3, <1>4, <1>9, <2>1 DEF Fresh
  <2>2. CASE p # path
    <3>1. ~Task(p, "node")
      BY <1>7, <1>8, <2>2
    <3>2. Fresh(p) /\ Cached(p)
      BY <1>5, <1>11, <2>2, <3>1 DEF FreshOK, CoveredOK
    <3>3. cache'[p] = cache[p]
      BY <1>4, <2>2, <3>2 DEF Cached
    <3> QED
      BY <1>3, <1>9, <3>2, <3>3 DEF Fresh
  <2> QED
    BY <2>1, <2>2
<1> QED
  BY <1>6, <1>10, <1>12, <1>13 DEF MirrorInv

LEMMA ActorMirrors == Steady /\ ActorStep /\ Undisturbed' => MirrorInv'
<1> SUFFICES ASSUME Steady, ActorStep, Undisturbed' PROVE MirrorInv'
  OBVIOUS
<1>1. faults' = 0 /\ alive'
  BY DEF Undisturbed
<1>2. ~HandleRemovePath
  <2> SUFFICES ASSUME Received("ScakkaApiRemovePath") PROVE FALSE
    BY DEF HandleRemovePath
  <2>1. Head(mailbox) \in Sound /\ Head(mailbox).type = "ScakkaApiRemovePath"
    BY SteadyReceived
  <2> QED
    BY <2>1 DEF Sound, MsgFits
<1>3. ~HandleShutdown
  BY <1>1 DEF HandleShutdown
<1>4. ~FailAdd /\ ~WatchMissing
  BY SteadyFacts DEF FailAdd, WatchMissing, At, StageFits
<1> QED
  BY <1>1, <1>2, <1>3, <1>4, WatchUnderPathKeeps, UpdateKeeps, FinishUpdateKeeps, AddKeeps,
     ListChildrenKeeps, StoreKeeps, RemoveKeeps, EvictKeeps, SetWatcherKeeps, UnwatchKeeps,
     WatchKeeps, RecordWatchKeeps
  DEF ActorStep

-----------------------------------------------------------------------------
(* Steps of the watcher *)

(* A step of the watcher keeps the tasks that matter: it passes them on. *)
LEMMA WatcherKeeps ==
  ASSUME Steady,
         UNCHANGED <<handler, watchedNodes, cache, zk, dataWatch, childWatch, missed, request>>,
         FactsOK', Distinct',
         \A p \in watchedNodes : UsedUp(p) => UsedUp(p)',
         \A p : \A k \in {"tree", "node", "remove"} : Task(p, k)' <=> Task(p, k)
  PROVE  MirrorInv'
<1>1. WatchOK /\ GoneOK /\ CoveredOK /\ FreshOK
  BY DEF Steady, MirrorInv
<1>2. WatchOK'
  <2>1. \A p : HasWatches(p)' <=> HasWatches(p)
    BY DEF HasWatches, Exists
  <2> QED
    BY <1>1, <2>1 DEF WatchOK
<1>3. \A p : Cached(p)' <=> Cached(p)
  BY DEF Cached
<1>4. \A p : Touched(p)' <=> Touched(p)
  <2>1. \A p : Task(p, "node")' <=> Task(p, "node")
    OBVIOUS
  <2> QED
    BY <1>3, <2>1 DEF Touched
<1>5. \A p : /\ Task(p, "tree")' <=> Task(p, "tree")
             /\ Task(p, "node")' <=> Task(p, "node")
             /\ Task(p, "remove")' <=> Task(p, "remove")
  OBVIOUS
<1>6. \A p \in DOMAIN cache' : Cached(p) /\ cache'[p] = cache[p]
  BY DEF Cached
<1>7. GoneOK' /\ CoveredOK' /\ FreshOK'
  BY <1>1, <1>3, <1>4, <1>5, <1>6, EntriesKept
<1> QED
  BY <1>2, <1>7 DEF MirrorInv

(* The messages of the watcher are sent behind those that wait. *)
LEMMA WatcherSends ==
  ASSUME Steady, UNCHANGED handler, NEW m \in Sound, Send(<<m>>)
  PROVE  /\ mailbox' \in Seq(Sound)
         /\ \A p : \A k \in Kind : Waiting(p, k)' <=> Waiting(p, k) \/ m \in Doing(p, k)
<1>1. <<m>> \in Seq(Sound)
  BY SeqOfOne
<1>2. mailbox' \in Seq(Sound)
  BY <1>1, SteadyFacts, MailboxOf
<1>3. ASSUME NEW p, NEW k \in Kind
      PROVE  Waiting(p, k)' <=> Waiting(p, k) \/ m \in Doing(p, k)
  <2>1. NoneOf(<<m>>, Doing(p, k)) <=> m \notin Doing(p, k)
    BY SingletonToken
  <2>2. Has(mailbox', handler'.msg, Doing(p, k)) <=>
           handler'.msg \in Doing(p, k) \/ ~NoneOf(mailbox, Doing(p, k)) \/ ~NoneOf(<<m>>, Doing(p, k))
    BY <1>1, SteadyFacts, WaitingSent
  <2> QED
    BY <2>1, <2>2 DEF Waiting, Has, Doing
<1> QED
  BY <1>2, <1>3

LEMMA SendUnwatchMirrors == Steady /\ SendUnwatch => MirrorInv'
<1> SUFFICES ASSUME Steady, SendUnwatch PROVE MirrorInv'
  OBVIOUS
<1>1. PICK path : path = watcher.event.path
  OBVIOUS
<1>2. /\ watcher.stage = "unwatch" /\ Send(<<Unwatch(path)>>)
      /\ UNCHANGED <<handler, watchedNodes, cache, zk, dataWatch, childWatch, events, missed, request>>
  BY <1>1 DEF SendUnwatch, zkVars, callVars
<1>3. watcher \in [stage : {"unwatch", "followUp"}, event : Event] /\ path \in PathString
  BY <1>1, <1>2, SteadyFacts, ZnodeIsPathString DEF NoEvent, Event
<1>4. watcher'.stage = "followUp" /\ watcher'.event = watcher.event
  BY <1>3 DEF SendUnwatch
<1>5. FactsOK /\ Distinct /\ NoEventOf(path)
  BY <1>1, <1>2 DEF Steady, MirrorInv, Distinct
<1> DEFINE m == Unwatch(path)
<1>6. m \in Message /\ m.type = "Unwatch" /\ m.path = path
  <2>1. NoOne \in Notifyable
    BY DEF Notifyable
  <2>2. m \in Message
    BY <1>3, <2>1, MessageTypes
  <2> QED
    BY <2>2 DEF Unwatch, Msg
<1> HIDE DEF m
<1>7. m \in Sound
  BY <1>5, <1>6 DEF Sound, MsgFits
<1>8. Send(<<m>>)
  BY <1>2 DEF m
<1>9. /\ mailbox' \in Seq(Sound)
      /\ \A p : \A k \in Kind : Waiting(p, k)' <=> Waiting(p, k) \/ m \in Doing(p, k)
  BY <1>2, <1>7, <1>8, WatcherSends
<1>10. \A p : \A k : m \in Doing(p, k) <=> p = path /\ k = "unwatch"
  BY <1>6 DEF Doing, MsgKind
<1>11. /\ \A p : Exists(p)' <=> Exists(p)
       /\ \A p : NoEventOf(p)' <=> NoEventOf(p)
       /\ \A p : ChildNames(p)' = ChildNames(p)
       /\ Sound' = Sound
  BY <1>2 DEF Exists, NoEventOf, Sound, MsgFits, ChildNames
<1>12. FactsOK'
  <2>1. missed' = Nothing /\ TreeOK'
    BY <1>2, <1>5, <1>11 DEF FactsOK, TreeOK, ParentExists
  <2>2. /\ \A i \in DOMAIN events' : EventFits(events[i])'
        /\ watcher'.stage # "idle" => EventFits(watcher.event)'
    BY <1>2, <1>4, <1>5, <1>11 DEF FactsOK, EventFits
  <2>3. StageFits(handler.stage, handler.msg, handler.listed)'
    BY <1>2, <1>5, <1>11 DEF FactsOK, StageFits, HasWatches
  <2>4. \A r \in Request : IsOp(r, "addPathToCache")' => request'[r].path \in Znode
    BY <1>2, <1>5 DEF FactsOK, IsOp
  <2>5. handler'.msg \in Sound
    BY <1>2, SteadyFacts
  <2> QED
    BY <1>9, <1>11, <2>1, <2>2, <2>3, <2>4, <2>5 DEF FactsOK
<1>13. Distinct'
  BY <1>2, <1>4, <1>5 DEF Distinct, NoEventOf
<1>14. "unwatch" \in Kind /\ \A k \in {"tree", "node", "remove"} : k \in Kind /\ k # "unwatch"
  BY DEF Kind
<1>15. \A p : \A k \in {"tree", "node", "remove"} : Task(p, k)' <=> Task(p, k)
  <2>1. \A p : \A k \in {"tree", "node", "remove"} : Waiting(p, k)' <=> Waiting(p, k)
    BY <1>9, <1>10, <1>14
  <2>2. \A p : \A k : Noticing(p, k)' <=> Noticing(p, k)
    BY <1>2, <1>4 DEF Noticing, Raising
  <2> QED
    BY <2>1, <2>2 DEF Task
<1>16. \A p : UsedUp(p) => UsedUp(p)'
  <2> SUFFICES ASSUME NEW p, UsedUp(p) PROVE UsedUp(p)'
    OBVIOUS
  <2>1. Waiting(p, "unwatch")' => Task(p, "unwatch")'
    BY DEF Task
  <2>2. CASE ~NoEventOf(p)
    BY <1>11, <2>2 DEF UsedUp
  <2>3. CASE watcher.event.path = p \/ Task(p, "unwatch")
    <3>1. Waiting(p, "unwatch")'
      BY <1>1, <1>9, <1>10, <1>14, <2>3, UnwatchWaits
    <3> QED
      BY <2>1, <3>1 DEF UsedUp
  <2> QED
    BY <2>2, <2>3 DEF UsedUp
<1> QED
  BY <1>2, <1>12, <1>13, <1>15, <1>16, WatcherKeeps

LEMMA ProcessEventMirrors == Steady /\ ProcessEvent => MirrorInv'
<1> SUFFICES ASSUME Steady, ProcessEvent PROVE MirrorInv'
  OBVIOUS
<1>1. /\ watcher = NoEvent /\ events # << >> /\ events' = Tail(events)
      /\ UNCHANGED <<mailbox, handler, watchedNodes, cache, zk, dataWatch, childWatch, missed, request>>
  BY DEF ProcessEvent, callVars
<1>2. PICK e : e = Head(events)
  OBVIOUS
<1>3. /\ Tail(events) \in Seq(Event) /\ e \in Event /\ e = events[1] /\ 1 \in DOMAIN events
      /\ \A i \in DOMAIN Tail(events) :
           i + 1 \in DOMAIN events /\ Tail(events)[i] = events[i + 1] /\ i \in Nat /\ i >= 1
      /\ \A j \in DOMAIN events : j = 1 \/ (j - 1 \in DOMAIN Tail(events) /\ events[j] = Tail(events)[j - 1])
  BY <1>1, <1>2, SteadyFacts
<1>4. \/ e.path \in watchedNodes /\ watcher'.stage = "unwatch" /\ watcher'.event = e
      \/ e.path \notin watchedNodes /\ watcher' = NoEvent
  <2>1. ~RacyReads
    BY DEF Steady, Calm
  <2>2. PICK watched \in WatchedSeen(e.path) :
          watcher' = IF watched THEN [stage |-> "unwatch", event |-> e] ELSE NoEvent
    BY <1>2 DEF ProcessEvent
  <2>3. watched = (e.path \in watchedNodes)
    BY <2>1 DEF WatchedSeen
  <2>4. CASE e.path \in watchedNodes
    BY <2>2, <2>3, <2>4
  <2>5. CASE e.path \notin watchedNodes
    BY <2>2, <2>3, <2>5
  <2> QED
    BY <2>4, <2>5
<1>5. NoEvent.stage = "idle" /\ \A p : \A k : NoEvent.event \notin Raising(p, k)
  BY DEF NoEvent, Raising, Event, EventType
<1>6. FactsOK /\ Distinct
  BY DEF Steady, MirrorInv
<1>7. /\ \A p : NoEventOf(p) => NoEventOf(p)'
      /\ \A p : NoEventOf(p) \/ e.path = p \/ ~NoEventOf(p)'
  <2>1. ASSUME NEW p, NoEventOf(p) PROVE NoEventOf(p)'
    BY <1>1, <1>3, <2>1 DEF NoEventOf
  <2>2. ASSUME NEW p, NEW j \in DOMAIN events, events[j].path = p, e.path # p PROVE ~NoEventOf(p)'
    <3>1. j - 1 \in DOMAIN events' /\ events'[j - 1].path = p
      BY <1>1, <1>3, <2>2
    <3> QED
      BY <3>1 DEF NoEventOf
  <2> QED
    BY <2>1, <2>2 DEF NoEventOf
<1>8. /\ \A p : Exists(p)' <=> Exists(p)
      /\ \A p : ChildNames(p)' = ChildNames(p)
      /\ Sound \subseteq Sound'
  BY <1>1, <1>7 DEF Exists, Sound, MsgFits, ChildNames
<1>9. FactsOK'
  <2>1. missed' = Nothing /\ TreeOK'
    BY <1>1, <1>6, <1>8 DEF FactsOK, TreeOK, ParentExists
  <2>2. \A i \in DOMAIN events' : EventFits(events[i]')
    <3> SUFFICES ASSUME NEW i \in DOMAIN events' PROVE EventFits(events'[i])
      OBVIOUS
    <3>1. i + 1 \in DOMAIN events /\ events'[i] = events[i + 1]
      BY <1>1, <1>3
    <3> QED
      BY <1>6, <3>1 DEF FactsOK
  <2>3. EventFits(e)
    BY <1>3, <1>6 DEF FactsOK
  <2>4. /\ (\A i \in DOMAIN events : EventFits(events[i]))'
        /\ watcher'.stage # "idle" => EventFits(watcher.event)'
    BY <1>4, <1>5, <1>8, <2>2, <2>3 DEF EventFits
  <2>5. StageFits(handler.stage, handler.msg, handler.listed)'
    BY <1>1, <1>6, <1>8 DEF FactsOK, StageFits, HasWatches
  <2>6. \A r \in Request : IsOp(r, "addPathToCache")' => request'[r].path \in Znode
    BY <1>1, <1>6 DEF FactsOK, IsOp
  <2>7. mailbox' \in Seq(Sound') /\ handler'.msg \in Sound'
    BY <1>1, <1>8, SteadyFacts, SeqMonotonic
  <2> QED
    BY <2>1, <2>4, <2>5, <2>6, <2>7 DEF FactsOK
<1>10. Distinct'
  <2>1. ASSUME NEW i \in DOMAIN events', NEW j \in DOMAIN events', events'[i].path = events'[j].path
        PROVE  i = j
    <3>1. /\ i + 1 \in DOMAIN events /\ events'[i] = events[i + 1] /\ i \in Nat
          /\ j + 1 \in DOMAIN events /\ events'[j] = events[j + 1] /\ j \in Nat
      BY <1>1, <1>3
    <3>2. i + 1 = j + 1
      BY <1>6, <2>1, <3>1 DEF Distinct
    <3> QED
      BY <3>1, <3>2
  <2>2. ASSUME NEW i \in DOMAIN events' PROVE events'[i].path # e.path
    <3>1. i + 1 \in DOMAIN events /\ events'[i] = events[i + 1] /\ i \in Nat /\ i >= 1 /\ i + 1 # 1
      BY <1>1, <1>3
    <3> QED
      BY <1>3, <1>6, <3>1 DEF Distinct
  <2> QED
    BY <1>4, <1>5, <2>1, <2>2 DEF Distinct, NoEventOf
<1>11. \A p : \A k : Waiting(p, k)' <=> Waiting(p, k)
  BY <1>1 DEF Waiting, Doing
<1>12. ASSUME NEW p, NEW k PROVE Noticing(p, k)' <=> Noticing(p, k)
  <2>1. NoneOf(events, Raising(p, k)) <=> e \notin Raising(p, k) /\ NoneOf(Tail(events), Raising(p, k))
    BY <1>1, <1>2, SteadyFacts, NoneOfTail
  <2>2. e \in Raising(p, k) => e.path = p
    BY DEF Raising
  <2>3. watcher.event \notin Raising(p, k)
    BY <1>1, <1>5
  <2>4. Noticing(p, k)' <=>
          watcher'.event \in Raising(p, k) \/ (p \in watchedNodes /\ ~NoneOf(Tail(events), Raising(p, k)))
    BY <1>1 DEF Noticing, Raising
  <2> QED
    BY <1>4, <1>5, <2>1, <2>2, <2>3, <2>4 DEF Noticing
<1>13. \A p : \A k : Task(p, k)' <=> Task(p, k)
  BY <1>11, <1>12 DEF Task
<1>14. ASSUME NEW p \in watchedNodes, UsedUp(p) PROVE UsedUp(p)'
  <2>1. Task(p, "unwatch") => UsedUp(p)'
    BY <1>13 DEF UsedUp
  <2>2. watcher.stage # "unwatch"
    BY <1>1, <1>5
  <2>3. CASE e.path = p
    BY <1>4, <2>3 DEF UsedUp
  <2>4. CASE ~NoEventOf(p) /\ e.path # p
    BY <1>7, <2>4 DEF UsedUp
  <2> QED
    BY <1>14, <2>1, <2>2, <2>3, <2>4 DEF UsedUp
<1> QED
  BY <1>1, <1>9, <1>10, <1>13, <1>14, WatcherKeeps

LEMMA SendFollowUpMirrors == Steady /\ SendFollowUp => MirrorInv'
<1> SUFFICES ASSUME Steady, SendFollowUp PROVE MirrorInv'
  OBVIOUS
<1>1. PICK e : e = watcher.event
  OBVIOUS
<1>2. /\ watcher.stage = "followUp" /\ Send(<<FollowUp(e)>>) /\ watcher' = NoEvent
      /\ UNCHANGED <<handler, watchedNodes, cache, zk, dataWatch, childWatch, events, missed, request>>
  BY <1>1 DEF SendFollowUp, zkVars, callVars
<1>3. e \in Event /\ e.path \in Znode /\ e.path \in PathString
  BY <1>1, <1>2, SteadyFacts, ZnodeIsPathString DEF NoEvent, Event
<1>4. FactsOK /\ Distinct /\ EventFits(e)
  BY <1>1, <1>2 DEF Steady, MirrorInv, FactsOK
<1> DEFINE m == FollowUp(e)
<1>5. m \in Sound /\ m.path = e.path /\ MsgKind(m) = EventKind(e)
  <2>1. NoOne \in Notifyable /\ 0 \in Nat
    BY DEF Notifyable
  <2>2. CASE e.type = "NodeDeleted"
    <3>1. m = Remove(e.path, NoOne)
      BY <2>2 DEF FollowUp
    <3>2. m \in Message /\ m.path = e.path /\ MsgKind(m) = "remove"
      <4>1. Remove(e.path, NoOne) \in Message
        BY <1>3, <2>1, MessageTypes
      <4>2. MsgKind(Remove(e.path, NoOne)) = "remove"
        BY <1>3, <2>1, MessageKinds
      <4>3. Remove(e.path, NoOne).path = e.path
        BY MessagePaths
      <4> QED
        BY <3>1, <4>1, <4>2, <4>3
    <3>3. m.type = "Remove"
      BY <3>1 DEF Remove, Msg
    <3>4. ~Exists(m.path)
      BY <1>4, <2>2, <3>2 DEF EventFits
    <3>5. m \in Sound
      BY <1>3, <3>2, <3>3, <3>4 DEF Sound, MsgFits
    <3> QED
      BY <2>2, <3>2, <3>5 DEF EventKind
  <2>3. CASE e.type = "NodeDataChanged"
    <3>1. m = Update(e.path, FALSE, NoOne)
      BY <2>3 DEF FollowUp
    <3>2. m \in Sound /\ m.path = e.path /\ MsgKind(m) = "node"
      <4>1. Update(e.path, FALSE, NoOne) \in Sound
        BY <1>3, <2>1, SoundUpdate
      <4>2. MsgKind(Update(e.path, FALSE, NoOne)) = "node"
        BY <1>3, <2>1, MessageKinds
      <4>3. Update(e.path, FALSE, NoOne).path = e.path
        BY MessagePaths
      <4> QED
        BY <3>1, <4>1, <4>2, <4>3
    <3> QED
      BY <2>3, <3>2 DEF EventKind
  <2>4. CASE e.type \notin {"NodeDeleted", "NodeDataChanged"}
    <3>1. m = Update(e.path, TRUE, NoOne)
      BY <2>4 DEF FollowUp
    <3>2. m \in Sound /\ m.path = e.path /\ MsgKind(m) = "tree"
      <4>1. Update(e.path, TRUE, NoOne) \in Sound
        BY <1>3, <2>1, SoundUpdate
      <4>2. MsgKind(Update(e.path, TRUE, NoOne)) = "tree"
        BY <1>3, <2>1, MessageKinds
      <4>3. Update(e.path, TRUE, NoOne).path = e.path
        BY MessagePaths
      <4> QED
        BY <3>1, <4>1, <4>2, <4>3
    <3> QED
      BY <2>4, <3>2 DEF EventKind
  <2> QED
    BY <2>2, <2>3, <2>4
<1>6. Send(<<m>>)
  BY <1>2
<1> HIDE DEF m
<1>7. /\ mailbox' \in Seq(Sound)
      /\ \A p : \A k \in Kind : Waiting(p, k)' <=> Waiting(p, k) \/ m \in Doing(p, k)
  BY <1>2, <1>5, <1>6, WatcherSends
<1>8. /\ \A p : Exists(p)' <=> Exists(p)
      /\ \A p : NoEventOf(p)' <=> NoEventOf(p)
      /\ \A p : ChildNames(p)' = ChildNames(p)
      /\ Sound' = Sound
      /\ watcher'.stage = "idle" /\ \A p : \A k : watcher'.event \notin Raising(p, k)
  BY <1>2 DEF Exists, NoEventOf, Sound, MsgFits, ChildNames, NoEvent, Raising, Event, EventType
<1>9. FactsOK'
  <2>1. missed' = Nothing /\ TreeOK'
    BY <1>2, <1>4, <1>8 DEF FactsOK, TreeOK, ParentExists
  <2>2. \A i \in DOMAIN events' : EventFits(events[i])'
    BY <1>2, <1>4, <1>8 DEF FactsOK, EventFits
  <2>3. StageFits(handler.stage, handler.msg, handler.listed)'
    BY <1>2, <1>4, <1>8 DEF FactsOK, StageFits, HasWatches
  <2>4. \A r \in Request : IsOp(r, "addPathToCache")' => request'[r].path \in Znode
    BY <1>2, <1>4 DEF FactsOK, IsOp
  <2>5. handler'.msg \in Sound
    BY <1>2, SteadyFacts
  <2> QED
    BY <1>7, <1>8, <2>1, <2>2, <2>3, <2>4, <2>5 DEF FactsOK
<1>10. Distinct'
  BY <1>2, <1>4, <1>8 DEF Distinct, NoEventOf
<1>11. \A k \in {"tree", "node", "remove"} : k \in Kind
  BY DEF Kind
<1>12. ASSUME NEW p, NEW k \in {"tree", "node", "remove"}
       PROVE  Task(p, k)' <=> Task(p, k)
  <2>1. m \in Doing(p, k) <=> watcher.event \in Raising(p, k)
    BY <1>1, <1>3, <1>5 DEF Doing, Raising, Sound
  <2>2. Noticing(p, k)' <=> p \in watchedNodes /\ ~NoneOf(events, Raising(p, k))
    BY <1>2, <1>8 DEF Noticing, Raising
  <2>3. Waiting(p, k)' <=> Waiting(p, k) \/ m \in Doing(p, k)
    BY <1>7, <1>11
  <2> QED
    BY <2>1, <2>2, <2>3 DEF Task, Noticing
<1>13. \A p : UsedUp(p) => UsedUp(p)'
  <2> SUFFICES ASSUME NEW p, UsedUp(p) PROVE UsedUp(p)'
    OBVIOUS
  <2>1. Waiting(p, "unwatch") => Task(p, "unwatch")'
    BY <1>7 DEF Task, Kind
  <2> QED
    BY <1>2, <1>8, <2>1, UnwatchWaits DEF UsedUp
<1> QED
  BY <1>2, <1>9, <1>10, <1>12, <1>13, WatcherKeeps

LEMMA WatcherMirrors == Steady /\ WatcherStep => MirrorInv'
BY ProcessEventMirrors, SendUnwatchMirrors, SendFollowUpMirrors DEF WatcherStep

-----------------------------------------------------------------------------
(* Steps of the callers *)

LEMMA ApiMirrors == Steady /\ ApiStep /\ Undisturbed' => MirrorInv'
<1> SUFFICES ASSUME Steady, ApiStep, Undisturbed' PROVE MirrorInv'
  OBVIOUS
<1>1. PICK r \in Request :
        \/ \E path \in ApiPath : CheckAdd(r, path) \/ CheckRemove(r, path)
        \/ SendAdd(r) \/ SendRemove(r)
        \/ CallStop(r) \/ StopCompletes(r) \/ StopTimesOut(r)
  BY DEF ApiStep
<1>2. /\ request \in [Request -> Call \cup {NotMade}]
      /\ \A q \in Request : IsOp(q, "addPathToCache") => request[q].path \in Znode
  BY SteadyFacts DEF TypeInv, TypeOK, CallsTypeOK, Steady, MirrorInv, FactsOK
<1>3. ~IsOp(r, "removePathFromCache") /\ ~IsOp(r, "removePathFromCache")'
  BY DEF Steady, Undisturbed
<1>4. /\ UNCHANGED <<handler, watchedNodes, cache, watcher, zk, dataWatch, childWatch, events, missed>>
  BY <1>1 DEF CheckAdd, CheckRemove, SendAdd, SendRemove, CallStop, StopCompletes, StopTimesOut, actorVars, zkVars
(* A call that is made or returns says what it is and names a znode. *)
<1>5. ASSUME NEW op, NEW path, NEW at, NEW attached, Make(r, op, path, at, attached)
      PROVE  /\ request'[r] # NotMade /\ request'[r].op = op /\ request'[r].path = path
             /\ \A q \in Request \ {r} : request'[q] = request[q]
  <2>1. /\ request'[r] = [op |-> op, path |-> path, at |-> at, attached |-> attached]
        /\ \A q \in Request \ {r} : request'[q] = request[q]
    BY <1>2, <1>5 DEF Make
  <2>2. request'[r] # NotMade /\ request'[r].op = op
    <3>1. "op" \in DOMAIN request'[r] /\ "op" \notin DOMAIN NotMade
      BY <2>1 DEF NotMade
    <3> QED
      BY <2>1, <3>1
  <2> QED
    BY <2>1, <2>2
<1>6. \A q \in Request : IsOp(q, "addPathToCache")' => request'[q].path \in Znode
  <2>1. CASE \E path \in ApiPath : CheckAdd(r, path)
    <3>1. PICK path \in ApiPath : CheckAdd(r, path)
      BY <2>1
    <3>2. path \in Znode
      BY CallsAssumption
    <3>3. request'[r].path = path /\ \A q \in Request \ {r} : request'[q] = request[q]
      BY <1>5, <3>1 DEF CheckAdd
    <3> QED
      BY <1>2, <3>2, <3>3 DEF IsOp
  <2>2. CASE \E path \in ApiPath : CheckRemove(r, path)
    <3>1. request'[r] # NotMade /\ request'[r].op = "removePathFromCache"
      BY <1>5, <2>2 DEF CheckRemove
    <3> QED
      BY <1>3, <3>1 DEF IsOp
  <2>3. CASE SendAdd(r)
    <3>1. request[r] \in Call /\ IsOp(r, "addPathToCache")
      BY <1>2, <2>3 DEF SendAdd, IsPending, IsOp
    <3>2. request'[r].path = request[r].path /\ \A q \in Request \ {r} : request'[q] = request[q]
      BY <1>2, <2>3, <3>1 DEF SendAdd, Return, Call
    <3> QED
      BY <1>2, <3>1, <3>2 DEF IsOp
  <2>4. CASE SendRemove(r)
    BY <1>3, <2>4 DEF SendRemove, IsPending, IsOp
  <2>5. CASE CallStop(r)
    <3>1. request'[r].op = "stop" /\ \A q \in Request \ {r} : request'[q] = request[q]
      BY <1>5, <2>5 DEF CallStop
    <3> QED
      BY <1>2, <3>1 DEF IsOp
  <2>6. CASE StopCompletes(r) \/ StopTimesOut(r)
    BY <1>2, <2>6 DEF StopCompletes, StopTimesOut, IsOp
  <2> QED
    BY <1>1, <2>1, <2>2, <2>3, <2>4, <2>5, <2>6
<1>7. /\ mailbox' \in Seq(Sound)
      /\ \A p : \A k \in Kind : Waiting(p, k)' <=> Waiting(p, k)
  <2>1. ASSUME NEW m \in Sound, m.type \in {"ScakkaApiWatchUnderPath", "ScakkaApiShutdown"}, Send(<<m>>)
        PROVE  /\ mailbox' \in Seq(Sound)
               /\ \A p : \A k \in Kind : Waiting(p, k)' <=> Waiting(p, k)
    BY <1>4, <2>1, NoTask, WatcherSends
  <2>2. CASE mailbox' = mailbox
    BY <1>4, <2>2, SteadyFacts DEF Waiting, Doing
  <2>3. CASE SendAdd(r)
    <3> DEFINE m == Msg("ScakkaApiWatchUnderPath", request[r].path, r)
    <3>1. request[r].path \in Znode
      BY <1>2, <2>3 DEF SendAdd, IsPending, IsOp
    <3>2. request[r].path \in PathString /\ r \in Notifyable /\ "ScakkaApiWatchUnderPath" \in MessageType
      BY <3>1, ZnodeIsPathString DEF Notifyable, MessageType
    <3>3. m \in Message
      BY <3>2, MessageTypes
    <3>4. m.type = "ScakkaApiWatchUnderPath" /\ m.path = request[r].path
      BY DEF Msg
    <3>5. Send(<<m>>)
      BY <2>3 DEF SendAdd
    <3> HIDE DEF m
    <3>6. m \in Sound
      BY <3>1, <3>3, <3>4 DEF Sound, MsgFits
    <3> QED
      BY <2>1, <3>4, <3>5, <3>6
  <2>4. CASE CallStop(r)
    <3>1. Shutdown \in Message /\ Shutdown.type = "ScakkaApiShutdown"
      BY RootMessageTypes DEF Shutdown, Msg
    <3>2. Shutdown \in Sound
      BY <3>1 DEF Sound, MsgFits
    <3> QED
      BY <2>1, <2>4, <3>1, <3>2 DEF CallStop
  <2>5. ~SendRemove(r)
    BY <1>3 DEF SendRemove, IsPending, IsOp
  <2> QED
    BY <1>1, <2>2, <2>3, <2>4, <2>5 DEF CheckAdd, CheckRemove, StopCompletes, StopTimesOut, actorVars
<1>8. "tree" \in Kind /\ "node" \in Kind /\ "remove" \in Kind /\ "unwatch" \in Kind
  BY DEF Kind
<1>9. \A p : /\ Waiting(p, "tree") <=> Waiting(p, "tree")'
             /\ Waiting(p, "node") <=> Waiting(p, "node")'
             /\ Waiting(p, "remove") <=> Waiting(p, "remove")'
             /\ Waiting(p, "unwatch") <=> Waiting(p, "unwatch")'
  BY <1>7, <1>8
<1>10. /\ handler'.msg \in Sound
       /\ StageFits(handler.stage, handler.msg, handler.listed)'
  BY <1>4, SteadyFacts DEF StageFits, Exists, HasWatches, ChildNames
<1>11. /\ \A p : Cached(p)' <=> Cached(p)
       /\ watchedNodes' \ watchedNodes = {} /\ watchedNodes \ watchedNodes' = {}
  BY <1>4 DEF Cached
<1> QED
  BY <1>4, <1>6, <1>7, <1>9, <1>10, <1>11, UpdaterKeeps DEF Cached

-----------------------------------------------------------------------------
(* Steps of the other clients, at rest *)

LEMMA ParentAndChild ==
  ASSUME NEW p \in Seq(Name)
  PROVE  /\ \A n \in Name : ParentPath(Append(p, n)) = p
         /\ p # Root => /\ ParentPath(p) \in Seq(Name) /\ ParentPath(p) # p
                        /\ \E n \in Name : p = Append(ParentPath(p), n)
<1>1. \A n \in Name : ParentPath(Append(p, n)) = p
  BY DEF ParentPath, SeqExt!Front
<1>2. ASSUME p # Root
      PROVE  /\ ParentPath(p) \in Seq(Name) /\ ParentPath(p) # p
             /\ \E n \in Name : p = Append(ParentPath(p), n)
  <2>1. PICK s \in Seq(Name), n \in Name : p = Append(s, n)
    BY <1>2, SequenceEmptyOrAppend DEF Root
  <2>2. ParentPath(p) = s
    BY <2>1 DEF ParentPath, SeqExt!Front
  <2>3. s # p
    <3>1. Len(p) = Len(s) + 1 /\ Len(s) \in Nat
      BY <2>1
    <3> QED
      BY <3>1
  <2> QED
    BY <2>1, <2>2, <2>3
<1> QED
  BY <1>1, <1>2

LEMMA RestFacts ==
  ASSUME Steady, AtRest
  PROVE  /\ mailbox = << >> /\ handler = Idle /\ events = << >> /\ watcher = NoEvent
         /\ \A p : \A k \in Kind : ~Task(p, k) /\ ~Waiting(p, k)
         /\ \A p \in watchedNodes : HasWatches(p)
         /\ DOMAIN cache \subseteq watchedNodes /\ \A p \in DOMAIN cache : Exists(p)
         /\ \A p \in watchedNodes : Exists(p) =>
              Cached(p) /\ Fresh(p) /\ \A c \in ChildNames(p) : Cached(Append(p, c))
<1>1. mailbox = << >> /\ handler = Idle /\ events = << >> /\ watcher = NoEvent
  BY DEF AtRest
<1>2. watcher.stage = "idle" /\ \A p : \A k : watcher.event \notin Raising(p, k)
  BY <1>1 DEF NoEvent, Raising, Event, EventType
<1>3. ASSUME NEW p, NEW k \in Kind PROVE ~Task(p, k) /\ ~Waiting(p, k)
  <2>1. ~Waiting(p, k)
    BY <1>1, IdleHasNoTask DEF Waiting, Has, NoneOf
  <2>2. ~Noticing(p, k)
    BY <1>1, <1>2 DEF Noticing, NoneOf
  <2> QED
    BY <2>1, <2>2 DEF Task
<1>4. /\ WatchOK /\ GoneOK /\ CoveredOK /\ FreshOK
  BY DEF Steady, MirrorInv
<1>5. \A p : ~UsedUp(p)
  BY <1>1, <1>2, <1>3 DEF UsedUp, NoEventOf, Kind
<1>6. \A p \in watchedNodes : HasWatches(p)
  BY <1>4, <1>5 DEF WatchOK
<1>7. \A p \in DOMAIN cache : Exists(p)
  BY <1>3, <1>4 DEF GoneOK, Kind
<1>8. DOMAIN cache \subseteq watchedNodes
  BY SteadyFacts, RestIsWatched DEF Steady, KeptMeansWatched, Quiet, Connected
<1>9. ASSUME NEW p \in watchedNodes, Exists(p)
      PROVE  Cached(p) /\ Fresh(p) /\ \A c \in ChildNames(p) : Cached(Append(p, c))
  <2>1. p \in Znode /\ Touched(p) /\ "tree" \in Kind /\ "node" \in Kind
    BY <1>9 DEF Exists, Touched, Kind
  <2>2. Cached(p) /\ ChildrenCovered(p) /\ Fresh(p)
    BY <1>3, <1>4, <1>9, <2>1 DEF CoveredOK, FreshOK
  <2> QED
    BY <1>3, <2>1, <2>2 DEF ChildrenCovered
<1> QED
  BY <1>1, <1>3, <1>6, <1>7, <1>8, <1>9

(* A write at rest.  D: the paths whose node, or whose children, it        *)
(* changes.  A watched path of D has an event of what has changed.         *)
LEMMA WriteMirrors ==
  ASSUME Steady, AtRest, NEW D,
         UNCHANGED <<actorVars, callVars, missed>>,
         TreeOK', Distinct',
         events' \in Seq(Event), (\A i \in DOMAIN events : EventFits(events[i]))',
         \A p \in watchedNodes \ D : HasWatches(p)',
         \A p \in Znode \ D : zk'[p] = zk[p] /\ ChildNames(p)' = ChildNames(p),
         \A p \in watchedNodes \cap D : ~NoEventOf(p)',
         \A p \in watchedNodes : ~Exists(p)' => ChildNames(p) = {},
         \A e \in Event : EventKind(e) = "node" /\ (\E i \in DOMAIN events' : events'[i] = e) =>
           Exists(e.path) /\ ChildNames(e.path)' = ChildNames(e.path)
  PROVE  MirrorInv'
<1>1. /\ UNCHANGED <<mailbox, handler, watchedNodes, cache, watcher, request>>
  BY DEF actorVars, callVars
<1>2. /\ mailbox' = << >> /\ handler' = Idle /\ watcher' = NoEvent
      /\ NoEvent.stage = "idle" /\ \A p : \A k : NoEvent.event \notin Raising(p, k)
  BY <1>1, RestFacts DEF NoEvent, Raising, Event, EventType
<1>3. FactsOK
  BY DEF Steady, MirrorInv
<1>4. FactsOK'
  <2>1. missed' = Nothing
    BY <1>3 DEF FactsOK
  <2>2. mailbox' \in Seq(Sound') /\ handler'.msg \in Sound' /\ handler'.stage = "idle"
    <3>1. handler'.msg = NoMessage /\ handler'.stage = "idle" /\ NoMessage.type = "None" /\ NoMessage \in Message
      BY <1>2, IdleHasNoTask, RootMessageTypes DEF NoMessage, Msg
    <3>2. NoMessage \in Sound'
      BY <3>1 DEF Sound, MsgFits
    <3> QED
      BY <1>2, <3>1, <3>2
  <2>3. StageFits(handler.stage, handler.msg, handler.listed)'
    BY <2>2, IdleFits
  <2>4. \A r \in Request : IsOp(r, "addPathToCache")' => request'[r].path \in Znode
    BY <1>1, <1>3 DEF FactsOK, IsOp
  <2>5. watcher'.stage = "idle"
    BY <1>2
  <2> QED
    BY <2>1, <2>2, <2>3, <2>4, <2>5 DEF FactsOK
<1>5. WatchOK'
  BY <1>1 DEF WatchOK, UsedUp
<1>6. \A p : \A k \in Kind : Task(p, k)' => p \in watchedNodes
  <2>1. \A p : \A k \in Kind : ~Waiting(p, k)'
    BY <1>1, RestFacts DEF Waiting, Doing
  <2>2. \A p : \A k \in Kind : Noticing(p, k)' => p \in watchedNodes
    BY <1>1, <1>2 DEF Noticing, Raising
  <2> QED
    BY <2>1, <2>2 DEF Task
(* What the event of a path of D asks for. *)
<1>7. ASSUME NEW p \in watchedNodes \cap D
      PROVE  /\ ~Exists(p)' => Task(p, "remove")'
             /\ Exists(p)' => \/ Task(p, "tree")'
                              \/ Task(p, "node")' /\ Exists(p) /\ ChildNames(p)' = ChildNames(p)
  <2>1. PICK i \in DOMAIN events' : events'[i].path = p
    BY <1>7 DEF NoEventOf
  <2>2. PICK e \in Event : e = events'[i] /\ e.path = p
    BY <2>1
  <2>3. EventFits(e)'
    BY <2>2 DEF EventFits
  <2>4. \A k : EventKind(e) = k => Task(p, k)'
    <3>1. \A k : EventKind(e) = k => e \in Raising(p, k)
      BY <2>2 DEF Raising
    <3>2. \A k : e \in Raising(p, k) => ~NoneOf(events', Raising(p, k))
      BY <2>2 DEF NoneOf
    <3>3. \A k : ~NoneOf(events', Raising(p, k)) => Noticing(p, k)'
      BY <1>1, <1>7 DEF Noticing, Raising
    <3> QED
      BY <3>1, <3>2, <3>3 DEF Task
  <2>5. /\ ~Exists(p)' => EventKind(e) = "remove"
        /\ Exists(p)' => EventKind(e) \in {"tree", "node"}
    <3>1. (e.type = "NodeDeleted") <=> ~Exists(p)'
      BY <2>2, <2>3 DEF EventFits
    <3> QED
      BY <3>1 DEF EventKind
  <2>6. EventKind(e) = "node" => Exists(p) /\ ChildNames(p)' = ChildNames(p)
    <3>1. EventKind(e) = "node" => Exists(e.path) /\ ChildNames(e.path)' = ChildNames(e.path)
      BY <2>2
    <3>2. ChildNames(e.path)' = ChildNames(p)'
      BY <2>2
    <3> QED
      BY <2>2, <3>1, <3>2
  <2> QED
    BY <2>4, <2>5, <2>6
<1>8. \A p \in Znode \ D : Exists(p)' <=> Exists(p)
  BY DEF Exists
<1>9. GoneOK'
  <2> SUFFICES ASSUME NEW p \in DOMAIN cache, ~Exists(p)'
               PROVE  cache[p].children = {} /\ Task(p, "remove")'
    BY <1>1 DEF GoneOK
  <2>1. p \in watchedNodes /\ Exists(p) /\ Fresh(p) /\ p \in Znode
    BY RestFacts DEF Exists
  <2>2. p \in D
    BY <1>8, <2>1
  <2>3. cache[p].children = ChildNames(p)
    BY <2>1 DEF Fresh
  <2> QED
    BY <1>7, <2>1, <2>2, <2>3
<1>10. ASSUME NEW p \in Znode, Exists(p)', Touched(p)', ~Task(p, "tree")'
       PROVE  /\ p \in watchedNodes /\ Exists(p) /\ ChildNames(p)' = ChildNames(p)
              /\ p \in D => Task(p, "node")'
  <2>1. p \in watchedNodes
    <3>1. Cached(p)' => p \in watchedNodes
      BY <1>1, RestFacts DEF Cached
    <3>2. Task(p, "node")' => p \in watchedNodes
      BY <1>6 DEF Kind
    <3> QED
      BY <1>1, <1>10, <3>1, <3>2 DEF Touched
  <2> QED
    BY <1>7, <1>8, <1>10, <2>1
<1>11. CoveredOK'
  <2> SUFFICES ASSUME NEW p \in Znode, Exists(p)', Touched(p)', ~Task(p, "tree")'
               PROVE  Cached(p)' /\ ChildrenCovered(p)'
    BY DEF CoveredOK
  <2>1. p \in watchedNodes /\ Exists(p) /\ ChildNames(p)' = ChildNames(p)
    BY <1>10
  <2>2. Cached(p) /\ \A c \in ChildNames(p) : Cached(Append(p, c))
    BY <2>1, RestFacts
  <2>3. \A q : Cached(q)' <=> Cached(q)
    BY <1>1 DEF Cached
  <2> QED
    BY <2>1, <2>2, <2>3 DEF ChildrenCovered
<1>12. FreshOK'
  <2> SUFFICES ASSUME NEW p \in Znode, Exists(p)', Touched(p)', ~Task(p, "tree")', ~Task(p, "node")'
               PROVE  Fresh(p)'
    BY DEF FreshOK
  <2>1. p \in watchedNodes /\ Exists(p) /\ ChildNames(p)' = ChildNames(p) /\ p \notin D
    BY <1>10
  <2>2. Fresh(p)
    BY <2>1, RestFacts
  <2> QED
    BY <1>1, <2>1, <2>2 DEF Fresh
<1> QED
  BY <1>4, <1>5, <1>9, <1>11, <1>12 DEF MirrorInv

(* What one write changes: a node, and the children of its parent. *)
LEMMA OneWrite ==
  ASSUME Steady, AtRest, NEW p \in Znode, NEW op, NEW v \in Nat, Write(op, p, v)
  PROVE  /\ \A x \in Znode \ {p} : zk'[x] = zk[x]
         /\ \A x : x # p => (Exists(x)' <=> Exists(x))
         /\ Exists(p)' <=> v # 0
         /\ \A x \in Znode : x # ParentPath(p) => ChildNames(x)' = ChildNames(x)
         /\ (Exists(p)' <=> Exists(p)) => \A x : ChildNames(x)' = ChildNames(x)
         /\ \A x \in Znode : ~Exists(x) => ChildNames(x) = {}
         /\ watchedNodes \subseteq Znode
<1>1. zk \in [Znode -> Nat] /\ zk' = [zk EXCEPT ![p] = v]
  BY SteadyFacts DEF Write
<1>2. /\ \A x \in Znode \ {p} : zk'[x] = zk[x]
      /\ zk'[p] = v
  BY <1>1
<1>3. /\ \A x : x # p => (Exists(x)' <=> Exists(x))
      /\ Exists(p)' <=> v # 0
  BY <1>2 DEF Exists
<1>4. Znode \subseteq Seq(Name)
  BY ZnodeAssumption
<1>5. ASSUME NEW x \in Znode, x # ParentPath(p)
      PROVE  ChildNames(x)' = ChildNames(x)
  <2>1. \A n \in Name : Append(x, n) # p
    BY <1>4, <1>5, ParentAndChild
  <2> QED
    BY <1>3, <2>1 DEF ChildNames
<1>6. ASSUME Exists(p)' <=> Exists(p), NEW x
      PROVE  ChildNames(x)' = ChildNames(x)
  BY <1>3, <1>6 DEF ChildNames
<1>7. ASSUME NEW x \in Znode, ~Exists(x), NEW n \in ChildNames(x)
      PROVE  FALSE
  <2>1. n \in Name /\ Exists(Append(x, n)) /\ Append(x, n) \in Znode
    BY <1>7 DEF ChildNames, Exists
  <2>2. ParentPath(Append(x, n)) = x
    BY <1>4, <2>1, ParentAndChild
  <2>3. ParentExists(Append(x, n))
    BY <2>1 DEF Steady, MirrorInv, FactsOK, TreeOK
  <2> QED
    BY <1>7, <2>2, <2>3 DEF ParentExists
<1>8. watchedNodes \subseteq Znode
  <2>1. dataWatch \subseteq Znode
    BY SteadyFacts DEF TypeInv, TypeOK, ZkTypeOK
  <2> QED
    BY <2>1, RestFacts DEF HasWatches
<1> QED
  BY <1>2, <1>3, <1>5, <1>6, <1>7, <1>8

(* The events of two different paths: one of each that is watched. *)
AtMostTwo(es, V, p, t, W, q, u) ==
  /\ es \in Seq(Event)
  /\ \A i \in DOMAIN es : \/ es[i] = [type |-> t, path |-> p] /\ p \in V
                          \/ es[i] = [type |-> u, path |-> q] /\ q \in W
  /\ \A i, j \in DOMAIN es : es[i].path = es[j].path => i = j
  /\ p \in V => \E i \in DOMAIN es : es[i].path = p
  /\ q \in W => \E i \in DOMAIN es : es[i].path = q

LEMMA FiredFacts ==
  ASSUME NEW V, NEW W \in SUBSET Znode, NEW p \in Znode, NEW q, p # q,
         NEW t \in EventType, NEW u \in EventType
  PROVE  AtMostTwo(Fired(V, p, t) \o Fired(W, q, u), V, p, t, W, q, u)
<1> PICK es : es = Fired(V, p, t) \o Fired(W, q, u)
  OBVIOUS
<1> SUFFICES AtMostTwo(es, V, p, t, W, q, u)
  OBVIOUS
<1> DEFINE e == [type |-> t, path |-> p]
           f == [type |-> u, path |-> q]
<1>1. e \in Event /\ e.path = p /\ f.path = q /\ (q \in W => f \in Event)
  BY DEF Event
<1>2. /\ p \in V => Fired(V, p, t) = <<e>>
      /\ p \notin V => Fired(V, p, t) = << >>
      /\ q \in W => Fired(W, q, u) = <<f>>
      /\ q \notin W => Fired(W, q, u) = << >>
  BY DEF Fired
<1> HIDE DEF e, f
<1>3. CASE p \in V /\ q \in W
  <2>1. es = <<e>> \o <<f>>
    BY <1>2, <1>3
  <2>2. <<e>> \in Seq(Event) /\ <<f>> \in Seq(Event)
    BY <1>1, <1>3
  <2>3. es \in Seq(Event) /\ DOMAIN es = {1, 2} /\ es[1] = e /\ es[2] = f
    <3>1. es \in Seq(Event) /\ Len(es) = 2
      BY <2>1, <2>2, ConcatProperties
    <3>2. es[1] = e /\ es[2] = f
      BY <2>1, <2>2
    <3> QED
      BY <3>1, <3>2
  <2> QED
    BY <1>1, <1>3, <2>3 DEF e, f, AtMostTwo
<1>4. CASE p \in V /\ q \notin W
  <2>1. es = <<e>> \o << >>
    BY <1>2, <1>4
  <2>2. es = <<e>> /\ DOMAIN es = {1} /\ es[1] = e /\ es \in Seq(Event)
    BY <1>1, <2>1
  <2> QED
    BY <1>1, <1>4, <2>2 DEF e, AtMostTwo
<1>5. CASE p \notin V /\ q \in W
  <2>1. es = << >> \o <<f>>
    BY <1>2, <1>5
  <2>2. es = <<f>> /\ DOMAIN es = {1} /\ es[1] = f /\ es \in Seq(Event)
    BY <1>1, <1>5, <2>1
  <2> QED
    BY <1>1, <1>5, <2>2 DEF f, AtMostTwo
<1>6. CASE p \notin V /\ q \notin W
  <2>1. es = << >> \o << >>
    BY <1>2, <1>6
  <2>2. es = << >> /\ DOMAIN es = {}
    BY <2>1
  <2> QED
    BY <1>6, <2>2 DEF AtMostTwo
<1> QED
  BY <1>3, <1>4, <1>5, <1>6

(* What the writes of the three kinds have in common. *)
LEMMA NoticeFacts ==
  ASSUME Steady, AtRest, NEW es \in Seq(Event), NEW ds, NEW cs, NEW rs, Notice(es, ds, cs, rs)
  PROVE  events' = es /\ dataWatch' = dataWatch \ ds /\ childWatch' = childWatch \ cs /\ missed' = missed
BY SteadyFacts, RestFacts DEF Notice, Connected

LEMMA CreateMirrors ==
  ASSUME Steady, AtRest, UNCHANGED <<actorVars, callVars>>, NEW p \in Znode, CreateNode(p)
  PROVE  MirrorInv'
<1> DEFINE q  == ParentPath(p)
           D  == {p, q}
           fs == Fired(dataWatch, p, "NodeCreated") \o Fired(childWatch, q, "NodeChildrenChanged")
<1>1. /\ TreeOK /\ ~Exists(p) /\ ParentExists(p)
      /\ p \in Seq(Name) /\ zxid + 1 \in Nat /\ zxid + 1 # 0 /\ Write("create", p, zxid + 1)
      /\ dataWatch \in SUBSET Znode /\ childWatch \in SUBSET Znode
  BY SteadyFacts, ZnodeAssumption DEF CreateNode, Steady, MirrorInv, FactsOK, TypeInv, TypeOK, ZkTypeOK
<1>2. p # Root /\ p # q
  BY <1>1, ParentAndChild DEF TreeOK
<1>3. PICK es \in Seq(Event) :
      /\ es = fs
      /\ \A i \in DOMAIN es : \/ es[i] = [type |-> "NodeCreated", path |-> p] /\ p \in dataWatch
                              \/ es[i] = [type |-> "NodeChildrenChanged", path |-> q] /\ q \in childWatch
      /\ \A i, j \in DOMAIN es : es[i].path = es[j].path => i = j
      /\ p \in dataWatch => \E i \in DOMAIN es : es[i].path = p
      /\ q \in childWatch => \E i \in DOMAIN es : es[i].path = q
  <2>1. "NodeCreated" \in EventType /\ "NodeChildrenChanged" \in EventType
    BY DEF EventType
  <2>2. PICK vs : vs = dataWatch
    OBVIOUS
  <2>3. PICK ws : ws = childWatch
    OBVIOUS
  <2>4. PICK es : es = fs
    OBVIOUS
  <2>5. es = Fired(vs, p, "NodeCreated") \o Fired(ws, q, "NodeChildrenChanged")
    BY <2>2, <2>3, <2>4
  <2>6. vs \in SUBSET Znode /\ ws \in SUBSET Znode
    BY <1>1, <2>2, <2>3
  <2> HIDE DEF fs, q
  <2>7. AtMostTwo(es, vs, p, "NodeCreated", ws, q, "NodeChildrenChanged")
    BY <1>2, <2>1, <2>5, <2>6, FiredFacts
  <2> QED
    BY <2>2, <2>3, <2>4, <2>7 DEF AtMostTwo
<1>4. events' = es /\ dataWatch' = dataWatch \ {p} /\ childWatch' = childWatch \ {q} /\ missed' = missed
  BY <1>3, NoticeFacts DEF CreateNode
<1> HIDE DEF fs
<1>5. /\ \A x \in Znode \ {p} : zk'[x] = zk[x]
      /\ \A x : x # p => (Exists(x)' <=> Exists(x))
      /\ Exists(p)'
      /\ \A x \in Znode : x # q => ChildNames(x)' = ChildNames(x)
      /\ \A x \in Znode : ~Exists(x) => ChildNames(x) = {}
      /\ watchedNodes \subseteq Znode
  BY <1>1, OneWrite
<1>6. /\ watcher' = NoEvent /\ NoEvent.stage = "idle"
      /\ \A x \in watchedNodes : HasWatches(x)
  BY RestFacts DEF actorVars, NoEvent
<1>7. TreeOK'
  <2>1. ASSUME NEW x \in Znode, Exists(x)' PROVE ParentExists(x)'
    <3>1. ParentExists(x)
      BY <1>1, <1>5, <2>1 DEF TreeOK
    <3> QED
      BY <1>5, <3>1 DEF ParentExists
  <2> QED
    BY <1>1, <1>5, <2>1 DEF TreeOK
<1>8. \A i \in DOMAIN es : Exists(es[i].path)' /\ es[i].type \in {"NodeCreated", "NodeChildrenChanged"}
  <2>1. q \in childWatch => Exists(q)'
    <3>1. q \in childWatch => Exists(q)
      BY <1>1 DEF ParentExists
    <3> QED
      BY <1>2, <1>5, <3>1
  <2> TAKE i \in DOMAIN es
  <2>2. \/ es[i].type = "NodeCreated" /\ es[i].path = p
        \/ es[i].type = "NodeChildrenChanged" /\ es[i].path = q /\ q \in childWatch
    BY <1>3
  <2> QED
    BY <1>5, <2>1, <2>2
<1>9. (\A i \in DOMAIN events : EventFits(events[i]))'
  BY <1>4, <1>8 DEF EventFits
<1>10. \A e \in Event : (\E i \in DOMAIN events' : events'[i] = e) => EventKind(e) # "node"
  BY <1>4, <1>8 DEF EventKind
<1>11. Distinct'
  BY <1>3, <1>4, <1>6 DEF Distinct
<1>12. \A x \in watchedNodes \ D : HasWatches(x)'
  BY <1>4, <1>5, <1>6 DEF HasWatches
<1>13. \A x \in watchedNodes \cap D : ~NoEventOf(x)'
  <2>1. p \in watchedNodes => p \in dataWatch
    BY <1>6 DEF HasWatches
  <2>2. q \in watchedNodes => q \in childWatch
    <3>1. q \in watchedNodes => Exists(q)
      BY <1>1, <1>5 DEF ParentExists
    <3> QED
      BY <1>6, <3>1 DEF HasWatches
  <2> QED
    BY <1>3, <1>4, <2>1, <2>2 DEF NoEventOf
<1>14. \A x \in watchedNodes : ~Exists(x)' => ChildNames(x) = {}
  BY <1>5
<1>15. \A x \in Znode \ D : zk'[x] = zk[x] /\ ChildNames(x)' = ChildNames(x)
  BY <1>5
<1> HIDE DEF D
<1> QED
  BY <1>3, <1>4, <1>7, <1>9, <1>10, <1>11, <1>12, <1>13, <1>14, <1>15, WriteMirrors

LEMMA DeleteMirrors ==
  ASSUME Steady, AtRest, UNCHANGED <<actorVars, callVars>>, NEW p \in Znode, DeleteNode(p)
  PROVE  MirrorInv'
<1> DEFINE q  == ParentPath(p)
           D  == {p, q}
           V  == dataWatch \cup childWatch
           fs == Fired(V, p, "NodeDeleted") \o Fired(childWatch, q, "NodeChildrenChanged")
<1>1. /\ TreeOK /\ Exists(p) /\ ParentExists(p) /\ p # Root /\ ChildNames(p) = {}
      /\ p \in Seq(Name) /\ Write("delete", p, 0)
      /\ dataWatch \in SUBSET Znode /\ childWatch \in SUBSET Znode
  BY SteadyFacts, ZnodeAssumption DEF DeleteNode, Steady, MirrorInv, FactsOK, TypeInv, TypeOK, ZkTypeOK, TreeOK
<1>2. p # q
  BY <1>1, ParentAndChild
<1>3. PICK es \in Seq(Event) :
      /\ es = fs
      /\ \A i \in DOMAIN es : \/ es[i] = [type |-> "NodeDeleted", path |-> p] /\ p \in V
                              \/ es[i] = [type |-> "NodeChildrenChanged", path |-> q] /\ q \in childWatch
      /\ \A i, j \in DOMAIN es : es[i].path = es[j].path => i = j
      /\ p \in V => \E i \in DOMAIN es : es[i].path = p
      /\ q \in childWatch => \E i \in DOMAIN es : es[i].path = q
  <2>1. "NodeDeleted" \in EventType /\ "NodeChildrenChanged" \in EventType
    BY DEF EventType
  <2>2. PICK vs : vs = V
    OBVIOUS
  <2>3. PICK ws : ws = childWatch
    OBVIOUS
  <2>4. PICK es : es = fs
    OBVIOUS
  <2>5. es = Fired(vs, p, "NodeDeleted") \o Fired(ws, q, "NodeChildrenChanged")
    BY <2>2, <2>3, <2>4
  <2>6. vs \in SUBSET Znode /\ ws \in SUBSET Znode
    BY <1>1, <2>2, <2>3
  <2> HIDE DEF fs, q, V
  <2>7. AtMostTwo(es, vs, p, "NodeDeleted", ws, q, "NodeChildrenChanged")
    BY <1>2, <2>1, <2>5, <2>6, FiredFacts
  <2> QED
    BY <2>2, <2>3, <2>4, <2>7 DEF AtMostTwo
<1>4. events' = es /\ dataWatch' = dataWatch \ {p} /\ childWatch' = childWatch \ {p, q} /\ missed' = missed
  BY <1>3, NoticeFacts DEF DeleteNode
<1> HIDE DEF fs
<1>5. /\ \A x \in Znode \ {p} : zk'[x] = zk[x]
      /\ \A x : x # p => (Exists(x)' <=> Exists(x))
      /\ ~Exists(p)'
      /\ \A x \in Znode : x # q => ChildNames(x)' = ChildNames(x)
      /\ \A x \in Znode : ~Exists(x) => ChildNames(x) = {}
      /\ watchedNodes \subseteq Znode
  <2>1. 0 \in Nat
    OBVIOUS
  <2> QED
    BY <1>1, <2>1, OneWrite
<1>6. /\ watcher' = NoEvent /\ NoEvent.stage = "idle"
      /\ \A x \in watchedNodes : HasWatches(x)
  BY RestFacts DEF actorVars, NoEvent
<1>7. TreeOK'
  <2>1. ASSUME NEW x \in Znode, Exists(x)' PROVE ParentExists(x)'
    <3>1. ParentExists(x) /\ Exists(x) /\ x \in Seq(Name)
      BY <1>1, <1>5, <2>1, ZnodeAssumption DEF TreeOK
    <3>2. x = Root => ParentPath(x) = Root
      BY DEF ParentPath, Root, SeqExt!Front
    <3>3. CASE x = Root
      BY <1>1, <1>5, <2>1, <3>2, <3>3 DEF ParentExists
    <3>4. CASE x # Root
      <4>1. PICK n \in Name : x = Append(ParentPath(x), n)
        BY <3>1, <3>4, ParentAndChild
      <4>2. ParentPath(x) # p
        BY <1>1, <3>1, <4>1 DEF ChildNames
      <4> QED
        BY <1>5, <3>1, <4>2 DEF ParentExists
    <3> QED
      BY <3>3, <3>4
  <2> QED
    BY <1>1, <1>5, <2>1 DEF TreeOK
<1>8. \A i \in DOMAIN es : \/ ~Exists(es[i].path)' /\ es[i].type = "NodeDeleted"
                           \/ Exists(es[i].path)' /\ es[i].type = "NodeChildrenChanged"
  <2>1. q \in childWatch => Exists(q)'
    <3>1. q \in childWatch => Exists(q)
      BY <1>1 DEF ParentExists
    <3> QED
      BY <1>2, <1>5, <3>1
  <2> TAKE i \in DOMAIN es
  <2>2. \/ es[i].type = "NodeDeleted" /\ es[i].path = p
        \/ es[i].type = "NodeChildrenChanged" /\ es[i].path = q /\ q \in childWatch
    BY <1>3
  <2> QED
    BY <1>5, <2>1, <2>2
<1>9. (\A i \in DOMAIN events : EventFits(events[i]))'
  BY <1>4, <1>8 DEF EventFits
<1>10. \A e \in Event : (\E i \in DOMAIN events' : events'[i] = e) => EventKind(e) # "node"
  BY <1>4, <1>8 DEF EventKind
<1>11. Distinct'
  BY <1>3, <1>4, <1>6 DEF Distinct
<1>12. \A x \in watchedNodes \ D : HasWatches(x)'
  BY <1>4, <1>5, <1>6 DEF HasWatches
<1>13. \A x \in watchedNodes \cap D : ~NoEventOf(x)'
  <2>1. p \in watchedNodes => p \in V
    BY <1>6 DEF HasWatches
  <2>2. q \in watchedNodes => q \in childWatch
    <3>1. q \in watchedNodes => Exists(q)
      BY <1>1, <1>5 DEF ParentExists
    <3> QED
      BY <1>6, <3>1 DEF HasWatches
  <2> QED
    BY <1>3, <1>4, <2>1, <2>2 DEF NoEventOf
<1>14. \A x \in watchedNodes : ~Exists(x)' => ChildNames(x) = {}
  BY <1>1, <1>5
<1>15. \A x \in Znode \ D : zk'[x] = zk[x] /\ ChildNames(x)' = ChildNames(x)
  BY <1>5
<1> HIDE DEF D
<1> QED
  BY <1>3, <1>4, <1>7, <1>9, <1>10, <1>11, <1>12, <1>13, <1>14, <1>15, WriteMirrors

LEMMA SetDataMirrors ==
  ASSUME Steady, AtRest, UNCHANGED <<actorVars, callVars>>, NEW p \in Znode, SetNodeData(p)
  PROVE  MirrorInv'
<1> DEFINE D  == {p}
           es == Fired(dataWatch, p, "NodeDataChanged")
<1>1. /\ TreeOK /\ Exists(p)
      /\ zxid + 1 \in Nat /\ zxid + 1 # 0 /\ Write("setData", p, zxid + 1)
  BY SteadyFacts DEF SetNodeData, Steady, MirrorInv, FactsOK, TypeInv, TypeOK, ZkTypeOK
<1>2. /\ es \in Seq(Event)
      /\ \A i \in DOMAIN es : i = 1 /\ es[i] = [type |-> "NodeDataChanged", path |-> p]
      /\ p \in dataWatch => \E i \in DOMAIN es : es[i].path = p
  <2>1. [type |-> "NodeDataChanged", path |-> p] \in Event
    BY DEF Event, EventType
  <2>2. CASE p \in dataWatch
    <3>1. es = <<[type |-> "NodeDataChanged", path |-> p]>>
      BY <2>2 DEF Fired
    <3>2. es \in Seq(Event)
      BY <2>1, <3>1, SeqOfOne
    <3> HIDE DEF es
    <3> QED
      BY <3>1, <3>2
  <2>3. CASE p \notin dataWatch
    BY <2>3 DEF Fired
  <2> QED
    BY <2>2, <2>3
<1>3. events' = es /\ dataWatch' = dataWatch \ {p} /\ childWatch' = childWatch \ {} /\ missed' = missed
  BY <1>2, NoticeFacts DEF SetNodeData
<1> HIDE DEF es
<1>4. /\ \A x \in Znode \ {p} : zk'[x] = zk[x]
      /\ \A x : Exists(x)' <=> Exists(x)
      /\ \A x : ChildNames(x)' = ChildNames(x)
      /\ \A x \in Znode : ~Exists(x) => ChildNames(x) = {}
      /\ watchedNodes \subseteq Znode
  <2>1. /\ \A x : x # p => (Exists(x)' <=> Exists(x))
        /\ Exists(p)'
    BY <1>1, OneWrite
  <2> QED
    BY <1>1, <2>1, OneWrite
<1>5. /\ watcher' = NoEvent /\ NoEvent.stage = "idle"
      /\ \A x \in watchedNodes : HasWatches(x)
  BY RestFacts DEF actorVars, NoEvent
<1>6. TreeOK'
  BY <1>1, <1>4 DEF TreeOK, ParentExists
<1>7. (\A i \in DOMAIN events : EventFits(events[i]))'
  BY <1>1, <1>2, <1>3, <1>4 DEF EventFits
<1>8. \A e \in Event : (\E i \in DOMAIN events' : events'[i] = e) =>
        Exists(e.path) /\ ChildNames(e.path)' = ChildNames(e.path)
  BY <1>1, <1>2, <1>3, <1>4
<1>9. Distinct'
  BY <1>2, <1>3, <1>5 DEF Distinct
<1>10. \A x \in watchedNodes \ D : HasWatches(x)'
  BY <1>3, <1>4, <1>5 DEF HasWatches
<1>11. \A x \in watchedNodes \cap D : ~NoEventOf(x)'
  BY <1>2, <1>3, <1>5 DEF NoEventOf, HasWatches
<1>12. \A x \in watchedNodes : ~Exists(x)' => ChildNames(x) = {}
  BY <1>4
<1>13. \A x \in Znode \ D : zk'[x] = zk[x] /\ ChildNames(x)' = ChildNames(x)
  BY <1>4
<1> HIDE DEF D
<1> QED
  BY <1>2, <1>3, <1>6, <1>7, <1>8, <1>9, <1>10, <1>11, <1>12, <1>13, WriteMirrors

LEMMA WriterMirrors == Steady /\ WriterStep => MirrorInv'
BY CreateMirrors, DeleteMirrors, SetDataMirrors DEF WriterStep, Steady, Calm

-----------------------------------------------------------------------------
(* The invariant holds as long as nothing disturbs it *)

(* What disturbs is never undone. *)
LEMMA UndisturbedBefore ==
  ASSUME TypeInv, [Next]_vars, Undisturbed'
  PROVE  Undisturbed
<1>1. drops \in Nat /\ alive \in BOOLEAN
  BY DEF TypeInv, TypeOK, ZkTypeOK, ActorTypeOK
<1>2. alive
  BY EndIsFinal DEF Undisturbed
<1>3. faults = 0
  BY FaultsStay DEF Undisturbed
<1>4. drops = 0
  <2>1. drops' = drops \/ drops' = drops + 1
    BY DEF Next, vars, zkVars, ActorStep, WatcherStep, ApiStep, WriterStep, SessionStep,
       LoseConnection, FindConnection, Disconnect, Reconnect, CreateNode, DeleteNode, SetNodeData, Write,
       HandleWatchUnderPath, HandleRemovePath, HandleShutdown, HandleUpdate, FinishUpdate,
       HandleAdd, ListChildren, StoreEntry, FailAdd, HandleRemove, Evict, HandleSetWatcher,
       HandleUnwatch, WatchExists, WatchChildren, WatchData, RecordWatch, WatchMissing,
       Read, ExistsWithWatch, GetChildrenWithWatch, GetDataWithWatch, RoundTrip,
       ProcessEvent, SendUnwatch, SendFollowUp,
       CheckAdd, CheckRemove, SendAdd, SendRemove, CallStop, StopCompletes, StopTimesOut
  <2> QED
    BY <1>1, <2>1 DEF Undisturbed
<1>5. ApiStep \/ request' = request
  BY OnlyCallersCall DEF vars, callVars
<1>6. \A r \in Request : ~IsOp(r, "removePathFromCache")
  BY <1>5, CallsAreKept DEF Undisturbed, IsOp
<1>7. RequestedRoots \subseteq RequestedRoots'
  <2>1. CASE Next
    BY <2>1, RequestedMonotonic
  <2>2. CASE UNCHANGED vars
    BY <2>2 DEF vars, callVars, RequestedRoots
  <2> QED
    BY <2>1, <2>2
<1> QED
  BY <1>2, <1>3, <1>4, <1>6, <1>7 DEF Undisturbed

LEMMA NothingMirrors ==
  ASSUME Steady, UNCHANGED vars
  PROVE  MirrorInv'
<1>1. /\ UNCHANGED <<mailbox, handler, watchedNodes, cache, watcher, request>>
      /\ UNCHANGED <<zk, events, missed, dataWatch, childWatch>>
  BY DEF vars, actorVars, callVars, zkVars
<1>2. \A p : \A k : Waiting(p, k)' <=> Waiting(p, k)
  BY <1>1 DEF Waiting, Doing
<1>3. \A p : /\ Waiting(p, "tree") <=> Waiting(p, "tree")'
             /\ Waiting(p, "node") <=> Waiting(p, "node")'
             /\ Waiting(p, "remove") <=> Waiting(p, "remove")'
             /\ Waiting(p, "unwatch") <=> Waiting(p, "unwatch")'
  BY <1>2
<1>4. /\ mailbox' \in Seq(Sound) /\ handler'.msg \in Sound
      /\ StageFits(handler.stage, handler.msg, handler.listed)'
  BY <1>1, SteadyFacts DEF StageFits, Exists, HasWatches, ChildNames
<1>5. /\ \A p : Cached(p)' <=> Cached(p)
      /\ watchedNodes' \ watchedNodes = {} /\ watchedNodes \ watchedNodes' = {}
  BY <1>1 DEF Cached
<1>6. \A r \in Request : IsOp(r, "addPathToCache")' => request'[r].path \in Znode
  BY <1>1 DEF Steady, MirrorInv, FactsOK, IsOp
<1> QED
  BY <1>1, <1>3, <1>4, <1>5, <1>6, UpdaterKeeps DEF Cached

LEMMA CoherentInvInit == Calm /\ Init => CoherentInv
<1> SUFFICES ASSUME Calm, Init PROVE CoherentInv
  OBVIOUS
<1>1. QuietInv
  BY QuietInvInit
<1>2. /\ mailbox = << >> /\ handler = Idle /\ events = << >> /\ watcher = NoEvent /\ missed = Nothing
      /\ watchedNodes = {} /\ DOMAIN cache = {}
      /\ request = [r \in Request |-> NotMade]
  BY DEF Init, ActorInit, ZkInit, CallsInit
<1>3. watcher.stage = "idle" /\ \A p : \A k : watcher.event \notin Raising(p, k)
  BY <1>2 DEF NoEvent, Raising, Event, EventType
<1>4. \A p : ~Touched(p)
  BY <1>2, <1>3, IdleHasNoTask DEF Touched, Task, Waiting, Noticing, Has, NoneOf, Cached, Kind
<1>5. /\ mailbox \in Seq(Sound) /\ handler.msg \in Sound
      /\ StageFits(handler.stage, handler.msg, handler.listed)
  BY <1>2, IdleHasNoTask, IdleFits
<1>6. TreeOK
  BY DEF Init, ZkInit, TreeOK
<1>7. FactsOK
  BY <1>2, <1>3, <1>5, <1>6 DEF FactsOK, IsOp
<1>8. Distinct /\ WatchOK /\ GoneOK
  BY <1>2, <1>3 DEF Distinct, WatchOK, GoneOK
<1>9. CoveredOK /\ FreshOK
  BY <1>4 DEF CoveredOK, FreshOK
<1> QED
  BY <1>1, <1>7, <1>8, <1>9 DEF CoherentInv, MirrorInv

LEMMA CoherentInvStep == CoherentInv /\ [Next]_vars => CoherentInv'
<1> SUFFICES ASSUME CoherentInv, [Next]_vars PROVE CoherentInv'
  OBVIOUS
<1>1. QuietInv' /\ Calm'
  BY QuietInvStep DEF CoherentInv, Calm
<1>2. ASSUME Undisturbed' PROVE MirrorInv'
  <2>1. Undisturbed
    BY <1>2, UndisturbedBefore DEF CoherentInv, QuietInv, ContractInv, DataInv
  <2>2. Steady
    BY <2>1 DEF CoherentInv, Steady
  <2>3. CASE SessionStep
    <3>1. missed = Nothing /\ drops \in Nat
      BY <2>2, SteadyFacts DEF TypeInv, TypeOK, ZkTypeOK
    <3>2. drops' = drops + 1
      BY <2>3, <3>1 DEF SessionStep, LoseConnection, FindConnection, Disconnect, Reconnect, Connected
    <3> QED
      BY <1>2, <3>1, <3>2 DEF Undisturbed
  <2> QED
    BY <1>2, <2>2, <2>3, ActorMirrors, WatcherMirrors, ApiMirrors, WriterMirrors, NothingMirrors DEF Next
<1> QED
  BY <1>1, <1>2 DEF CoherentInv

-----------------------------------------------------------------------------
(* What it says at rest *)

(* The parent of a node under an added path is under it, too. *)
LEMMA UnderParent ==
  ASSUME NEW root \in Seq(Name), NEW p \in Seq(Name), IsUnder(root, p), p # root
  PROVE  /\ p # Root /\ IsUnder(root, ParentPath(p))
         /\ Len(ParentPath(p)) \in Nat /\ Len(p) \in Nat /\ Len(ParentPath(p)) < Len(p)
         /\ Len(p) <= 1 => root = Root
<1>1. /\ Len(root) \in Nat /\ Len(p) \in Nat /\ Len(root) <= Len(p)
      /\ \A i \in 1 .. Len(root) : root[i] = p[i]
  <2>1. Len(root) <= Len(p) /\ SubSeq(root, 1, Len(root)) = SubSeq(p, 1, Len(root))
    BY DEF IsUnder, SeqExt!IsPrefix
  <2>2. \A i \in 1 .. Len(root) : SubSeq(root, 1, Len(root))[i] = root[i]
    OBVIOUS
  <2>3. \A i \in 1 .. Len(root) : SubSeq(p, 1, Len(root))[i] = p[i]
    BY <2>1
  <2> QED
    BY <2>1, <2>2, <2>3
<1>2. Len(root) < Len(p)
  <2>1. Len(root) = Len(p) => root = p
    BY <1>1
  <2> QED
    BY <1>1, <2>1
<1>3. p # Root
  BY <1>1, <1>2 DEF Root
<1>4. /\ ParentPath(p) \in Seq(Name) /\ Len(ParentPath(p)) = Len(p) - 1
      /\ \A i \in 1 .. Len(p) - 1 : ParentPath(p)[i] = p[i]
  <2>1. PICK n \in Name : ParentPath(p) \in Seq(Name) /\ p = Append(ParentPath(p), n)
    BY <1>3, ParentAndChild
  <2> DEFINE q == ParentPath(p)
  <2> HIDE DEF q
  <2>2. q \in Seq(Name) /\ p = Append(q, n)
    BY <2>1 DEF q
  <2>3. Len(q) = Len(p) - 1 /\ \A i \in 1 .. Len(p) - 1 : q[i] = p[i]
    BY <2>2
  <2> QED
    BY <2>1, <2>3 DEF q
<1>5. SubSeq(root, 1, Len(root)) = SubSeq(ParentPath(p), 1, Len(root))
  <2>1. Len(root) <= Len(ParentPath(p)) /\ \A i \in 1 .. Len(root) : root[i] = ParentPath(p)[i]
    BY <1>1, <1>2, <1>4
  <2> QED
    BY <1>1, <1>4, <2>1
<1>6. IsUnder(root, ParentPath(p))
  BY <1>1, <1>2, <1>4, <1>5 DEF IsUnder, SeqExt!IsPrefix
<1>7. Len(p) <= 1 => root = Root
  BY <1>1, <1>2 DEF Root
<1> QED
  BY <1>1, <1>2, <1>3, <1>4, <1>6, <1>7

LEMMA RestMirrors ==
  ASSUME Steady, AtRest, NEW root \in addedPaths
  PROVE  MirrorsUnder(root)
<1>1. /\ root \in watchedNodes /\ \E r \in RequestedRoots : IsUnder(r, root)
  BY SteadyFacts, RestIsWatched
     DEF Steady, KeptMeansWatched, Quiet, Connected, SubtreeInv, OnlyRequestedSubtrees, UnderRequested
<1>2. \A p \in Znode : Exists(p) => ParentExists(p)
  BY DEF Steady, MirrorInv, FactsOK, TreeOK
<1>3. root \in Znode
  <2>1. dataWatch \subseteq Znode
    BY SteadyFacts DEF TypeInv, TypeOK, ZkTypeOK
  <2> QED
    BY <1>1, <2>1, RestFacts DEF HasWatches
<1>4. Znode \subseteq Seq(Name) /\ Root \notin RequestedRoots
  BY ZnodeAssumption DEF Steady, Undisturbed
<1>5. root # Root
  <2>1. PICK r \in RequestedRoots : IsUnder(r, root)
    BY <1>1
  <2>2. r \in Seq(Name)
    <3>1. request \in [Request -> Call \cup {NotMade}]
      BY SteadyFacts DEF TypeInv, TypeOK, CallsTypeOK
    <3> QED
      BY <2>1, <3>1 DEF RequestedRoots, Call
  <2>3. root = Root => r = Root
    BY <2>1, <2>2 DEF IsUnder, SeqExt!IsPrefix, Root
  <2> QED
    BY <1>4, <2>1, <2>3
<1>6. \A p \in DOMAIN cache : Exists(p) /\ Fresh(p)
  BY RestFacts
<1> DEFINE Left == {p \in Znode : IsUnder(root, p) /\ Exists(p) /\ ~Cached(p)}
           Lens == {Len(p) : p \in Left}
(* A shortest node that is missing in the cache has a parent in the cache. *)
<1>7. Left = {}
  <2> SUFFICES ASSUME Left # {} PROVE FALSE
    OBVIOUS
  <2>1. Lens \subseteq Nat /\ Lens # {}
    <3>1. \A p \in Left : p \in Seq(Name)
      BY <1>4
    <3>2. \A p \in Left : Len(p) \in Nat
      BY <3>1
    <3> HIDE DEF Left
    <3> QED
      BY <3>2
  <2>2. PICK n \in Lens : \A m \in Lens : ~(<<m, n>> \in OpToRel(<, Nat))
    <3> HIDE DEF Lens
    <3> QED
      BY <2>1, WFMin, NatLessThanWellFounded
  <2>3. \A m \in Lens : ~(m < n)
    BY <2>1, <2>2 DEF OpToRel
  <2>4. PICK p \in Left : n = Len(p)
    BY <2>2
  <2>5. p \in Znode /\ IsUnder(root, p) /\ Exists(p) /\ ~Cached(p) /\ p \in Seq(Name)
    BY <1>4, <2>4
  <2>6. p # root
    BY <1>1, <2>5, RestFacts
  <2>7. /\ p # Root /\ IsUnder(root, ParentPath(p)) /\ Len(ParentPath(p)) < Len(p)
        /\ Len(p) > 1
    BY <1>3, <1>4, <1>5, <2>5, <2>6, UnderParent
  <2>8. ParentPath(p) \in Znode
    BY <2>5, <2>7 DEF Steady, Calm
  <2>9. Exists(ParentPath(p))
    BY <1>2, <2>5, <2>8 DEF ParentExists
  <2>10. Cached(ParentPath(p))
    <3>1. Len(ParentPath(p)) \notin Lens
      BY <2>3, <2>4, <2>7
    <3> QED
      BY <2>7, <2>8, <2>9, <3>1
  <2>11. PICK c \in Name : p = Append(ParentPath(p), c)
    BY <2>5, <2>7, ParentAndChild
  <2>12. c \in ChildNames(ParentPath(p)) /\ ParentPath(p) \in watchedNodes
    BY <2>5, <2>10, <2>11, RestFacts DEF ChildNames, Cached
  <2> QED
    BY <2>5, <2>9, <2>11, <2>12, RestFacts
<1> QED
  BY <1>6, <1>7 DEF MirrorsUnder, Cached, Fresh

(***************************************************************************)
(* At rest the cache has, for every path that callers have added, the      *)
(* nodes of its subtree with their present data and children, and no       *)
(* others, if other clients write only when the cache is at rest, no call  *)
(* of ZooKeeper has failed, and no connection was lost: what the handlers  *)
(* of Update, Add, SetWatcher, Remove and Unwatch, and the watcher between *)
(* them, make of the events (CacheUpdaterActor, ZooKeeperWatcher).         *)
(***************************************************************************)
THEOREM CoherentAtRest == Calm /\ Spec => [](Undisturbed => QuietMeansCoherent)
<1>1. Calm /\ Spec => []CoherentInv
  BY CoherentInvInit, CoherentInvStep, PTL DEF Spec
<1>2. CoherentInv => (Undisturbed => QuietMeansCoherent)
  BY RestMirrors DEF CoherentInv, Steady, QuietMeansCoherent, Quiet
<1> QED
  BY <1>1, <1>2, PTL

(***************************************************************************)
(* Under the same conditions ZooKeeper has, at rest, both watches of every *)
(* entry: no change of an entry's node can pass unnoticed (setWatchers and *)
(* the one-shot watches that it leaves).                                   *)
(***************************************************************************)
THEOREM EntriesWatchedAtRest == Calm /\ Spec => [](Undisturbed => EntriesHaveWatches)
<1>1. Calm /\ Spec => []CoherentInv
  BY CoherentInvInit, CoherentInvStep, PTL DEF Spec
<1>2. CoherentInv => (Undisturbed => EntriesHaveWatches)
  <2> SUFFICES ASSUME Steady, AtRest, NEW p \in DOMAIN cache PROVE p \in dataWatch /\ p \in childWatch
    BY DEF CoherentInv, Steady, EntriesHaveWatches, Quiet
  <2> QED
    BY RestFacts DEF HasWatches
<1> QED
  BY <1>1, <1>2, PTL
=============================================================================
