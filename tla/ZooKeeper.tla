------------------------------ MODULE ZooKeeper -----------------------------
(***************************************************************************)
(* The ZooKeeper service as the cache uses it, through the session of one  *)
(* handle.  zk is the tree of the server that the session is connected to; *)
(* other clients change it.  The operators at the end are the calls that   *)
(* ZookeeperInstanceManager makes.  Everything else is external: it is     *)
(* modelled from what the cache relies on.                                 *)
(*                                                                         *)
(* Watches are one-shot.  `exists' and `getData' leave a data watch, the   *)
(* first one also on a missing node, and `getChildren' a child watch.  The *)
(* server and the client keep the same watches: responses and events reach *)
(* the client in one stream, so a watch is known to the client before an   *)
(* event of it arrives.  The event thread, however, runs the watcher at    *)
(* any later time: `events' is its queue, and a synchronous call may       *)
(* return before the events that were raised earlier are processed.        *)
(*                                                                         *)
(* The session can lose its connection and find it again before it         *)
(* expires.  Meanwhile calls fail or wait, and writes raise no event; then *)
(* the client library presents its watches with the zxid it has seen last, *)
(* and the server raises what they have missed.                            *)
(***************************************************************************)
EXTENDS ZnodePaths

CONSTANTS
  MaxZxid,     \* bound: the number of the last write of other clients
  MaxFaults,   \* bound: how many calls fail with an error of the connection
  MaxDrops,    \* bound: how many times the session loses its connection
  WriterOps    \* what the other clients do: "create", "delete", "setData"

ASSUME BoundsAssumption ==
  MaxZxid \in Nat /\ MaxFaults \in Nat /\ MaxDrops \in Nat /\ WriterOps \in SUBSET STRING

VARIABLES
  zk,          \* the zxid of the last write of each node's data, 0: no node
  zxid,        \* the zxid of the last write of all
  dataWatch,   \* the paths that have a data (or exists) watch
  childWatch,  \* the paths that have a child watch
  events,      \* the queue of the event thread
  faults,      \* the number of calls that have failed so far
  drops,       \* the number of connections that were lost so far
  missed       \* Nothing, or what a session without its connection has missed

zkVars == <<zk, zxid, dataWatch, childWatch, events, faults, drops, missed>>

EventType == {"NodeCreated", "NodeDeleted", "NodeDataChanged", "NodeChildrenChanged"}
Event     == [type : EventType, path : Znode]

(* The nodes as the session saw them last, and whose children have changed. *)
Missed    == [seen : [Znode -> Nat], relisted : SUBSET Znode]
Nothing   == [seen |-> "all"]
Connected == missed = Nothing

Exists(p)     == p \in Znode /\ zk[p] # 0
ChildNames(p) == {n \in Name : Exists(Append(p, n))}

(* The parent of a node is there; a parent outside Znode always is. *)
ParentExists(p) == ParentPath(p) \in Znode => Exists(ParentPath(p))

ZkTypeOK ==
  /\ zk \in [Znode -> Nat]
  /\ zxid \in Nat
  /\ dataWatch \in SUBSET Znode
  /\ childWatch \in SUBSET Znode
  /\ events \in Seq(Event)
  /\ faults \in Nat /\ drops \in Nat
  /\ missed \in {Nothing} \cup Missed

(* Any tree may be there when the cache is created; "/" always is. *)
ZkInit ==
  /\ zk \in [Znode -> {0, 1}]
  /\ \A p \in Znode : /\ p = Root => Exists(p)
                      /\ Exists(p) => ParentExists(p)
  /\ zxid = 1
  /\ dataWatch = {} /\ childWatch = {}
  /\ events = << >>
  /\ faults = 0 /\ drops = 0
  /\ missed = Nothing

-----------------------------------------------------------------------------
(* Writes of other clients, and the watches they trigger. *)

Fired(watches, p, type) ==
  IF p \in watches THEN <<[type |-> type, path |-> p]>> ELSE << >>

Write(op, p, value) ==
  /\ op \in WriterOps
  /\ zxid < MaxZxid
  /\ zxid' = zxid + 1
  /\ zk' = [zk EXCEPT ![p] = value]
  /\ UNCHANGED <<faults, drops>>

(* The events that a write raises use up their watches; without its         *)
(* connection the session misses them, and the new lists of children.       *)
Notice(raised, dataPaths, childPaths, relisted) ==
  \/ /\ Connected
     /\ events' = events \o raised
     /\ dataWatch' = dataWatch \ dataPaths
     /\ childWatch' = childWatch \ childPaths
     /\ UNCHANGED missed
  \/ /\ ~Connected
     /\ missed' = [missed EXCEPT !.relisted = @ \cup (relisted \cap Znode)]
     /\ UNCHANGED <<events, dataWatch, childWatch>>

CreateNode(p) ==
  /\ ~Exists(p) /\ ParentExists(p)
  /\ Write("create", p, zxid + 1)
  /\ Notice(Fired(dataWatch, p, "NodeCreated")
              \o Fired(childWatch, ParentPath(p), "NodeChildrenChanged"),
            {p}, {ParentPath(p)}, {p, ParentPath(p)})

(* A node with both watches raises one NodeDeleted, not two. *)
DeleteNode(p) ==
  /\ Exists(p) /\ p # Root /\ ChildNames(p) = {}
  /\ Write("delete", p, 0)
  /\ Notice(Fired(dataWatch \cup childWatch, p, "NodeDeleted")
              \o Fired(childWatch, ParentPath(p), "NodeChildrenChanged"),
            {p}, {p, ParentPath(p)}, {ParentPath(p)})

SetNodeData(p) ==
  /\ Exists(p)
  /\ Write("setData", p, zxid + 1)
  /\ Notice(Fired(dataWatch, p, "NodeDataChanged"), {p}, {}, {})

-----------------------------------------------------------------------------
(* The connection *)

Disconnect ==
  /\ Connected /\ drops < MaxDrops
  /\ drops' = drops + 1
  /\ missed' = [seen |-> zk, relisted |-> {}]
  /\ UNCHANGED <<zk, zxid, dataWatch, childWatch, events, faults>>

(* The server compares each data watch with the zxid the client has seen,  *)
(* then each child watch.  NodeDeleted uses up both watches of a node.     *)
DataMissed ==
  {[path |-> p, type |-> CASE missed.seen[p] = 0 -> "NodeCreated"
                           [] zk[p] = 0          -> "NodeDeleted"
                           [] OTHER              -> "NodeDataChanged"] :
    p \in {q \in dataWatch : zk[q] # missed.seen[q]}}
ChildrenMissed ==
  {[path |-> p, type |-> IF Exists(p) THEN "NodeChildrenChanged" ELSE "NodeDeleted"] :
    p \in {q \in childWatch : IF Exists(q) THEN q \in missed.relisted ELSE q \notin dataWatch}}

Reconnect ==
  /\ ~Connected
  /\ missed' = Nothing
  /\ \E data \in Traversals(DataMissed), children \in Traversals(ChildrenMissed) :
       events' = events \o data \o children
  /\ dataWatch' = {p \in dataWatch : zk[p] = missed.seen[p]}
  /\ childWatch' = {p \in childWatch : Exists(p) /\ p \notin missed.relisted}
  /\ UNCHANGED <<zk, zxid, faults, drops>>

-----------------------------------------------------------------------------
(***************************************************************************)
(* One round trip of a call for path p.  It finds the node, or finds none, *)
(* or fails otherwise: the client library refuses a malformed path, and    *)
(* any call may lose its connection, in which case no watch is left.       *)
(* Without a connection a call waits for the next one, if it does not fail.*)
(***************************************************************************)
Outcome == {"ok", "noNode", "error"}

RoundTrip(p, outcome) ==
  /\ \/ outcome = "ok" /\ Connected /\ Exists(p) /\ UNCHANGED faults
     \/ outcome = "noNode" /\ Connected /\ p \in Znode /\ ~Exists(p) /\ UNCHANGED faults
     \/ outcome = "error" /\ p \notin Znode /\ UNCHANGED faults
     \/ outcome = "error" /\ faults < MaxFaults /\ faults' = faults + 1
  /\ UNCHANGED <<zk, zxid, events, drops, missed>>

(* getData(path) and getChildren(path) of the manager: they set no watch. *)
Read(p, outcome) ==
  /\ RoundTrip(p, outcome)
  /\ UNCHANGED <<dataWatch, childWatch>>

(* zoo.exists(path, true) *)
ExistsWithWatch(p, outcome) ==
  /\ RoundTrip(p, outcome)
  /\ dataWatch' = IF outcome = "error" THEN dataWatch ELSE dataWatch \cup {p}
  /\ UNCHANGED childWatch

(* zoo.getChildren(path, true) *)
GetChildrenWithWatch(p, outcome) ==
  /\ RoundTrip(p, outcome)
  /\ childWatch' = IF outcome = "ok" THEN childWatch \cup {p} ELSE childWatch
  /\ UNCHANGED dataWatch

(* zoo.getData(path, true, stat) *)
GetDataWithWatch(p, outcome) ==
  /\ RoundTrip(p, outcome)
  /\ dataWatch' = IF outcome = "ok" THEN dataWatch \cup {p} ELSE dataWatch
  /\ UNCHANGED childWatch
=============================================================================
