----------------------- MODULE ScakkaZooCache_proofs ------------------------
(***************************************************************************)
(* Theorems about ScakkaZooCache for every tree of znodes, every number of *)
(* calls and every bound.  First lemmas about the operators the model is   *)
(* built from, then the type invariant, then the safety invariants.        *)
(***************************************************************************)
EXTENDS ScakkaZooCache, SequenceTheorems, FiniteSetTheorems, FunctionTheorems, TLAPS

-----------------------------------------------------------------------------
(* Paths and messages *)

(* The interpolated path of a child is a path string again. *)
LEMMA ChildPathType ==
  ASSUME NEW p \in PathString, NEW c \in Name
  PROVE  ChildPath(p, c) \in PathString
<1> DEFINE S == Name \cup {EmptyName}
<1>1. EmptyName \in S /\ c \in S /\ p \in Seq(S)
  BY DEF PathString
<1> HIDE DEF S
<1>2. <<EmptyName, c>> \in Seq(S) /\ Append(p, c) \in Seq(S)
  BY <1>1
<1> QED
  BY <1>2 DEF ChildPath, PathString, S

(* Every znode path is a path string. *)
LEMMA ZnodeIsPathString == Znode \subseteq PathString
BY ZnodeAssumption DEF PathString

(* What the constructors of messages build are messages. *)
LEMMA MessageTypes ==
  ASSUME NEW p \in PathString, NEW r \in Notifyable, NEW rec \in BOOLEAN, NEW d \in Nat
  PROVE  /\ \A t \in MessageType : Msg(t, p, r) \in Message
         /\ Remove(p, r) \in Message
         /\ SetWatcher(p, r) \in Message
         /\ Unwatch(p) \in Message
         /\ Update(p, rec, r) \in Message
         /\ Add(p, d, rec, r) \in Message
<1>1. \A t \in MessageType : Msg(t, p, r) \in Message
  BY DEF Msg, Message
<1>2. /\ Remove(p, r) \in Message
      /\ SetWatcher(p, r) \in Message
      /\ Update(p, rec, r) \in Message
      /\ Add(p, d, rec, r) \in Message
  BY <1>1 DEF Remove, SetWatcher, Update, Add, Message, MessageType, Msg
<1>3. Unwatch(p) \in Message
  BY DEF Unwatch, Msg, Message, MessageType, Notifyable, NoOne
<1> QED
  BY <1>1, <1>2, <1>3

LEMMA RootMessageTypes == NoMessage \in Message /\ Shutdown \in Message
<1>1. Root \in PathString
  BY DEF Root, PathString
<1> QED
  BY <1>1 DEF NoMessage, Shutdown, Msg, Message, MessageType, Notifyable, NoOne

(* The messages that are sent for the children form a sequence of the      *)
(* messages that are built for the single children.                        *)
LEMMA ForEachChildType ==
  ASSUME NEW M, NEW C \in SUBSET Name, NEW send \in [C -> M],
         NEW ms \in ForEachChild(send)
  PROVE  ms \in Seq(M)
<1>1. PICK s \in Traversals(C) : ms = [i \in DOMAIN s |-> send[s[i]]]
  BY DEF ForEachChild
<1>2. IsFiniteSet(C) /\ Cardinality(C) \in Nat
  BY NameAssumption, FS_Subset, FS_CardinalityType
<1>3. s \in [1 .. Cardinality(C) -> C]
  BY DEF Traversals, Bijection, Injection
<1>4. ms \in [1 .. Cardinality(C) -> M]
  BY <1>1, <1>3
<1>5. \A n \in Nat : [1 .. n -> M] \subseteq Seq(M)
  BY SeqDef
<1> QED
  BY <1>2, <1>4, <1>5

(* Reads and calls that leave watches keep the types of ZooKeeper's state. *)
LEMMA ZkCallType ==
  ASSUME ZkTypeOK, NEW p, NEW o,
         Read(p, o) \/ ExistsWithWatch(p, o) \/ GetChildrenWithWatch(p, o) \/ GetDataWithWatch(p, o)
  PROVE  ZkTypeOK'
<1>1. RoundTrip(p, o)
  BY DEF Read, ExistsWithWatch, GetChildrenWithWatch, GetDataWithWatch
<1>2. /\ faults' \in Nat /\ UNCHANGED <<zk, zxid, events, drops, missed>>
      /\ o \in {"ok", "noNode"} => p \in Znode
      /\ o \in Outcome
  BY <1>1 DEF ZkTypeOK, RoundTrip, Exists, Outcome
<1>3. dataWatch' \in SUBSET Znode /\ childWatch' \in SUBSET Znode
  BY <1>2 DEF ZkTypeOK, Outcome, Read, ExistsWithWatch, GetChildrenWithWatch, GetDataWithWatch
<1> QED
  BY <1>2, <1>3 DEF ZkTypeOK, Missed

(* A call succeeds, or finds no node, only for the path of a znode. *)
LEMMA OutcomeOfZnode ==
  ASSUME NEW p, NEW o \in {"ok", "noNode"}, RoundTrip(p, o)
  PROVE  p \in Znode
BY DEF RoundTrip, Exists

(* The writes of other clients keep the types of ZooKeeper's state. *)
LEMMA FiredType ==
  ASSUME NEW watches \in SUBSET Znode, NEW p, NEW type \in EventType
  PROVE  Fired(watches, p, type) \in Seq(Event)
<1>1. CASE p \in watches
  <2>1. [type |-> type, path |-> p] \in Event
    BY <1>1 DEF Event
  <2> HIDE DEF Event
  <2>2. <<[type |-> type, path |-> p]>> \in Seq(Event)
    BY <2>1
  <2> QED
    BY <1>1, <2>2 DEF Fired
<1>2. CASE p \notin watches
  BY <1>2 DEF Fired
<1> QED
  BY <1>1, <1>2

LEMMA WriterType ==
  ASSUME ZkTypeOK, NEW p \in Znode, CreateNode(p) \/ DeleteNode(p) \/ SetNodeData(p)
  PROVE  ZkTypeOK'
<1> DEFINE Es == Seq(Event)
<1>1. zxid' \in Nat /\ zk' \in [Znode -> Nat] /\ faults' \in Nat /\ drops' \in Nat
  BY DEF ZkTypeOK, CreateNode, DeleteNode, SetNodeData, Write
<1>2. \A t \in EventType : \A q : /\ Fired(dataWatch, q, t) \in Es
                                  /\ Fired(childWatch, q, t) \in Es
                                  /\ Fired(dataWatch \cup childWatch, q, t) \in Es
  BY FiredType DEF ZkTypeOK
<1>3. PICK raised \in Es :
        \E dataPaths, childPaths, relisted : Notice(raised, dataPaths, childPaths, relisted)
  <2>1. /\ "NodeCreated" \in EventType /\ "NodeDeleted" \in EventType
        /\ "NodeDataChanged" \in EventType /\ "NodeChildrenChanged" \in EventType
    BY DEF EventType
  <2>2. \A s, t \in Es : s \o t \in Es
    OBVIOUS
  <2> HIDE DEF Es
  <2>3. CASE CreateNode(p)
    BY <2>1, <2>2, <2>3, <1>2 DEF CreateNode
  <2>4. CASE DeleteNode(p)
    BY <2>1, <2>2, <2>4, <1>2 DEF DeleteNode
  <2>5. CASE SetNodeData(p)
    BY <2>1, <2>2, <2>5, <1>2 DEF SetNodeData
  <2> QED
    BY <2>3, <2>4, <2>5
<1>4. dataWatch' \in SUBSET Znode /\ childWatch' \in SUBSET Znode
  BY <1>3 DEF ZkTypeOK, Notice
<1>5. events' \in Es
  <2>1. events \in Es /\ \A s, t \in Es : s \o t \in Es
    BY DEF ZkTypeOK
  <2> HIDE DEF Es
  <2> QED
    BY <1>3, <2>1 DEF Notice
<1>6. missed' \in {Nothing} \cup Missed
  <2>1. CASE Connected
    BY <1>3, <2>1 DEF ZkTypeOK, Notice
  <2>2. CASE ~Connected
    <3>1. missed \in Missed
      BY <2>2 DEF ZkTypeOK, Connected
    <3>2. PICK relisted : missed' = [missed EXCEPT !.relisted = @ \cup (relisted \cap Znode)]
      BY <1>3, <2>2 DEF Notice
    <3> QED
      BY <3>1, <3>2 DEF Missed
  <2> QED
    BY <2>1, <2>2
<1> QED
  BY <1>1, <1>4, <1>5, <1>6 DEF ZkTypeOK

(* So do the loss of the connection and its return. *)
LEMMA TraversalType ==
  ASSUME NEW M, NEW S \in SUBSET M, IsFiniteSet(S), NEW s \in Traversals(S)
  PROVE  s \in Seq(M)
<1>1. Cardinality(S) \in Nat
  BY FS_CardinalityType
<1>2. s \in [1 .. Cardinality(S) -> M]
  BY DEF Traversals, Bijection, Injection
<1>3. \A n \in Nat : [1 .. n -> M] \subseteq Seq(M)
  BY SeqDef
<1> QED
  BY <1>1, <1>2, <1>3

LEMMA MissedEvents ==
  ASSUME ZkTypeOK
  PROVE  /\ DataMissed \in SUBSET Event /\ ChildrenMissed \in SUBSET Event
         /\ IsFiniteSet(DataMissed) /\ IsFiniteSet(ChildrenMissed)
<1>1. DataMissed \in SUBSET Event /\ ChildrenMissed \in SUBSET Event
  BY DEF DataMissed, ChildrenMissed, Event, EventType, ZkTypeOK
<1>2. IsFiniteSet(DataMissed) /\ IsFiniteSet(ChildrenMissed)
  <2> DEFINE D == {q \in dataWatch : zk[q] # missed.seen[q]}
             C == {q \in childWatch : IF Exists(q) THEN q \in missed.relisted ELSE q \notin dataWatch}
             d == [p \in D |-> [path |-> p, type |-> CASE missed.seen[p] = 0 -> "NodeCreated"
                                                       [] zk[p] = 0          -> "NodeDeleted"
                                                       [] OTHER              -> "NodeDataChanged"]]
             c == [p \in C |-> [path |-> p, type |-> IF Exists(p) THEN "NodeChildrenChanged"
                                                                 ELSE "NodeDeleted"]]
  <2>1. IsFiniteSet(D) /\ IsFiniteSet(C)
    BY ZnodeAssumption, FS_Subset DEF ZkTypeOK
  <2>2. DataMissed = {d[p] : p \in D} /\ ChildrenMissed = {c[p] : p \in C}
    BY DEF DataMissed, ChildrenMissed
  <2>3. d = [p \in D |-> d[p]] /\ c = [p \in C |-> c[p]]
    OBVIOUS
  <2> HIDE DEF D, C, d, c
  <2>4. d \in Surjection(D, DataMissed) /\ c \in Surjection(C, ChildrenMissed)
    BY <2>2, <2>3 DEF Surjection
  <2> QED
    BY <2>1, <2>4, FS_Surjection
<1> QED
  BY <1>1, <1>2

LEMMA SessionType ==
  ASSUME ZkTypeOK, Disconnect \/ Reconnect
  PROVE  ZkTypeOK'
<1>1. CASE Disconnect
  BY <1>1 DEF Disconnect, ZkTypeOK, Missed
<1>2. CASE Reconnect
  <2>1. PICK data \in Traversals(DataMissed), children \in Traversals(ChildrenMissed) :
          events' = events \o data \o children
    BY <1>2 DEF Reconnect
  <2>2. data \in Seq(Event) /\ children \in Seq(Event)
    BY <2>1, MissedEvents, TraversalType
  <2>3. events' \in Seq(Event)
    BY <2>1, <2>2 DEF ZkTypeOK
  <2>4. dataWatch' \in SUBSET Znode /\ childWatch' \in SUBSET Znode
    BY <1>2 DEF Reconnect, ZkTypeOK
  <2>5. /\ UNCHANGED <<zk, zxid, faults, drops>>
        /\ missed' = Nothing
    BY <1>2 DEF Reconnect
  <2> QED
    BY <2>3, <2>4, <2>5 DEF ZkTypeOK
<1> QED
  BY <1>1, <1>2

(* Completing the promise of a call keeps the types of the calls. *)
LEMMA NotifyType ==
  ASSUME CallsTypeOK, NEW r \in Notifyable, NEW p, NEW result \in {"succeeded", "failed"},
         Notify(r, p, result)
  PROVE  promise' \in [Request -> PromiseState]
BY DEF CallsTypeOK, Notify, Notifies, Complete, Notifyable, NoOne, PromiseState

-----------------------------------------------------------------------------
(***************************************************************************)
(* The type invariant.  It needs one more fact to be inductive: only the   *)
(* handlers that call setWatchers are in the middle of it, so that they    *)
(* know how to go on afterwards.                                           *)
(***************************************************************************)
WatchStages == {"watchExists", "watchChildren", "watchData", "recordWatch", "watchMissing"}
HandlerOK   == handler.stage \in WatchStages => handler.msg.type \in {"Add", "Remove", "SetWatcher"}
TypeInv     == TypeOK /\ HandlerOK

(* A path is in its own subtree, and a subtree is closed under children. *)
LEMMA UnderSelf == ASSUME NEW p \in Seq(Name) PROVE IsUnder(p, p)
BY DEF IsUnder, SeqExt!IsPrefix

LEMMA UnderChild ==
  ASSUME NEW root \in Seq(Name), NEW p \in PathString, NEW c \in Name, IsUnder(root, p)
  PROVE  IsUnder(root, ChildPath(p, c))
<1> QED
  BY DEF IsUnder, SeqExt!IsPrefix, ChildPath, Root, PathString

LEMMA TypeInvInit == Init => TypeInv
<1> SUFFICES ASSUME Init PROVE TypeInv
  OBVIOUS
<1>1. ZkTypeOK
  BY DEF Init, ZkInit, ZkTypeOK
<1>2. CallsTypeOK
  BY DEF Init, CallsInit, CallsTypeOK, PromiseState
<1>3. ActorTypeOK /\ HandlerOK
  <2>1. handler \in [stage : Stages, msg : Message, listed : SUBSET Name] /\ HandlerOK
    BY RootMessageTypes DEF Init, ActorInit, Idle, Handling, Stages, HandlerOK, WatchStages
  <2>2. DOMAIN cache = {}
    BY DEF Init, ActorInit
  <2> QED
    BY <2>1, <2>2 DEF Init, ActorInit, ActorTypeOK
<1> QED
  BY <1>1, <1>2, <1>3 DEF TypeInv, TypeOK

(* A mailbox of messages of some kind stays one when messages of that kind *)
(* are sent.                                                               *)
LEMMA MailboxOf ==
  ASSUME NEW M, mailbox \in Seq(M), NEW ms \in Seq(M),
         \/ Send(ms)
         \/ mailbox # << >> /\ Consume(ms)
  PROVE  mailbox' \in Seq(M)
<1>1. CASE Send(ms)
  BY <1>1 DEF Send
<1>2. CASE mailbox # << >> /\ Consume(ms)
  <2>1. Tail(mailbox) \in Seq(M)
    BY <1>2
  <2> QED
    BY <2>1, <1>2 DEF Consume
<1> QED
  BY <1>1, <1>2

LEMMA MailboxTypes ==
  ASSUME mailbox \in Seq(Message), NEW ms \in Seq(Message),
         \/ Send(ms)
         \/ mailbox # << >> /\ Consume(ms)
  PROVE  mailbox' \in Seq(Message)
BY MailboxOf

(* A received message is the head of the mailbox. *)
LEMMA ReceivedType ==
  ASSUME ActorTypeOK, NEW type, Received(type)
  PROVE  Head(mailbox) \in Message /\ Head(mailbox).type = type /\ mailbox # << >>
BY DEF ActorTypeOK, Received

LEMMA ActorStepType == TypeInv /\ ActorStep => TypeInv'
<1> SUFFICES ASSUME TypeInv, ActorStep PROVE TypeInv'
  OBVIOUS
<1> USE DEF TypeInv, TypeOK
<1> DEFINE Handlers == [stage : Stages, msg : Message, listed : SUBSET Name]
<1>m. /\ mailbox \in Seq(Message) /\ handler \in Handlers
      /\ watchedNodes \in SUBSET PathString /\ addedPaths \in SUBSET PathString
      /\ handler.msg \in Message /\ handler.msg.path \in PathString
      /\ handler.msg.notify \in Notifyable /\ handler.msg.data \in Nat
      /\ handler.msg.recursive \in BOOLEAN
  BY DEF ActorTypeOK, Message
<1>i. Idle \in Handlers
  BY RootMessageTypes DEF Idle, Handling, Stages
<1>t. << >> \in Seq(Message) /\ \A m \in Message : <<m>> \in Seq(Message)
  OBVIOUS
<1>1. CASE HandleWatchUnderPath
  <2>1. Head(mailbox) \in Message /\ mailbox # << >>
    BY <1>1, ReceivedType DEF HandleWatchUnderPath
  <2>2. Update(Head(mailbox).path, TRUE, Head(mailbox).notify) \in Message
    BY <2>1, MessageTypes DEF Message
  <2>3. mailbox' \in Seq(Message)
    BY <1>1, <1>m, <1>t, <2>1, <2>2, MailboxTypes DEF HandleWatchUnderPath
  <2> QED
    BY <1>1, <2>3 DEF HandleWatchUnderPath, ActorTypeOK, ZkTypeOK, CallsTypeOK, HandlerOK, zkVars, callVars
<1>2. CASE HandleRemovePath
  <2>1. Head(mailbox) \in Message /\ mailbox # << >>
    BY <1>2, ReceivedType DEF HandleRemovePath
  <2>2. Remove(Head(mailbox).path, Head(mailbox).notify) \in Message
    BY <2>1, MessageTypes DEF Message
  <2>3. mailbox' \in Seq(Message)
    BY <1>2, <1>m, <1>t, <2>1, <2>2, MailboxTypes DEF HandleRemovePath
  <2> QED
    BY <1>2, <2>3 DEF HandleRemovePath, ActorTypeOK, ZkTypeOK, CallsTypeOK, HandlerOK, zkVars, callVars
<1>3. CASE HandleShutdown
  <2>1. cache' = << >> /\ mailbox' = << >>
    BY <1>3 DEF HandleShutdown
  <2>2. DOMAIN cache' = {} /\ mailbox' \in Seq(Message)
    BY <2>1
  <2> QED
    BY <1>3, <2>2 DEF HandleShutdown, ActorTypeOK, ZkTypeOK, CallsTypeOK, HandlerOK, zkVars, callVars
<1>4. CASE HandleUpdate
  <2> DEFINE update == Head(mailbox)
  <2>1. update \in Message /\ mailbox # << >>
    BY <1>4, ReceivedType DEF HandleUpdate
  <2>2. mailbox' \in Seq(Message)
    BY <1>4, <1>m, <1>t, <2>1, MailboxTypes DEF HandleUpdate
  <2>3. PICK o \in Outcome : Read(update.path, o)
    BY <1>4 DEF HandleUpdate, Outcome
  <2>4. ZkTypeOK'
    BY <2>3, ZkCallType
  <2>5. handler' \in Handlers /\ HandlerOK'
    <3>1. CASE /\ Read(update.path, "ok")
               /\ handler' = Handling("fetched", [update EXCEPT !.data = zk[update.path]], {})
      <4>1. update.path \in Znode
        BY <3>1, OutcomeOfZnode DEF Read
      <4>2. zk[update.path] \in Nat
        BY <4>1 DEF ZkTypeOK
      <4>3. [update EXCEPT !.data = zk[update.path]] \in Message
        BY <2>1, <4>2 DEF Message
      <4> QED
        BY <3>1, <4>3 DEF Handling, Stages, HandlerOK, WatchStages
    <3>2. CASE handler' = Handling("fetchMissing", update, {})
      BY <3>2, <2>1 DEF Handling, Stages, HandlerOK, WatchStages
    <3>3. CASE Done
      BY <3>3, <1>i DEF Done, Idle, Handling, HandlerOK, WatchStages
    <3> QED
      BY <3>1, <3>2, <3>3, <1>4 DEF HandleUpdate
  <2> QED
    BY <1>4, <2>2, <2>4, <2>5 DEF HandleUpdate, ActorTypeOK, CallsTypeOK, callVars
<1>5. CASE FinishUpdate
  <2>1. /\ Add(handler.msg.path, handler.msg.data, handler.msg.recursive, handler.msg.notify) \in Message
        /\ SetWatcher(handler.msg.path, handler.msg.notify) \in Message
    BY <1>m, MessageTypes
  <2>2. mailbox' \in Seq(Message)
    BY <1>5, <1>m, <1>t, <2>1, MailboxTypes DEF FinishUpdate
  <2>3. handler' \in Handlers /\ HandlerOK'
    BY <1>5, <1>i DEF FinishUpdate, Done, Idle, Handling, HandlerOK, WatchStages
  <2> QED
    BY <1>5, <2>2, <2>3 DEF FinishUpdate, ActorTypeOK, ZkTypeOK, CallsTypeOK, zkVars, callVars
<1>w. ASSUME NEW msg \in Message, msg.type \in {"Add", "Remove", "SetWatcher"},
             handler' = AfterWatchers(msg) \/ handler' = Handling("watchExists", msg, {})
      PROVE  handler' \in Handlers /\ HandlerOK'
  BY <1>w, <1>i DEF AfterWatchers, Handling, Idle, Stages, HandlerOK, WatchStages
<1>6. CASE HandleAdd
  <2>1. Head(mailbox) \in Message /\ mailbox # << >> /\ Head(mailbox).type = "Add"
    BY <1>6, ReceivedType DEF HandleAdd
  <2>2. mailbox' \in Seq(Message)
    BY <1>6, <1>m, <1>t, <2>1, MailboxTypes DEF HandleAdd
  <2>3. handler' \in Handlers /\ HandlerOK'
    BY <1>6, <1>w, <2>1 DEF HandleAdd, SetWatchers
  <2> QED
    BY <1>6, <2>2, <2>3 DEF HandleAdd, ActorTypeOK, ZkTypeOK, CallsTypeOK, zkVars, callVars
<1>7. CASE ListChildren
  <2>1. PICK o \in Outcome : Read(handler.msg.path, o)
    BY <1>7 DEF ListChildren, Outcome
  <2>2. ZkTypeOK'
    BY <2>1, ZkCallType
  <2>3. handler' \in Handlers /\ HandlerOK'
    BY <1>7, <1>m DEF ListChildren, GoTo, ChildNames, Handling, Stages, HandlerOK, WatchStages
  <2> QED
    BY <1>7, <2>2, <2>3 DEF ListChildren, ActorTypeOK, CallsTypeOK, callVars
<1>8. CASE StoreEntry
  <2> DEFINE add    == handler.msg
             update == [c \in handler.listed |-> Update(ChildPath(add.path, c), TRUE, add.notify)]
  <2>1. /\ cache' = CacheWith(add.path, [data |-> add.data, children |-> handler.listed])
        /\ \E updates \in ForEachChild(update) : Send(IF add.recursive THEN updates ELSE << >>)
        /\ SucceedNotifyable(add.notify, add.path)
        /\ Done
    BY <1>8 DEF StoreEntry
  <2>2. handler.listed \in SUBSET Name
    BY <1>m
  <2>3. update \in [handler.listed -> Message]
    BY <1>m, <2>2, MessageTypes, ChildPathType
  <2>4. mailbox' \in Seq(Message)
    <3>1. PICK updates \in ForEachChild(update) : Send(IF add.recursive THEN updates ELSE << >>)
      BY <2>1
    <3>2. updates \in Seq(Message)
      BY <2>2, <2>3, ForEachChildType
    <3> QED
      BY <3>1, <3>2, <1>m, <1>t, MailboxTypes
  <2>5. promise' \in [Request -> PromiseState] /\ addedPaths' \in SUBSET PathString
    BY <2>1, <1>m, NotifyType DEF SucceedNotifyable
  <2>6. DOMAIN cache' \in SUBSET PathString /\ \A p \in DOMAIN cache' : cache'[p] \in Entry
    BY <2>1, <2>2, <1>m DEF CacheWith, ActorTypeOK, Entry
  <2>7. handler' \in Handlers /\ HandlerOK'
    BY <2>1, <1>i DEF Done, Idle, Handling, HandlerOK, WatchStages
  <2> QED
    BY <1>8, <2>4, <2>5, <2>6, <2>7 DEF StoreEntry, ActorTypeOK, ZkTypeOK, CallsTypeOK, zkVars
<1>9. CASE FailAdd
  <2>1. Remove(handler.msg.path, NoOne) \in Message
    BY <1>m, MessageTypes DEF Notifyable
  <2>2. mailbox' \in Seq(Message)
    BY <1>9, <1>m, <1>t, <2>1, MailboxTypes DEF FailAdd
  <2>3. promise' \in [Request -> PromiseState]
    BY <1>9, <1>m, NotifyType DEF FailAdd
  <2>4. handler' \in Handlers /\ HandlerOK'
    BY <1>9, <1>i DEF FailAdd, Done, Idle, Handling, HandlerOK, WatchStages
  <2> QED
    BY <1>9, <2>2, <2>3, <2>4 DEF FailAdd, ActorTypeOK, ZkTypeOK, CallsTypeOK, zkVars
<1>10. CASE HandleRemove
  <2>1. Head(mailbox) \in Message /\ mailbox # << >> /\ Head(mailbox).type = "Remove"
    BY <1>10, ReceivedType DEF HandleRemove
  <2>2. mailbox' \in Seq(Message)
    BY <1>10, <1>m, <1>t, <2>1, MailboxTypes DEF HandleRemove
  <2>3. handler' \in Handlers /\ HandlerOK'
    BY <1>10, <2>1 DEF HandleRemove, Handling, Stages, HandlerOK, WatchStages
  <2> QED
    BY <1>10, <2>2, <2>3 DEF HandleRemove, ActorTypeOK, ZkTypeOK, CallsTypeOK, zkVars, callVars
<1>11. CASE Evict
  <2> DEFINE remove == handler.msg
             send   == [c \in cache[remove.path].children |->
                          Remove(ChildPath(remove.path, c), remove.notify)]
  <2>1. handler' \in Handlers /\ HandlerOK'
    BY <1>11, <1>i DEF Evict, Done, Idle, Handling, HandlerOK, WatchStages
  <2>2. CASE /\ Cached(remove.path)
             /\ cache' = CacheWithout(remove.path)
             /\ SucceedNotifyable(remove.notify, remove.path)
             /\ \E removes \in ForEachChild(send) : Send(removes)
    <3>1. cache[remove.path].children \in SUBSET Name
      BY <2>2 DEF Cached, ActorTypeOK, Entry
    <3>2. send \in [cache[remove.path].children -> Message]
      BY <1>m, <3>1, MessageTypes, ChildPathType
    <3>3. mailbox' \in Seq(Message)
      <4>1. PICK removes \in ForEachChild(send) : Send(removes)
        BY <2>2
      <4>2. removes \in Seq(Message)
        BY <3>1, <3>2, ForEachChildType
      <4> QED
        BY <4>1, <4>2, <1>m, MailboxTypes
    <3>4. promise' \in [Request -> PromiseState] /\ addedPaths' \in SUBSET PathString
      BY <2>2, <1>m, NotifyType DEF SucceedNotifyable
    <3>5. DOMAIN cache' \in SUBSET PathString /\ \A p \in DOMAIN cache' : cache'[p] \in Entry
      BY <2>2 DEF CacheWithout, ActorTypeOK
    <3> QED
      BY <1>11, <2>1, <3>3, <3>4, <3>5 DEF Evict, ActorTypeOK, ZkTypeOK, CallsTypeOK, zkVars
  <2>3. CASE UNCHANGED <<cache, promise, addedPaths, mailbox>>
    BY <1>11, <2>1, <2>3 DEF Evict, ActorTypeOK, ZkTypeOK, CallsTypeOK, zkVars
  <2> QED
    BY <1>11, <2>2, <2>3 DEF Evict
<1>12. CASE HandleSetWatcher
  <2>1. Head(mailbox) \in Message /\ mailbox # << >> /\ Head(mailbox).type = "SetWatcher"
    BY <1>12, ReceivedType DEF HandleSetWatcher
  <2>2. mailbox' \in Seq(Message)
    BY <1>12, <1>m, <1>t, <2>1, MailboxTypes DEF HandleSetWatcher
  <2>3. handler' \in Handlers /\ HandlerOK'
    BY <1>12, <1>w, <2>1 DEF HandleSetWatcher, SetWatchers
  <2> QED
    BY <1>12, <2>2, <2>3 DEF HandleSetWatcher, ActorTypeOK, ZkTypeOK, CallsTypeOK, zkVars, callVars
<1>13. CASE HandleUnwatch
  <2>1. mailbox # << >>
    BY <1>13, ReceivedType DEF HandleUnwatch
  <2>2. mailbox' \in Seq(Message)
    BY <1>13, <1>m, <1>t, <2>1, MailboxTypes DEF HandleUnwatch
  <2> QED
    BY <1>13, <2>2 DEF HandleUnwatch, ActorTypeOK, ZkTypeOK, CallsTypeOK, zkVars, callVars, HandlerOK
<1>r. ASSUME handler.stage \in WatchStages, Resume
      PROVE  handler' \in Handlers /\ HandlerOK'
  BY <1>r, <1>w, <1>m DEF Resume, HandlerOK
<1>g. ASSUME handler.stage \in WatchStages, NEW stage \in WatchStages, GoTo(stage)
      PROVE  handler' \in Handlers /\ HandlerOK'
  BY <1>g, <1>m DEF GoTo, HandlerOK, WatchStages, Stages
<1>14. CASE WatchExists
  <2>1. PICK o \in Outcome : ExistsWithWatch(handler.msg.path, o)
    BY <1>14 DEF WatchExists, Outcome
  <2>2. handler' \in Handlers /\ HandlerOK'
    BY <1>14, <1>r, <1>g DEF WatchExists, At, WatchStages
  <2> QED
    BY <1>14, <2>1, <2>2, ZkCallType DEF WatchExists, ActorTypeOK, CallsTypeOK, callVars
<1>15. CASE WatchChildren
  <2>1. PICK o \in Outcome : GetChildrenWithWatch(handler.msg.path, o)
    BY <1>15 DEF WatchChildren, Outcome
  <2>2. handler' \in Handlers /\ HandlerOK'
    BY <1>15, <1>r, <1>g DEF WatchChildren, At, WatchStages
  <2> QED
    BY <1>15, <2>1, <2>2, ZkCallType DEF WatchChildren, ActorTypeOK, CallsTypeOK, callVars
<1>16. CASE WatchData
  <2>1. PICK o \in Outcome : GetDataWithWatch(handler.msg.path, o)
    BY <1>16 DEF WatchData, Outcome
  <2>2. handler' \in Handlers /\ HandlerOK'
    BY <1>16, <1>r, <1>g DEF WatchData, At, WatchStages
  <2> QED
    BY <1>16, <2>1, <2>2, ZkCallType DEF WatchData, ActorTypeOK, CallsTypeOK, callVars
<1>17. CASE RecordWatch
  <2>1. handler' \in Handlers /\ HandlerOK'
    BY <1>17, <1>r DEF RecordWatch, At, WatchStages
  <2> QED
    BY <1>17, <2>1, <1>m DEF RecordWatch, ActorTypeOK, ZkTypeOK, CallsTypeOK, zkVars, callVars
<1>18. CASE WatchMissing
  <2>1. handler' \in Handlers /\ HandlerOK'
    BY <1>18, <1>r DEF WatchMissing, At, WatchStages
  <2>2. Remove(handler.msg.path, NoOne) \in Message
    BY <1>m, MessageTypes DEF Notifyable
  <2>3. mailbox' \in Seq(Message)
    BY <1>18, <1>m, <1>t, <2>2, MailboxTypes DEF WatchMissing
  <2> QED
    BY <1>18, <2>1, <2>3 DEF WatchMissing, ActorTypeOK, ZkTypeOK, CallsTypeOK, zkVars, callVars
<1> QED
  BY <1>1, <1>2, <1>3, <1>4, <1>5, <1>6, <1>7, <1>8, <1>9, <1>10, <1>11, <1>12, <1>13,
     <1>14, <1>15, <1>16, <1>17, <1>18 DEF ActorStep

LEMMA WatcherStepType == TypeInv /\ WatcherStep => TypeInv'
<1> SUFFICES ASSUME TypeInv, WatcherStep PROVE TypeInv'
  OBVIOUS
<1> USE DEF TypeInv, TypeOK
<1>m. mailbox \in Seq(Message) /\ events \in Seq(Event)
  BY DEF ActorTypeOK, ZkTypeOK
<1>t. \A m \in Message : <<m>> \in Seq(Message)
  OBVIOUS
<1>e. watcher # NoEvent => watcher.event \in Event /\ watcher.event.path \in PathString
  BY ZnodeIsPathString DEF ActorTypeOK, Event
<1>1. CASE ProcessEvent
  <2>1. Head(events) \in Event /\ Tail(events) \in Seq(Event)
    BY <1>1, <1>m DEF ProcessEvent
  <2>2. watcher' \in {NoEvent} \cup [stage : {"unwatch", "followUp"}, event : Event]
    BY <1>1, <2>1 DEF ProcessEvent
  <2> QED
    BY <1>1, <2>1, <2>2 DEF ProcessEvent, ActorTypeOK, ZkTypeOK, CallsTypeOK, HandlerOK, callVars
<1>2. CASE SendUnwatch
  <2>1. watcher # NoEvent
    BY <1>2 DEF SendUnwatch, NoEvent
  <2>2. Unwatch(watcher.event.path) \in Message
    BY <2>1, <1>e, MessageTypes DEF Notifyable
  <2>3. mailbox' \in Seq(Message)
    BY <1>2, <1>m, <2>2, <1>t, MailboxTypes DEF SendUnwatch
  <2>4. watcher' \in [stage : {"unwatch", "followUp"}, event : Event]
    BY <1>2, <2>1 DEF SendUnwatch, ActorTypeOK
  <2> QED
    BY <1>2, <2>3, <2>4 DEF SendUnwatch, ActorTypeOK, ZkTypeOK, CallsTypeOK, HandlerOK, zkVars, callVars
<1>3. CASE SendFollowUp
  <2>1. watcher # NoEvent
    BY <1>3 DEF SendFollowUp, NoEvent
  <2>2. FollowUp(watcher.event) \in Message
    BY <2>1, <1>e, MessageTypes DEF FollowUp, Notifyable
  <2>3. mailbox' \in Seq(Message)
    BY <1>3, <1>m, <2>2, <1>t, MailboxTypes DEF SendFollowUp
  <2> QED
    BY <1>3, <2>3 DEF SendFollowUp, ActorTypeOK, ZkTypeOK, CallsTypeOK, HandlerOK, zkVars, callVars
<1> QED
  BY <1>1, <1>2, <1>3 DEF WatcherStep

LEMMA ApiStepType == TypeInv /\ ApiStep => TypeInv'
<1> SUFFICES ASSUME TypeInv, ApiStep PROVE TypeInv'
  OBVIOUS
<1> USE DEF TypeInv, TypeOK
<1>1. /\ request \in [Request -> Call \cup {NotMade}]
      /\ promise \in [Request -> PromiseState]
      /\ mailbox \in Seq(Message)
  BY DEF CallsTypeOK, ActorTypeOK
<1>t. \A m \in Message : <<m>> \in Seq(Message)
  OBVIOUS
<1>2. PICK r \in Request :
        \/ \E path \in ApiPath : CheckAdd(r, path) \/ CheckRemove(r, path)
        \/ SendAdd(r) \/ SendRemove(r)
        \/ CallStop(r) \/ StopCompletes(r) \/ StopTimesOut(r)
  BY DEF ApiStep
<1>c. ASSUME NEW result \in {"succeeded", "failed"}, Complete(r, result)
      PROVE  promise' \in [Request -> PromiseState]
  BY <1>c, <1>1 DEF Complete, PromiseState
<1>n. ASSUME NEW op \in Op, NEW path \in Seq(Name), NEW at \in {"checked", "returned"},
             NEW attached \in BOOLEAN, Make(r, op, path, at, attached)
      PROVE  request' \in [Request -> Call \cup {NotMade}]
  <2>1. [op |-> op, path |-> path, at |-> at, attached |-> attached] \in Call
    BY <1>n DEF Call
  <2> QED
    BY <1>n, <1>1, <2>1 DEF Make
<1>p. ASSUME request[r] # NotMade
      PROVE  request[r] \in Call /\ request[r].path \in PathString
  BY <1>p, <1>1 DEF Call, PathString
<1>s. ASSUME request[r] # NotMade, Return(r)
      PROVE  request' \in [Request -> Call \cup {NotMade}]
  <2>1. [request[r] EXCEPT !.at = "returned"] \in Call
    BY <1>s, <1>p DEF Call
  <2> QED
    BY <1>s, <2>1, <1>1 DEF Return
<1>o. /\ "addPathToCache" \in Op /\ "removePathFromCache" \in Op /\ "stop" \in Op
      /\ ApiPath \subseteq Seq(Name) /\ Root \in Seq(Name)
  BY CallsAssumption, ZnodeAssumption DEF Op, Root
<1>3. ASSUME NEW path \in ApiPath, CheckAdd(r, path)
      PROVE  TypeInv'
  <2>1. request' \in [Request -> Call \cup {NotMade}]
    <3>1. CASE Cached(path)
      <4>1. Cached(path) = TRUE
        BY Zenon, <3>1 DEF Cached
      <4>2. Make(r, "addPathToCache", path, "checked", TRUE)
        BY Zenon, <1>3, <4>1 DEF CheckAdd
      <4> QED
        BY <4>2, <1>n, <1>o
    <3>2. CASE ~Cached(path)
      <4>1. Cached(path) = FALSE
        BY <3>2 DEF Cached
      <4>2. Make(r, "addPathToCache", path, "checked", FALSE)
        BY Zenon, <1>3, <4>1 DEF CheckAdd
      <4> QED
        BY <4>2, <1>n, <1>o
    <3> QED
      BY <3>1, <3>2
  <2> QED
    BY <1>3, <2>1 DEF CheckAdd, ActorTypeOK, ZkTypeOK, CallsTypeOK, HandlerOK, actorVars, zkVars
<1>4. ASSUME NEW path \in ApiPath, CheckRemove(r, path)
      PROVE  TypeInv'
  <2>1. request' \in [Request -> Call \cup {NotMade}]
    BY <1>4, <1>n, <1>o DEF CheckRemove
  <2>2. promise' \in [Request -> PromiseState]
    BY <1>4, <1>c, <1>1 DEF CheckRemove
  <2> QED
    BY <1>4, <2>1, <2>2 DEF CheckRemove, ActorTypeOK, ZkTypeOK, CallsTypeOK, HandlerOK, actorVars, zkVars
<1>5. CASE SendAdd(r)
  <2>1. request[r] # NotMade
    BY <1>5 DEF SendAdd, IsPending
  <2>2. Msg("ScakkaApiWatchUnderPath", request[r].path, r) \in Message
    BY <2>1, <1>p, MessageTypes DEF MessageType, Notifyable
  <2>3. mailbox' \in Seq(Message)
    BY <1>5, <1>1, <2>2, <1>t, MailboxTypes DEF SendAdd
  <2>4. promise' \in [Request -> PromiseState]
    BY <1>5, <1>c, <1>1 DEF SendAdd
  <2> QED
    BY <1>5, <1>s, <2>1, <2>3, <2>4 DEF SendAdd, ActorTypeOK, ZkTypeOK, CallsTypeOK, HandlerOK, zkVars
<1>6. CASE SendRemove(r)
  <2>1. request[r] # NotMade
    BY <1>6 DEF SendRemove, IsPending
  <2>2. Msg("ScakkaApiRemovePath", request[r].path, r) \in Message
    BY <2>1, <1>p, MessageTypes DEF MessageType, Notifyable
  <2>3. mailbox' \in Seq(Message)
    BY <1>6, <1>1, <2>2, <1>t, MailboxTypes DEF SendRemove
  <2> QED
    BY <1>6, <1>s, <2>1, <2>3 DEF SendRemove, ActorTypeOK, ZkTypeOK, CallsTypeOK, HandlerOK, zkVars
<1>7. CASE CallStop(r)
  <2>1. request' \in [Request -> Call \cup {NotMade}]
    BY <1>7, <1>n, <1>o DEF CallStop
  <2>2. mailbox' \in Seq(Message)
    BY <1>7, <1>1, RootMessageTypes, <1>t, MailboxTypes DEF CallStop
  <2> QED
    BY <1>7, <2>1, <2>2 DEF CallStop, ActorTypeOK, ZkTypeOK, CallsTypeOK, HandlerOK, zkVars
<1>8. CASE StopCompletes(r) \/ StopTimesOut(r)
  BY <1>8, <1>c DEF StopCompletes, StopTimesOut, ActorTypeOK, ZkTypeOK, CallsTypeOK, HandlerOK, actorVars, zkVars
<1> QED
  BY <1>2, <1>3, <1>4, <1>5, <1>6, <1>7, <1>8

LEMMA TypeInvStep == TypeInv /\ [Next]_vars => TypeInv'
<1> SUFFICES ASSUME TypeInv, [Next]_vars PROVE TypeInv'
  OBVIOUS
<1>1. CASE ActorStep
  BY <1>1, ActorStepType
<1>2. CASE WatcherStep
  BY <1>2, WatcherStepType
<1>3. CASE ApiStep
  BY <1>3, ApiStepType
<1>4. CASE WriterStep
  <2>1. PICK p \in Znode : CreateNode(p) \/ DeleteNode(p) \/ SetNodeData(p)
    BY <1>4 DEF WriterStep
  <2>2. ZkTypeOK'
    BY <2>1, WriterType DEF TypeInv, TypeOK
  <2> QED
    BY <1>4, <2>2 DEF WriterStep, TypeInv, TypeOK, ActorTypeOK, CallsTypeOK, HandlerOK, actorVars, callVars
<1>5. CASE SessionStep
  <2>1. (Disconnect \/ Reconnect) /\ UNCHANGED <<actorVars, callVars>>
    BY <1>5 DEF SessionStep, LoseConnection, FindConnection
  <2>2. ZkTypeOK'
    BY <2>1, SessionType DEF TypeInv, TypeOK
  <2> QED
    BY <2>1, <2>2 DEF TypeInv, TypeOK, ActorTypeOK, CallsTypeOK, HandlerOK, actorVars, callVars
<1>6. CASE UNCHANGED vars
  BY <1>6 DEF vars, actorVars, callVars, zkVars, TypeInv, TypeOK, ZkTypeOK, ActorTypeOK, CallsTypeOK, HandlerOK
<1> QED
  BY <1>1, <1>2, <1>3, <1>4, <1>5, <1>6 DEF Next

(* Every variable keeps its type, whatever the tree, the calls and the     *)
(* bounds are.                                                             *)
THEOREM TypeCorrect == Spec => []TypeOK
<1>1. Spec => []TypeInv
  BY TypeInvInit, TypeInvStep, PTL DEF Spec
<1>2. TypeInv => TypeOK
  BY DEF TypeInv
<1> QED
  BY <1>1, <1>2, PTL

-----------------------------------------------------------------------------
(***************************************************************************)
(* Nothing outside the requested subtrees is cached or watched.  What is   *)
(* in the sets comes from messages, events and pending calls, so these     *)
(* must name requested paths only; then every message a handler builds     *)
(* does too, because it is for the same path or for a child of it.         *)
(***************************************************************************)
Requested(m) == UnderRequested(m.path)
RequestedMessage == {m \in Message : m = Shutdown \/ Requested(m)}

SubtreeInv ==
  /\ mailbox \in Seq(RequestedMessage)
  /\ handler # Idle => Requested(handler.msg)
  /\ watcher # NoEvent => UnderRequested(watcher.event.path)
  /\ \A r \in Request : IsPending(r, "removePathFromCache") => UnderRequested(request[r].path)
  /\ OnlyRequestedSubtrees

LEMMA OnlyCallersCall == Next => ApiStep \/ request' = request
BY DEF Next, ActorStep, WatcherStep, WriterStep, SessionStep, LoseConnection, FindConnection, callVars,
   HandleWatchUnderPath, HandleRemovePath, HandleShutdown, HandleUpdate, FinishUpdate,
   HandleAdd, ListChildren, StoreEntry, FailAdd, HandleRemove, Evict, HandleSetWatcher,
   HandleUnwatch, WatchExists, WatchChildren, WatchData, RecordWatch, WatchMissing,
   ProcessEvent, SendUnwatch, SendFollowUp

(* A call that was made stays what it is. *)
LEMMA CallsAreKept ==
  ASSUME TypeInv, ApiStep, NEW r \in Request, request[r] # NotMade
  PROVE  /\ request[r] \in Call /\ request'[r] \in Call /\ request'[r] # NotMade
         /\ request'[r].op = request[r].op
         /\ request'[r].path = request[r].path
<1>1. request \in [Request -> Call \cup {NotMade}]
  BY DEF TypeInv, TypeOK, CallsTypeOK
<1>2. request[r] \in Call
  BY <1>1
<1>3. request'[r] = request[r] \/ Return(r)
  <2>1. PICK q \in Request :
          \/ \E path \in ApiPath : CheckAdd(q, path) \/ CheckRemove(q, path)
          \/ SendAdd(q) \/ SendRemove(q)
          \/ CallStop(q) \/ StopCompletes(q) \/ StopTimesOut(q)
    BY DEF ApiStep
  <2> QED
    BY <2>1, <1>1 DEF CheckAdd, CheckRemove, SendAdd, SendRemove, CallStop,
         StopCompletes, StopTimesOut, Begin, Make, Return
<1>4. CASE request'[r] = request[r]
  BY <1>2, <1>4
<1>5. CASE Return(r)
  BY <1>1, <1>2, <1>5 DEF Return, NotMade, Call
<1> QED
  BY <1>3, <1>4, <1>5

(* What was requested stays so: calls are never taken back. *)
LEMMA RequestedMonotonic ==
  ASSUME TypeInv, Next
  PROVE  /\ RequestedRoots \in SUBSET Seq(Name)
         /\ RequestedRoots \subseteq RequestedRoots'
         /\ request' = request => RequestedRoots' = RequestedRoots
<1>1. request \in [Request -> Call \cup {NotMade}]
  BY DEF TypeInv, TypeOK, CallsTypeOK
<1>2. RequestedRoots \in SUBSET Seq(Name)
  BY <1>1 DEF RequestedRoots, Call
<1>3. request' = request => RequestedRoots' = RequestedRoots
  BY DEF RequestedRoots
<1>4. CASE request' = request
  BY <1>2, <1>3, <1>4
<1>5. CASE ApiStep
  <2>1. \A r \in Request : request[r] # NotMade =>
          /\ request'[r] # NotMade
          /\ request'[r].op = request[r].op
          /\ request'[r].path = request[r].path
    BY <1>5, CallsAreKept
  <2> QED
    BY <1>2, <1>3, <2>1 DEF RequestedRoots
<1>6. ApiStep \/ request' = request
  BY OnlyCallersCall
<1> QED
  BY <1>4, <1>5, <1>6

(* A requested path gives requested messages, also for its children.       *)
LEMMA RequestedMessages ==
  ASSUME TypeInv, NEW p \in PathString, UnderRequested(p), NEW r \in Notifyable,
         NEW rec \in BOOLEAN, NEW d \in Nat
  PROVE  /\ Remove(p, r) \in RequestedMessage
         /\ SetWatcher(p, r) \in RequestedMessage
         /\ Unwatch(p) \in RequestedMessage
         /\ Update(p, rec, r) \in RequestedMessage
         /\ Add(p, d, rec, r) \in RequestedMessage
         /\ \A c \in Name : UnderRequested(ChildPath(p, c))
<1>1. \A c \in Name : UnderRequested(ChildPath(p, c))
  <2> SUFFICES ASSUME NEW c \in Name PROVE UnderRequested(ChildPath(p, c))
    OBVIOUS
  <2>1. PICK root \in RequestedRoots : IsUnder(root, p)
    BY DEF UnderRequested
  <2>2. root \in Seq(Name)
    BY DEF RequestedRoots, TypeInv, TypeOK, CallsTypeOK, Call
  <2>3. IsUnder(root, ChildPath(p, c))
    BY <2>1, <2>2, UnderChild
  <2> QED
    BY <2>3 DEF UnderRequested
<1>2. /\ Remove(p, r).path = p /\ SetWatcher(p, r).path = p /\ Unwatch(p).path = p
      /\ Update(p, rec, r).path = p /\ Add(p, d, rec, r).path = p
  BY DEF Remove, SetWatcher, Unwatch, Update, Add, Msg
<1> QED
  BY <1>1, <1>2, MessageTypes DEF RequestedMessage, Requested

LEMMA SubtreeActorStep == TypeInv /\ SubtreeInv /\ ActorStep => SubtreeInv'
<1> SUFFICES ASSUME TypeInv, SubtreeInv, ActorStep PROVE SubtreeInv'
  OBVIOUS
<1>1. /\ request' = request /\ RequestedRoots' = RequestedRoots /\ watcher' = watcher
  <2>1. request' = request /\ watcher' = watcher
    BY DEF ActorStep, callVars,
     HandleWatchUnderPath, HandleRemovePath, HandleShutdown, HandleUpdate, FinishUpdate,
     HandleAdd, ListChildren, StoreEntry, FailAdd, HandleRemove, Evict, HandleSetWatcher,
     HandleUnwatch, WatchExists, WatchChildren, WatchData, RecordWatch, WatchMissing
  <2> QED
    BY <2>1, RequestedMonotonic DEF Next
<1>2. (\A p : UnderRequested(p)' <=> UnderRequested(p)) /\ RequestedMessage' = RequestedMessage
  BY <1>1 DEF UnderRequested, RequestedMessage, Requested
<1>3. /\ mailbox \in Seq(RequestedMessage)
      /\ handler.stage # "idle" => UnderRequested(handler.msg.path)
      /\ \A p \in DOMAIN cache \cup watchedNodes \cup addedPaths : UnderRequested(p)
  BY DEF SubtreeInv, OnlyRequestedSubtrees, Idle, Handling, Requested
<1>4. /\ handler.msg \in Message /\ handler.msg.path \in PathString
      /\ handler.msg.notify \in Notifyable /\ handler.msg.data \in Nat
      /\ handler.msg.recursive \in BOOLEAN /\ handler.listed \in SUBSET Name
  BY DEF TypeInv, TypeOK, ActorTypeOK, Message
<1>t. << >> \in Seq(RequestedMessage) /\ \A m \in RequestedMessage : <<m>> \in Seq(RequestedMessage)
  OBVIOUS
<1>r. ASSUME NEW type \in MessageType \ {"ScakkaApiShutdown"}, Received(type)
      PROVE  /\ mailbox # << >> /\ Head(mailbox) \in RequestedMessage
             /\ Head(mailbox) \in Message /\ Head(mailbox).path \in PathString
             /\ UnderRequested(Head(mailbox).path)
  <2>1. mailbox # << >> /\ Head(mailbox) \in RequestedMessage /\ Head(mailbox).type = type
    BY <1>3, <1>r DEF Received
  <2>2. Shutdown.type = "ScakkaApiShutdown"
    BY DEF Shutdown, Msg
  <2> QED
    BY <2>1, <2>2 DEF RequestedMessage, Requested, Message
(* What remains to show of a step: its new mailbox, handler and sets. *)
<1>q. ASSUME mailbox' \in Seq(RequestedMessage),
             handler' = Idle \/ UnderRequested(handler'.msg.path),
             \A p \in (DOMAIN cache' \cup watchedNodes' \cup addedPaths') : UnderRequested(p)
      PROVE  SubtreeInv'
  BY <1>q, <1>1, <1>2 DEF SubtreeInv, OnlyRequestedSubtrees, Requested, IsPending
<1>5. CASE HandleWatchUnderPath
  <2>1. /\ mailbox # << >> /\ Head(mailbox) \in Message /\ UnderRequested(Head(mailbox).path)
    BY <1>5, <1>r DEF HandleWatchUnderPath, MessageType
  <2>2. Update(Head(mailbox).path, TRUE, Head(mailbox).notify) \in RequestedMessage
    BY <2>1, RequestedMessages DEF Message
  <2>3. mailbox' \in Seq(RequestedMessage)
    BY <1>5, <1>3, <1>t, <2>1, <2>2, MailboxOf DEF HandleWatchUnderPath
  <2> QED
    BY <1>5, <1>3, <1>q, <2>3 DEF HandleWatchUnderPath, SubtreeInv, Requested
<1>6. CASE HandleRemovePath
  <2>1. /\ mailbox # << >> /\ Head(mailbox) \in Message /\ UnderRequested(Head(mailbox).path)
    BY <1>6, <1>r DEF HandleRemovePath, MessageType
  <2>2. Remove(Head(mailbox).path, Head(mailbox).notify) \in RequestedMessage
    BY <2>1, RequestedMessages DEF Message
  <2>3. mailbox' \in Seq(RequestedMessage)
    BY <1>6, <1>3, <1>t, <2>1, <2>2, MailboxOf DEF HandleRemovePath
  <2> QED
    BY <1>6, <1>3, <1>q, <2>3 DEF HandleRemovePath, SubtreeInv, Requested
<1>7. CASE HandleShutdown
  <2>1. handler' = Idle /\ cache' = << >> /\ mailbox' = << >> /\ watchedNodes' = {} /\ addedPaths' = {}
    BY <1>7 DEF HandleShutdown, Received
  <2>2. DOMAIN cache' = {}
    BY <2>1
  <2> QED
    BY <2>1, <2>2, <1>t, <1>q
<1>8. CASE HandleUpdate
  <2>1. /\ mailbox # << >> /\ Head(mailbox) \in Message /\ UnderRequested(Head(mailbox).path)
    BY <1>8, <1>r DEF HandleUpdate, MessageType
  <2>2. mailbox' \in Seq(RequestedMessage)
    BY <1>8, <1>3, <1>t, <2>1, MailboxOf DEF HandleUpdate
  <2>3. handler' = Idle \/ handler'.msg.path = Head(mailbox).path
    BY <1>8, <2>1 DEF HandleUpdate, Done, Handling, Message
  <2> QED
    BY <1>8, <1>3, <1>q, <2>1, <2>2, <2>3 DEF HandleUpdate
<1>9. CASE FinishUpdate
  <2>1. UnderRequested(handler.msg.path)
    BY <1>9, <1>3 DEF FinishUpdate, At
  <2>2. /\ Add(handler.msg.path, handler.msg.data, handler.msg.recursive, handler.msg.notify)
             \in RequestedMessage
        /\ SetWatcher(handler.msg.path, handler.msg.notify) \in RequestedMessage
    BY <2>1, <1>4, RequestedMessages
  <2>3. mailbox' \in Seq(RequestedMessage)
    BY <1>9, <1>3, <1>t, <2>2, MailboxOf DEF FinishUpdate
  <2> QED
    BY <1>9, <1>3, <1>q, <2>3 DEF FinishUpdate, Done
<1>w. ASSUME NEW msg, UnderRequested(msg.path),
             msg.type \in {"Add", "Remove", "SetWatcher"},
             handler' = AfterWatchers(msg) \/ handler' = Handling("watchExists", msg, {})
      PROVE  handler' = Idle \/ UnderRequested(handler'.msg.path)
  BY <1>w DEF AfterWatchers, Handling
<1>10. CASE HandleAdd
  <2>1. /\ mailbox # << >> /\ Head(mailbox).type = "Add" /\ UnderRequested(Head(mailbox).path)
    BY <1>10, <1>r DEF HandleAdd, MessageType, Received
  <2>2. mailbox' \in Seq(RequestedMessage)
    BY <1>10, <1>3, <1>t, <2>1, MailboxOf DEF HandleAdd
  <2>3. handler' = Idle \/ UnderRequested(handler'.msg.path)
    BY <1>10, <1>w, <2>1 DEF HandleAdd, SetWatchers
  <2> QED
    BY <1>10, <1>3, <1>q, <2>2, <2>3 DEF HandleAdd
<1>11. CASE ListChildren
  <2>1. UnderRequested(handler.msg.path)
    BY <1>11, <1>3 DEF ListChildren, At
  <2>2. handler'.msg = handler.msg
    BY <1>11, <1>4 DEF ListChildren, GoTo, Handling, TypeInv, TypeOK, ActorTypeOK
  <2> QED
    BY <1>11, <1>3, <1>q, <2>1, <2>2 DEF ListChildren
<1>12. CASE StoreEntry
  <2> DEFINE add    == handler.msg
             update == [c \in handler.listed |-> Update(ChildPath(add.path, c), TRUE, add.notify)]
  <2>1. UnderRequested(add.path)
    BY <1>12, <1>3 DEF StoreEntry, At
  <2>2. update \in [handler.listed -> RequestedMessage]
    <3> SUFFICES ASSUME NEW c \in handler.listed
                 PROVE  Update(ChildPath(add.path, c), TRUE, add.notify) \in RequestedMessage
      OBVIOUS
    <3>1. UnderRequested(ChildPath(add.path, c)) /\ ChildPath(add.path, c) \in PathString
      BY <2>1, <1>4, RequestedMessages, ChildPathType
    <3> QED
      BY <3>1, <1>4, RequestedMessages
  <2>3. mailbox' \in Seq(RequestedMessage)
    <3>1. PICK updates \in ForEachChild(update) : Send(IF add.recursive THEN updates ELSE << >>)
      BY <1>12 DEF StoreEntry
    <3>2. updates \in Seq(RequestedMessage)
      BY <2>2, <1>4, ForEachChildType
    <3> QED
      BY <3>1, <3>2, <1>3, <1>t, MailboxOf
  <2>4. DOMAIN cache' \subseteq DOMAIN cache \cup {add.path} /\ addedPaths' \subseteq addedPaths \cup {add.path}
    BY <1>12 DEF StoreEntry, CacheWith, SucceedNotifyable
  <2>5. watchedNodes' = watchedNodes /\ handler' = Idle
    BY <1>12 DEF StoreEntry, Done
  <2> QED
    BY <1>3, <1>q, <2>1, <2>3, <2>4, <2>5
<1>13. CASE FailAdd
  <2>1. UnderRequested(handler.msg.path)
    BY <1>13, <1>3 DEF FailAdd, At
  <2>2. Remove(handler.msg.path, NoOne) \in RequestedMessage
    BY <2>1, <1>4, RequestedMessages DEF Notifyable
  <2>3. mailbox' \in Seq(RequestedMessage)
    BY <1>13, <1>3, <1>t, <2>2, MailboxOf DEF FailAdd
  <2> QED
    BY <1>13, <1>3, <1>q, <2>3 DEF FailAdd, Done
<1>14. CASE HandleRemove
  <2>1. /\ mailbox # << >> /\ Head(mailbox) \in Message /\ UnderRequested(Head(mailbox).path)
    BY <1>14, <1>r DEF HandleRemove, MessageType
  <2>2. mailbox' \in Seq(RequestedMessage)
    BY <1>14, <1>3, <1>t, <2>1, MailboxOf DEF HandleRemove
  <2>3. handler'.msg = Head(mailbox) /\ watchedNodes' \subseteq watchedNodes
    BY <1>14 DEF HandleRemove, Handling
  <2> QED
    BY <1>14, <1>3, <1>q, <2>1, <2>2, <2>3 DEF HandleRemove
<1>15. CASE Evict
  <2> DEFINE remove == handler.msg
             send   == [c \in cache[remove.path].children |->
                          Remove(ChildPath(remove.path, c), remove.notify)]
  <2>1. UnderRequested(remove.path) /\ handler' = Idle /\ watchedNodes' = watchedNodes
    BY <1>15, <1>3 DEF Evict, At, Done
  <2>2. CASE /\ Cached(remove.path)
             /\ cache' = CacheWithout(remove.path)
             /\ SucceedNotifyable(remove.notify, remove.path)
             /\ \E removes \in ForEachChild(send) : Send(removes)
    <3>1. cache[remove.path].children \in SUBSET Name
      BY <2>2 DEF Cached, TypeInv, TypeOK, ActorTypeOK, Entry
    <3>2. send \in [cache[remove.path].children -> RequestedMessage]
      <4> SUFFICES ASSUME NEW c \in cache[remove.path].children
                   PROVE  Remove(ChildPath(remove.path, c), remove.notify) \in RequestedMessage
        OBVIOUS
      <4>1. UnderRequested(ChildPath(remove.path, c)) /\ ChildPath(remove.path, c) \in PathString
        BY <2>1, <3>1, <1>4, RequestedMessages, ChildPathType
      <4> QED
        BY <4>1, <1>4, RequestedMessages
    <3>3. mailbox' \in Seq(RequestedMessage)
      <4>1. PICK removes \in ForEachChild(send) : Send(removes)
        BY <2>2
      <4>2. removes \in Seq(RequestedMessage)
        BY <3>1, <3>2, ForEachChildType
      <4> QED
        BY <4>1, <4>2, <1>3, MailboxOf
    <3>4. DOMAIN cache' \subseteq DOMAIN cache /\ addedPaths' \subseteq addedPaths \cup {remove.path}
      BY <2>2 DEF CacheWithout, SucceedNotifyable
    <3> QED
      BY <1>3, <1>q, <2>1, <3>3, <3>4
  <2>3. CASE UNCHANGED <<cache, promise, addedPaths, mailbox>>
    BY <1>3, <1>q, <2>1, <2>3
  <2> QED
    BY <1>15, <2>2, <2>3 DEF Evict
<1>16. CASE HandleSetWatcher
  <2>1. /\ mailbox # << >> /\ Head(mailbox).type = "SetWatcher" /\ UnderRequested(Head(mailbox).path)
    BY <1>16, <1>r DEF HandleSetWatcher, MessageType, Received
  <2>2. mailbox' \in Seq(RequestedMessage)
    BY <1>16, <1>3, <1>t, <2>1, MailboxOf DEF HandleSetWatcher
  <2>3. handler' = Idle \/ UnderRequested(handler'.msg.path)
    BY <1>16, <1>w, <2>1 DEF HandleSetWatcher, SetWatchers
  <2> QED
    BY <1>16, <1>3, <1>q, <2>2, <2>3 DEF HandleSetWatcher
<1>17. CASE HandleUnwatch
  <2>1. mailbox' \in Seq(RequestedMessage)
    BY <1>17, <1>3, <1>t, MailboxOf DEF HandleUnwatch, Received
  <2>2. handler' = Idle /\ watchedNodes' \subseteq watchedNodes
    BY <1>17 DEF HandleUnwatch, Received
  <2> QED
    BY <1>17, <1>3, <1>q, <2>1, <2>2 DEF HandleUnwatch
<1>s. ASSUME handler.stage \in WatchStages, Resume
      PROVE  handler' = Idle \/ UnderRequested(handler'.msg.path)
  BY <1>s, <1>w, <1>3 DEF Resume, TypeInv, HandlerOK, WatchStages
<1>g. ASSUME handler.stage # "idle", NEW stage, GoTo(stage)
      PROVE  UnderRequested(handler'.msg.path)
  BY <1>g, <1>3 DEF GoTo, TypeInv, TypeOK, ActorTypeOK
<1>18. CASE WatchExists \/ WatchChildren \/ WatchData
  <2>1. handler' = Idle \/ UnderRequested(handler'.msg.path)
    BY <1>18, <1>s, <1>g DEF WatchExists, WatchChildren, WatchData, At, WatchStages
  <2> QED
    BY <1>18, <1>3, <1>q, <2>1 DEF WatchExists, WatchChildren, WatchData
<1>19. CASE RecordWatch
  <2>1. handler' = Idle \/ UnderRequested(handler'.msg.path)
    BY <1>19, <1>s DEF RecordWatch, At, WatchStages
  <2> QED
    BY <1>19, <1>3, <1>q, <2>1 DEF RecordWatch, At
<1>20. CASE WatchMissing
  <2>1. handler' = Idle \/ UnderRequested(handler'.msg.path)
    BY <1>20, <1>s DEF WatchMissing, At, WatchStages
  <2>2. Remove(handler.msg.path, NoOne) \in RequestedMessage
    BY <1>20, <1>3, <1>4, RequestedMessages DEF WatchMissing, At, Notifyable
  <2>3. mailbox' \in Seq(RequestedMessage)
    BY <1>20, <1>3, <1>t, <2>2, MailboxOf DEF WatchMissing
  <2> QED
    BY <1>20, <1>3, <1>q, <2>1, <2>3 DEF WatchMissing
<1> QED
  BY <1>5, <1>6, <1>7, <1>8, <1>9, <1>10, <1>11, <1>12, <1>13, <1>14, <1>15, <1>16, <1>17,
     <1>18, <1>19, <1>20 DEF ActorStep

(* The watcher acts only on events of watched, hence requested, paths. *)
LEMMA SubtreeWatcherStep == TypeInv /\ SubtreeInv /\ WatcherStep => SubtreeInv'
<1> SUFFICES ASSUME TypeInv, SubtreeInv, WatcherStep PROVE SubtreeInv'
  OBVIOUS
<1>1. /\ request' = request /\ RequestedRoots' = RequestedRoots
      /\ UNCHANGED <<handler, watchedNodes, addedPaths, cache>>
  <2>1. request' = request /\ UNCHANGED <<handler, watchedNodes, addedPaths, cache>>
    BY DEF WatcherStep, callVars, ProcessEvent, SendUnwatch, SendFollowUp
  <2> QED
    BY <2>1, RequestedMonotonic DEF Next
<1>2. (\A p : UnderRequested(p)' <=> UnderRequested(p)) /\ RequestedMessage' = RequestedMessage
  BY <1>1 DEF UnderRequested, RequestedMessage, Requested
<1>3. /\ mailbox \in Seq(RequestedMessage)
      /\ \A p \in watchedNodes : UnderRequested(p)
  BY DEF SubtreeInv, OnlyRequestedSubtrees
<1>4. watcher # NoEvent => watcher.event.path \in PathString /\ UnderRequested(watcher.event.path)
  BY ZnodeIsPathString DEF SubtreeInv, TypeInv, TypeOK, ActorTypeOK, Event
<1>q. ASSUME mailbox' \in Seq(RequestedMessage),
             watcher' # NoEvent => UnderRequested(watcher'.event.path)
      PROVE  SubtreeInv'
  BY <1>q, <1>1, <1>2 DEF SubtreeInv, OnlyRequestedSubtrees, Requested, IsPending
<1>t. \A m \in RequestedMessage : <<m>> \in Seq(RequestedMessage)
  OBVIOUS
<1>5. CASE ProcessEvent
  <2>1. watcher' # NoEvent => watcher'.event = Head(events) /\ Head(events).path \in watchedNodes
    BY <1>5 DEF ProcessEvent, WatchedSeen
  <2> QED
    BY <1>5, <1>3, <1>q, <2>1 DEF ProcessEvent
<1>6. CASE SendUnwatch
  <2>1. watcher # NoEvent
    BY <1>6 DEF SendUnwatch, NoEvent
  <2>2. Unwatch(watcher.event.path) \in RequestedMessage
    BY <2>1, <1>4, RequestedMessages DEF Notifyable
  <2>3. mailbox' \in Seq(RequestedMessage)
    BY <1>6, <1>3, <1>t, <2>2, MailboxOf DEF SendUnwatch
  <2>4. watcher'.event = watcher.event
    BY <1>6, <2>1 DEF SendUnwatch, TypeInv, TypeOK, ActorTypeOK
  <2> QED
    BY <1>4, <1>q, <2>1, <2>3, <2>4
<1>7. CASE SendFollowUp
  <2>1. watcher # NoEvent
    BY <1>7 DEF SendFollowUp, NoEvent
  <2>2. FollowUp(watcher.event) \in RequestedMessage
    BY <2>1, <1>4, RequestedMessages DEF FollowUp, Notifyable
  <2>3. mailbox' \in Seq(RequestedMessage)
    BY <1>7, <1>3, <1>t, <2>2, MailboxOf DEF SendFollowUp
  <2> QED
    BY <1>7, <1>q, <2>3 DEF SendFollowUp
<1> QED
  BY <1>5, <1>6, <1>7 DEF WatcherStep

(* Callers add to what is requested, or name a path that was cached. *)
LEMMA SubtreeApiStep == TypeInv /\ SubtreeInv /\ ApiStep => SubtreeInv'
<1> SUFFICES ASSUME TypeInv, SubtreeInv, ApiStep PROVE SubtreeInv'
  OBVIOUS
<1>1. PICK r \in Request :
        \/ \E path \in ApiPath : CheckAdd(r, path) \/ CheckRemove(r, path)
        \/ SendAdd(r) \/ SendRemove(r)
        \/ CallStop(r) \/ StopCompletes(r) \/ StopTimesOut(r)
  BY DEF ApiStep
<1>2. /\ RequestedRoots \subseteq RequestedRoots'
      /\ \A p : UnderRequested(p) => UnderRequested(p)'
      /\ RequestedMessage \subseteq RequestedMessage'
  BY RequestedMonotonic DEF Next, UnderRequested, RequestedMessage, Requested
<1>3. /\ mailbox \in Seq(RequestedMessage)
      /\ request \in [Request -> Call \cup {NotMade}]
      /\ UNCHANGED <<handler, watchedNodes, addedPaths, cache, watcher>>
  BY <1>1 DEF SubtreeInv, TypeInv, TypeOK, CallsTypeOK, CheckAdd, CheckRemove, SendAdd, SendRemove,
     CallStop, StopCompletes, StopTimesOut, actorVars
<1>t. \A m \in RequestedMessage : <<m>> \in Seq(RequestedMessage)
  OBVIOUS
<1>4. mailbox' \in Seq(RequestedMessage)
  <2>1. CASE UNCHANGED actorVars
    BY <2>1, <1>3 DEF actorVars
  <2>2. CASE SendAdd(r)
    <3>1. request[r] \in Call /\ request[r].path \in PathString
      BY <2>2, <1>3 DEF SendAdd, IsPending, Call, PathString
    <3>2. request[r].path \in RequestedRoots /\ IsUnder(request[r].path, request[r].path)
      BY <2>2, <3>1, UnderSelf DEF SendAdd, IsPending, RequestedRoots, Call
    <3>3. Msg("ScakkaApiWatchUnderPath", request[r].path, r) \in RequestedMessage
      <4>1. Msg("ScakkaApiWatchUnderPath", request[r].path, r) \in Message
        BY <3>1, MessageTypes DEF MessageType, Notifyable
      <4>2. Msg("ScakkaApiWatchUnderPath", request[r].path, r).path = request[r].path
        BY DEF Msg
      <4> QED
        BY <3>2, <4>1, <4>2 DEF RequestedMessage, Requested, UnderRequested
    <3> QED
      BY <2>2, <3>3, <1>3, <1>t, MailboxOf DEF SendAdd
  <2>3. CASE SendRemove(r)
    <3>1. request[r] \in Call /\ request[r].path \in PathString
      BY <2>3, <1>3 DEF SendRemove, IsPending, Call, PathString
    <3>2. UnderRequested(request[r].path)
      BY <2>3 DEF SendRemove, SubtreeInv
    <3>3. Msg("ScakkaApiRemovePath", request[r].path, r) \in RequestedMessage
      <4>1. Msg("ScakkaApiRemovePath", request[r].path, r) \in Message
        BY <3>1, MessageTypes DEF MessageType, Notifyable
      <4>2. Msg("ScakkaApiRemovePath", request[r].path, r).path = request[r].path
        BY DEF Msg
      <4> QED
        BY <3>2, <4>1, <4>2 DEF RequestedMessage, Requested
    <3> QED
      BY <2>3, <3>3, <1>3, <1>t, MailboxOf DEF SendRemove
  <2>4. CASE CallStop(r)
    <3>1. Shutdown \in RequestedMessage
      BY RootMessageTypes DEF RequestedMessage
    <3> QED
      BY <2>4, <3>1, <1>3, <1>t, MailboxOf DEF CallStop
  <2> QED
    BY <1>1, <2>1, <2>2, <2>3, <2>4 DEF CheckAdd, CheckRemove, StopCompletes, StopTimesOut
<1>5. mailbox' \in Seq(RequestedMessage')
  BY <1>2, <1>4, SeqMonotonic
<1>6. ASSUME NEW q \in Request, IsPending(q, "removePathFromCache")'
      PROVE  UnderRequested(request[q].path)'
  <2>1. CASE IsPending(q, "removePathFromCache") /\ request'[q] = request[q]
    BY <2>1, <1>2 DEF SubtreeInv, UnderRequested
  <2>2. CASE q = r /\ \E path \in ApiPath : CheckRemove(r, path) /\ Cached(path)
    <3>1. PICK path \in ApiPath : CheckRemove(r, path) /\ Cached(path)
      BY <2>2
    <3>2. request'[r].path = path
      BY <3>1, <1>3 DEF CheckRemove, Make
    <3>3. UnderRequested(path)
      BY <3>1 DEF SubtreeInv, OnlyRequestedSubtrees, Cached
    <3> QED
      BY <2>2, <3>2, <3>3, <1>2 DEF UnderRequested
  <2>3. (IsPending(q, "removePathFromCache") /\ request'[q] = request[q])
          \/ (q = r /\ \E path \in ApiPath : CheckRemove(r, path) /\ Cached(path))
    <3>1. CASE q # r \/ StopCompletes(r) \/ StopTimesOut(r)
      BY <3>1, <1>1, <1>3, <1>6 DEF CheckAdd, CheckRemove, SendAdd, SendRemove, CallStop,
         StopCompletes, StopTimesOut, Make, Return, IsPending
    <3>2. ASSUME q = r, NEW path \in ApiPath, CheckAdd(r, path)
          PROVE  FALSE
      BY <3>2, <1>3, <1>6 DEF CheckAdd, Make, IsPending
    <3>3. ASSUME q = r, NEW path \in ApiPath, CheckRemove(r, path)
          PROVE  Cached(path)
      BY <3>3, <1>3, <1>6 DEF CheckRemove, Make, IsPending
    <3>4. CASE q = r /\ (SendAdd(r) \/ SendRemove(r))
      <4>1. request[r] \in Call
        BY <3>4, <1>3 DEF SendAdd, SendRemove, IsPending
      <4>2. request'[r].at = "returned"
        BY <3>4, <4>1, <1>3 DEF SendAdd, SendRemove, Return, Call
      <4> QED
        BY <3>4, <4>2, <1>6 DEF IsPending
    <3>5. CASE q = r /\ CallStop(r)
      BY <3>5, <1>3, <1>6 DEF CallStop, Make, IsPending
    <3> QED
      BY <1>1, <3>1, <3>2, <3>3, <3>4, <3>5
  <2> QED
    BY <2>1, <2>2, <2>3
<1> QED
  BY <1>2, <1>3, <1>5, <1>6 DEF SubtreeInv, OnlyRequestedSubtrees, Requested

LEMMA SubtreeInvStep == TypeInv /\ SubtreeInv /\ [Next]_vars => SubtreeInv'
<1> SUFFICES ASSUME TypeInv, SubtreeInv, [Next]_vars PROVE SubtreeInv'
  OBVIOUS
<1>1. CASE UNCHANGED <<actorVars, callVars>>
  <2>1. RequestedRoots' = RequestedRoots
    BY <1>1 DEF callVars, RequestedRoots
  <2>2. (\A p : UnderRequested(p)' <=> UnderRequested(p)) /\ RequestedMessage' = RequestedMessage
    BY <2>1 DEF UnderRequested, RequestedMessage, Requested
  <2> QED
    BY <1>1, <2>2 DEF actorVars, callVars, SubtreeInv, OnlyRequestedSubtrees, Requested, IsPending
<1> QED
  BY <1>1, SubtreeActorStep, SubtreeWatcherStep, SubtreeApiStep
     DEF Next, WriterStep, SessionStep, LoseConnection, FindConnection, vars

LEMMA SubtreeInvInit == Init => SubtreeInv
<1> SUFFICES ASSUME Init PROVE SubtreeInv
  OBVIOUS
<1>1. DOMAIN cache = {}
  BY DEF Init, ActorInit
<1> QED
  BY <1>1 DEF Init, ActorInit, CallsInit, SubtreeInv, OnlyRequestedSubtrees, IsPending

(* The cache never holds, and the updater never watches, a path that is    *)
(* not at or under one that a caller added.                                *)
THEOREM OnlyRequested == Spec => []OnlyRequestedSubtrees
<1>1. Spec => []TypeInv
  BY TypeInvInit, TypeInvStep, PTL DEF Spec
<1>2. Spec => []SubtreeInv
  BY <1>1, SubtreeInvInit, SubtreeInvStep, PTL DEF Spec
<1>3. SubtreeInv => OnlyRequestedSubtrees
  BY DEF SubtreeInv
<1> QED
  BY <1>2, <1>3, PTL
=============================================================================
