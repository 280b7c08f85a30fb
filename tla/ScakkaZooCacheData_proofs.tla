---------------------- MODULE ScakkaZooCacheData_proofs ----------------------
(***************************************************************************)
(* The data of a path never goes back.                                     *)
(*                                                                         *)
(* Data travels from ZooKeeper, where it was read by Update, through the   *)
(* mailbox and the handler of Add into the cache.  Seen(p, d) says that    *)
(* data as new as d is what every place on this way holds for path p.  It  *)
(* is true of whatever is in the cache, and once it is true it stays so:   *)
(* what a caller has read of a path it never reads older, also when the    *)
(* entry is evicted and stored again in between.                           *)
(***************************************************************************)
EXTENDS ScakkaZooCacheStop_proofs

(* What the handler works on at the stages that only one message reaches.  *)
StageInv ==
  /\ handler.stage \in {"fetched", "fetchMissing"} => handler.msg.type = "Update"
  /\ handler.stage \in {"list", "store", "addMissing", "addFailed"} => handler.msg.type = "Add"
  /\ handler.stage = "evict" => handler.msg.type = "Remove"

NotAdd       == {m \in Message : m.type # "Add"}
OldAdd(p, d) == {m \in Message : m.type = "Add" /\ m.path = p /\ m.data < d}

(* In ZooKeeper, or on the way into the mailbox; in the mailbox; in the    *)
(* handler of Add; in the cache.                                           *)
Known(p, d)  == /\ 1 <= d /\ d <= zxid
                /\ Exists(p) => d <= zk[p]
                /\ At("fetched") /\ handler.msg.path = p => d <= handler.msg.data
Queued(p, d) == NoneOf(mailbox, OldAdd(p, d))
InHand(p, d) == handler.msg \notin OldAdd(p, d)
Stored(p, d) == Cached(p) => d <= cache[p].data
Seen(p, d)   == Known(p, d) /\ Queued(p, d) /\ InHand(p, d) /\ Stored(p, d)

IsOlderAdd(m, n) == m.type = "Add" /\ n.type = "Add" /\ m.path = n.path => m.data <= n.data
InOrder(s)       == \A i, j \in DOMAIN s : i < j => IsOlderAdd(s[i], s[j])

FreshInv ==
  /\ \A p \in Znode : zk[p] <= zxid
  /\ \A i \in DOMAIN mailbox : mailbox[i].type = "Add" => Known(mailbox[i].path, mailbox[i].data)
  /\ InOrder(mailbox)
  /\ handler.msg.type = "Add" => /\ Known(handler.msg.path, handler.msg.data)
                                 /\ Queued(handler.msg.path, handler.msg.data)
  /\ At("fetched") => Known(handler.msg.path, handler.msg.data)
  /\ \A p \in DOMAIN cache : Seen(p, cache[p].data)

DataInv == TypeInv /\ StageInv /\ FreshInv

-----------------------------------------------------------------------------
(* The Add messages of the mailbox *)

(* The Adds of t are Adds of s, in the same order. *)
KeepsAdds(s, t) ==
  /\ \A i \in DOMAIN t : t[i].type = "Add" => \E j \in DOMAIN s : s[j] = t[i]
  /\ InOrder(s) => InOrder(t)

(* Nothing is added to the Adds by appending other messages. *)
LEMMA KeepsAddsConcat ==
  ASSUME NEW s \in Seq(Message), NEW ms \in Seq(NotAdd)
  PROVE  KeepsAdds(s, s \o ms)
<1> DEFINE t == s \o ms
<1>1. ms \in Seq(Message)
  BY SeqMonotonic DEF NotAdd
<1>2. /\ Len(t) = Len(s) + Len(ms) /\ Len(s) \in Nat /\ Len(ms) \in Nat
      /\ \A i \in 1 .. Len(s) : t[i] = s[i]
      /\ \A i \in 1 .. Len(ms) : t[Len(s) + i] = ms[i]
      /\ DOMAIN s = 1 .. Len(s) /\ DOMAIN ms = 1 .. Len(ms) /\ DOMAIN t = 1 .. Len(t)
  BY <1>1
<1>3. \A i \in DOMAIN ms : ms[i] \in NotAdd
  OBVIOUS
<1> HIDE DEF t
<1>4. \A i \in DOMAIN t : t[i].type = "Add" => i \in DOMAIN s /\ s[i] = t[i]
  <2> SUFFICES ASSUME NEW i \in DOMAIN t, i \notin DOMAIN s PROVE t[i].type # "Add"
    BY <1>2
  <2>1. i - Len(s) \in 1 .. Len(ms) /\ Len(s) + (i - Len(s)) = i
    BY <1>2
  <2>2. t[i] = ms[i - Len(s)]
    BY <1>2, <2>1
  <2> QED
    BY <1>2, <1>3, <2>1, <2>2 DEF NotAdd
<1>5. InOrder(s) => InOrder(t)
  BY <1>4 DEF InOrder, IsOlderAdd
<1> QED
  BY <1>4, <1>5 DEF KeepsAdds, t

LEMMA KeepsAddsTail ==
  ASSUME NEW s \in Seq(Message), s # << >>
  PROVE  /\ KeepsAdds(s, Tail(s)) /\ Tail(s) \in Seq(Message)
         /\ InOrder(s) => \A i \in DOMAIN Tail(s) : IsOlderAdd(Head(s), Tail(s)[i])
<1>1. /\ Tail(s) \in Seq(Message) /\ Len(s) \in Nat /\ Len(s) >= 1 /\ Len(Tail(s)) = Len(s) - 1
      /\ \A i \in 1 .. Len(Tail(s)) : Tail(s)[i] = s[i + 1]
      /\ DOMAIN s = 1 .. Len(s) /\ DOMAIN Tail(s) = 1 .. Len(Tail(s))
      /\ Head(s) = s[1]
  OBVIOUS
<1>2. \A i \in DOMAIN Tail(s) : i + 1 \in DOMAIN s /\ 1 < i + 1 /\ Tail(s)[i] = s[i + 1] /\ 1 \in DOMAIN s
  BY <1>1
<1>3. \A i, j \in DOMAIN Tail(s) : i < j => i + 1 < j + 1
  BY <1>1
<1> QED
  BY <1>1, <1>2, <1>3 DEF KeepsAdds, InOrder

LEMMA KeepsAddsTwice ==
  ASSUME NEW s, NEW t, NEW u, KeepsAdds(s, t), KeepsAdds(t, u)
  PROVE  KeepsAdds(s, u)
<1> SUFFICES ASSUME NEW i \in DOMAIN u, u[i].type = "Add"
             PROVE  \E j \in DOMAIN s : s[j] = u[i]
  BY DEF KeepsAdds
<1>1. PICK k \in DOMAIN t : t[k] = u[i]
  BY DEF KeepsAdds
<1> QED
  BY <1>1 DEF KeepsAdds

(* Other messages are sent, or taken, or the mailbox ends. *)
LEMMA MailboxKeepsAdds ==
  ASSUME mailbox \in Seq(Message), NEW ms \in Seq(NotAdd),
         \/ Send(ms)
         \/ mailbox # << >> /\ Consume(ms)
         \/ mailbox' \in {mailbox, << >>}
  PROVE  KeepsAdds(mailbox, mailbox')
<1>1. KeepsAdds(mailbox, mailbox) /\ KeepsAdds(mailbox, << >>)
  BY DEF KeepsAdds, InOrder
<1>2. KeepsAdds(mailbox, mailbox \o ms)
  BY KeepsAddsConcat
<1>3. CASE mailbox # << >> /\ Consume(ms)
  <2>1. KeepsAdds(mailbox, Tail(mailbox)) /\ Tail(mailbox) \in Seq(Message)
    BY <1>3, KeepsAddsTail
  <2>2. KeepsAdds(Tail(mailbox), Tail(mailbox) \o ms)
    BY <2>1, KeepsAddsConcat
  <2> QED
    BY <1>3, <2>1, <2>2, KeepsAddsTwice DEF Consume
<1> QED
  BY <1>1, <1>2, <1>3 DEF Send

(* An Add that is appended, and that is newer than the others of its path. *)
LEMMA AppendedAdd ==
  ASSUME NEW s \in Seq(Message), NEW add \in Message, add.type = "Add", InOrder(s),
         \A i \in DOMAIN s : IsOlderAdd(s[i], add)
  PROVE  /\ InOrder(s \o <<add>>)
         /\ \A i \in DOMAIN (s \o <<add>>) :
              \/ i \in DOMAIN s /\ (s \o <<add>>)[i] = s[i]
              \/ (s \o <<add>>)[i] = add
<1> DEFINE t == s \o <<add>>
<1>1. /\ Len(t) = Len(s) + 1 /\ Len(s) \in Nat
      /\ \A i \in 1 .. Len(s) : t[i] = s[i]
      /\ t[Len(s) + 1] = add
      /\ DOMAIN s = 1 .. Len(s) /\ DOMAIN t = 1 .. Len(t)
  OBVIOUS
<1> HIDE DEF t
<1>2. \A i \in DOMAIN t : (i \in DOMAIN s /\ t[i] = s[i]) \/ (i = Len(s) + 1 /\ t[i] = add)
  BY <1>1
<1>3. InOrder(t)
  <2> SUFFICES ASSUME NEW i \in DOMAIN t, NEW j \in DOMAIN t, i < j PROVE IsOlderAdd(t[i], t[j])
    BY DEF InOrder
  <2>1. i \in DOMAIN s /\ t[i] = s[i]
    BY <1>1
  <2> QED
    BY <1>2, <2>1 DEF InOrder
<1> QED
  BY <1>2, <1>3 DEF t

-----------------------------------------------------------------------------
(* Time goes on in ZooKeeper *)

ZkGrows ==
  /\ zxid \in Nat /\ zxid' \in Nat /\ zxid <= zxid'
  /\ zk \in [Znode -> Nat] /\ zk' \in [Znode -> Nat]
  /\ \A p \in Znode : zk[p] <= zxid /\ zk'[p] <= zxid'
  /\ \A p \in Znode : zk'[p] \in {0, zk[p], zxid'}

LEMMA ZkKeptGrows ==
  ASSUME ZkTypeOK, \A p \in Znode : zk[p] <= zxid, UNCHANGED <<zk, zxid>>
  PROVE  ZkGrows
BY DEF ZkTypeOK, ZkGrows

LEMMA WriterGrows ==
  ASSUME ZkTypeOK, \A p \in Znode : zk[p] <= zxid,
         NEW q \in Znode, CreateNode(q) \/ DeleteNode(q) \/ SetNodeData(q)
  PROVE  ZkGrows
<1>1. /\ zxid' = zxid + 1
      /\ \E value \in {0, zxid + 1} : zk' = [zk EXCEPT ![q] = value]
  BY DEF CreateNode, DeleteNode, SetNodeData, Write
<1>2. PICK value \in {0, zxid + 1} : zk' = [zk EXCEPT ![q] = value]
  BY <1>1
<1>3. zxid \in Nat /\ zk \in [Znode -> Nat] /\ value \in Nat /\ value <= zxid + 1
  BY DEF ZkTypeOK
<1>4. \A p \in Znode : zk'[p] = IF p = q THEN value ELSE zk[p]
  BY <1>2, <1>3
<1> QED
  BY <1>1, <1>2, <1>3, <1>4 DEF ZkGrows

(* What was known of a path stays known, if nothing older is fetched. *)
LEMMA KnownKept ==
  ASSUME ZkGrows, NEW p, NEW d \in Nat, Known(p, d),
         At("fetched")' /\ handler'.msg.path = p => d <= handler'.msg.data
  PROVE  Known(p, d)'
<1>1. Exists(p)' => d <= zk'[p]
  <2> SUFFICES ASSUME p \in Znode, zk'[p] # 0 PROVE d <= zk'[p]
    BY DEF Exists
  <2>1. d <= zxid /\ (zk[p] # 0 => d <= zk[p])
    BY DEF Known, Exists
  <2> QED
    BY <2>1 DEF ZkGrows
<1>2. 1 <= d /\ d <= zxid'
  BY DEF Known, ZkGrows
<1> QED
  BY <1>1, <1>2 DEF Known

-----------------------------------------------------------------------------
(* Steps that move data on, and read none but the present data *)

(* What the handler works on is what it worked on, or the first message of *)
(* the mailbox, which is older than what remains there.                    *)
TakenInOrder ==
  handler'.msg.type = "Add" =>
    \/ handler'.msg = handler.msg
    \/ /\ \E j \in DOMAIN mailbox : mailbox[j] = handler'.msg
       /\ \A i \in DOMAIN mailbox' : IsOlderAdd(handler'.msg, mailbox'[i])

FetchedNow ==
  handler'.stage = "fetched" =>
    \/ handler' = handler
    \/ Exists(handler'.msg.path) /\ zk' = zk /\ handler'.msg.data = zk[handler'.msg.path]

(* What is new in the cache is what the handler of Add had in hand. *)
StoredFromHand ==
  \A p \in DOMAIN cache' :
    \/ Cached(p) /\ cache'[p] = cache[p]
    \/ /\ handler.msg.type = "Add" /\ handler.msg.path = p
       /\ cache'[p].data = handler.msg.data
       /\ handler'.msg.type # "Add"

Orderly ==
  KeepsAdds(mailbox, mailbox') /\ TakenInOrder /\ FetchedNow /\ StoredFromHand

LEMMA OrderlyKeepsSeen ==
  ASSUME TypeInv, ZkGrows, Orderly, NEW p, NEW d \in Nat
  PROVE  /\ Known(p, d) => Known(p, d)'
         /\ Queued(p, d) => Queued(p, d)'
         /\ Seen(p, d) => Seen(p, d)'
<1>1. Known(p, d) => Known(p, d)'
  <2> SUFFICES ASSUME Known(p, d), handler'.stage = "fetched", handler'.msg.path = p
               PROVE  d <= handler'.msg.data
    BY KnownKept DEF At
  <2> QED
    BY DEF Orderly, FetchedNow, Known, At
<1>2. OldAdd(p, d)' = OldAdd(p, d)
  BY DEF OldAdd
<1>3. Queued(p, d) => Queued(p, d)'
  <2> SUFFICES ASSUME Queued(p, d), NEW i \in DOMAIN mailbox', mailbox'[i] \in OldAdd(p, d)
               PROVE  FALSE
    BY <1>2 DEF Queued, NoneOf
  <2>1. PICK j \in DOMAIN mailbox : mailbox[j] = mailbox'[i]
    BY DEF OldAdd, Orderly, KeepsAdds
  <2> QED
    BY <2>1 DEF Queued, NoneOf
<1>4. Queued(p, d) /\ InHand(p, d) => InHand(p, d)'
  <2> SUFFICES ASSUME Queued(p, d), InHand(p, d), handler'.msg \in OldAdd(p, d)
               PROVE  FALSE
    BY <1>2 DEF InHand
  <2>1. handler'.msg # handler.msg /\ \A j \in DOMAIN mailbox : mailbox[j] # handler'.msg
    BY DEF Queued, NoneOf, InHand
  <2> QED
    BY <2>1 DEF OldAdd, Orderly, TakenInOrder
<1>5. InHand(p, d) /\ Stored(p, d) => Stored(p, d)'
  <2> SUFFICES ASSUME InHand(p, d), Stored(p, d), p \in DOMAIN cache'
               PROVE  d <= cache'[p].data
    BY DEF Stored, Cached
  <2>1. CASE Cached(p) /\ cache'[p] = cache[p]
    BY <2>1 DEF Stored
  <2>2. CASE /\ handler.msg.type = "Add" /\ handler.msg.path = p
             /\ cache'[p].data = handler.msg.data
    <3>1. handler.msg \in Message /\ handler.msg.data \in Nat
      BY DEF TypeInv, TypeOK, ActorTypeOK, Message
    <3>2. ~(handler.msg.data < d)
      BY <2>2, <3>1 DEF InHand, OldAdd
    <3> QED
      BY <2>2, <3>1, <3>2
  <2> QED
    BY <2>1, <2>2 DEF Orderly, StoredFromHand
<1> QED
  BY <1>1, <1>3, <1>4, <1>5 DEF Seen

LEMMA OrderlyKeepsFresh ==
  ASSUME DataInv, ZkGrows, Orderly
  PROVE  FreshInv'
<1>1. /\ mailbox \in Seq(Message) /\ handler.msg \in Message
      /\ \A p \in DOMAIN cache : cache[p].data \in Nat
      /\ TypeInv /\ FreshInv
  BY DEF DataInv, TypeInv, TypeOK, ActorTypeOK, Entry
<1>2. \A m \in Message : m.data \in Nat
  BY DEF Message
<1>k. ASSUME NEW p, NEW d \in Nat
      PROVE  /\ Known(p, d) => Known(p, d)'
             /\ Queued(p, d) => Queued(p, d)'
             /\ Seen(p, d) => Seen(p, d)'
  BY <1>1, OrderlyKeepsSeen
<1>3. ASSUME NEW i \in DOMAIN mailbox', mailbox'[i].type = "Add"
      PROVE  Known(mailbox[i].path, mailbox[i].data)'
  <2>1. PICK j \in DOMAIN mailbox : mailbox[j] = mailbox'[i]
    BY <1>3 DEF Orderly, KeepsAdds
  <2>2. mailbox[j] \in Message /\ Known(mailbox[j].path, mailbox[j].data)
    BY <1>1, <1>3, <2>1 DEF FreshInv
  <2>3. PICK p, d : p = mailbox[j].path /\ d = mailbox[j].data
    OBVIOUS
  <2>4. Known(p, d)'
    BY <1>2, <1>k, <2>2, <2>3
  <2> QED
    BY <2>1, <2>3, <2>4 DEF Known
<1>4. ASSUME handler'.msg.type = "Add"
      PROVE  Known(handler.msg.path, handler.msg.data)' /\ Queued(handler.msg.path, handler.msg.data)'
  <2>1. CASE handler'.msg = handler.msg
    <3>1. Known(handler.msg.path, handler.msg.data) /\ Queued(handler.msg.path, handler.msg.data)
      BY <1>1, <1>4, <2>1 DEF FreshInv
    <3>2. PICK p, d : p = handler.msg.path /\ d = handler.msg.data
      OBVIOUS
    <3>3. Known(p, d)' /\ Queued(p, d)'
      BY <1>1, <1>2, <1>k, <3>1, <3>2
    <3> QED
      BY <2>1, <3>2, <3>3 DEF Known, Queued, OldAdd
  <2>2. CASE /\ \E j \in DOMAIN mailbox : mailbox[j] = handler'.msg
             /\ \A i \in DOMAIN mailbox' : IsOlderAdd(handler'.msg, mailbox'[i])
    <3>1. PICK j \in DOMAIN mailbox : mailbox[j] = handler'.msg
      BY <2>2
    <3>2. PICK p, d : p = mailbox[j].path /\ d = mailbox[j].data
      OBVIOUS
    <3>3. mailbox[j] \in Message /\ Known(p, d)
      BY <1>1, <1>4, <3>1, <3>2 DEF FreshInv
    <3>4. Known(p, d)'
      BY <1>2, <1>k, <3>2, <3>3
    <3>5. \A i \in DOMAIN mailbox' : ~(mailbox'[i] \in OldAdd(p, d))
      <4> SUFFICES ASSUME NEW i \in DOMAIN mailbox', mailbox'[i] \in OldAdd(p, d) PROVE FALSE
        OBVIOUS
      <4>1. d <= mailbox'[i].data /\ mailbox'[i].data < d
        BY <1>4, <2>2, <3>1, <3>2 DEF OldAdd, IsOlderAdd
      <4>2. mailbox'[i].data \in Nat /\ d \in Nat
        BY <1>2, <3>2, <3>3 DEF OldAdd
      <4> QED
        BY <4>1, <4>2
    <3> QED
      BY <3>1, <3>2, <3>4, <3>5 DEF Known, Queued, OldAdd, NoneOf
  <2> QED
    BY <1>4, <2>1, <2>2 DEF Orderly, TakenInOrder
<1>5. ASSUME handler'.stage = "fetched"
      PROVE  Known(handler.msg.path, handler.msg.data)'
  <2>1. CASE handler' = handler
    <3>1. Known(handler.msg.path, handler.msg.data)
      BY <1>1, <1>5, <2>1 DEF FreshInv, At
    <3>2. PICK p, d : p = handler.msg.path /\ d = handler.msg.data
      OBVIOUS
    <3>3. Known(p, d)'
      BY <1>1, <1>2, <1>k, <3>1, <3>2
    <3> QED
      BY <2>1, <3>2, <3>3 DEF Known
  <2>2. CASE Exists(handler'.msg.path) /\ zk' = zk /\ handler'.msg.data = zk[handler'.msg.path]
    <3>1. PICK p, d : p = handler'.msg.path /\ d = zk[p]
      OBVIOUS
    <3>2. p \in Znode /\ d \in Nat /\ d # 0 /\ d <= zxid'
      BY <2>2, <3>1 DEF Exists, ZkGrows
    <3> QED
      BY <2>2, <3>1, <3>2 DEF Known, Exists
  <2> QED
    BY <1>5, <2>1, <2>2 DEF Orderly, FetchedNow
<1>6. ASSUME NEW p \in DOMAIN cache'
      PROVE  Seen(p, cache[p].data)'
  <2>1. CASE Cached(p) /\ cache'[p] = cache[p]
    <3>1. PICK d : d = cache[p].data
      OBVIOUS
    <3>2. Seen(p, d)'
      BY <1>1, <1>k, <2>1, <3>1 DEF FreshInv, Cached
    <3> QED
      BY <2>1, <3>1, <3>2 DEF Seen, Known, Queued, InHand, Stored, OldAdd
  <2>2. CASE /\ handler.msg.type = "Add" /\ handler.msg.path = p
             /\ cache'[p].data = handler.msg.data
             /\ handler'.msg.type # "Add"
    <3>1. PICK d : d = handler.msg.data
      OBVIOUS
    <3>2. d \in Nat /\ Known(p, d) /\ Queued(p, d)
      BY <1>1, <1>2, <2>2, <3>1 DEF FreshInv
    <3>3. Known(p, d)' /\ Queued(p, d)'
      BY <1>k, <3>2
    <3>4. InHand(p, d)' /\ Stored(p, d)'
      BY <2>2, <3>1, <3>2 DEF InHand, OldAdd, Stored
    <3> QED
      BY <2>2, <3>1, <3>3, <3>4 DEF Seen, Known, Queued, InHand, Stored, OldAdd
  <2> QED
    BY <2>1, <2>2 DEF Orderly, StoredFromHand
<1>7. (\A p \in Znode : zk[p] <= zxid)' /\ InOrder(mailbox)'
  BY <1>1 DEF ZkGrows, Orderly, KeepsAdds, FreshInv, InOrder
<1> QED
  BY <1>3, <1>4, <1>5, <1>6, <1>7 DEF FreshInv, At

-----------------------------------------------------------------------------
(* The steps of the actor *)

(* Messages that are not Adds, and the sequences of them that are sent.    *)
LEMMA OtherMessages ==
  ASSUME NEW p \in PathString, NEW r \in Notifyable, NEW rec \in BOOLEAN
  PROVE  /\ Remove(p, r) \in NotAdd /\ SetWatcher(p, r) \in NotAdd
         /\ Unwatch(p) \in NotAdd /\ Update(p, rec, r) \in NotAdd
         /\ << >> \in Seq(NotAdd) /\ \A m \in NotAdd : <<m>> \in Seq(NotAdd)
<1>1. << >> \in Seq(NotAdd) /\ \A m \in NotAdd : <<m>> \in Seq(NotAdd)
  OBVIOUS
<1>2. /\ Remove(p, r) \in Message /\ SetWatcher(p, r) \in Message
      /\ Unwatch(p) \in Message /\ Update(p, rec, r) \in Message
  BY MessageTypes
<1>3. /\ Remove(p, r).type # "Add" /\ SetWatcher(p, r).type # "Add"
      /\ Unwatch(p).type # "Add" /\ Update(p, rec, r).type # "Add"
  BY DEF Remove, SetWatcher, Unwatch, Update, Msg
<1> QED
  BY <1>1, <1>2, <1>3 DEF NotAdd

LEMMA StageStep == TypeInv /\ StageInv /\ [Next]_vars => StageInv'
<1> SUFFICES ASSUME TypeInv, StageInv, [Next]_vars PROVE StageInv'
  OBVIOUS
<1>1. ASSUME handler' = handler \/ handler' = Idle PROVE StageInv'
  BY <1>1 DEF StageInv, Idle, Handling
<1>m. handler \in [stage : Stages, msg : Message, listed : SUBSET Name]
  BY DEF TypeInv, TypeOK, ActorTypeOK
<1>w. ASSUME NEW msg, msg.type \in {"Add", "Remove", "SetWatcher"},
             handler' = AfterWatchers(msg) \/ handler' = Handling("watchExists", msg, {})
      PROVE  StageInv'
  BY <1>w DEF AfterWatchers, Handling, Idle, StageInv
<1>2. CASE HandleUpdate
  <2>1. Head(mailbox) \in Message /\ Head(mailbox).type = "Update"
    BY <1>2, ReceivedType DEF HandleUpdate, TypeInv, TypeOK
  <2> QED
    BY <1>1, <1>2, <2>1 DEF HandleUpdate, Handling, StageInv, Done, Message
<1>3. CASE HandleAdd \/ HandleSetWatcher
  BY <1>3, <1>w DEF HandleAdd, HandleSetWatcher, SetWatchers, Received
<1>4. CASE HandleRemove
  BY <1>4 DEF HandleRemove, Received, Handling, StageInv
<1>5. CASE ListChildren
  BY <1>5, <1>m DEF ListChildren, At, GoTo, Handling, StageInv
<1>6. CASE WatchExists \/ WatchChildren \/ WatchData \/ RecordWatch \/ WatchMissing
  <2>1. handler.msg.type \in {"Add", "Remove", "SetWatcher"}
    BY <1>6 DEF WatchExists, WatchChildren, WatchData, RecordWatch, WatchMissing, At,
       TypeInv, HandlerOK, WatchStages
  <2>2. CASE Resume
    BY <1>w, <2>1, <2>2 DEF Resume
  <2>3. ASSUME NEW stage \in WatchStages, GoTo(stage) PROVE StageInv'
    BY <1>m, <2>3 DEF GoTo, StageInv, WatchStages
  <2> QED
    BY <1>6, <2>2, <2>3 DEF WatchExists, WatchChildren, WatchData, RecordWatch, WatchMissing, WatchStages
<1>7. CASE HandleWatchUnderPath \/ HandleRemovePath \/ HandleShutdown \/ FinishUpdate \/ StoreEntry
           \/ FailAdd \/ Evict \/ HandleUnwatch
  BY <1>1, <1>7 DEF HandleWatchUnderPath, HandleRemovePath, HandleShutdown, FinishUpdate, StoreEntry,
     FailAdd, Evict, HandleUnwatch, Done
<1>8. CASE ~ActorStep
  BY <1>1, <1>8 DEF Next, WatcherStep, ProcessEvent, SendUnwatch, SendFollowUp, ApiStep, CheckAdd,
     CheckRemove, SendAdd, SendRemove, CallStop, StopCompletes, StopTimesOut, WriterStep, SessionStep,
     LoseConnection, FindConnection, actorVars, vars
<1> QED
  BY <1>2, <1>3, <1>4, <1>5, <1>6, <1>7, <1>8 DEF ActorStep

(* A handler's calls of ZooKeeper change neither nodes nor zxids. *)
LEMMA ActorLeavesNodes == ActorStep => UNCHANGED <<zk, zxid>>
<1>1. ASSUME NEW p, NEW o,
             Read(p, o) \/ ExistsWithWatch(p, o) \/ GetChildrenWithWatch(p, o) \/ GetDataWithWatch(p, o)
      PROVE  UNCHANGED <<zk, zxid>>
  BY <1>1 DEF Read, ExistsWithWatch, GetChildrenWithWatch, GetDataWithWatch, RoundTrip
<1>2. HandleUpdate \/ ListChildren \/ WatchExists \/ WatchChildren \/ WatchData => UNCHANGED <<zk, zxid>>
  BY <1>1 DEF HandleUpdate, ListChildren, WatchExists, WatchChildren, WatchData
<1> QED
  BY <1>2 DEF ActorStep, HandleWatchUnderPath, HandleRemovePath, HandleShutdown, FinishUpdate, HandleAdd,
     StoreEntry, FailAdd, HandleRemove, Evict, HandleSetWatcher, HandleUnwatch, RecordWatch, WatchMissing,
     zkVars

(* Every step of the actor but the end of Update only moves data on. *)
LEMMA ActorIsOrderly == DataInv /\ ActorStep /\ ~FinishUpdate => Orderly
<1> SUFFICES ASSUME DataInv, ActorStep, ~FinishUpdate PROVE Orderly
  OBVIOUS
<1>m. /\ mailbox \in Seq(Message) /\ handler.msg \in Message
      /\ handler \in [stage : Stages, msg : Message, listed : SUBSET Name]
      /\ handler.msg.path \in PathString /\ handler.msg.notify \in Notifyable
      /\ \A p \in DOMAIN cache : cache[p].children \in SUBSET Name
  BY DEF DataInv, TypeInv, TypeOK, ActorTypeOK, Message, Entry
<1>r. ASSUME NEW type, Received(type)
      PROVE  /\ Head(mailbox) \in Message /\ Head(mailbox).type = type /\ mailbox # << >>
             /\ Head(mailbox).path \in PathString /\ Head(mailbox).notify \in Notifyable
             /\ handler = Idle
  <2>1. Head(mailbox) \in Message /\ Head(mailbox).type = type /\ mailbox # << >>
    BY <1>r, ReceivedType DEF DataInv, TypeInv, TypeOK
  <2> QED
    BY <1>r, <2>1 DEF Message, Received
<1>n. << >> \in Seq(NotAdd) /\ \A m \in NotAdd : <<m>> \in Seq(NotAdd)
  OBVIOUS
(* What is left to show of most handlers. *)
<1>q. ASSUME handler'.msg.type = "Add" => handler'.msg = handler.msg,
             handler'.stage = "fetched" => handler' = handler,
             \A p \in DOMAIN cache' : Cached(p) /\ cache'[p] = cache[p],
             \E ms \in Seq(NotAdd) : \/ Send(ms)
                                     \/ mailbox # << >> /\ Consume(ms)
                                     \/ mailbox' \in {mailbox, << >>}
      PROVE  Orderly
  <2>1. KeepsAdds(mailbox, mailbox')
    BY <1>q, <1>m, MailboxKeepsAdds
  <2> QED
    BY <1>q, <2>1 DEF Orderly, TakenInOrder, FetchedNow, StoredFromHand
<1>i. ASSUME handler' = Idle \/ handler' = handler
      PROVE  /\ handler'.msg.type = "Add" => handler'.msg = handler.msg
             /\ handler'.stage = "fetched" => handler' = handler
  BY <1>i DEF Idle, Handling, NoMessage, Msg
<1>c. ASSUME cache' = cache PROVE \A p \in DOMAIN cache' : Cached(p) /\ cache'[p] = cache[p]
  BY <1>c DEF Cached
<1>1. CASE HandleWatchUnderPath
  <2>1. Update(Head(mailbox).path, TRUE, Head(mailbox).notify) \in NotAdd
    BY <1>1, <1>r, OtherMessages DEF HandleWatchUnderPath
  <2>2. \E ms \in Seq(NotAdd) : mailbox # << >> /\ Consume(ms)
    BY <1>1, <1>r, <1>n, <2>1 DEF HandleWatchUnderPath
  <2>3. handler' = handler /\ cache' = cache
    BY <1>1 DEF HandleWatchUnderPath
  <2> QED
    BY <1>q, <1>i, <1>c, <2>2, <2>3
<1>2. CASE HandleRemovePath
  <2>1. Remove(Head(mailbox).path, Head(mailbox).notify) \in NotAdd
    BY <1>2, <1>r, OtherMessages DEF HandleRemovePath
  <2>2. \E ms \in Seq(NotAdd) : mailbox # << >> /\ Consume(ms)
    BY <1>2, <1>r, <1>n, <2>1 DEF HandleRemovePath
  <2>3. handler' = handler /\ cache' = cache
    BY <1>2 DEF HandleRemovePath
  <2> QED
    BY <1>q, <1>i, <1>c, <2>2, <2>3
<1>3. CASE HandleShutdown
  <2>1. handler' = handler /\ cache' = << >> /\ mailbox' = << >>
    BY <1>3 DEF HandleShutdown
  <2>2. DOMAIN cache' = {}
    BY <2>1
  <2>3. \E ms \in Seq(NotAdd) : mailbox' \in {mailbox, << >>}
    BY <1>n, <2>1
  <2> QED
    BY <1>q, <1>i, <2>1, <2>2, <2>3
<1>4. CASE HandleUpdate
  <2> DEFINE update == Head(mailbox)
  <2>1. update \in Message /\ update.type = "Update" /\ mailbox # << >>
    BY <1>4, <1>r DEF HandleUpdate
  <2>2. KeepsAdds(mailbox, mailbox')
    BY <1>4, <1>m, <1>n, <2>1, MailboxKeepsAdds DEF HandleUpdate
  <2>3. cache' = cache
    BY <1>4 DEF HandleUpdate
  <2>4. CASE /\ Read(update.path, "ok")
             /\ handler' = Handling("fetched", [update EXCEPT !.data = zk[update.path]], {})
    <3>1. Exists(update.path) /\ zk' = zk
      BY <2>4 DEF Read, RoundTrip
    <3>2. handler'.msg.type = "Update" /\ handler'.msg.path = update.path
          /\ handler'.msg.data = zk[update.path]
      BY <2>1, <2>4 DEF Handling, Message
    <3> QED
      BY <1>c, <2>2, <2>3, <3>1, <3>2 DEF Orderly, TakenInOrder, FetchedNow, StoredFromHand
  <2>5. CASE handler' = Handling("fetchMissing", update, {}) \/ Done
    <3>1. handler'.msg.type # "Add" /\ handler'.stage # "fetched"
      BY <2>1, <2>5 DEF Handling, Done, Idle, NoMessage, Msg
    <3> QED
      BY <1>c, <2>2, <2>3, <3>1 DEF Orderly, TakenInOrder, FetchedNow, StoredFromHand
  <2> QED
    BY <1>4, <2>4, <2>5 DEF HandleUpdate
<1>5. CASE HandleAdd
  <2> DEFINE add == Head(mailbox)
  <2>1. add \in Message /\ add.type = "Add" /\ mailbox # << >>
    BY <1>5, <1>r DEF HandleAdd
  <2>2. KeepsAdds(mailbox, mailbox')
    BY <1>5, <1>m, <1>n, <2>1, MailboxKeepsAdds DEF HandleAdd
  <2>3. cache' = cache
    BY <1>5 DEF HandleAdd
  <2>4. handler'.stage # "fetched" /\ handler'.msg = add
    BY <1>5, <2>1 DEF HandleAdd, SetWatchers, AfterWatchers, Handling
  <2>5. /\ \E j \in DOMAIN mailbox : mailbox[j] = add
        /\ \A i \in DOMAIN mailbox' : IsOlderAdd(add, mailbox'[i])
    <3>1. mailbox' = Tail(mailbox)
      <4>1. Tail(mailbox) \in Seq(Message)
        BY <1>m, <2>1
      <4> QED
        BY <1>5, <4>1 DEF HandleAdd, Consume
    <3>2. 1 \in DOMAIN mailbox /\ mailbox[1] = add
      BY <1>m, <2>1
    <3>3. InOrder(mailbox)
      BY DEF DataInv, FreshInv
    <3> QED
      BY <1>m, <2>1, <3>1, <3>2, <3>3, KeepsAddsTail
  <2> QED
    BY <1>c, <2>2, <2>3, <2>4, <2>5 DEF Orderly, TakenInOrder, FetchedNow, StoredFromHand
<1>6. CASE ListChildren
  <2>1. handler'.msg = handler.msg /\ handler'.stage # "fetched"
    BY <1>6, <1>m DEF ListChildren, GoTo, Handling
  <2>2. cache' = cache /\ mailbox' = mailbox
    BY <1>6 DEF ListChildren
  <2> QED
    BY <1>q, <1>c, <1>n, <2>1, <2>2
<1>7. CASE StoreEntry
  <2> DEFINE add    == handler.msg
             update == [c \in handler.listed |-> Update(ChildPath(add.path, c), TRUE, add.notify)]
  <2>1. update \in [handler.listed -> NotAdd]
    <3> SUFFICES ASSUME NEW c \in handler.listed
                 PROVE  Update(ChildPath(add.path, c), TRUE, add.notify) \in NotAdd
      OBVIOUS
    <3>1. ChildPath(add.path, c) \in PathString
      BY <1>m, ChildPathType
    <3> QED
      BY <1>m, <3>1, OtherMessages
  <2>2. PICK updates \in ForEachChild(update) : Send(IF add.recursive THEN updates ELSE << >>)
    BY <1>7 DEF StoreEntry
  <2>3. updates \in Seq(NotAdd) /\ handler.listed \in SUBSET Name
    BY <1>m, <2>1, <2>2, ForEachChildType
  <2>4. KeepsAdds(mailbox, mailbox')
    BY <1>m, <1>n, <2>2, <2>3, MailboxKeepsAdds
  <2>5. handler' = Idle /\ handler.stage = "store"
    BY <1>7 DEF StoreEntry, Done, At
  <2>6. handler.msg.type = "Add"
    BY <2>5 DEF DataInv, StageInv
  <2>7. handler'.msg.type # "Add" /\ handler'.stage # "fetched"
    BY <2>5 DEF Idle, Handling, NoMessage, Msg
  <2>8. \A p \in DOMAIN cache' :
          \/ Cached(p) /\ cache'[p] = cache[p]
          \/ add.path = p /\ cache'[p].data = add.data
    BY <1>7 DEF StoreEntry, CacheWith, Cached
  <2> QED
    BY <2>4, <2>6, <2>7, <2>8 DEF Orderly, TakenInOrder, FetchedNow, StoredFromHand
<1>8. CASE FailAdd
  <2>1. Remove(handler.msg.path, NoOne) \in NotAdd
    BY <1>m, OtherMessages DEF Notifyable
  <2>2. \E ms \in Seq(NotAdd) : Send(ms)
    BY <1>8, <1>n, <2>1 DEF FailAdd
  <2>3. handler' = Idle /\ cache' = cache
    BY <1>8 DEF FailAdd, Done
  <2> QED
    BY <1>q, <1>i, <1>c, <2>2, <2>3
<1>9. CASE HandleRemove
  <2>1. Head(mailbox).type = "Remove" /\ mailbox # << >>
    BY <1>9, <1>r DEF HandleRemove
  <2>2. handler'.msg.type # "Add" /\ handler'.stage # "fetched"
    BY <1>9, <2>1 DEF HandleRemove, Handling
  <2>3. cache' = cache /\ Consume(<< >>)
    BY <1>9 DEF HandleRemove
  <2> QED
    BY <1>q, <1>c, <1>n, <2>1, <2>2, <2>3
<1>10. CASE Evict
  <2> DEFINE remove == handler.msg
             send   == [c \in cache[remove.path].children |->
                          Remove(ChildPath(remove.path, c), remove.notify)]
  <2>1. handler' = Idle
    BY <1>10 DEF Evict, Done
  <2>2. CASE Cached(remove.path) /\ cache' = CacheWithout(remove.path)
             /\ \E removes \in ForEachChild(send) : Send(removes)
    <3>1. cache[remove.path].children \in SUBSET Name
      BY <1>m, <2>2 DEF Cached
    <3>2. send \in [cache[remove.path].children -> NotAdd]
      <4> SUFFICES ASSUME NEW c \in cache[remove.path].children
                   PROVE  Remove(ChildPath(remove.path, c), remove.notify) \in NotAdd
        OBVIOUS
      <4>1. ChildPath(remove.path, c) \in PathString
        BY <1>m, <3>1, ChildPathType
      <4> QED
        BY <1>m, <4>1, OtherMessages
    <3>3. PICK removes \in ForEachChild(send) : Send(removes)
      BY <2>2
    <3>4. removes \in Seq(NotAdd)
      BY <3>1, <3>2, <3>3, ForEachChildType
    <3>5. \A p \in DOMAIN cache' : Cached(p) /\ cache'[p] = cache[p]
      BY <2>2 DEF CacheWithout, Cached
    <3> QED
      BY <1>q, <1>i, <2>1, <3>3, <3>4, <3>5
  <2>3. CASE cache' = cache /\ mailbox' = mailbox
    BY <1>q, <1>i, <1>c, <1>n, <2>1, <2>3
  <2> QED
    BY <1>10, <2>2, <2>3 DEF Evict
<1>11. CASE HandleSetWatcher
  <2>1. Head(mailbox).type = "SetWatcher" /\ mailbox # << >>
    BY <1>11, <1>r DEF HandleSetWatcher
  <2>2. handler'.msg.type # "Add" /\ handler'.stage # "fetched"
    BY <1>11, <2>1 DEF HandleSetWatcher, SetWatchers, AfterWatchers, Handling, Idle, NoMessage, Msg
  <2>3. cache' = cache /\ Consume(<< >>)
    BY <1>11 DEF HandleSetWatcher
  <2> QED
    BY <1>q, <1>c, <1>n, <2>1, <2>2, <2>3
<1>12. CASE HandleUnwatch
  <2>1. handler' = handler /\ cache' = cache /\ Consume(<< >>) /\ mailbox # << >>
    BY <1>12, <1>r DEF HandleUnwatch
  <2> QED
    BY <1>q, <1>i, <1>c, <1>n, <2>1
<1>13. CASE WatchExists \/ WatchChildren \/ WatchData \/ RecordWatch \/ WatchMissing
  <2>1. handler.msg.type \in {"Add", "Remove", "SetWatcher"}
    BY <1>13 DEF WatchExists, WatchChildren, WatchData, RecordWatch, WatchMissing, At,
       DataInv, TypeInv, HandlerOK, WatchStages
  <2>2. /\ handler'.msg.type = "Add" => handler'.msg = handler.msg
        /\ handler'.stage # "fetched"
    <3>1. CASE Resume
      BY <2>1, <3>1 DEF Resume, AfterWatchers, Handling, Idle, NoMessage, Msg
    <3>2. ASSUME NEW stage \in WatchStages, GoTo(stage)
          PROVE  handler'.msg = handler.msg /\ handler'.stage # "fetched"
      BY <1>m, <3>2 DEF GoTo, WatchStages
    <3> QED
      BY <1>13, <3>1, <3>2 DEF WatchExists, WatchChildren, WatchData, RecordWatch, WatchMissing, WatchStages
  <2>3. cache' = cache
    BY <1>13 DEF WatchExists, WatchChildren, WatchData, RecordWatch, WatchMissing
  <2>4. \E ms \in Seq(NotAdd) : Send(ms) \/ mailbox' \in {mailbox, << >>}
    <3>1. CASE WatchMissing
      <4>1. Remove(handler.msg.path, NoOne) \in NotAdd
        BY <1>m, OtherMessages DEF Notifyable
      <4> QED
        BY <3>1, <1>n, <4>1 DEF WatchMissing
    <3>2. CASE ~WatchMissing
      <4>1. mailbox' = mailbox
        BY <1>13, <3>2 DEF WatchExists, WatchChildren, WatchData, RecordWatch
      <4> QED
        BY <1>n, <4>1
    <3> QED
      BY <3>1, <3>2
  <2> QED
    BY <1>q, <1>c, <2>2, <2>3, <2>4
<1> QED
  BY <1>1, <1>2, <1>3, <1>4, <1>5, <1>6, <1>7, <1>8, <1>9, <1>10, <1>11, <1>12, <1>13 DEF ActorStep

(* Update sends, as an Add, data that is as new as any in the mailbox.     *)
LEMMA FinishUpdateKeepsOrder ==
  ASSUME DataInv, ZkGrows, FinishUpdate
  PROVE  /\ FreshInv'
         /\ \A p : \A d \in Nat : Seen(p, d) => Seen(p, d)'
<1>1. /\ mailbox \in Seq(Message) /\ handler.msg \in Message
      /\ handler.msg.path \in PathString /\ handler.msg.notify \in Notifyable
      /\ handler.msg.data \in Nat /\ handler.msg.recursive \in BOOLEAN
      /\ \A p \in DOMAIN cache : cache[p].data \in Nat
      /\ TypeInv /\ FreshInv
  BY DEF DataInv, TypeInv, TypeOK, ActorTypeOK, Entry, Message
<1>2. /\ handler' = Idle /\ cache' = cache /\ UNCHANGED <<zk, zxid>>
      /\ handler'.msg.type # "Add" /\ handler'.stage # "fetched"
  BY DEF FinishUpdate, Done, Idle, Handling, NoMessage, Msg, zkVars
<1>3. CASE At("fetchMissing") \/ mailbox' = mailbox
  <2>1. KeepsAdds(mailbox, mailbox')
    <3>1. SetWatcher(handler.msg.path, handler.msg.notify) \in NotAdd /\ << >> \in Seq(NotAdd)
      BY <1>1, OtherMessages
    <3>2. <<SetWatcher(handler.msg.path, handler.msg.notify)>> \in Seq(NotAdd)
      BY <3>1
    <3>3. Send(<<SetWatcher(handler.msg.path, handler.msg.notify)>>) \/ mailbox' = mailbox
      BY <1>3 DEF FinishUpdate, At
    <3> QED
      BY <1>1, <3>1, <3>2, <3>3, MailboxKeepsAdds
  <2>2. Orderly
    BY <1>2, <2>1 DEF Orderly, TakenInOrder, FetchedNow, StoredFromHand, Cached
  <2> QED
    BY <1>1, <2>2, OrderlyKeepsSeen, OrderlyKeepsFresh
<1>4. CASE At("fetched") /\ mailbox' # mailbox
  <2> DEFINE add == Add(handler.msg.path, handler.msg.data, handler.msg.recursive, handler.msg.notify)
  <2>1. /\ add \in Message /\ add.type = "Add"
        /\ add.path = handler.msg.path /\ add.data = handler.msg.data
    BY <1>1, MessageTypes DEF Add, Msg
  <2>2. mailbox' = mailbox \o <<add>>
    BY <1>4 DEF FinishUpdate, At, Send
  <2> HIDE DEF add
  <2>3. Known(handler.msg.path, handler.msg.data)
    BY <1>1, <1>4 DEF FreshInv
  <2>4. \A p, d : Known(p, d) => add \notin OldAdd(p, d) \/ d \notin Nat
    BY <1>1, <1>4, <2>1 DEF Known, OldAdd
  <2>5. \A i \in DOMAIN mailbox : IsOlderAdd(mailbox[i], add)
    BY <1>1, <1>4, <2>1 DEF FreshInv, Known, IsOlderAdd
  <2>6. /\ InOrder(mailbox \o <<add>>)
        /\ \A i \in DOMAIN mailbox' : \/ i \in DOMAIN mailbox /\ mailbox'[i] = mailbox[i]
                                      \/ mailbox'[i] = add
    BY <1>1, <2>1, <2>2, <2>5, AppendedAdd DEF FreshInv
  <2>7. ASSUME NEW p, NEW d \in Nat
        PROVE  /\ Known(p, d) => Known(p, d)'
               /\ Known(p, d) /\ Queued(p, d) => Queued(p, d)'
               /\ Seen(p, d) => Seen(p, d)'
    <3>1. Known(p, d) => Known(p, d)'
      BY <1>2, KnownKept DEF At
    <3>2. OldAdd(p, d)' = OldAdd(p, d)
      BY DEF OldAdd
    <3>3. Known(p, d) /\ Queued(p, d) => Queued(p, d)'
      BY <2>4, <2>6, <3>2 DEF Queued, NoneOf
    <3>4. InHand(p, d)' /\ (Stored(p, d) => Stored(p, d)')
      BY <1>2, <3>2 DEF InHand, OldAdd, Stored, Cached
    <3> QED
      BY <3>1, <3>3, <3>4 DEF Seen
  <2>8. ASSUME NEW i \in DOMAIN mailbox', mailbox'[i].type = "Add"
        PROVE  Known(mailbox[i].path, mailbox[i].data)'
    <3>1. CASE i \in DOMAIN mailbox /\ mailbox'[i] = mailbox[i]
      <4>1. mailbox[i] \in Message
        BY <1>1, <3>1
      <4>d. mailbox[i].data \in Nat
        BY <4>1 DEF Message
      <4>2. PICK p, d : p = mailbox[i].path /\ d = mailbox[i].data
        OBVIOUS
      <4>3. Known(p, d)'
        BY <1>1, <2>7, <2>8, <3>1, <4>d, <4>2 DEF FreshInv
      <4> QED
        BY <3>1, <4>2, <4>3 DEF Known
    <3>2. CASE mailbox'[i] = add
      <4>1. PICK p, d : p = handler.msg.path /\ d = handler.msg.data
        OBVIOUS
      <4>2. Known(p, d)'
        BY <1>1, <2>3, <2>7, <4>1
      <4> QED
        BY <2>1, <3>2, <4>1, <4>2 DEF Known
    <3> QED
      BY <2>6, <3>1, <3>2
  <2>9. ASSUME NEW p \in DOMAIN cache' PROVE Seen(p, cache[p].data)'
    <3>1. PICK d : d = cache[p].data
      OBVIOUS
    <3>2. Seen(p, d)'
      BY <1>1, <1>2, <2>7, <3>1 DEF FreshInv
    <3> QED
      BY <1>2, <3>1, <3>2 DEF Seen, Known, Queued, InHand, Stored, OldAdd
  <2>10. (\A p \in Znode : zk[p] <= zxid)' /\ InOrder(mailbox)'
    BY <2>2, <2>6 DEF ZkGrows, InOrder
  <2> QED
    BY <1>2, <2>7, <2>8, <2>9, <2>10 DEF FreshInv, At
<1> QED
  BY <1>3, <1>4 DEF FinishUpdate, At

-----------------------------------------------------------------------------
(* All steps *)

(* Callers, the watcher and the session send no data. *)
LEMMA OthersAreOrderly ==
  ASSUME DataInv, WatcherStep \/ ApiStep \/ WriterStep \/ SessionStep \/ UNCHANGED vars
  PROVE  Orderly
<1>m. /\ mailbox \in Seq(Message)
      /\ watcher \in {NoEvent} \cup [stage : {"unwatch", "followUp"}, event : Event]
      /\ request \in [Request -> Call \cup {NotMade}]
  BY DEF DataInv, TypeInv, TypeOK, ActorTypeOK, CallsTypeOK
<1>n. << >> \in Seq(NotAdd) /\ \A m \in NotAdd : <<m>> \in Seq(NotAdd)
  OBVIOUS
<1>q. ASSUME handler' = handler, cache' = cache,
             \E ms \in Seq(NotAdd) : Send(ms) \/ mailbox' = mailbox
      PROVE  Orderly
  <2>1. KeepsAdds(mailbox, mailbox')
    BY <1>q, <1>m, MailboxKeepsAdds
  <2> QED
    BY <1>q, <2>1 DEF Orderly, TakenInOrder, FetchedNow, StoredFromHand, Cached
<1>1. CASE ProcessEvent \/ WriterStep \/ SessionStep \/ UNCHANGED vars
  <2>1. handler' = handler /\ cache' = cache /\ mailbox' = mailbox
    BY <1>1 DEF ProcessEvent, WriterStep, SessionStep, LoseConnection, FindConnection, vars, actorVars
  <2> QED
    BY <1>q, <1>n, <2>1
<1>2. CASE SendUnwatch \/ SendFollowUp
  <2>1. watcher # NoEvent
    BY <1>2 DEF SendUnwatch, SendFollowUp, NoEvent
  <2>2. watcher.event.path \in PathString
    BY <1>m, <2>1, ZnodeIsPathString DEF Event
  <2>3. Unwatch(watcher.event.path) \in NotAdd /\ FollowUp(watcher.event) \in NotAdd
    BY <2>2, OtherMessages DEF FollowUp, Notifyable
  <2>4. \E ms \in Seq(NotAdd) : Send(ms)
    BY <1>2, <1>n, <2>3 DEF SendUnwatch, SendFollowUp
  <2>5. handler' = handler /\ cache' = cache
    BY <1>2 DEF SendUnwatch, SendFollowUp
  <2> QED
    BY <1>q, <2>4, <2>5
<1>3. CASE ApiStep
  <2>1. PICK r \in Request :
          \/ \E path \in ApiPath : CheckAdd(r, path) \/ CheckRemove(r, path)
          \/ SendAdd(r) \/ SendRemove(r)
          \/ CallStop(r) \/ StopCompletes(r) \/ StopTimesOut(r)
    BY <1>3 DEF ApiStep
  <2>2. handler' = handler /\ cache' = cache
    BY <2>1 DEF CheckAdd, CheckRemove, SendAdd, SendRemove, CallStop, StopCompletes, StopTimesOut,
       actorVars
  <2>3. CASE SendAdd(r) \/ SendRemove(r)
    <3>1. request[r] \in Call /\ request[r].path \in PathString
      BY <1>m, <2>3 DEF SendAdd, SendRemove, IsPending, Call, PathString
    <3>2. /\ Msg("ScakkaApiWatchUnderPath", request[r].path, r) \in Message
          /\ Msg("ScakkaApiRemovePath", request[r].path, r) \in Message
      BY <3>1, MessageTypes DEF MessageType, Notifyable
    <3>3. /\ Msg("ScakkaApiWatchUnderPath", request[r].path, r) \in NotAdd
          /\ Msg("ScakkaApiRemovePath", request[r].path, r) \in NotAdd
      BY <3>2 DEF NotAdd, Msg
    <3>4. \E ms \in Seq(NotAdd) : Send(ms)
      BY <2>3, <1>n, <3>3 DEF SendAdd, SendRemove
    <3> QED
      BY <1>q, <2>2, <3>4
  <2>4. CASE CallStop(r)
    <3>1. Shutdown \in NotAdd
      BY RootMessageTypes DEF NotAdd, Shutdown, Msg
    <3>2. \E ms \in Seq(NotAdd) : Send(ms)
      BY <2>4, <1>n, <3>1 DEF CallStop
    <3> QED
      BY <1>q, <2>2, <3>2
  <2>5. CASE UNCHANGED actorVars
    BY <1>q, <1>n, <2>2, <2>5 DEF actorVars
  <2> QED
    BY <2>1, <2>3, <2>4, <2>5 DEF CheckAdd, CheckRemove, StopCompletes, StopTimesOut
<1> QED
  BY <1>1, <1>2, <1>3 DEF WatcherStep

LEMMA NextGrows == DataInv /\ [Next]_vars => ZkGrows
<1> SUFFICES ASSUME DataInv, [Next]_vars PROVE ZkGrows
  OBVIOUS
<1>1. ZkTypeOK /\ \A p \in Znode : zk[p] <= zxid
  BY DEF DataInv, TypeInv, TypeOK, FreshInv
<1>2. CASE WriterStep
  BY <1>1, <1>2, WriterGrows DEF WriterStep
<1>3. CASE UNCHANGED <<zk, zxid>>
  BY <1>1, <1>3, ZkKeptGrows
<1>4. CASE WatcherStep \/ ApiStep \/ SessionStep \/ UNCHANGED vars
  BY <1>3, <1>4 DEF WatcherStep, ProcessEvent, SendUnwatch, SendFollowUp, ApiStep, CheckAdd, CheckRemove,
     SendAdd, SendRemove, CallStop, StopCompletes, StopTimesOut, SessionStep, LoseConnection,
     FindConnection, Disconnect, Reconnect, zkVars, vars
<1> QED
  BY <1>2, <1>3, <1>4, ActorLeavesNodes DEF Next

LEMMA DataInvInit == Init => DataInv
<1> SUFFICES ASSUME Init PROVE DataInv
  OBVIOUS
<1>1. TypeInv
  BY TypeInvInit
<1>2. /\ mailbox = << >> /\ handler = Idle /\ DOMAIN cache = {}
      /\ zxid = 1 /\ zk \in [Znode -> {0, 1}]
  BY DEF Init, ActorInit, ZkInit
<1>3. handler.msg.type = "None" /\ handler.stage = "idle"
  BY <1>2 DEF Idle, Handling, NoMessage, Msg
<1> QED
  BY <1>1, <1>2, <1>3 DEF DataInv, StageInv, FreshInv, InOrder, At

(* Once data as new as d has been seen of a path, it stays so. *)
LEMMA DataInvStep ==
  ASSUME DataInv, [Next]_vars
  PROVE  /\ DataInv'
         /\ \A p : \A d \in Nat : Seen(p, d) => Seen(p, d)'
<1>1. ZkGrows
  BY NextGrows
<1>2. TypeInv' /\ StageInv' /\ TypeInv
  BY TypeInvStep, StageStep DEF DataInv
<1>3. CASE FinishUpdate
  BY <1>1, <1>2, <1>3, FinishUpdateKeepsOrder DEF DataInv
<1>4. CASE ~FinishUpdate
  <2>1. Orderly
    BY <1>4, ActorIsOrderly, OthersAreOrderly DEF Next
  <2> QED
    BY <1>1, <1>2, <2>1, OrderlyKeepsSeen, OrderlyKeepsFresh DEF DataInv
<1> QED
  BY <1>3, <1>4

LEMMA DataNeverRegresses ==
  ASSUME DataInv, [Next]_vars, NEW p \in DOMAIN cache \cap DOMAIN cache'
  PROVE  cache'[p].data >= cache[p].data
<1>1. cache[p].data \in Nat /\ cache'[p].data \in Nat
  <2>1. TypeInv /\ TypeInv'
    BY DataInvStep DEF DataInv
  <2> QED
    BY <2>1 DEF TypeInv, TypeOK, ActorTypeOK, Entry
<1>2. PICK d : d = cache[p].data
  OBVIOUS
<1>3. Seen(p, d)
  BY <1>2 DEF DataInv, FreshInv
<1>4. Stored(p, d)'
  BY <1>1, <1>2, <1>3, DataInvStep DEF Seen
<1> QED
  BY <1>1, <1>2, <1>4 DEF Stored, Cached

(***************************************************************************)
(* While a path stays in the cache its data never becomes older, although  *)
(* Update reads the data, and Add stores it, in different messages, with   *)
(* other Updates of the path under way (CacheUpdaterActor, Update, Add).   *)
(***************************************************************************)
THEOREM DataGoesForward == Spec => CachedDataNeverRegresses
<1>1. Spec => []DataInv
  BY DataInvInit, DataInvStep, PTL DEF Spec
<1>2. DataInv /\ [Next]_vars => [\A p \in DOMAIN cache \cap DOMAIN cache' :
                                   cache'[p].data >= cache[p].data]_vars
  BY DataNeverRegresses
<1> QED
  BY <1>1, <1>2, PTL DEF Spec, CachedDataNeverRegresses
=============================================================================
