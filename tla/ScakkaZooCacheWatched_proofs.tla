--------------------- MODULE ScakkaZooCacheWatched_proofs -------------------
(***************************************************************************)
(* At rest every entry and every added path is watched, as long as no call *)
(* has failed.                                                             *)
(*                                                                         *)
(* What is taken out of watchedNodes is put back or evicted by a message   *)
(* for the same path that is still to come: behind every Unwatch in the    *)
(* mailbox there is one, or the watcher is about to send it; a handler of  *)
(* Update, Add, SetWatcher or Remove hands its path on to another message  *)
(* until the path is recorded as watched or its entry is evicted.          *)
(***************************************************************************)
EXTENDS CacheContract_proofs

NotUnwatch == {m \in Message : m.type # "Unwatch"}

(* A message that ends with path p watched, evicted, or handed on. *)
Handles(p) == {m \in Message : m.path = p /\ m.type \in {"Update", "Add", "SetWatcher", "Remove"}}

HandledIn(s, p) == \E j \in DOMAIN s : s[j] \in Handles(p)

(* P: the paths for which such a message is about to be sent *)
Followed(s, P) ==
  \A i \in DOMAIN s : s[i].type = "Unwatch" =>
    s[i].path \in P \/ \E j \in DOMAIN s : j > i /\ s[j] \in Handles(s[i].path)

AboutToFollow == IF watcher.stage = "followUp" THEN {watcher.event.path} ELSE {}

Coming(p) == p \in AboutToFollow \/ HandledIn(mailbox, p)
Held(p)   == handler.stage # "idle" /\ handler.msg.path = p

Kept      == DOMAIN cache \cup addedPaths

(* What holds while no call has failed.  A malformed path always fails, so *)
(* it is neither cached nor added.                                         *)
WatchedInv ==
  /\ Kept \subseteq Znode
  /\ At("store") => handler.msg.path \in Znode
  /\ Followed(mailbox, AboutToFollow)
  /\ At("addFailed") => handler.msg.path \notin Znode
  /\ At("list") \/ At("store") =>
       \/ handler.msg.path \notin Znode
       \/ handler.msg.path \in watchedNodes
       \/ Coming(handler.msg.path)
  /\ At("evict") /\ handler.msg.path \in addedPaths =>
       handler.msg.path \in watchedNodes \/ Coming(handler.msg.path)
  /\ \A p \in Kept \ watchedNodes : Coming(p) \/ Held(p)

FaultlessInv == faults = 0 => WatchedInv

-----------------------------------------------------------------------------
(* Sequences of messages *)

LEMMA FollowedOthers ==
  ASSUME NEW s \in Seq(NotUnwatch), NEW P
  PROVE  Followed(s, P) /\ s \in Seq(Message)
<1>1. \A i \in DOMAIN s : s[i] \in NotUnwatch
  OBVIOUS
<1>2. s \in Seq(Message)
  BY SeqMonotonic DEF NotUnwatch
<1> QED
  BY <1>1, <1>2 DEF Followed, NotUnwatch

LEMMA FollowedConcat ==
  ASSUME NEW s \in Seq(Message), NEW t \in Seq(Message), NEW P
  PROVE  /\ Followed(s, P) /\ Followed(t, P) => Followed(s \o t, P)
         /\ \A p : HandledIn(s, p) \/ HandledIn(t, p) => HandledIn(s \o t, p)
<1>1. /\ \A i \in 1 .. Len(s) : (s \o t)[i] = s[i]
      /\ \A i \in 1 .. Len(t) : (s \o t)[Len(s) + i] = t[i]
      /\ Len(s) \in Nat /\ Len(t) \in Nat
      /\ DOMAIN s = 1 .. Len(s) /\ DOMAIN t = 1 .. Len(t)
      /\ DOMAIN (s \o t) = 1 .. Len(s) + Len(t)
  OBVIOUS
<1> DEFINE u == s \o t
<1> HIDE DEF u
<1>u. /\ \A i \in 1 .. Len(s) : u[i] = s[i]
      /\ \A i \in 1 .. Len(t) : u[Len(s) + i] = t[i]
      /\ DOMAIN u = 1 .. Len(s) + Len(t)
  BY <1>1 DEF u
<1>2. \A p : HandledIn(s, p) \/ HandledIn(t, p) => HandledIn(u, p)
  <2>1. ASSUME NEW p, NEW i \in DOMAIN s, s[i] \in Handles(p) PROVE HandledIn(u, p)
    BY <1>1, <1>u, <2>1 DEF HandledIn
  <2>2. ASSUME NEW p, NEW i \in DOMAIN t, t[i] \in Handles(p) PROVE HandledIn(u, p)
    <3>1. Len(s) + i \in DOMAIN u /\ u[Len(s) + i] = t[i]
      BY <1>1, <1>u
    <3> QED
      BY <2>2, <3>1 DEF HandledIn
  <2> QED
    BY <2>1, <2>2 DEF HandledIn
<1>3. ASSUME Followed(s, P), Followed(t, P), NEW i \in DOMAIN u, u[i].type = "Unwatch"
      PROVE  u[i].path \in P \/ \E j \in DOMAIN u : j > i /\ u[j] \in Handles(u[i].path)
  <2>1. CASE i \in 1 .. Len(s)
    <3>1. u[i] = s[i] /\ i \in DOMAIN s
      BY <1>1, <1>u, <2>1
    <3>2. \A j \in DOMAIN s : j \in DOMAIN u /\ u[j] = s[j]
      BY <1>1, <1>u
    <3> QED
      BY <1>3, <3>1, <3>2 DEF Followed
  <2>2. CASE i \notin 1 .. Len(s)
    <3>1. PICK k \in 1 .. Len(t) : i = Len(s) + k
      <4>1. i - Len(s) \in 1 .. Len(t) /\ i = Len(s) + (i - Len(s))
        BY <1>1, <1>u, <2>2
      <4> QED
        BY <4>1
    <3>2. u[i] = t[k] /\ k \in DOMAIN t
      BY <1>1, <1>u, <3>1
    <3>3. \A j \in DOMAIN t : Len(s) + j \in DOMAIN u /\ u[Len(s) + j] = t[j] /\ (j > k => Len(s) + j > i)
      BY <1>1, <1>u, <3>1
    <3> QED
      BY <1>3, <3>2, <3>3 DEF Followed
  <2> QED
    BY <2>1, <2>2
<1> QED
  BY <1>2, <1>3 DEF Followed, u

LEMMA FollowedTail ==
  ASSUME NEW s \in Seq(Message), s # << >>, NEW P
  PROVE  /\ Tail(s) \in Seq(Message)
         /\ Followed(s, P) => Followed(Tail(s), P)
         /\ \A p : HandledIn(s, p) => Head(s) \in Handles(p) \/ HandledIn(Tail(s), p)
         /\ Followed(s, P) /\ Head(s).type = "Unwatch" =>
              Head(s).path \in P \/ HandledIn(Tail(s), Head(s).path)
<1> DEFINE t == Tail(s)
<1>1. /\ t \in Seq(Message) /\ Len(s) \in Nat /\ Len(s) >= 1
      /\ DOMAIN s = 1 .. Len(s) /\ DOMAIN t = 1 .. Len(s) - 1
      /\ \A i \in 1 .. Len(s) - 1 : t[i] = s[i + 1]
      /\ Head(s) = s[1]
  OBVIOUS
<1> HIDE DEF t
<1>2. ASSUME NEW j \in DOMAIN s, j > 1 PROVE j - 1 \in DOMAIN t /\ t[j - 1] = s[j]
  BY <1>1, <1>2
<1>3. \A p : HandledIn(s, p) => Head(s) \in Handles(p) \/ HandledIn(t, p)
  <2> SUFFICES ASSUME NEW p, NEW j \in DOMAIN s, s[j] \in Handles(p), Head(s) \notin Handles(p)
               PROVE  HandledIn(t, p)
    BY DEF HandledIn
  <2>1. j > 1
    BY <1>1
  <2> QED
    BY <1>2, <2>1 DEF HandledIn
<1>4. ASSUME Followed(s, P), Head(s).type = "Unwatch", Head(s).path \notin P
      PROVE  HandledIn(t, Head(s).path)
  <2>1. PICK j \in DOMAIN s : j > 1 /\ s[j] \in Handles(s[1].path)
    BY <1>1, <1>4 DEF Followed
  <2> QED
    BY <1>1, <1>2, <2>1 DEF HandledIn
<1>5. ASSUME Followed(s, P), NEW i \in DOMAIN t, t[i].type = "Unwatch", t[i].path \notin P
      PROVE  \E j \in DOMAIN t : j > i /\ t[j] \in Handles(t[i].path)
  <2>1. i + 1 \in DOMAIN s /\ t[i] = s[i + 1] /\ i \in Nat
    BY <1>1
  <2>2. PICK j \in DOMAIN s : j > i + 1 /\ s[j] \in Handles(t[i].path)
    BY <1>5, <2>1 DEF Followed
  <2>3. j - 1 > i /\ j > 1
    BY <1>1, <2>1, <2>2
  <2> QED
    BY <1>2, <2>2, <2>3
<1> QED
  BY <1>1, <1>3, <1>4, <1>5 DEF Followed, t

LEMMA FollowedOne ==
  ASSUME NEW m \in Message
  PROVE  /\ <<m>> \in Seq(Message)
         /\ \A p : m \in Handles(p) => HandledIn(<<m>>, p)
         /\ m \in NotUnwatch => <<m>> \in Seq(NotUnwatch)
<1>1. DOMAIN <<m>> = {1} /\ <<m>>[1] = m
  OBVIOUS
<1> QED
  BY <1>1 DEF HandledIn

(* A message that handles p, at the end, is behind every Unwatch of p. *)
LEMMA FollowedByLast ==
  ASSUME NEW s \in Seq(Message), NEW ms \in Seq(NotUnwatch), NEW p,
         Followed(s, {p}), HandledIn(ms, p)
  PROVE  Followed(s \o ms, {})
<1> DEFINE u == s \o ms
<1>1. /\ \A i \in 1 .. Len(s) : u[i] = s[i]
      /\ \A i \in 1 .. Len(ms) : u[Len(s) + i] = ms[i]
      /\ Len(s) \in Nat /\ Len(ms) \in Nat
      /\ DOMAIN s = 1 .. Len(s) /\ DOMAIN ms = 1 .. Len(ms)
      /\ DOMAIN u = 1 .. Len(s) + Len(ms)
      /\ \A i \in 1 .. Len(ms) : ms[i] \in NotUnwatch
  OBVIOUS
<1> HIDE DEF u
<1>2. PICK k \in 1 .. Len(ms) : ms[k] \in Handles(p)
  BY <1>1 DEF HandledIn
<1>3. Len(s) + k \in DOMAIN u /\ u[Len(s) + k] = ms[k]
  BY <1>1
<1>4. ASSUME NEW i \in DOMAIN u, u[i].type = "Unwatch"
      PROVE  \E j \in DOMAIN u : j > i /\ u[j] \in Handles(u[i].path)
  <2>1. i \in 1 .. Len(s)
    <3> SUFFICES ASSUME i \notin 1 .. Len(s) PROVE FALSE
      OBVIOUS
    <3>1. i - Len(s) \in 1 .. Len(ms) /\ i = Len(s) + (i - Len(s))
      BY <1>1
    <3>2. u[i] = ms[i - Len(s)]
      BY <1>1, <3>1
    <3> QED
      BY <1>1, <1>4, <3>1, <3>2 DEF NotUnwatch
  <2>2. u[i] = s[i] /\ i \in DOMAIN s /\ Len(s) + k > i
    BY <1>1, <2>1
  <2>3. CASE s[i].path = p
    BY <1>2, <1>3, <2>2, <2>3
  <2>4. CASE s[i].path # p
    <3>1. PICK j \in DOMAIN s : j > i /\ s[j] \in Handles(s[i].path)
      BY <1>4, <2>2, <2>4 DEF Followed
    <3>2. j \in DOMAIN u /\ u[j] = s[j]
      BY <1>1
    <3> QED
      BY <2>2, <3>1, <3>2
  <2> QED
    BY <2>3, <2>4
<1> QED
  BY <1>4 DEF Followed, u

(* What a step does to the messages that are to come. *)
LEMMA SentFollowed ==
  ASSUME mailbox \in Seq(Message), NEW P, Followed(mailbox, P),
         NEW ms \in Seq(NotUnwatch), Send(ms)
  PROVE  /\ Followed(mailbox', P)
         /\ \A p : HandledIn(mailbox, p) => HandledIn(mailbox', p)
         /\ alive => \A p : HandledIn(ms, p) => HandledIn(mailbox', p)
BY FollowedOthers, FollowedConcat DEF Send

LEMMA ConsumedFollowed ==
  ASSUME mailbox \in Seq(Message), mailbox # << >>, NEW P, Followed(mailbox, P),
         NEW ms \in Seq(NotUnwatch), Consume(ms)
  PROVE  /\ Followed(mailbox', P)
         /\ \A p : HandledIn(mailbox, p) => Head(mailbox) \in Handles(p) \/ HandledIn(mailbox', p)
         /\ Head(mailbox).type = "Unwatch" =>
              Head(mailbox).path \in P \/ HandledIn(mailbox', Head(mailbox).path)
<1>1. /\ Tail(mailbox) \in Seq(Message) /\ Followed(Tail(mailbox), P)
      /\ \A p : HandledIn(mailbox, p) => Head(mailbox) \in Handles(p) \/ HandledIn(Tail(mailbox), p)
      /\ Head(mailbox).type = "Unwatch" =>
           Head(mailbox).path \in P \/ HandledIn(Tail(mailbox), Head(mailbox).path)
  BY FollowedTail
<1>2. ms \in Seq(Message) /\ Followed(ms, P)
  BY FollowedOthers
<1>3. /\ Followed(mailbox', P)
      /\ \A p : HandledIn(Tail(mailbox), p) => HandledIn(mailbox', p)
  BY <1>1, <1>2, FollowedConcat DEF Consume
<1> QED
  BY <1>1, <1>3

LEMMA HandlingMessages ==
  ASSUME NEW p \in PathString, NEW r \in Notifyable, NEW rec \in BOOLEAN, NEW d \in Nat
  PROVE  \A m \in {Update(p, rec, r), Add(p, d, rec, r), SetWatcher(p, r), Remove(p, r)} :
           /\ m \in Handles(p) /\ m \in NotUnwatch
           /\ <<m>> \in Seq(NotUnwatch) /\ HandledIn(<<m>>, p)
<1> SUFFICES ASSUME NEW m \in {Update(p, rec, r), Add(p, d, rec, r), SetWatcher(p, r), Remove(p, r)}
             PROVE  /\ m \in Handles(p) /\ m \in NotUnwatch
                    /\ <<m>> \in Seq(NotUnwatch) /\ HandledIn(<<m>>, p)
  OBVIOUS
<1>1. m \in Message
  BY MessageTypes
<1>2. m.path = p /\ m.type \in {"Update", "Add", "SetWatcher", "Remove"}
  <2>1. CASE m = Update(p, rec, r)
    BY <2>1 DEF Update, Msg
  <2>2. CASE m = Add(p, d, rec, r)
    BY <2>2 DEF Add, Msg
  <2>3. CASE m \in {SetWatcher(p, r), Remove(p, r)}
    BY <2>3 DEF SetWatcher, Remove, Msg
  <2> QED
    BY <2>1, <2>2, <2>3
<1>3. m \in Handles(p) /\ m \in NotUnwatch
  BY <1>1, <1>2 DEF Handles, NotUnwatch
<1> QED
  BY <1>1, <1>3, FollowedOne

-----------------------------------------------------------------------------
LEMMA WatchedActorStep ==
  ASSUME TypeInv, StageInv, StopInv, FitInv, WatchedInv, ActorStep, faults' = 0
  PROVE  WatchedInv'
<1>0. alive
  BY OnlyAliveActs
<1>1. /\ mailbox \in Seq(Message) /\ faults \in Nat
      /\ handler \in [stage : Stages, msg : Message, listed : SUBSET Name]
      /\ handler.msg.path \in PathString /\ handler.msg.notify \in Notifyable
      /\ handler.msg.data \in Nat /\ handler.msg.recursive \in BOOLEAN
      /\ \A p \in DOMAIN cache : cache[p].children \in SUBSET Name
      /\ NoOne \in Notifyable
  BY DEF TypeInv, TypeOK, ActorTypeOK, ZkTypeOK, Message, Entry, Notifyable
<1>2. AboutToFollow' = AboutToFollow
  BY DEF AboutToFollow, ActorStep, HandleWatchUnderPath, HandleRemovePath, HandleShutdown,
     HandleUpdate, FinishUpdate, HandleAdd, ListChildren, StoreEntry, FailAdd, HandleRemove, Evict,
     HandleSetWatcher, HandleUnwatch, WatchExists, WatchChildren, WatchData, RecordWatch, WatchMissing
<1>3. /\ Kept \subseteq Znode
      /\ Followed(mailbox, AboutToFollow)
      /\ \A p \in Kept \ watchedNodes :
           p \in AboutToFollow \/ HandledIn(mailbox, p) \/ Held(p)
      /\ UNCHANGED <<cache, addedPaths>> => Kept' = Kept
  BY DEF WatchedInv, Coming, Kept
<1> DEFINE Arrives(p) == p \in AboutToFollow \/ HandledIn(mailbox', p)
           NextHeld(p) == handler'.stage # "idle" /\ handler'.msg.path = p
           StagesFit ==
             /\ handler'.stage = "store" => handler'.msg.path \in Znode
             /\ handler'.stage = "addFailed" => handler'.msg.path \notin Znode
             /\ handler'.stage \in {"list", "store"} =>
                  \/ handler'.msg.path \notin Znode
                  \/ handler'.msg.path \in watchedNodes'
                  \/ Arrives(handler'.msg.path)
             /\ handler'.stage = "evict" /\ handler'.msg.path \in addedPaths' =>
                  handler'.msg.path \in watchedNodes' \/ Arrives(handler'.msg.path)
<1>4. SUFFICES /\ Kept' \subseteq Znode
               /\ Followed(mailbox', AboutToFollow)
               /\ StagesFit
               /\ \A p \in Kept' \ watchedNodes' : Arrives(p) \/ NextHeld(p)
  BY <1>2 DEF WatchedInv, Coming, Held, At
<1>i. Idle.stage = "idle"
  BY DEF Idle, Handling
<1>d. Done => StagesFit
  BY <1>i DEF Done
<1>e. << >> \in Seq(NotUnwatch)
  OBVIOUS
(* A message is taken: its own path is held, or it has to be dealt with. *)
<1>r. ASSUME NEW type, Received(type)
      PROVE  /\ mailbox # << >> /\ Head(mailbox) \in Message /\ Head(mailbox).type = type
             /\ Head(mailbox).path \in PathString /\ Head(mailbox).notify \in Notifyable
             /\ handler = Idle /\ \A p : ~Held(p)
  <2>1. mailbox # << >> /\ Head(mailbox) \in Message /\ Head(mailbox).type = type
    BY <1>r, ReceivedType DEF TypeInv, TypeOK
  <2> QED
    BY <1>r, <1>i, <2>1 DEF Message, Received, Held
<1>c. ASSUME NEW type, Received(type), NEW ms \in Seq(NotUnwatch), Consume(ms)
      PROVE  /\ Followed(mailbox', AboutToFollow)
             /\ \A p \in Kept \ watchedNodes : Arrives(p) \/ Head(mailbox) \in Handles(p)
             /\ type = "Unwatch" => Arrives(Head(mailbox).path)
  BY <1>1, <1>3, <1>c, <1>r, ConsumedFollowed
<1>s. ASSUME NEW ms \in Seq(NotUnwatch), Send(ms)
      PROVE  /\ Followed(mailbox', AboutToFollow)
             /\ \A p \in Kept \ watchedNodes : Arrives(p) \/ Held(p)
             /\ \A p : p \in AboutToFollow \/ HandledIn(mailbox, p) => Arrives(p)
             /\ \A p : HandledIn(ms, p) => Arrives(p)
  BY <1>0, <1>1, <1>3, <1>s, SentFollowed
<1>k. ASSUME mailbox' = mailbox
      PROVE  /\ Followed(mailbox', AboutToFollow)
             /\ \A p \in Kept \ watchedNodes : Arrives(p) \/ Held(p)
             /\ \A p : p \in AboutToFollow \/ HandledIn(mailbox, p) => Arrives(p)
  BY <1>3, <1>k
<1>5. CASE HandleWatchUnderPath
  <2> DEFINE m == Head(mailbox)
  <2>1. /\ m.path \in PathString /\ m.notify \in Notifyable /\ m.type = "ScakkaApiWatchUnderPath"
        /\ \A p : m \notin Handles(p)
    BY <1>5, <1>r DEF HandleWatchUnderPath, Handles
  <2>2. <<Update(m.path, TRUE, m.notify)>> \in Seq(NotUnwatch)
    BY <2>1, HandlingMessages
  <2>3. Followed(mailbox', AboutToFollow) /\ \A p \in Kept \ watchedNodes : Arrives(p)
    BY <1>5, <1>c, <2>1, <2>2 DEF HandleWatchUnderPath
  <2>4. handler' = Idle
    BY <1>5, <1>r DEF HandleWatchUnderPath
  <2> QED
    BY <1>3, <1>5, <1>i, <2>3, <2>4 DEF HandleWatchUnderPath
<1>6. CASE HandleRemovePath
  <2> DEFINE m == Head(mailbox)
  <2>1. /\ m.path \in PathString /\ m.notify \in Notifyable /\ m.type = "ScakkaApiRemovePath"
        /\ \A p : m \notin Handles(p)
    BY <1>6, <1>r DEF HandleRemovePath, Handles
  <2>2. <<Remove(m.path, m.notify)>> \in Seq(NotUnwatch)
    BY <2>1, HandlingMessages
  <2>3. Followed(mailbox', AboutToFollow) /\ \A p \in Kept \ watchedNodes : Arrives(p)
    BY <1>6, <1>c, <2>1, <2>2 DEF HandleRemovePath
  <2>4. handler' = Idle
    BY <1>6, <1>r DEF HandleRemovePath
  <2> QED
    BY <1>3, <1>6, <1>i, <2>3, <2>4 DEF HandleRemovePath
<1>7. CASE HandleShutdown
  <2>1. handler' = Idle /\ mailbox' = << >> /\ Kept' = {}
    BY <1>7, <1>r DEF HandleShutdown, Kept
  <2> QED
    BY <1>i, <2>1 DEF Followed
<1>8. CASE HandleUpdate
  <2> DEFINE update == Head(mailbox)
  <2>1. /\ Followed(mailbox', AboutToFollow) /\ UNCHANGED <<cache, addedPaths, watchedNodes>>
        /\ \A p \in Kept \ watchedNodes : Arrives(p) \/ update \in Handles(p)
    BY <1>8, <1>c, <1>e DEF HandleUpdate
  <2>2. update \in Message
    BY <1>8, <1>r DEF HandleUpdate
  <2>3. CASE handler' = Handling("fetched", [update EXCEPT !.data = zk[update.path]], {})
    <3>1. handler'.stage = "fetched" /\ handler'.msg.path = update.path
      BY <2>2, <2>3 DEF Handling, Message
    <3> QED
      BY <1>3, <2>1, <3>1 DEF Handles
  <2>4. CASE handler' = Handling("fetchMissing", update, {})
    <3>1. handler'.stage = "fetchMissing" /\ handler'.msg.path = update.path
      BY <2>4 DEF Handling
    <3> QED
      BY <1>3, <2>1, <3>1 DEF Handles
  <2>5. CASE Read(update.path, "error") /\ Done
    <3>1. update.path \notin Znode
      BY <1>1, <2>5, NoFaultOfZnode DEF Read
    <3> QED
      BY <1>3, <1>d, <2>1, <2>5, <3>1 DEF Handles
  <2> QED
    BY <1>8, <2>3, <2>4, <2>5 DEF HandleUpdate
<1>9. CASE FinishUpdate
  <2>1. PICK m \in {Add(handler.msg.path, handler.msg.data, handler.msg.recursive, handler.msg.notify),
                    SetWatcher(handler.msg.path, handler.msg.notify)} : Send(<<m>>)
    BY <1>9 DEF FinishUpdate
  <2>2. <<m>> \in Seq(NotUnwatch) /\ HandledIn(<<m>>, handler.msg.path)
    BY <1>1, HandlingMessages
  <2> QED
    BY <1>3, <1>9, <1>d, <1>s, <2>1, <2>2 DEF FinishUpdate, Held
<1>10. CASE HandleAdd \/ HandleSetWatcher
  <2> DEFINE m == Head(mailbox)
  <2>1. /\ Followed(mailbox', AboutToFollow) /\ UNCHANGED <<cache, addedPaths, watchedNodes>>
        /\ \A p \in Kept \ watchedNodes : Arrives(p) \/ m \in Handles(p)
        /\ SetWatchers(m) /\ m.type \in {"Add", "SetWatcher"}
    BY <1>10, <1>c, <1>e, <1>r DEF HandleAdd, HandleSetWatcher
  <2>2. CASE m.path \in watchedNodes /\ handler' = AfterWatchers(m)
    <3>1. (handler'.stage = "list" /\ handler'.msg = m) \/ handler'.stage = "idle"
      BY <2>1, <2>2, <1>i DEF AfterWatchers, Handling
    <3> QED
      BY <1>3, <2>1, <2>2, <3>1 DEF Handles
  <2>3. CASE handler' = Handling("watchExists", m, {})
    <3>1. handler'.stage = "watchExists" /\ handler'.msg = m
      BY <2>3 DEF Handling
    <3> QED
      BY <1>3, <2>1, <3>1 DEF Handles
  <2> QED
    BY <2>1, <2>2, <2>3 DEF SetWatchers
<1>11. CASE ListChildren
  <2>1. /\ mailbox' = mailbox /\ UNCHANGED <<cache, addedPaths, watchedNodes>> /\ handler.stage = "list"
        /\ handler'.msg = handler.msg
        /\ \/ handler'.stage = "store" /\ handler.msg.path \in Znode
           \/ handler'.stage = "addMissing"
           \/ handler'.stage = "addFailed" /\ handler.msg.path \notin Znode
    <3>1. CASE Read(handler.msg.path, "ok") /\ handler' = Handling("store", handler.msg, ChildNames(handler.msg.path))
      BY <1>11, <3>1, OutcomeOfZnode DEF ListChildren, At, Read, Handling
    <3>2. CASE GoTo("addMissing")
      BY <1>1, <1>11, <3>2 DEF ListChildren, At, GoTo
    <3>3. CASE Read(handler.msg.path, "error") /\ GoTo("addFailed")
      BY <1>1, <1>11, <3>3, NoFaultOfZnode DEF ListChildren, At, GoTo, Read
    <3> QED
      BY <1>11, <3>1, <3>2, <3>3 DEF ListChildren
  <2>2. \/ handler.msg.path \notin Znode \/ handler.msg.path \in watchedNodes
        \/ Arrives(handler.msg.path)
    BY <1>k, <2>1 DEF WatchedInv, At, Coming
  <2> QED
    BY <1>3, <1>k, <2>1, <2>2 DEF Held
<1>w. ASSUME handler.stage \in WatchStages, Resume
      PROVE  \/ handler' = Idle
             \/ handler'.stage \in {"list", "evict"} /\ handler'.msg = handler.msg
  <2>1. handler.msg.type \in {"Add", "Remove", "SetWatcher"}
    BY <1>w DEF TypeInv, HandlerOK
  <2> QED
    BY <1>w, <2>1 DEF Resume, AfterWatchers, Handling
<1>12. CASE StoreEntry
  <2>1. handler.stage = "store" /\ handler.msg.path \in Znode /\ handler'.stage = "idle"
    BY <1>12, <1>i DEF StoreEntry, At, Done, WatchedInv
  <2>2. PICK ms \in Seq(NotUnwatch) : Send(ms)
    <3> DEFINE path == handler.msg.path
               update == [c \in handler.listed |-> Update(ChildPath(path, c), TRUE, handler.msg.notify)]
    <3>1. PICK updates \in ForEachChild(update) :
            Send(IF handler.msg.recursive THEN updates ELSE << >>)
      BY <1>12 DEF StoreEntry
    <3>2. update \in [handler.listed -> NotUnwatch] /\ handler.listed \in SUBSET Name
      BY <1>1, ChildPathType, HandlingMessages
    <3>3. updates \in Seq(NotUnwatch)
      BY <3>1, <3>2, ForEachChildType
    <3> QED
      BY <1>e, <3>1, <3>3
  <2>3. Kept' \subseteq Kept \cup {handler.msg.path} /\ watchedNodes' = watchedNodes
    BY <1>12 DEF StoreEntry, CacheWith, SucceedNotifyable, Kept
  <2>4. handler.msg.path \in watchedNodes \/ Arrives(handler.msg.path)
    BY <1>s, <2>1, <2>2 DEF WatchedInv, At, Coming
  <2> QED
    BY <1>3, <1>s, <2>1, <2>2, <2>3, <2>4 DEF Held
<1>13. CASE FailAdd
  <2>1. /\ UNCHANGED <<cache, addedPaths, watchedNodes>> /\ handler'.stage = "idle"
        /\ handler.stage \in {"addMissing", "addFailed"}
        /\ handler.stage = "addFailed" => handler.msg.path \notin Znode
    BY <1>13, <1>i DEF FailAdd, At, Done, WatchedInv
  <2>2. CASE handler.stage = "addMissing"
    <3>1. Send(<<Remove(handler.msg.path, NoOne)>>)
      BY <1>13, <2>2 DEF FailAdd, At
    <3>2. /\ <<Remove(handler.msg.path, NoOne)>> \in Seq(NotUnwatch)
          /\ HandledIn(<<Remove(handler.msg.path, NoOne)>>, handler.msg.path)
      BY <1>1, HandlingMessages
    <3> QED
      BY <1>3, <1>s, <2>1, <3>1, <3>2 DEF Held
  <2>3. CASE handler.stage = "addFailed"
    <3>1. Send(<< >>)
      BY <1>13, <2>3 DEF FailAdd, At
    <3> QED
      BY <1>3, <1>e, <1>s, <2>1, <2>3, <3>1 DEF Held
  <2> QED
    BY <2>1, <2>2, <2>3
<1>14. CASE HandleRemove
  <2> DEFINE path == Head(mailbox).path
  <2>1. /\ handler'.stage \in {"watchExists", "evict"} /\ handler'.msg.path = path
        /\ handler'.stage = "evict" => path \notin addedPaths
        /\ watchedNodes' = watchedNodes \ {path} /\ UNCHANGED <<cache, addedPaths>>
    BY <1>14 DEF HandleRemove, Handling
  <2>2. /\ Followed(mailbox', AboutToFollow)
        /\ \A p \in Kept \ watchedNodes : Arrives(p) \/ Head(mailbox) \in Handles(p)
    BY <1>14, <1>c, <1>e DEF HandleRemove
  <2> QED
    BY <1>3, <2>1, <2>2 DEF Handles
<1>15. CASE Evict
  <2>1. handler.stage = "evict" /\ handler'.stage = "idle" /\ watchedNodes' = watchedNodes
    BY <1>15, <1>i DEF Evict, At, Done
  <2> DEFINE path == handler.msg.path
  <2>w. path \in addedPaths => path \in watchedNodes \/ Coming(path)
    BY <2>1 DEF WatchedInv, At
  <2>2. CASE ~Cached(path) /\ UNCHANGED <<cache, addedPaths, mailbox>>
    <3>1. path \in Kept => path \in addedPaths
      BY <2>2 DEF Kept, Cached
    <3> QED
      BY <1>3, <1>k, <2>1, <2>2, <2>w, <3>1 DEF Held, Coming
  <2>3. CASE /\ Cached(path) /\ cache' = CacheWithout(path)
             /\ SucceedNotifyable(handler.msg.notify, path)
    <3>1. Kept' \subseteq Kept /\ (path \in Kept' => path \in addedPaths)
      <4>1. addedPaths' \subseteq addedPaths
        <5>1. handler.msg \in Fitting /\ handler.msg.type = "Remove"
          BY <2>1 DEF FitInv, StageInv
        <5>2. Notifies(handler.msg.notify, path) =>
                request[handler.msg.notify].op = "removePathFromCache"
          BY <5>1 DEF Fitting, OpOf, Notifies
        <5> QED
          BY <2>3, <5>2 DEF SucceedNotifyable
      <4>2. DOMAIN cache' = DOMAIN cache \ {path}
        BY <2>3 DEF CacheWithout
      <4> QED
        BY <4>1, <4>2 DEF Kept
    <3>2. PICK ms \in Seq(NotUnwatch) : Send(ms)
      <4> DEFINE children == cache[path].children
                 remove == [c \in children |-> Remove(ChildPath(path, c), handler.msg.notify)]
      <4>1. PICK removes \in ForEachChild(remove) : Send(removes)
        BY <1>15, <2>3 DEF Evict
      <4>2. remove \in [children -> NotUnwatch] /\ children \in SUBSET Name
        BY <1>1, <2>3, ChildPathType, HandlingMessages DEF Cached
      <4>3. removes \in Seq(NotUnwatch)
        BY <4>1, <4>2, ForEachChildType
      <4> QED
        BY <4>1, <4>3
    <3> QED
      BY <1>3, <1>s, <2>1, <2>w, <3>1, <3>2 DEF Held, Coming
  <2> QED
    BY <1>15, <2>2, <2>3 DEF Evict
<1>16. CASE HandleUnwatch
  <2> DEFINE path == Head(mailbox).path
  <2>1. /\ handler'.stage = "idle" /\ watchedNodes' = watchedNodes \ {path} /\ UNCHANGED <<cache, addedPaths>>
        /\ Head(mailbox).type = "Unwatch"
    BY <1>16, <1>i, <1>r DEF HandleUnwatch
  <2>2. /\ Followed(mailbox', AboutToFollow)
        /\ \A p \in Kept \ watchedNodes : Arrives(p) \/ Head(mailbox) \in Handles(p)
        /\ Arrives(path)
    BY <1>16, <1>c, <1>e DEF HandleUnwatch
  <2> QED
    BY <1>3, <2>1, <2>2 DEF Handles
<1>17. CASE WatchExists \/ WatchChildren \/ WatchData
  <2>1. /\ UNCHANGED <<mailbox, cache, addedPaths, watchedNodes>> /\ handler.stage \in WatchStages
        /\ \/ \E stage \in WatchStages : GoTo(stage)
           \/ Resume /\ RoundTrip(handler.msg.path, "error")
    BY <1>17 DEF WatchExists, WatchChildren, WatchData, At, WatchStages,
       ExistsWithWatch, GetChildrenWithWatch, GetDataWithWatch
  <2>2. ASSUME NEW stage \in WatchStages, GoTo(stage)
        PROVE  handler'.stage \in WatchStages /\ handler'.msg = handler.msg
    BY <1>1, <2>2 DEF GoTo
  <2>3. CASE \E stage \in WatchStages : GoTo(stage)
    BY <1>3, <1>k, <2>1, <2>2, <2>3 DEF WatchStages, Held
  <2>4. CASE Resume /\ RoundTrip(handler.msg.path, "error")
    <3>1. handler.msg.path \notin Znode
      BY <1>1, <2>4, NoFaultOfZnode
    <3> QED
      BY <1>3, <1>d, <1>i, <1>k, <1>w, <2>1, <2>4, <3>1 DEF Held, Kept
  <2> QED
    BY <2>1, <2>3, <2>4
<1>18. CASE RecordWatch
  <2>1. /\ UNCHANGED <<mailbox, cache, addedPaths>> /\ watchedNodes' = watchedNodes \cup {handler.msg.path}
        /\ \/ handler'.stage = "idle"
           \/ handler'.stage \in {"list", "evict"} /\ handler'.msg = handler.msg
    BY <1>18, <1>i, <1>w DEF RecordWatch, At, WatchStages
  <2> QED
    BY <1>3, <1>k, <2>1 DEF Held
<1>19. CASE WatchMissing
  <2>1. /\ UNCHANGED <<cache, addedPaths, watchedNodes>>
        /\ \/ handler'.stage = "idle"
           \/ handler'.stage \in {"list", "evict"} /\ handler'.msg = handler.msg
    BY <1>19, <1>i, <1>w DEF WatchMissing, At, WatchStages
  <2>2. /\ <<Remove(handler.msg.path, NoOne)>> \in Seq(NotUnwatch)
        /\ HandledIn(<<Remove(handler.msg.path, NoOne)>>, handler.msg.path)
    BY <1>1, HandlingMessages
  <2>3. Followed(mailbox', AboutToFollow) /\ Arrives(handler.msg.path)
        /\ \A p \in Kept \ watchedNodes : Arrives(p) \/ Held(p)
    BY <1>19, <1>s, <2>2 DEF WatchMissing
  <2> QED
    BY <1>3, <2>1, <2>3 DEF Held
<1> QED
  BY <1>5, <1>6, <1>7, <1>8, <1>9, <1>10, <1>11, <1>12, <1>13, <1>14, <1>15, <1>16, <1>17, <1>18, <1>19
  DEF ActorStep
-----------------------------------------------------------------------------
LEMMA WatchedWatcherStep ==
  ASSUME TypeInv, StopInv, WatchedInv, WatcherStep
  PROVE  WatchedInv'
<1>1. /\ mailbox \in Seq(Message)
      /\ watcher \in {NoEvent} \cup [stage : {"unwatch", "followUp"}, event : Event]
      /\ NoEvent.stage = "idle" /\ NoOne \in Notifyable
      /\ alive \in BOOLEAN
  BY DEF TypeInv, TypeOK, ActorTypeOK, NoEvent, Notifyable
<1>2. UNCHANGED <<handler, cache, addedPaths, watchedNodes, alive>> /\ Kept' = Kept
  BY DEF WatcherStep, ProcessEvent, SendUnwatch, SendFollowUp, Kept
(* What was to come is still to come. *)
<1>3. ASSUME Followed(mailbox', AboutToFollow'), \A p \in PathString : Coming(p) => Coming(p)'
      PROVE  WatchedInv'
  <2>1. (\A p \in Znode : p \in PathString) /\ addedPaths \subseteq Kept
    BY ZnodeIsPathString DEF Kept
  <2> QED
    BY <1>2, <1>3, <2>1 DEF WatchedInv, At, Held
<1>4. CASE ~alive
  <2>1. mailbox = << >> /\ Kept = {} /\ handler.stage = "idle"
    BY <1>4 DEF StopInv, Ended, Idle, Handling, Kept
  <2>2. mailbox' = << >>
    BY <1>4, <2>1 DEF WatcherStep, ProcessEvent, SendUnwatch, SendFollowUp, Send
  <2> QED
    BY <1>2, <2>1, <2>2 DEF WatchedInv, At, Followed
<1>5. CASE alive /\ ProcessEvent
  <2>1. /\ mailbox' = mailbox /\ watcher = NoEvent
        /\ \/ watcher' = NoEvent
           \/ watcher' = [stage |-> "unwatch", event |-> Head(events)]
    BY <1>5 DEF ProcessEvent
  <2>2. AboutToFollow = {} /\ AboutToFollow' = {}
    BY <1>1, <2>1 DEF AboutToFollow
  <2> QED
    BY <1>3, <2>1, <2>2 DEF WatchedInv, Coming
<1>6. CASE alive /\ SendUnwatch
  <2> DEFINE path == watcher.event.path
  <2>1. watcher.stage = "unwatch" /\ path \in PathString
    BY <1>1, <1>6, ZnodeIsPathString DEF SendUnwatch, Event
  <2>2. /\ mailbox' = mailbox \o <<Unwatch(path)>>
        /\ AboutToFollow = {} /\ AboutToFollow' = {path}
    BY <1>1, <1>6, <2>1 DEF SendUnwatch, Send, AboutToFollow
  <2>3. Unwatch(path) \in Message /\ Unwatch(path).path = path
    BY <1>1, <2>1, MessageTypes DEF Unwatch, Msg
  <2>4. <<Unwatch(path)>> \in Seq(Message) /\ Followed(<<Unwatch(path)>>, {path})
    BY <2>3, FollowedOne DEF Followed
  <2>5. Followed(mailbox, {path})
    BY <2>2 DEF WatchedInv, Followed
  <2> QED
    BY <1>1, <1>3, <2>2, <2>4, <2>5, FollowedConcat DEF Coming
<1>7. CASE alive /\ SendFollowUp
  <2> DEFINE path == watcher.event.path
             m == FollowUp(watcher.event)
  <2>1. watcher.stage = "followUp" /\ path \in PathString
    BY <1>1, <1>7, ZnodeIsPathString DEF SendFollowUp, Event
  <2>2. <<m>> \in Seq(NotUnwatch) /\ HandledIn(<<m>>, path)
    BY <1>1, <2>1, HandlingMessages DEF FollowUp
  <2>3. /\ mailbox' = mailbox \o <<m>>
        /\ AboutToFollow = {path} /\ AboutToFollow' = {}
    BY <1>1, <1>7, <2>1 DEF SendFollowUp, Send, AboutToFollow
  <2>4. <<m>> \in Seq(Message) /\ Followed(<<m>>, {path})
    BY <2>2, FollowedOthers
  <2>5. /\ Followed(mailbox', {path})
        /\ \A p : HandledIn(mailbox, p) \/ HandledIn(<<m>>, p) => HandledIn(mailbox', p)
    BY <1>1, <2>3, <2>4, FollowedConcat DEF WatchedInv
  <2>6. Followed(mailbox', {})
    BY <1>1, <2>2, <2>3, FollowedByLast DEF WatchedInv
  <2> QED
    BY <1>3, <2>2, <2>3, <2>5, <2>6 DEF Coming
<1> QED
  BY <1>1, <1>4, <1>5, <1>6, <1>7 DEF WatcherStep
(* Callers only add to the mailbox; other clients and the session change   *)
(* nothing of the updater.                                                 *)
LEMMA WatchedOtherStep ==
  ASSUME TypeInv, WatchedInv, ApiStep \/ WriterStep \/ SessionStep \/ UNCHANGED vars
  PROVE  WatchedInv'
<1>1. /\ mailbox \in Seq(Message)
      /\ request \in [Request -> Call \cup {NotMade}]
  BY DEF TypeInv, TypeOK, ActorTypeOK, CallsTypeOK
<1>2. /\ UNCHANGED <<handler, cache, addedPaths, watchedNodes, watcher>>
      /\ Kept' = Kept /\ AboutToFollow' = AboutToFollow
  BY DEF ApiStep, CheckAdd, CheckRemove, SendAdd, SendRemove, CallStop, StopCompletes, StopTimesOut,
     WriterStep, SessionStep, LoseConnection, FindConnection, actorVars, vars, AboutToFollow, Kept
<1>3. ASSUME Followed(mailbox', AboutToFollow), \A p : HandledIn(mailbox, p) => HandledIn(mailbox', p)
      PROVE  WatchedInv'
  BY <1>2, <1>3 DEF WatchedInv, At, Held, Coming
<1>4. CASE mailbox' = mailbox
  BY <1>3, <1>4 DEF WatchedInv
<1>5. ASSUME NEW m \in NotUnwatch, Send(<<m>>)
      PROVE  WatchedInv'
  <2>1. <<m>> \in Seq(NotUnwatch)
    OBVIOUS
  <2> QED
    BY <1>1, <1>3, <1>5, <2>1, SentFollowed DEF WatchedInv
<1>6. CASE ApiStep
  <2>1. PICK r \in Request :
          \/ \E path \in ApiPath : CheckAdd(r, path) \/ CheckRemove(r, path)
          \/ SendAdd(r) \/ SendRemove(r)
          \/ CallStop(r) \/ StopCompletes(r) \/ StopTimesOut(r)
    BY <1>6 DEF ApiStep
  <2>2. CASE SendAdd(r) \/ SendRemove(r)
    <3>1. request[r] \in Call
      BY <1>1, <2>2 DEF SendAdd, SendRemove, IsPending
    <3>2. request[r].path \in PathString /\ r \in Notifyable
      BY <3>1 DEF Call, PathString, Notifyable
    <3>3. \A t \in {"ScakkaApiWatchUnderPath", "ScakkaApiRemovePath"} :
            Msg(t, request[r].path, r) \in NotUnwatch
      BY <3>2, MessageTypes DEF NotUnwatch, Msg, MessageType
    <3> QED
      BY <1>5, <2>2, <3>3 DEF SendAdd, SendRemove
  <2>3. CASE CallStop(r)
    <3>1. Shutdown \in NotUnwatch
      BY RootMessageTypes DEF NotUnwatch, Shutdown, Msg
    <3> QED
      BY <1>5, <2>3, <3>1 DEF CallStop
  <2>4. CASE \/ \E path \in ApiPath : CheckAdd(r, path) \/ CheckRemove(r, path)
             \/ StopCompletes(r) \/ StopTimesOut(r)
    BY <1>4, <2>4 DEF CheckAdd, CheckRemove, StopCompletes, StopTimesOut, actorVars
  <2> QED
    BY <2>1, <2>2, <2>3, <2>4
<1> QED
  BY <1>4, <1>6 DEF WriterStep, SessionStep, LoseConnection, FindConnection, actorVars, vars

QuietInv == ContractInv /\ FaultlessInv

LEMMA QuietInvInit == Init => QuietInv
<1> SUFFICES ASSUME Init PROVE QuietInv
  OBVIOUS
<1>1. mailbox = << >> /\ handler.stage = "idle" /\ Kept = {}
  BY DEF Init, ActorInit, Idle, Handling, Kept
<1> QED
  BY <1>1, ContractInvInit DEF QuietInv, FaultlessInv, WatchedInv, Followed, At

LEMMA QuietInvStep == QuietInv /\ [Next]_vars => QuietInv'
<1> SUFFICES ASSUME QuietInv, [Next]_vars PROVE QuietInv'
  OBVIOUS
<1>1. ContractInv'
  BY ContractInvStep DEF QuietInv
<1>2. TypeInv /\ StageInv /\ StopInv /\ FitInv
  BY DEF QuietInv, ContractInv, DataInv
<1>3. ASSUME faults' = 0 PROVE WatchedInv'
  <2>1. WatchedInv
    BY <1>2, <1>3, FaultsStay DEF QuietInv, FaultlessInv
  <2> QED
    BY <1>2, <1>3, <2>1, WatchedActorStep, WatchedWatcherStep, WatchedOtherStep DEF Next
<1> QED
  BY <1>1, <1>3 DEF QuietInv, FaultlessInv

LEMMA RestIsWatched == QuietInv => KeptMeansWatched
<1> SUFFICES ASSUME QuietInv, AtRest, faults = 0, NEW p \in Kept PROVE p \in watchedNodes
  BY DEF KeptMeansWatched, Quiet, Kept
<1>1. mailbox = << >> /\ handler.stage = "idle" /\ watcher.stage = "idle"
  BY DEF AtRest, Idle, Handling, NoEvent
<1>2. ~Coming(p) /\ ~Held(p)
  BY <1>1 DEF Coming, Held, AboutToFollow, HandledIn
<1> QED
  BY <1>2 DEF QuietInv, FaultlessInv, WatchedInv

(***************************************************************************)
(* At rest, and if no call has failed, the watcher would act on an event   *)
(* of every entry and of every added path: no order of Unwatch and Update, *)
(* of a missing node's Remove and of the early return of setWatchers       *)
(* leaves one that is not in watchedNodes (CacheUpdaterActor, setWatchers, *)
(* Unwatch).                                                               *)
(***************************************************************************)
THEOREM EntriesAreWatched == Spec => []KeptMeansWatched
<1>1. Spec => []QuietInv
  BY QuietInvInit, QuietInvStep, PTL DEF Spec
<1> QED
  BY <1>1, RestIsWatched, PTL
=============================================================================
