------------------------ MODULE CacheContract_proofs -------------------------
(***************************************************************************)
(* The cache implements its contract: every step of the actor, the watcher *)
(* and the callers is a step of CacheContract or changes nothing of what   *)
(* callers see.                                                            *)
(*                                                                         *)
(* The invariants proved so far say most of what this takes: entries stem  *)
(* from added paths, a promise is open while a message carries it, only    *)
(* the end of the actor answers a stop, and data goes forward.  One fact   *)
(* more is needed: a notifyable travels only in messages that serve the    *)
(* operation of its call.                                                  *)
(*                                                                         *)
(* The same invariants carry two more theorems, on which calls have been   *)
(* answered when the cache is at rest: AddsAnswered follows the notifyable *)
(* of an addPathToCache from message to message, and RemovalsAnswered the  *)
(* entry and the notifyable of a removePathFromCache.                      *)
(***************************************************************************)
EXTENDS ScakkaZooCacheData_proofs

OpOf(type) ==
  IF type \in {"ScakkaApiRemovePath", "Remove"} THEN "removePathFromCache" ELSE "addPathToCache"

Fitting ==
  {m \in Message : m.notify # NoOne =>
     request[m.notify] \in Call /\ request[m.notify].op = OpOf(m.type)}

FitInv == mailbox \in Seq(Fitting) /\ handler.msg \in Fitting

ContractInv == DataInv /\ SubtreeInv /\ PromiseInv /\ StopInv /\ FitInv

-----------------------------------------------------------------------------
(* Messages fit the calls they notify *)

LEMMA FittingMessages ==
  ASSUME NEW m \in Fitting, NEW x \in Message,
         x.notify = NoOne \/ (x.notify = m.notify /\ OpOf(x.type) = OpOf(m.type))
  PROVE  x \in Fitting
BY DEF Fitting

LEMMA SentTypes ==
  ASSUME NEW p, NEW r, NEW rec, NEW d
  PROVE  /\ OpOf(Update(p, rec, r).type) = "addPathToCache" /\ Update(p, rec, r).notify = r
         /\ OpOf(Add(p, d, rec, r).type) = "addPathToCache" /\ Add(p, d, rec, r).notify = r
         /\ OpOf(SetWatcher(p, r).type) = "addPathToCache" /\ SetWatcher(p, r).notify = r
         /\ OpOf(Remove(p, r).type) = "removePathFromCache" /\ Remove(p, r).notify = r
         /\ Unwatch(p).notify = NoOne
BY DEF Update, Add, SetWatcher, Remove, Unwatch, Msg, OpOf

LEMMA HandlingMsg ==
  ASSUME NEW stage, NEW msg, NEW listed PROVE Handling(stage, msg, listed).msg = msg
BY DEF Handling

LEMMA ActorLeavesCalls == ActorStep => request' = request
BY DEF ActorStep, callVars,
     HandleWatchUnderPath, HandleRemovePath, HandleShutdown, HandleUpdate, FinishUpdate,
     HandleAdd, ListChildren, StoreEntry, FailAdd, HandleRemove, Evict, HandleSetWatcher,
     HandleUnwatch, WatchExists, WatchChildren, WatchData, RecordWatch, WatchMissing

LEMMA FitActorStep == TypeInv /\ StageInv /\ FitInv /\ ActorStep => FitInv'
<1> SUFFICES ASSUME TypeInv, StageInv, FitInv, ActorStep PROVE FitInv'
  OBVIOUS
<1>1. Fitting' = Fitting
  BY ActorLeavesCalls DEF Fitting
<1>2. /\ mailbox \in Seq(Fitting) /\ handler.msg \in Fitting /\ handler.msg \in Message
      /\ handler \in [stage : Stages, msg : Message, listed : SUBSET Name]
      /\ handler.msg.path \in PathString /\ handler.msg.notify \in Notifyable
      /\ handler.msg.data \in Nat /\ handler.msg.recursive \in BOOLEAN
      /\ \A p \in DOMAIN cache : cache[p].children \in SUBSET Name
  BY DEF FitInv, TypeInv, TypeOK, ActorTypeOK, Message, Entry
<1>3. Idle.msg \in Fitting
  BY RootMessageTypes DEF Idle, Handling, NoMessage, Msg, Fitting
<1>t. << >> \in Seq(Fitting) /\ \A m \in Fitting : <<m>> \in Seq(Fitting)
  OBVIOUS
<1>r. ASSUME NEW type, Received(type)
      PROVE  /\ Head(mailbox) \in Fitting /\ Head(mailbox).type = type /\ mailbox # << >>
             /\ Head(mailbox) \in Message
             /\ Head(mailbox).path \in PathString /\ Head(mailbox).notify \in Notifyable
  <2>1. mailbox # << >> /\ Head(mailbox) \in Fitting /\ Head(mailbox).type = type
    BY <1>2, <1>r DEF Received
  <2> QED
    BY <2>1 DEF Fitting, Message
(* Messages that the handlers send, for the call they serve or for nobody. *)
<1>f. ASSUME NEW m \in Fitting, NEW p \in PathString, NEW rec \in BOOLEAN, NEW d \in Nat
      PROVE  /\ Remove(p, NoOne) \in Fitting
             /\ OpOf(m.type) = "addPathToCache" =>
                  /\ Update(p, rec, m.notify) \in Fitting
                  /\ Add(p, d, rec, m.notify) \in Fitting
                  /\ SetWatcher(p, m.notify) \in Fitting
             /\ OpOf(m.type) = "removePathFromCache" => Remove(p, m.notify) \in Fitting
  <2>1. m.notify \in Notifyable /\ NoOne \in Notifyable
    BY DEF Fitting, Message, Notifyable
  <2>2. /\ Remove(p, NoOne) \in Message /\ Remove(p, m.notify) \in Message
        /\ Update(p, rec, m.notify) \in Message /\ Add(p, d, rec, m.notify) \in Message
        /\ SetWatcher(p, m.notify) \in Message
    BY <2>1, MessageTypes
  <2> QED
    BY <2>2, SentTypes, FittingMessages
<1>q. ASSUME mailbox' \in Seq(Fitting), handler'.msg \in Fitting PROVE FitInv'
  BY <1>1, <1>q DEF FitInv
<1>d. Done => handler'.msg \in Fitting
  BY <1>3 DEF Done
<1>w. ASSUME NEW msg \in Fitting, msg.type \in {"Add", "Remove", "SetWatcher"},
             handler' = AfterWatchers(msg) \/ handler' = Handling("watchExists", msg, {})
      PROVE  handler'.msg \in Fitting
  BY <1>w, <1>3 DEF AfterWatchers, Handling
<1>s. ASSUME mailbox' = Tail(mailbox) \/ mailbox' = mailbox, mailbox # << >> \/ mailbox' = mailbox
      PROVE  mailbox' \in Seq(Fitting)
  BY <1>s, <1>2
<1>c. ASSUME NEW type, Received(type), Consume(<< >>) PROVE mailbox' \in Seq(Fitting)
  BY <1>c, <1>r, <1>t, <1>2, MailboxOf
<1>4. CASE HandleWatchUnderPath
  <2> DEFINE m == Head(mailbox)
  <2>1. /\ m \in Fitting /\ OpOf(m.type) = "addPathToCache" /\ m.path \in PathString /\ mailbox # << >>
    BY <1>4, <1>r DEF HandleWatchUnderPath, OpOf
  <2>2. Update(m.path, TRUE, m.notify) \in Fitting
    BY <1>f, <2>1
  <2>3. mailbox' \in Seq(Fitting)
    BY <1>4, <1>2, <1>t, <2>1, <2>2, MailboxOf DEF HandleWatchUnderPath
  <2> QED
    BY <1>4, <1>2, <1>q, <2>3 DEF HandleWatchUnderPath
<1>5. CASE HandleRemovePath
  <2> DEFINE m == Head(mailbox)
  <2>1. /\ m \in Fitting /\ OpOf(m.type) = "removePathFromCache" /\ m.path \in PathString /\ mailbox # << >>
    BY <1>5, <1>r DEF HandleRemovePath, OpOf
  <2>2. Remove(m.path, m.notify) \in Fitting
    BY <1>f, <2>1
  <2>3. mailbox' \in Seq(Fitting)
    BY <1>5, <1>2, <1>t, <2>1, <2>2, MailboxOf DEF HandleRemovePath
  <2> QED
    BY <1>5, <1>2, <1>q, <2>3 DEF HandleRemovePath
<1>6. CASE HandleShutdown
  BY <1>6, <1>2, <1>t, <1>q DEF HandleShutdown
<1>7. CASE HandleUpdate
  <2> DEFINE update == Head(mailbox)
  <2>1. update \in Fitting /\ update \in Message
    BY <1>7, <1>r DEF HandleUpdate
  <2>4. mailbox' \in Seq(Fitting)
    BY <1>7, <1>c DEF HandleUpdate
  <2>2. CASE /\ Read(update.path, "ok")
             /\ handler' = Handling("fetched", [update EXCEPT !.data = zk[update.path]], {})
    <3>1. update.path \in Znode
      BY <2>2, OutcomeOfZnode DEF Read
    <3>2. zk[update.path] \in Nat
      BY <3>1 DEF TypeInv, TypeOK, ZkTypeOK
    <3>3. /\ [update EXCEPT !.data = zk[update.path]] \in Message
          /\ [update EXCEPT !.data = zk[update.path]].notify = update.notify
          /\ [update EXCEPT !.data = zk[update.path]].type = update.type
      BY <2>1, <3>2 DEF Message
    <3>4. [update EXCEPT !.data = zk[update.path]] \in Fitting
      BY <2>1, <3>3, FittingMessages
    <3>5. handler'.msg = [update EXCEPT !.data = zk[update.path]]
      BY <2>2, HandlingMsg
    <3> QED
      BY <1>q, <2>4, <3>4, <3>5
  <2>3. CASE handler' = Handling("fetchMissing", update, {})
    <3>1. handler'.msg = update
      BY <2>3, HandlingMsg
    <3> QED
      BY <1>q, <2>1, <2>4, <3>1
  <2> QED
    BY <1>7, <1>d, <1>q, <2>2, <2>3, <2>4 DEF HandleUpdate
<1>8. CASE FinishUpdate
  <2> DEFINE m == handler.msg
  <2>1. OpOf(m.type) = "addPathToCache"
    BY <1>8 DEF FinishUpdate, At, StageInv, OpOf
  <2>2. Add(m.path, m.data, m.recursive, m.notify) \in Fitting /\ SetWatcher(m.path, m.notify) \in Fitting
    BY <1>2, <1>f, <2>1
  <2>3. mailbox' \in Seq(Fitting)
    BY <1>8, <1>2, <1>t, <2>2, MailboxOf DEF FinishUpdate
  <2> QED
    BY <1>8, <1>d, <1>q, <2>3 DEF FinishUpdate
<1>9. CASE HandleAdd \/ HandleSetWatcher
  <2>1. mailbox' \in Seq(Fitting)
    BY <1>9, <1>c DEF HandleAdd, HandleSetWatcher
  <2>2. /\ Head(mailbox) \in Fitting /\ Head(mailbox).type \in {"Add", "SetWatcher"}
        /\ SetWatchers(Head(mailbox))
    BY <1>9, <1>r DEF HandleAdd, HandleSetWatcher
  <2>3. handler'.msg \in Fitting
    BY <1>w, <2>2 DEF SetWatchers
  <2> QED
    BY <1>q, <2>1, <2>3
<1>10. CASE ListChildren
  <2>1. handler'.msg = handler.msg /\ mailbox' = mailbox
    BY <1>10, <1>2 DEF ListChildren, GoTo, Handling
  <2> QED
    BY <1>2, <1>q, <2>1
<1>11. CASE StoreEntry
  <2> DEFINE add    == handler.msg
             update == [c \in handler.listed |-> Update(ChildPath(add.path, c), TRUE, add.notify)]
  <2>1. OpOf(add.type) = "addPathToCache" /\ handler.listed \in SUBSET Name
    BY <1>2, <1>11 DEF StoreEntry, At, StageInv, OpOf
  <2>2. update \in [handler.listed -> Fitting]
    <3> SUFFICES ASSUME NEW c \in handler.listed
                 PROVE  Update(ChildPath(add.path, c), TRUE, add.notify) \in Fitting
      OBVIOUS
    <3>1. ChildPath(add.path, c) \in PathString
      BY <1>2, <2>1, ChildPathType
    <3> QED
      BY <1>2, <1>f, <2>1, <3>1
  <2>3. PICK updates \in ForEachChild(update) : Send(IF add.recursive THEN updates ELSE << >>)
    BY <1>11 DEF StoreEntry
  <2>4. updates \in Seq(Fitting)
    BY <2>1, <2>2, <2>3, ForEachChildType
  <2>5. mailbox' \in Seq(Fitting)
    BY <1>2, <1>t, <2>3, <2>4, MailboxOf
  <2> QED
    BY <1>11, <1>d, <1>q, <2>5 DEF StoreEntry
<1>12. CASE FailAdd
  <2>1. Remove(handler.msg.path, NoOne) \in Fitting
    BY <1>2, <1>f
  <2>2. mailbox' \in Seq(Fitting)
    BY <1>12, <1>2, <1>t, <2>1, MailboxOf DEF FailAdd
  <2> QED
    BY <1>12, <1>d, <1>q, <2>2 DEF FailAdd
<1>13. CASE HandleRemove
  <2>1. mailbox' \in Seq(Fitting)
    BY <1>13, <1>c DEF HandleRemove
  <2>2. handler'.msg \in Fitting
    BY <1>13, <1>r DEF HandleRemove, Handling
  <2> QED
    BY <1>q, <2>1, <2>2
<1>14. CASE Evict
  <2> DEFINE remove == handler.msg
             send   == [c \in cache[remove.path].children |->
                          Remove(ChildPath(remove.path, c), remove.notify)]
  <2>1. OpOf(remove.type) = "removePathFromCache"
    BY <1>14 DEF Evict, At, StageInv, OpOf
  <2>2. CASE Cached(remove.path) /\ \E removes \in ForEachChild(send) : Send(removes)
    <3>1. cache[remove.path].children \in SUBSET Name
      BY <1>2, <2>2 DEF Cached
    <3>2. send \in [cache[remove.path].children -> Fitting]
      <4> SUFFICES ASSUME NEW c \in cache[remove.path].children
                   PROVE  Remove(ChildPath(remove.path, c), remove.notify) \in Fitting
        OBVIOUS
      <4>1. ChildPath(remove.path, c) \in PathString
        BY <1>2, <3>1, ChildPathType
      <4> QED
        BY <1>2, <1>f, <2>1, <4>1
    <3>3. PICK removes \in ForEachChild(send) : Send(removes)
      BY <2>2
    <3>4. removes \in Seq(Fitting)
      BY <3>1, <3>2, <3>3, ForEachChildType
    <3>5. mailbox' \in Seq(Fitting)
      BY <1>2, <3>3, <3>4, MailboxOf
    <3> QED
      BY <1>14, <1>d, <1>q, <3>5 DEF Evict
  <2>3. CASE mailbox' = mailbox
    BY <1>14, <1>2, <1>d, <1>q, <2>3 DEF Evict
  <2> QED
    BY <1>14, <2>2, <2>3 DEF Evict
<1>15. CASE HandleUnwatch
  <2>1. mailbox' \in Seq(Fitting) /\ handler' = handler
    BY <1>15, <1>c DEF HandleUnwatch
  <2> QED
    BY <1>2, <1>q, <2>1
<1>16. CASE WatchExists \/ WatchChildren \/ WatchData \/ RecordWatch \/ WatchMissing
  <2>1. handler.msg.type \in {"Add", "Remove", "SetWatcher"}
    BY <1>16 DEF WatchExists, WatchChildren, WatchData, RecordWatch, WatchMissing, At,
       TypeInv, HandlerOK, WatchStages
  <2>2. handler'.msg \in Fitting
    <3>1. CASE Resume
      BY <1>2, <1>w, <2>1, <3>1 DEF Resume
    <3>2. ASSUME NEW stage \in WatchStages, GoTo(stage) PROVE handler'.msg \in Fitting
      BY <1>2, <3>2 DEF GoTo
    <3> QED
      BY <1>16, <3>1, <3>2 DEF WatchExists, WatchChildren, WatchData, RecordWatch, WatchMissing, WatchStages
  <2>3. mailbox' \in Seq(Fitting)
    <3>1. CASE WatchMissing
      <4>1. Remove(handler.msg.path, NoOne) \in Fitting
        BY <1>2, <1>f
      <4> QED
        BY <3>1, <1>2, <1>t, <4>1, MailboxOf DEF WatchMissing
    <3>2. CASE ~WatchMissing
      BY <1>2, <1>16, <3>2 DEF WatchExists, WatchChildren, WatchData, RecordWatch
    <3> QED
      BY <3>1, <3>2
  <2> QED
    BY <1>q, <2>2, <2>3
<1> QED
  BY <1>4, <1>5, <1>6, <1>7, <1>8, <1>9, <1>10, <1>11, <1>12, <1>13, <1>14, <1>15, <1>16 DEF ActorStep
LEMMA FitWatcherStep == TypeInv /\ FitInv /\ WatcherStep => FitInv'
<1> SUFFICES ASSUME TypeInv, FitInv, WatcherStep PROVE FitInv'
  OBVIOUS
<1>1. UNCHANGED <<request, handler>>
  BY DEF WatcherStep, ProcessEvent, SendUnwatch, SendFollowUp, callVars
<1>2. Fitting' = Fitting
  BY <1>1 DEF Fitting
<1>3. mailbox \in Seq(Fitting) /\ \A m \in Fitting : <<m>> \in Seq(Fitting)
  BY DEF FitInv
<1>4. mailbox' \in Seq(Fitting)
  <2>1. CASE ProcessEvent
    BY <1>3, <2>1 DEF ProcessEvent
  <2>2. CASE SendUnwatch \/ SendFollowUp
    <3>1. watcher # NoEvent
      BY <2>2 DEF SendUnwatch, SendFollowUp, NoEvent
    <3>2. watcher.event.path \in PathString
      BY <3>1, ZnodeIsPathString DEF TypeInv, TypeOK, ActorTypeOK, Event
    <3>3. PICK m \in {Unwatch(watcher.event.path), FollowUp(watcher.event)} : Send(<<m>>)
      BY <2>2 DEF SendUnwatch, SendFollowUp
    <3>4. m \in Message
      BY <3>2, MessageTypes DEF Notifyable, FollowUp
    <3>5. m.notify = NoOne
      <4> DEFINE p == watcher.event.path
      <4>1. m \in {Unwatch(p), Remove(p, NoOne), Update(p, TRUE, NoOne), Update(p, FALSE, NoOne)}
        BY <3>3 DEF FollowUp
      <4> QED
        BY <4>1 DEF Unwatch, Remove, Update, Msg
    <3>6. m \in Fitting
      BY <3>4, <3>5 DEF Fitting
    <3> QED
      BY <1>3, <3>3, <3>6, MailboxOf
  <2> QED
    BY <2>1, <2>2 DEF WatcherStep
<1> QED
  BY <1>1, <1>2, <1>4 DEF FitInv

(* Calls that are made stay what they are, and are sent as they are. *)
LEMMA FitApiStep == TypeInv /\ FitInv /\ ApiStep => FitInv'
<1> SUFFICES ASSUME TypeInv, FitInv, ApiStep PROVE FitInv'
  OBVIOUS
<1>1. PICK r \in Request :
        \/ \E path \in ApiPath : CheckAdd(r, path) \/ CheckRemove(r, path)
        \/ SendAdd(r) \/ SendRemove(r)
        \/ CallStop(r) \/ StopCompletes(r) \/ StopTimesOut(r)
  BY DEF ApiStep
<1>2. /\ request \in [Request -> Call \cup {NotMade}]
      /\ mailbox \in Seq(Fitting) /\ handler.msg \in Fitting
      /\ handler' = handler
  BY <1>1 DEF FitInv, TypeInv, TypeOK, CallsTypeOK, CheckAdd, CheckRemove, SendAdd, SendRemove,
     CallStop, StopCompletes, StopTimesOut, actorVars
<1>3. NotMade \notin Call
  BY DEF NotMade, Call
<1>4. \A q \in Request : request[q] \in Call =>
        request'[q] \in Call /\ request'[q].op = request[q].op
  BY <1>3, CallsAreKept
<1>5. Fitting \subseteq Fitting'
  BY <1>4 DEF Fitting, Message, Notifyable
<1>6. ASSUME NEW type \in {"ScakkaApiWatchUnderPath", "ScakkaApiRemovePath"},
             Send(<<Msg(type, request[r].path, r)>>), Return(r),
             IsPending(r, OpOf(type))
      PROVE  FitInv'
  <2> DEFINE m == Msg(type, request[r].path, r)
  <2>1. request[r] \in Call /\ request[r].op = OpOf(type)
    BY <1>2, <1>6 DEF IsPending
  <2>2. m \in Message /\ m.notify = r /\ m.type = type
    <3>1. request[r].path \in PathString /\ r \in Notifyable
      <4>1. request[r].path \in Seq(Name)
        BY <2>1 DEF Call
      <4> QED
        BY <4>1 DEF PathString, Notifyable
    <3> QED
      BY <3>1, MessageTypes DEF Msg, MessageType
  <2>3. m \in Fitting'
    BY <1>4, <2>1, <2>2 DEF Fitting
  <2> HIDE DEF m
  <2>4. mailbox \in Seq(Fitting') /\ <<m>> \in Seq(Fitting')
    BY <1>2, <1>5, <2>3, SeqMonotonic
  <2>5. mailbox' \in Seq(Fitting')
    BY <1>6, <2>4, MailboxOf DEF m
  <2> QED
    BY <1>2, <1>5, <2>5 DEF FitInv
<1>7. CASE SendAdd(r)
  BY <1>6, <1>7 DEF SendAdd, OpOf
<1>8. CASE SendRemove(r)
  BY <1>6, <1>8 DEF SendRemove, OpOf
<1>9. CASE CallStop(r)
  <2>1. Shutdown \in Fitting'
    BY RootMessageTypes DEF Shutdown, Msg, Fitting
  <2>2. mailbox \in Seq(Fitting') /\ <<Shutdown>> \in Seq(Fitting')
    BY <1>2, <1>5, <2>1, SeqMonotonic
  <2>3. mailbox' \in Seq(Fitting')
    BY <1>9, <2>2, MailboxOf DEF CallStop
  <2> QED
    BY <1>2, <1>5, <2>3 DEF FitInv
<1>10. CASE \/ \E path \in ApiPath : CheckAdd(r, path) \/ CheckRemove(r, path)
            \/ StopCompletes(r) \/ StopTimesOut(r)
  <2>1. mailbox' = mailbox
    BY <1>10 DEF CheckAdd, CheckRemove, StopCompletes, StopTimesOut, actorVars
  <2>2. mailbox' \in Seq(Fitting')
    BY <1>2, <1>5, <2>1, SeqMonotonic
  <2> QED
    BY <1>2, <1>5, <2>2 DEF FitInv
<1> QED
  BY <1>1, <1>7, <1>8, <1>9, <1>10

LEMMA ContractInvInit == Init => ContractInv
<1> SUFFICES ASSUME Init PROVE ContractInv
  OBVIOUS
<1>1. DataInv /\ SubtreeInv /\ PromiseInv /\ StopInv
  BY DataInvInit, SubtreeInvInit, PromiseInvInit, StopInvInit
<1>2. mailbox = << >> /\ handler.msg = NoMessage
  BY DEF Init, ActorInit, Idle, Handling
<1>3. NoMessage \in Fitting
  BY RootMessageTypes DEF NoMessage, Msg, Fitting
<1> QED
  BY <1>1, <1>2, <1>3 DEF ContractInv, FitInv

LEMMA ContractInvStep == ContractInv /\ [Next]_vars => ContractInv'
<1> SUFFICES ASSUME ContractInv, [Next]_vars PROVE ContractInv'
  OBVIOUS
<1>1. /\ DataInv /\ TypeInv /\ StageInv /\ SubtreeInv /\ PromiseInv /\ StopInv /\ FitInv
  BY DEF ContractInv, DataInv
<1>2. DataInv' /\ SubtreeInv' /\ PromiseInv' /\ StopInv'
  BY <1>1, DataInvStep, SubtreeInvStep, PromiseInvStep, StopInvStep
<1>3. FitInv'
  <2>1. CASE WriterStep \/ SessionStep \/ UNCHANGED vars
    <3>1. UNCHANGED <<mailbox, handler, request>>
      BY <2>1 DEF WriterStep, SessionStep, LoseConnection, FindConnection, vars, actorVars, callVars
    <3> QED
      BY <1>1, <3>1 DEF FitInv, Fitting
  <2> QED
    BY <1>1, <2>1, FitActorStep, FitWatcherStep, FitApiStep DEF Next
<1> QED
  BY <1>2, <1>3 DEF ContractInv

-----------------------------------------------------------------------------
(* The steps of the cache, as steps of the contract *)

ContractStep == [Contract!ContractNext]_(Contract!contractVars)

(* The actor completes the promise of a call that waits for just this. *)
LEMMA AnswersWaiting ==
  ASSUME ContractInv, NEW result \in {"succeeded", "failed"},
         Notify(handler.msg.notify, handler.msg.path, result)
  PROVE  \/ promise' = promise
         \/ \E r \in Request :
              /\ Contract!WaitsFor(r, OpOf(handler.msg.type), handler.msg.path)
              /\ Contract!Answer(r, result)
<1> DEFINE r == handler.msg.notify
<1>1. CASE ~(Notifies(r, handler.msg.path) /\ request[r].attached)
  BY <1>1 DEF Notify
<1>2. CASE Notifies(r, handler.msg.path) /\ request[r].attached
  <2>1. /\ r # NoOne /\ request[r].path = handler.msg.path
        /\ Complete(r, result)
    BY <1>2 DEF Notify, Notifies
  <2>2. handler.msg \in Message /\ handler.msg \in Descendant /\ handler.msg \in Fitting
    BY DEF ContractInv, DataInv, TypeInv, TypeOK, ActorTypeOK, PromiseInv, FitInv
  <2>3. r \in Request
    BY <2>1, <2>2 DEF Message, Notifyable
  <2>4. /\ request[r] \in Call /\ request[r].op = OpOf(handler.msg.type)
        /\ request[r].at = "returned"
    BY <2>1, <2>2 DEF Fitting, Descendant
  <2>5. handler.msg \in Token(r)
    BY <2>1, <2>2 DEF Token
  <2>6. promise[r] = "open"
    BY <1>2, <2>3, <2>4, <2>5 DEF ContractInv, PromiseInv, Has
  <2>7. request[r] # NotMade
    BY <2>4 DEF Call, NotMade
  <2>8. Contract!WaitsFor(r, OpOf(handler.msg.type), handler.msg.path)
    BY <1>2, <2>1, <2>3, <2>4, <2>6, <2>7 DEF Contract!WaitsFor, Contract!IsOpen, AsAsked
  <2>9. Contract!Answer(r, result)
    BY <2>1, <2>6 DEF Complete, Contract!Answer
  <2> QED
    BY <2>3, <2>8, <2>9
<1> QED
  BY <1>1, <1>2

LEMMA AddedInContract ==
  ASSUME NEW p, UnderRequested(p)
  PROVE  Contract!UnderAdded(p)
BY DEF UnderRequested, RequestedRoots, AsAsked, Contract!UnderAdded, IsUnder,
   SeqExt!IsPrefix, Contract!SeqExt!IsPrefix

LEMMA StoreKeepsContract == ContractInv /\ StoreEntry => ContractStep
<1> SUFFICES ASSUME ContractInv, StoreEntry PROVE ContractStep
  OBVIOUS
<1> DEFINE add == handler.msg
<1>1. alive
  BY OnlyAliveActs DEF ContractInv, ActorStep
<1>2. add.type = "Add" /\ handler # Idle
  BY DEF StoreEntry, At, ContractInv, DataInv, StageInv, Idle, Handling
<1>3. Contract!UnderAdded(add.path)
  BY <1>2, AddedInContract DEF ContractInv, SubtreeInv, Requested
<1>4. handler.listed \in SUBSET Name /\ add \in Message /\ add.data \in Nat /\ zxid \in Nat
  <2>1. handler.listed \in SUBSET Name /\ add \in Message /\ zxid \in Nat
    BY DEF ContractInv, DataInv, TypeInv, TypeOK, ActorTypeOK, ZkTypeOK
  <2> QED
    BY <2>1 DEF Message
<1>5. add.data \in 1 .. zxid
  BY <1>2, <1>4 DEF ContractInv, DataInv, FreshInv, Known
<1>6. Cached(add.path) => add.data >= cache[add.path].data
  <2> SUFFICES ASSUME Cached(add.path) PROVE add.data >= cache[add.path].data
    OBVIOUS
  <2>1. cache[add.path].data \in Nat
    BY DEF Cached, ContractInv, DataInv, TypeInv, TypeOK, ActorTypeOK, Entry
  <2>2. InHand(add.path, cache[add.path].data)
    BY DEF Cached, ContractInv, DataInv, FreshInv, Seen
  <2> QED
    BY <1>2, <1>4, <2>1, <2>2 DEF InHand, OldAdd
<1>7. /\ cache' = CacheWith(add.path, [data |-> add.data, children |-> handler.listed])
      /\ Notify(add.notify, add.path, "succeeded")
      /\ UNCHANGED <<alive, zxid, request>>
  BY DEF StoreEntry, SucceedNotifyable, zkVars
<1>8. \/ promise' = promise
      \/ \E r \in Request : /\ Contract!WaitsFor(r, "addPathToCache", add.path)
                            /\ Contract!Answer(r, "succeeded")
  BY <1>2, <1>7, AnswersWaiting DEF OpOf
<1>9. Contract!Store(add.path, add.data, handler.listed)
  BY <1>1, <1>3, <1>6, <1>7, <1>8
     DEF Contract!Store, Contract!IsServed, Contract!AnswerNobody, Cached, CacheWith
<1>10. add.path \in DOMAIN cache'
  BY <1>7 DEF CacheWith
<1> QED
  BY <1>4, <1>5, <1>9, <1>10 DEF ContractStep, Contract!ContractNext

LEMMA EvictKeepsContract == ContractInv /\ Evict => ContractStep
<1> SUFFICES ASSUME ContractInv, Evict PROVE ContractStep
  OBVIOUS
<1> DEFINE remove == handler.msg
<1>1. UNCHANGED <<alive, zxid, request>> /\ alive
  BY OnlyAliveActs DEF ContractInv, ActorStep, Evict, zkVars
<1>2. remove.type = "Remove"
  BY DEF Evict, At, ContractInv, DataInv, StageInv
<1>3. CASE ~Cached(remove.path)
  BY <1>1, <1>3 DEF Evict, ContractStep, Contract!contractVars
<1>4. CASE Cached(remove.path)
  <2>1. cache' = CacheWithout(remove.path) /\ Notify(remove.notify, remove.path, "succeeded")
    BY <1>4 DEF Evict, SucceedNotifyable
  <2>2. \/ promise' = promise
        \/ \E r \in Request : /\ Contract!WaitsFor(r, "removePathFromCache", remove.path)
                              /\ Contract!Answer(r, "succeeded")
    BY <1>2, <2>1, AnswersWaiting DEF OpOf
  <2>3. Contract!Evict(remove.path)
    BY <1>1, <1>4, <2>1, <2>2
       DEF Contract!Evict, Contract!IsServed, Contract!AnswerNobody, Contract!Restrict,
           Cached, CacheWithout
  <2> QED
    BY <1>4, <2>3 DEF Cached, ContractStep, Contract!ContractNext
<1> QED
  BY <1>3, <1>4

LEMMA FailKeepsContract == ContractInv /\ FailAdd => ContractStep
<1> SUFFICES ASSUME ContractInv, FailAdd PROVE ContractStep
  OBVIOUS
<1>1. handler.msg.type = "Add"
  BY DEF FailAdd, At, ContractInv, DataInv, StageInv
<1>2. /\ Notify(handler.msg.notify, handler.msg.path, "failed")
      /\ UNCHANGED <<cache, alive, zxid, request>>
  BY DEF FailAdd, zkVars
<1>3. \/ promise' = promise
      \/ \E r \in Request : /\ Contract!WaitsFor(r, "addPathToCache", handler.msg.path)
                            /\ Contract!Answer(r, "failed")
  BY <1>1, <1>2, AnswersWaiting DEF OpOf
<1>4. CASE promise' = promise
  BY <1>2, <1>4 DEF ContractStep, Contract!contractVars
<1>5. ASSUME NEW r \in Request, Contract!WaitsFor(r, "addPathToCache", handler.msg.path),
             Contract!Answer(r, "failed")
      PROVE  ContractStep
  <2>1. Contract!Fail(r)
    BY <1>2, <1>5 DEF Contract!Fail, Contract!WaitsFor
  <2> QED
    BY <2>1 DEF ContractStep, Contract!ContractNext
<1> QED
  BY <1>3, <1>4, <1>5

LEMMA ShutdownKeepsContract == HandleShutdown => ContractStep
<1> SUFFICES ASSUME HandleShutdown PROVE ContractStep
  OBVIOUS
<1>1. Contract!Close
  BY DEF HandleShutdown, Received, Contract!Close, zkVars, callVars
<1> QED
  BY <1>1 DEF ContractStep, Contract!ContractNext

(* The other handlers change nothing that a caller could see. *)
LEMMA ActorKeepsContract == ContractInv /\ ActorStep => ContractStep
<1> SUFFICES ASSUME ContractInv, ActorStep PROVE ContractStep
  OBVIOUS
<1>1. request' = request /\ zxid' = zxid
  BY ActorLeavesCalls, ActorLeavesNodes
<1>2. CASE UNCHANGED <<cache, alive, promise>>
  BY <1>1, <1>2 DEF ContractStep, Contract!contractVars
<1>3. CASE StoreEntry \/ Evict \/ FailAdd \/ HandleShutdown
  BY <1>3, StoreKeepsContract, EvictKeepsContract, FailKeepsContract, ShutdownKeepsContract
<1> QED
  BY <1>2, <1>3 DEF ActorStep, callVars,
     HandleWatchUnderPath, HandleRemovePath, HandleUpdate, FinishUpdate,
     HandleAdd, ListChildren, HandleRemove, HandleSetWatcher,
     HandleUnwatch, WatchExists, WatchChildren, WatchData, RecordWatch, WatchMissing

LEMMA MakeInContract ==
  ASSUME TypeInv, NEW r \in Request, NEW op \in Op, NEW path, NEW at, NEW attached \in BOOLEAN,
         request[r] = NotMade, Make(r, op, path, at, attached)
  PROVE  /\ [q \in Request |-> AsAsked(request[q])][r] = Contract!Unmade
         /\ [q \in Request |-> AsAsked(request'[q])] =
              [[q \in Request |-> AsAsked(request[q])] EXCEPT
                 ![r] = [op |-> op, path |-> path, served |-> attached]]
<1>1. request \in [Request -> Call \cup {NotMade}]
  BY DEF TypeInv, TypeOK, CallsTypeOK
<1>2. [op |-> op, path |-> path, at |-> at, attached |-> attached] # NotMade
  BY DEF NotMade
<1>3. AsAsked([op |-> op, path |-> path, at |-> at, attached |-> attached])
        = [op |-> op, path |-> path, served |-> attached]
  BY <1>2 DEF AsAsked
<1>4. AsAsked(NotMade) = Contract!Unmade
  BY DEF AsAsked, Contract!Unmade
<1>5. /\ request'[r] = [op |-> op, path |-> path, at |-> at, attached |-> attached]
      /\ \A q \in Request \ {r} : request'[q] = request[q]
  BY <1>1 DEF Make
<1> QED
  BY <1>3, <1>4, <1>5

(* A call that returns asks for what it asked for. *)
LEMMA ReturnInContract ==
  ASSUME TypeInv, NEW r \in Request, request[r] # NotMade, Return(r)
  PROVE  [q \in Request |-> AsAsked(request'[q])] = [q \in Request |-> AsAsked(request[q])]
<1>1. request \in [Request -> Call \cup {NotMade}]
  BY DEF TypeInv, TypeOK, CallsTypeOK
<1>2. request[r] \in Call
  BY <1>1
<1>3. /\ request'[r] = [request[r] EXCEPT !.at = "returned"]
      /\ \A q \in Request \ {r} : request'[q] = request[q]
  BY <1>1 DEF Return
<1>4. AsAsked(request'[r]) = AsAsked(request[r])
  BY <1>2, <1>3 DEF AsAsked, Call, NotMade
<1> QED
  BY <1>3, <1>4

LEMMA ApiKeepsContract == ContractInv /\ ApiStep => ContractStep
<1> SUFFICES ASSUME ContractInv, ApiStep PROVE ContractStep
  OBVIOUS
<1>1. PICK r \in Request :
        \/ \E path \in ApiPath : CheckAdd(r, path) \/ CheckRemove(r, path)
        \/ SendAdd(r) \/ SendRemove(r)
        \/ CallStop(r) \/ StopCompletes(r) \/ StopTimesOut(r)
  BY DEF ApiStep
<1>2. TypeInv /\ PromiseInv /\ request \in [Request -> Call \cup {NotMade}]
  BY DEF ContractInv, DataInv, TypeInv, TypeOK, CallsTypeOK
<1>3. request[r].at # "returned" => promise[r] = "open"
  BY <1>2 DEF PromiseInv
<1>4. request[r] = NotMade => promise[r] = "open"
  BY <1>3 DEF NotMade
<1>5. {"addPathToCache", "removePathFromCache", "stop"} \subseteq Op
  BY DEF Op
<1>m. ASSUME NEW op \in {"addPathToCache", "removePathFromCache"}, NEW path, NEW at,
             request[r] = NotMade,
             \/ Cached(path) /\ Make(r, op, path, at, TRUE)
             \/ ~Cached(path) /\ Make(r, op, path, at, FALSE),
             UNCHANGED <<cache, alive, zxid>>,
             IF op = "removePathFromCache" /\ ~Cached(path)
               THEN promise' = [promise EXCEPT ![r] = "succeeded"]
               ELSE promise' = promise
      PROVE  Contract!Make(r, op, path)
  <2>1. /\ IF op = "removePathFromCache" /\ ~Contract!IsServed(path)
             THEN Contract!Answer(r, "succeeded") ELSE Contract!AnswerNobody
        /\ op \in Op /\ op # "stop"
    BY <1>5, <1>m DEF Contract!IsServed, Contract!Answer, Contract!AnswerNobody, Cached
  <2>2. ASSUME NEW served \in BOOLEAN, Make(r, op, path, at, served),
               (op # "stop" /\ Contract!IsServed(path)) = served
        PROVE  Contract!Make(r, op, path)
    BY <1>2, <1>m, <2>1, <2>2, MakeInContract DEF Contract!Make
  <2>3. CASE Cached(path) /\ Make(r, op, path, at, TRUE)
    <3>1. (op # "stop" /\ Contract!IsServed(path)) = TRUE
      BY <2>1, <2>3 DEF Contract!IsServed, Cached
    <3> QED
      BY <2>2, <2>3, <3>1
  <2>4. CASE ~Cached(path) /\ Make(r, op, path, at, FALSE)
    <3>1. (op # "stop" /\ Contract!IsServed(path)) = FALSE
      BY <2>1, <2>4 DEF Contract!IsServed, Cached
    <3> QED
      BY <2>2, <2>4, <3>1
  <2> QED
    BY <1>m, <2>3, <2>4
<1>6. ASSUME NEW path \in ApiPath, CheckAdd(r, path)
      PROVE  ContractStep
  <2>1. request[r] = NotMade /\ Make(r, "addPathToCache", path, "checked", Cached(path))
    BY Zenon, <1>6 DEF CheckAdd, Begin
  <2>2. UNCHANGED <<cache, alive, zxid>> /\ promise' = promise
    BY <1>6 DEF CheckAdd, actorVars, zkVars
  <2>3. CASE Cached(path)
    <3>1. Cached(path) = TRUE
      BY Zenon, <2>3 DEF Cached
    <3>2. Make(r, "addPathToCache", path, "checked", TRUE)
      BY Zenon, <2>1, <3>1
    <3> QED
      BY <1>m, <2>1, <2>2, <2>3, <3>2 DEF ContractStep, Contract!ContractNext
  <2>4. CASE ~Cached(path)
    <3>1. Cached(path) = FALSE
      BY <2>4 DEF Cached
    <3>2. Make(r, "addPathToCache", path, "checked", FALSE)
      BY Zenon, <2>1, <3>1
    <3> QED
      BY <1>m, <2>1, <2>2, <2>4, <3>2 DEF ContractStep, Contract!ContractNext
  <2> QED
    BY <2>3, <2>4
<1>7. ASSUME NEW path \in ApiPath, CheckRemove(r, path)
      PROVE  ContractStep
  <2>1. UNCHANGED <<cache, alive, zxid>> /\ request[r] = NotMade
    BY <1>7 DEF CheckRemove, Begin, actorVars, zkVars
  <2>2. CASE Cached(path) /\ Make(r, "removePathFromCache", path, "checked", TRUE) /\ UNCHANGED promise
    BY <1>m, <2>1, <2>2 DEF ContractStep, Contract!ContractNext
  <2>3. CASE /\ ~Cached(path)
             /\ Make(r, "removePathFromCache", path, "returned", FALSE)
             /\ Complete(r, "succeeded")
    <3>1. promise' = [promise EXCEPT ![r] = "succeeded"]
      BY <1>4, <2>1, <2>3 DEF Complete
    <3> QED
      BY <1>m, <2>1, <2>3, <3>1 DEF ContractStep, Contract!ContractNext
  <2> QED
    BY <1>7, <2>2, <2>3 DEF CheckRemove
<1>8. CASE SendAdd(r)
  <2>1. /\ UNCHANGED <<cache, alive, zxid>> /\ Return(r)
        /\ request[r] # NotMade /\ request[r].op = "addPathToCache" /\ request[r].at = "checked"
    BY <1>8 DEF SendAdd, IsPending, zkVars
  <2>2. CASE request[r].attached
    <3>1. promise' = promise
      BY <1>8, <2>2 DEF SendAdd
    <3> QED
      BY <1>2, <2>1, <3>1, ReturnInContract DEF ContractStep, Contract!contractVars
  <2>3. CASE ~request[r].attached
    <3>1. promise' = [promise EXCEPT ![r] = "succeeded"] /\ promise[r] = "open"
      BY <1>3, <1>8, <2>1, <2>3 DEF SendAdd, Complete
    <3>2. Contract!Accept(r)
      BY <1>2, <2>1, <2>3, <3>1, ReturnInContract
         DEF Contract!Accept, Contract!IsOpen, Contract!Answer, AsAsked
    <3> QED
      BY <3>2 DEF ContractStep, Contract!ContractNext
  <2> QED
    BY <2>2, <2>3
<1>9. CASE SendRemove(r)
  <2>1. UNCHANGED <<cache, alive, zxid, promise>> /\ Return(r) /\ request[r] # NotMade
    BY <1>9 DEF SendRemove, IsPending, zkVars
  <2> QED
    BY <1>2, <2>1, ReturnInContract DEF ContractStep, Contract!contractVars
<1>10. CASE CallStop(r)
  <2>1. /\ UNCHANGED <<cache, alive, zxid, promise>>
        /\ request[r] = NotMade /\ Make(r, "stop", << >>, "returned", FALSE)
    BY <1>10 DEF CallStop, Begin, Root, zkVars
  <2>2. Contract!Make(r, "stop", << >>)
    BY <1>2, <1>5, <2>1, MakeInContract DEF Contract!Make, Contract!AnswerNobody
  <2> QED
    BY <2>2 DEF ContractStep, Contract!ContractNext
<1>11. CASE StopCompletes(r) \/ StopTimesOut(r)
  <2>1. /\ UNCHANGED <<request, cache, alive, zxid>> /\ Contract!IsOpen(r, "stop")
        /\ \/ ~alive /\ Contract!Answer(r, "succeeded")
           \/ Contract!Answer(r, "failed")
    BY <1>11 DEF StopCompletes, StopTimesOut, IsOpenStop, Complete, actorVars, zkVars,
       Contract!IsOpen, Contract!Answer, AsAsked
  <2>2. Contract!Confirm(r) \/ Contract!Fail(r)
    BY <2>1 DEF Contract!Confirm, Contract!Fail
  <2> QED
    BY <2>2 DEF ContractStep, Contract!ContractNext
<1> QED
  BY <1>1, <1>6, <1>7, <1>8, <1>9, <1>10, <1>11

LEMMA OthersKeepContract ==
  WatcherStep \/ WriterStep \/ SessionStep \/ UNCHANGED vars => ContractStep
<1>1. CASE WriterStep
  <2>1. UNCHANGED <<cache, alive, request, promise>> /\ zxid' = zxid + 1
    BY <1>1 DEF WriterStep, actorVars, callVars, CreateNode, DeleteNode, SetNodeData, Write
  <2>2. Contract!Tick
    BY <2>1 DEF Contract!Tick
  <2> QED
    BY <2>2 DEF ContractStep, Contract!ContractNext
<1>2. CASE WatcherStep \/ SessionStep \/ UNCHANGED vars
  <2>1. UNCHANGED <<cache, alive, request, promise, zxid>>
    BY <1>2 DEF WatcherStep, ProcessEvent, SendUnwatch, SendFollowUp,
       SessionStep, LoseConnection, FindConnection, Disconnect, Reconnect,
       vars, actorVars, callVars, zkVars
  <2> QED
    BY <2>1 DEF ContractStep, Contract!contractVars
<1> QED
  BY <1>1, <1>2

LEMMA ContractInitially == Init => Contract!ContractInit
<1> SUFFICES ASSUME Init PROVE Contract!ContractInit
  OBVIOUS
<1>1. [r \in Request |-> AsAsked(request[r])] = [r \in Request |-> Contract!Unmade]
  BY DEF Init, CallsInit, AsAsked, Contract!Unmade
<1> QED
  BY <1>1 DEF Init, CallsInit, ActorInit, ZkInit, Contract!ContractInit

(***************************************************************************)
(* The cache implements its contract, for any number of calls, any tree    *)
(* and any bounds: what addPathToCache, removePathFromCache and stop tell  *)
(* their callers (ScakkaZooCacheImpl, MessageNotifyable), which paths the  *)
(* cache serves and which data, are steps of CacheContract.                *)
(***************************************************************************)
THEOREM CacheKeepsContract == Spec => KeepsContract
<1>1. Spec => []ContractInv
  BY ContractInvInit, ContractInvStep, PTL DEF Spec
<1>2. ContractInv /\ [Next]_vars => [Contract!ContractNext]_(Contract!contractVars)
  BY ActorKeepsContract, ApiKeepsContract, OthersKeepContract DEF Next, ContractStep
<1> QED
  BY <1>1, <1>2, ContractInitially, PTL DEF Spec, KeepsContract, Contract!ContractSpec

-----------------------------------------------------------------------------
(***************************************************************************)
(* Every call is answered.  The notifyable of an add travels in the        *)
(* message of the call, in its Update and in its Add, and whichever way    *)
(* the handler of the Add ends, it tells the notifyable.  The other ends   *)
(* are the SetWatcher of a missing node and a call of ZooKeeper that fails *)
(* in Update.                                                              *)
(***************************************************************************)
AddBearer(r) ==
  {m \in Message : /\ m.type \in {"ScakkaApiWatchUnderPath", "Update", "Add"}
                   /\ m.notify = r /\ m.path = request[r].path}

HeldAdd(r)     == handler.msg \in AddBearer(r) /\ ~At("fetchMissing")
AddOnItsWay(r) == HeldAdd(r) \/ ~NoneOf(mailbox, AddBearer(r))

Excused(r) == promise[r] # "open" \/ ~alive \/ faults # 0

AddUnderWay(r) ==
  /\ request[r] # NotMade /\ request[r].op = "addPathToCache"
  /\ \/ Excused(r)
     \/ request[r].at = "checked"
     \/ request[r].attached /\ AddOnItsWay(r)

LEMMA NoneOfTail ==
  ASSUME NEW M, NEW T, NEW s \in Seq(M), s # << >>
  PROVE  /\ Tail(s) \in Seq(M) /\ Head(s) \in M
         /\ NoneOf(s, T) <=> Head(s) \notin T /\ NoneOf(Tail(s), T)
<1>1. /\ Tail(s) \in Seq(M) /\ Len(s) \in Nat /\ Len(s) >= 1 /\ Len(Tail(s)) = Len(s) - 1
      /\ \A i \in 1 .. Len(Tail(s)) : Tail(s)[i] = s[i + 1]
      /\ DOMAIN s = 1 .. Len(s) /\ DOMAIN Tail(s) = 1 .. Len(Tail(s))
      /\ Head(s) = s[1] /\ Head(s) \in M
  OBVIOUS
<1>2. ASSUME NoneOf(s, T) PROVE Head(s) \notin T /\ NoneOf(Tail(s), T)
  BY <1>1, <1>2 DEF NoneOf
<1>3. ASSUME Head(s) \notin T, NoneOf(Tail(s), T), NEW i \in DOMAIN s PROVE s[i] \notin T
  <2>1. CASE i = 1
    BY <1>1, <1>3, <2>1
  <2>2. CASE i # 1
    <3>1. i - 1 \in DOMAIN Tail(s) /\ Tail(s)[i - 1] = s[i]
      BY <1>1, <2>2
    <3> QED
      BY <1>3, <3>1 DEF NoneOf
  <2> QED
    BY <2>1, <2>2
<1> QED
  BY <1>1, <1>2, <1>3 DEF NoneOf

(* What is in the mailbox stays there until it is taken. *)
LEMMA StaysWhenSent ==
  ASSUME alive, mailbox \in Seq(Message), NEW M, NEW ms \in Seq(M), Send(ms), NEW T
  PROVE  ~NoneOf(mailbox, T) \/ ~NoneOf(ms, T) => ~NoneOf(mailbox', T)
<1>1. mailbox \in Seq(Message \cup M) /\ ms \in Seq(Message \cup M)
  BY SeqMonotonic
<1>2. mailbox' = mailbox \o ms
  BY DEF Send
<1> QED
  BY <1>1, <1>2, NoneOfConcat

LEMMA StaysUntilTaken ==
  ASSUME mailbox \in Seq(Message), mailbox # << >>, NEW M, NEW ms \in Seq(M), Consume(ms), NEW T
  PROVE  ~NoneOf(mailbox, T) \/ ~NoneOf(ms, T) => Head(mailbox) \in T \/ ~NoneOf(mailbox', T)
<1>1. /\ Tail(mailbox) \in Seq(Message)
      /\ NoneOf(mailbox, T) <=> Head(mailbox) \notin T /\ NoneOf(Tail(mailbox), T)
  BY NoneOfTail
<1>2. Tail(mailbox) \in Seq(Message \cup M) /\ ms \in Seq(Message \cup M)
  BY <1>1, SeqMonotonic
<1>3. mailbox' = Tail(mailbox) \o ms
  BY DEF Consume
<1> QED
  BY <1>1, <1>2, <1>3, NoneOfConcat

LEMMA OneIsThere == ASSUME NEW m, NEW T, m \in T PROVE <<m>> \in Seq({m}) /\ ~NoneOf(<<m>>, T)
BY DEF NoneOf

LEMMA NoFaultOfZnode ==
  ASSUME faults \in Nat, faults' = 0, NEW p, RoundTrip(p, "error")
  PROVE  p \notin Znode
BY DEF RoundTrip

LEMMA FaultsStay == TypeInv /\ [Next]_vars => (faults' = 0 => faults = 0)
<1> SUFFICES ASSUME TypeInv, [Next]_vars PROVE faults' = 0 => faults = 0
  OBVIOUS
<1>1. faults \in Nat
  BY DEF TypeInv, TypeOK, ZkTypeOK
<1>2. ASSUME NEW p, NEW o, RoundTrip(p, o) PROVE faults' = 0 => faults = 0
  BY <1>1, <1>2 DEF RoundTrip
<1>3. \/ faults' = faults
      \/ \E p, o : RoundTrip(p, o)
  BY DEF Next, vars, zkVars, ActorStep, WatcherStep, ApiStep, WriterStep, SessionStep,
     LoseConnection, FindConnection, Disconnect, Reconnect, CreateNode, DeleteNode, SetNodeData, Write,
     HandleWatchUnderPath, HandleRemovePath, HandleShutdown, HandleUpdate, FinishUpdate,
     HandleAdd, ListChildren, StoreEntry, FailAdd, HandleRemove, Evict, HandleSetWatcher,
     HandleUnwatch, WatchExists, WatchChildren, WatchData, RecordWatch, WatchMissing,
     Read, ExistsWithWatch, GetChildrenWithWatch, GetDataWithWatch,
     ProcessEvent, SendUnwatch, SendFollowUp,
     CheckAdd, CheckRemove, SendAdd, SendRemove, CallStop, StopCompletes, StopTimesOut
<1> QED
  BY <1>2, <1>3

(* An answer stands: no promise that is completed is completed again. *)
LEMMA AnswersStand ==
  ASSUME ContractInv, [Next]_vars, NEW r \in Request, promise[r] # "open"
  PROVE  promise'[r] = promise[r]
<1>0. TypeInv /\ PromiseInv /\ promise \in [Request -> PromiseState]
  BY DEF ContractInv, DataInv, TypeInv, TypeOK, CallsTypeOK
<1>1. CASE promise' = promise
  BY <1>1
<1>2. CASE StoreEntry \/ Evict \/ FailAdd
  <2>1. \/ \E result \in {"succeeded", "failed"} :
             Notify(handler.msg.notify, handler.msg.path, result)
        \/ promise' = promise
    BY <1>2 DEF StoreEntry, Evict, FailAdd, SucceedNotifyable
  <2> QED
    BY <1>0, <2>1, NotifyCompletesOpen
<1>3. CASE ApiStep
  <2>1. PICK q \in Request :
          \/ \E path \in ApiPath : CheckAdd(q, path) \/ CheckRemove(q, path)
          \/ SendAdd(q) \/ SendRemove(q)
          \/ CallStop(q) \/ StopCompletes(q) \/ StopTimesOut(q)
    BY <1>3 DEF ApiStep
  <2>2. \/ promise' = promise
        \/ promise[q] = "open" /\ \E result : Complete(q, result)
    <3>1. request[q] = NotMade \/ request[q].at = "checked" => promise[q] = "open"
      BY <1>0 DEF PromiseInv, NotMade
    <3> QED
      BY <2>1, <3>1 DEF CheckAdd, CheckRemove, SendAdd, SendRemove, CallStop,
         StopCompletes, StopTimesOut, Begin, IsPending, IsOpenStop
  <2> QED
    BY <1>0, <2>2 DEF Complete
<1>4. \/ promise' = promise
      \/ StoreEntry \/ Evict \/ FailAdd \/ ApiStep
  BY DEF Next, ActorStep, WatcherStep, WriterStep, SessionStep, LoseConnection, FindConnection,
     callVars, vars, HandleWatchUnderPath, HandleRemovePath, HandleShutdown, HandleUpdate, FinishUpdate,
     HandleAdd, ListChildren, HandleRemove, HandleSetWatcher, HandleUnwatch,
     WatchExists, WatchChildren, WatchData, RecordWatch, WatchMissing,
     ProcessEvent, SendUnwatch, SendFollowUp
<1> QED
  BY <1>1, <1>2, <1>3, <1>4

(* The notifyable that a handler tells is told. *)
LEMMA HeldIsAnswered ==
  ASSUME TypeInv, NEW r \in Request, request[r].attached,
         handler.msg.notify = r, handler.msg.path = request[r].path,
         NEW result \in {"succeeded", "failed"},
         Notify(handler.msg.notify, handler.msg.path, result)
  PROVE  promise'[r] # "open"
<1>1. promise \in [Request -> PromiseState] /\ r # NoOne
  BY DEF TypeInv, TypeOK, CallsTypeOK, Request, NoOne
<1>2. Complete(r, result)
  BY <1>1 DEF Notify, Notifies
<1> QED
  BY <1>1, <1>2 DEF Complete

(* The steps of a handler *)
LEMMA AddHandledOn ==
  ASSUME ContractInv, ActorStep, NEW r \in Request, Exists(request[r].path), request[r].attached,
         AddOnItsWay(r), promise'[r] = "open", alive', faults = 0, faults' = 0
  PROVE  AddOnItsWay(r)'
<1> DEFINE m == handler.msg
           h == Head(mailbox)
           T == AddBearer(r)
<1>0. /\ TypeInv /\ StageInv /\ alive
      /\ mailbox \in Seq(Message) /\ m \in Message
      /\ handler \in [stage : Stages, msg : Message, listed : SUBSET Name]
      /\ \A p \in DOMAIN cache : cache[p].children \in SUBSET Name
  BY OnlyAliveActs DEF ContractInv, DataInv, TypeInv, TypeOK, ActorTypeOK, Entry
<1>1. AddBearer(r)' = AddBearer(r) /\ r # NoOne
  BY ActorLeavesCalls DEF AddBearer, Request, NoOne
<1>k. ASSUME NEW M, NEW ms \in Seq(M), Send(ms), HeldAdd(r) => HeldAdd(r)' \/ ~NoneOf(ms, T)
      PROVE  AddOnItsWay(r)'
  <2>1. ~NoneOf(mailbox, T) \/ ~NoneOf(ms, T) => ~NoneOf(mailbox', T)
    BY <1>0, <1>k, StaysWhenSent
  <2> QED
    BY <1>1, <1>k, <2>1 DEF AddOnItsWay
<1>t. ASSUME NEW type, Received(type), NEW M, NEW ms \in Seq(M), Consume(ms),
             h \in T => HeldAdd(r)' \/ ~NoneOf(ms, T)
      PROVE  AddOnItsWay(r)'
  <2>1. ~HeldAdd(r)
    BY <1>t DEF HeldAdd, AddBearer, Received, Idle, Handling, NoMessage, Msg
  <2>2. mailbox # << >>
    BY <1>t DEF Received
  <2>3. ~NoneOf(mailbox, T) \/ ~NoneOf(ms, T) => h \in T \/ ~NoneOf(mailbox', T)
    BY <1>0, <1>t, <2>2, StaysUntilTaken
  <2>4. ~NoneOf(ms, T) => ~NoneOf(mailbox', T)
    <3>1. Tail(mailbox) \in Seq(Message \cup M) /\ ms \in Seq(Message \cup M)
      BY <1>0, <2>2, SeqMonotonic, NoneOfTail
    <3> QED
      BY <1>t, <3>1, NoneOfConcat DEF Consume
  <2> QED
    BY <1>1, <1>t, <2>1, <2>3, <2>4 DEF AddOnItsWay
<1>m. ASSUME mailbox' = mailbox, HeldAdd(r) => HeldAdd(r)' PROVE AddOnItsWay(r)'
  BY <1>1, <1>m DEF AddOnItsWay
<1>e. << >> \in Seq(Message)
  OBVIOUS
<1>f. \A p : p \in Znode => ~RoundTrip(p, "error")
  BY NoFaultOfZnode
<1>z. request[r].path \in Znode
  BY DEF Exists
<1>2. CASE HandleWatchUnderPath
  <2> DEFINE x == Update(h.path, TRUE, h.notify)
  <2>1. Received("ScakkaApiWatchUnderPath") /\ Consume(<<x>>)
    BY <1>2 DEF HandleWatchUnderPath
  <2>2. h \in Message
    BY <1>0, <2>1, ReceivedType DEF TypeInv, TypeOK
  <2>3. x \in Message /\ x.type = "Update" /\ x.path = h.path /\ x.notify = h.notify
    <3>1. h.path \in PathString /\ h.notify \in Notifyable
      BY <2>2 DEF Message
    <3> QED
      BY <3>1, MessageTypes DEF Update, Msg
  <2>4. h \in T => x \in T
    BY <2>3 DEF AddBearer
  <2> QED
    BY <1>t, <2>1, <2>3, <2>4, OneIsThere
<1>3. CASE HandleUpdate
  <2> DEFINE fetched == [h EXCEPT !.data = zk[h.path]]
  <2>1. Received("Update") /\ Consume(<< >>)
    BY <1>3 DEF HandleUpdate
  <2>2. h \in Message
    BY <1>0, <2>1, ReceivedType DEF TypeInv, TypeOK
  <2>3. ASSUME h \in T PROVE HeldAdd(r)'
    <3>1. h.path \in Znode /\ Exists(h.path)
      BY <1>z, <2>3 DEF AddBearer
    <3>2. ~Read(h.path, "noNode") /\ ~Read(h.path, "error")
      BY <1>f, <3>1 DEF Read, RoundTrip
    <3>3. handler' = Handling("fetched", fetched, {})
      BY <1>3, <3>2 DEF HandleUpdate
    <3>4. zk[h.path] \in Nat
      BY <1>0, <3>1 DEF TypeInv, TypeOK, ZkTypeOK
    <3>5. fetched \in Message /\ fetched.type = h.type /\ fetched.path = h.path /\ fetched.notify = h.notify
      BY <2>2, <3>4 DEF Message
    <3>6. fetched \in T
      BY <2>3, <3>5 DEF AddBearer
    <3> QED
      BY <1>1, <3>3, <3>6 DEF HeldAdd, At, Handling
  <2> QED
    BY <1>e, <1>t, <2>1, <2>3
<1>4. CASE FinishUpdate
  <2> DEFINE x == Add(m.path, m.data, m.recursive, m.notify)
             y == SetWatcher(m.path, m.notify)
  <2>1. CASE At("fetched") /\ Send(<<x>>)
    <3>1. x \in Message /\ x.type = "Add" /\ x.path = m.path /\ x.notify = m.notify
      <4>1. /\ m.path \in PathString /\ m.notify \in Notifyable
            /\ m.data \in Nat /\ m.recursive \in BOOLEAN
        BY <1>0 DEF Message
      <4> QED
        BY <4>1, MessageTypes DEF Add, Msg
    <3>2. m \in T => x \in T
      BY <3>1 DEF AddBearer
    <3> QED
      BY <1>k, <2>1, <3>1, <3>2, OneIsThere DEF HeldAdd
  <2>2. CASE At("fetchMissing") /\ Send(<<y>>)
    <3>1. <<y>> \in Seq({y})
      OBVIOUS
    <3> QED
      BY <1>k, <2>2, <3>1 DEF HeldAdd
  <2> QED
    BY <1>4, <2>1, <2>2 DEF FinishUpdate
<1>5. CASE HandleAdd
  <2>1. Received("Add") /\ Consume(<< >>) /\ SetWatchers(h)
    BY <1>5 DEF HandleAdd
  <2>2. h.type = "Add"
    BY <2>1 DEF Received
  <2>3. handler'.msg = h /\ handler'.stage # "fetchMissing"
    BY <2>1, <2>2 DEF SetWatchers, AfterWatchers, Handling
  <2> QED
    BY <1>1, <1>e, <1>t, <2>1, <2>3 DEF HeldAdd, At
<1>6. CASE WatchExists \/ WatchChildren \/ WatchData \/ RecordWatch \/ WatchMissing
  <2>1. handler.stage \in WatchStages
    BY <1>6 DEF WatchExists, WatchChildren, WatchData, RecordWatch, WatchMissing, At, WatchStages
  <2>2. \/ Resume
        \/ \E stage \in WatchStages : GoTo(stage)
    BY <1>6 DEF WatchExists, WatchChildren, WatchData, RecordWatch, WatchMissing, WatchStages
  <2>3. ASSUME HeldAdd(r) PROVE HeldAdd(r)'
    <3>1. m \in T /\ m.type = "Add"
      BY <1>0, <2>1, <2>3 DEF HeldAdd, AddBearer, TypeInv, HandlerOK
    <3>2. handler'.msg = m /\ handler'.stage # "fetchMissing"
      BY <1>0, <2>2, <3>1 DEF Resume, AfterWatchers, Handling, GoTo, WatchStages
    <3> QED
      BY <1>1, <3>1, <3>2 DEF HeldAdd, At
  <2>4. CASE mailbox' = mailbox
    BY <1>m, <2>3, <2>4
  <2>5. CASE WatchMissing
    <3>1. <<Remove(m.path, NoOne)>> \in Seq({Remove(m.path, NoOne)})
      OBVIOUS
    <3> QED
      BY <1>k, <2>3, <2>5, <3>1 DEF WatchMissing
  <2> QED
    BY <1>6, <2>4, <2>5 DEF WatchExists, WatchChildren, WatchData, RecordWatch
<1>7. CASE ListChildren
  <2>1. ASSUME HeldAdd(r) PROVE HeldAdd(r)'
    <3>1. handler'.msg = m /\ handler'.stage # "fetchMissing"
      BY <1>0, <1>7 DEF ListChildren, Handling, GoTo
    <3> QED
      BY <1>1, <2>1, <3>1 DEF HeldAdd, At
  <2> QED
    BY <1>7, <1>m, <2>1 DEF ListChildren
<1>8. CASE StoreEntry \/ FailAdd
  <2>1. ~HeldAdd(r)
    <3>1. PICK result \in {"succeeded", "failed"} : Notify(m.notify, m.path, result)
      BY <1>8 DEF StoreEntry, FailAdd, SucceedNotifyable
    <3> QED
      BY <1>0, <3>1, HeldIsAnswered DEF HeldAdd, AddBearer
  <2>2. CASE FailAdd
    <3>1. PICK ms : ms \in Seq({Remove(m.path, NoOne)}) /\ Send(ms)
      <4>1. <<Remove(m.path, NoOne)>> \in Seq({Remove(m.path, NoOne)})
            /\ << >> \in Seq({Remove(m.path, NoOne)})
        OBVIOUS
      <4> QED
        BY <2>2, <4>1 DEF FailAdd
    <3> QED
      BY <1>k, <2>1, <3>1
  <2>3. CASE StoreEntry
    <3> DEFINE update == [c \in handler.listed |-> Update(ChildPath(m.path, c), TRUE, m.notify)]
               M == {update[c] : c \in handler.listed}
    <3>1. PICK updates \in ForEachChild(update) : Send(IF m.recursive THEN updates ELSE << >>)
      BY <2>3 DEF StoreEntry
    <3>2. handler.listed \in SUBSET Name /\ update \in [handler.listed -> M]
      BY <1>0
    <3>3. updates \in Seq(M)
      BY <3>1, <3>2, ForEachChildType
    <3>4. << >> \in Seq(M)
      OBVIOUS
    <3> HIDE DEF update, M
    <3>5. PICK ms \in {updates, << >>} : Send(ms)
      BY <3>1
    <3> QED
      BY <1>k, <2>1, <3>3, <3>4, <3>5
  <2> QED
    BY <1>8, <2>2, <2>3
<1>9. CASE HandleRemovePath \/ HandleRemove \/ HandleSetWatcher \/ HandleUnwatch
  <2>1. PICK type \in {"ScakkaApiRemovePath", "Remove", "SetWatcher", "Unwatch"} : Received(type)
    BY <1>9 DEF HandleRemovePath, HandleRemove, HandleSetWatcher, HandleUnwatch
  <2>2. h \notin T
    BY <2>1 DEF Received, AddBearer
  <2>3. \E M : \E ms \in Seq(M) : Consume(ms)
    <3>1. \A x : <<x>> \in Seq({x})
      OBVIOUS
    <3> QED
      BY <1>9, <1>e, <3>1 DEF HandleRemovePath, HandleRemove, HandleSetWatcher, HandleUnwatch
  <2> QED
    BY <1>t, <2>1, <2>2, <2>3
<1>10. CASE Evict
  <2>1. ~HeldAdd(r)
    BY <1>0, <1>10 DEF Evict, At, StageInv, HeldAdd, AddBearer
  <2>2. CASE mailbox' = mailbox
    BY <1>m, <2>1, <2>2
  <2>3. CASE Cached(m.path)
    <3> DEFINE C == cache[m.path].children
               remove == [c \in C |-> Remove(ChildPath(m.path, c), m.notify)]
               M == {remove[c] : c \in C}
    <3>1. PICK removes \in ForEachChild(remove) : Send(removes)
      BY <1>10, <2>3 DEF Evict
    <3>2. C \in SUBSET Name /\ remove \in [C -> M]
      BY <1>0, <2>3 DEF Cached
    <3>3. removes \in Seq(M)
      BY <3>1, <3>2, ForEachChildType
    <3> QED
      BY <1>k, <2>1, <3>1, <3>3
  <2> QED
    BY <1>10, <2>2, <2>3 DEF Evict
<1>11. ~HandleShutdown
  BY DEF HandleShutdown
<1> QED
  BY <1>2, <1>3, <1>4, <1>5, <1>6, <1>7, <1>8, <1>9, <1>10, <1>11 DEF ActorStep

(* The other threads only send. *)
LEMMA OthersOnlySend ==
  ASSUME TypeInv, alive, [Next]_vars, ~ActorStep, NEW T, ~NoneOf(mailbox, T)
  PROVE  ~NoneOf(mailbox', T)
<1>0. mailbox \in Seq(Message)
  BY DEF TypeInv, TypeOK, ActorTypeOK
<1>1. mailbox' = mailbox \/ \E x : Send(<<x>>)
  BY DEF Next, WatcherStep, ProcessEvent, SendUnwatch, SendFollowUp, ApiStep, CheckAdd, CheckRemove,
     SendAdd, SendRemove, CallStop, StopCompletes, StopTimesOut, WriterStep, SessionStep,
     LoseConnection, FindConnection, actorVars, vars
<1>2. \A x : <<x>> \in Seq({x})
  OBVIOUS
<1> QED
  BY <1>0, <1>1, <1>2, StaysWhenSent

LEMMA OthersLeaveHandler ==
  [Next]_vars /\ ~ActorStep => UNCHANGED <<handler, watchedNodes, addedPaths, cache, alive>>
BY DEF Next, WatcherStep, ProcessEvent, SendUnwatch, SendFollowUp, ApiStep, CheckAdd, CheckRemove,
   SendAdd, SendRemove, CallStop, StopCompletes, StopTimesOut, WriterStep, SessionStep,
   LoseConnection, FindConnection, actorVars, vars

(* A call that is pending is sent, or stays as it is; one that is sent     *)
(* stays as it is.                                                         *)
LEMMA CallsGoOn ==
  ASSUME TypeInv, [Next]_vars, NEW r \in Request, request[r] # NotMade
  PROVE  \/ request'[r] = request[r]
         \/ /\ SendAdd(r) \/ SendRemove(r)
            /\ request[r].at = "checked"
            /\ request[r] \in Call /\ request'[r] = [request[r] EXCEPT !.at = "returned"]
<1>0. request \in [Request -> Call \cup {NotMade}] /\ request[r] \in Call
  BY DEF TypeInv, TypeOK, CallsTypeOK
<1>1. CASE ApiStep
  <2>1. PICK q \in Request :
          \/ \E path \in ApiPath : CheckAdd(q, path) \/ CheckRemove(q, path)
          \/ SendAdd(q) \/ SendRemove(q)
          \/ CallStop(q) \/ StopCompletes(q) \/ StopTimesOut(q)
    BY <1>1 DEF ApiStep
  <2>2. CASE SendAdd(q) \/ SendRemove(q)
    BY <1>0, <2>2 DEF SendAdd, SendRemove, IsPending, Return
  <2>3. CASE ~(SendAdd(q) \/ SendRemove(q))
    BY <1>0, <2>1, <2>3 DEF CheckAdd, CheckRemove, CallStop, StopCompletes, StopTimesOut, Begin, Make
  <2> QED
    BY <2>2, <2>3
<1>2. CASE UNCHANGED vars
  BY <1>2 DEF vars, callVars
<1> QED
  BY <1>1, <1>2, OnlyCallersCall

LEMMA AddGoesOn ==
  ASSUME ContractInv, [Next]_vars, NEW r \in Request, StillThere(r), AddUnderWay(r)
  PROVE  AddUnderWay(r)'
<1>0. TypeInv /\ request[r] # NotMade /\ request[r].op = "addPathToCache"
  BY DEF ContractInv, DataInv, AddUnderWay
<1>1. /\ request'[r] # NotMade /\ request'[r].op = "addPathToCache"
      /\ request'[r].path = request[r].path /\ request'[r].attached = request[r].attached
  BY <1>0, CallsGoOn DEF NotMade, Call
<1>2. Excused(r) => Excused(r)'
  BY <1>0, AnswersStand, EndIsFinal, FaultsStay DEF Excused
<1>3. CASE Excused(r)'
  BY <1>1, <1>3 DEF AddUnderWay
<1>4. CASE ~Excused(r)' /\ ~Excused(r)
  <2>1. /\ promise[r] = "open" /\ promise'[r] = "open" /\ alive /\ alive'
        /\ faults = 0 /\ faults' = 0
    BY <1>4 DEF Excused
  <2>2. CASE ActorStep
    <3>1. request' = request
      BY <2>2, ActorLeavesCalls
    <3>2. request[r].at = "checked" \/ (request[r].attached /\ AddOnItsWay(r))
      BY <1>4 DEF AddUnderWay
    <3>3. request'[r].at = "checked" \/ (request'[r].attached /\ AddOnItsWay(r)')
      BY <2>1, <2>2, <3>1, <3>2, AddHandledOn DEF StillThere
    <3> QED
      BY <1>1, <3>3 DEF AddUnderWay
  <2>3. CASE ~ActorStep
    <3>1. AddBearer(r)' = AddBearer(r) /\ handler' = handler
      BY <1>1, <2>3, OthersLeaveHandler DEF AddBearer
    <3>2. AddOnItsWay(r) => AddOnItsWay(r)'
      BY <1>0, <2>1, <2>3, <3>1, OthersOnlySend DEF AddOnItsWay, HeldAdd, At
    <3>3. CASE request'[r] = request[r]
      BY <1>1, <1>4, <3>2, <3>3 DEF AddUnderWay
    <3>4. CASE /\ SendAdd(r) \/ SendRemove(r)
               /\ request[r].at = "checked" /\ request[r] \in Call
      <4> DEFINE x == Msg("ScakkaApiWatchUnderPath", request[r].path, r)
      <4>1. SendAdd(r) /\ Send(<<x>>)
        BY <1>0, <3>4 DEF SendAdd, SendRemove, IsPending
      <4>2. request[r].attached
        <5>1. promise \in [Request -> PromiseState]
          BY <1>0 DEF TypeInv, TypeOK, CallsTypeOK
        <5> QED
          BY <2>1, <4>1, <5>1 DEF SendAdd, Complete
      <4>3. x \in AddBearer(r)
        <5>1. request[r].path \in PathString /\ r \in Notifyable
          BY <3>4 DEF Call, PathString, Notifyable
        <5>2. x \in Message
          BY <5>1, MessageTypes DEF MessageType
        <5> QED
          BY <5>2 DEF Msg, AddBearer
      <4> HIDE DEF x
      <4>4. mailbox \in Seq(Message)
        BY <1>0 DEF TypeInv, TypeOK, ActorTypeOK
      <4>5. ~NoneOf(mailbox', AddBearer(r))
        BY <2>1, <4>1, <4>3, <4>4, OneIsThere, StaysWhenSent
      <4> QED
        BY <1>1, <3>1, <4>2, <4>5 DEF AddUnderWay, AddOnItsWay
    <3> QED
      BY <1>0, <3>3, <3>4, CallsGoOn
  <2> QED
    BY <2>2, <2>3
<1> QED
  BY <1>2, <1>3, <1>4

(* At rest, nothing is under way: the call is answered. *)
LEMMA RestAnswersAdd ==
  ASSUME NEW r \in Request, AddUnderWay(r)
  PROVE  AtRest /\ alive /\ faults = 0 => promise[r] # "open"
<1>1. ASSUME AtRest PROVE ~AddOnItsWay(r) /\ request[r].at # "checked"
  BY <1>1 DEF AtRest, AddOnItsWay, HeldAdd, AddBearer, NoneOf, Idle, Handling, NoMessage, Msg
<1> QED
  BY <1>1 DEF AddUnderWay, Excused

(***************************************************************************)
(* An addPathToCache that was called for a cached path is answered as long *)
(* as its node stays: ScakkaZooCacheImpl hands the promise to the actor,   *)
(* and no other call, write, event or lost connection makes the messages   *)
(* of CacheUpdaterActor drop it.                                           *)
(***************************************************************************)
THEOREM AddsAnswered == Spec => AddsAreAnswered
<1> SUFFICES ASSUME NEW r \in Request
             PROVE  Spec => [](IsPending(r, "addPathToCache") /\ []StillThere(r)
                                 => [](AtRest /\ alive /\ faults = 0 => promise[r] # "open"))
  BY DEF AddsAreAnswered
<1>1. Spec => []ContractInv
  BY ContractInvInit, ContractInvStep, PTL DEF Spec
<1>2. IsPending(r, "addPathToCache") => AddUnderWay(r)
  BY DEF IsPending, AddUnderWay
<1>3. ContractInv /\ [Next]_vars /\ StillThere(r) /\ AddUnderWay(r) => AddUnderWay(r)'
  BY AddGoesOn
<1>4. AddUnderWay(r) => (AtRest /\ alive /\ faults = 0 => promise[r] # "open")
  BY RestAnswersAdd
<1> QED
  BY <1>1, <1>2, <1>3, <1>4, PTL DEF Spec

-----------------------------------------------------------------------------
(***************************************************************************)
(* As long as no node is deleted, only removals remove: no event reports a *)
(* deletion, and no handler finds a node missing that was there.           *)
(***************************************************************************)
Standing == {m \in Message : m.type = "Add" => Exists(m.path)}
Lasting  == {e \in Event : e.type # "NodeDeleted"}

StandingInv ==
  /\ mailbox \in Seq(Standing) /\ handler.msg \in Standing
  /\ handler.stage \in {"fetched", "watchChildren", "watchData"} => Exists(handler.msg.path)
  /\ handler.stage \notin {"watchMissing", "addMissing"}
  /\ events \in Seq(Lasting) /\ watcher.event.type # "NodeDeleted"
  /\ missed # Nothing => \A p \in Znode : missed.seen[p] # 0 => zk[p] # 0
  /\ \A p \in childWatch : Exists(p)

LEMMA NodesStay ==
  ASSUME "delete" \notin WriterOps, TypeInv, [Next]_vars, NEW p, Exists(p)
  PROVE  Exists(p)'
<1>0. zk \in [Znode -> Nat] /\ zxid \in Nat
  BY DEF TypeInv, TypeOK, ZkTypeOK
<1>1. CASE WriterStep
  <2>1. PICK q \in Znode : CreateNode(q) \/ SetNodeData(q)
    BY <1>1 DEF WriterStep, DeleteNode, Write
  <2>2. zk' = [zk EXCEPT ![q] = zxid + 1]
    BY <2>1 DEF CreateNode, SetNodeData, Write
  <2> QED
    BY <1>0, <2>2 DEF Exists
<1>2. CASE ~WriterStep
  <2>1. zk' = zk
    BY <1>2, ActorLeavesNodes DEF Next, WatcherStep, ProcessEvent, SendUnwatch, SendFollowUp, ApiStep,
       CheckAdd, CheckRemove, SendAdd, SendRemove, CallStop, StopCompletes, StopTimesOut, SessionStep,
       LoseConnection, FindConnection, Disconnect, Reconnect, vars, zkVars
  <2> QED
    BY <2>1 DEF Exists
<1> QED
  BY <1>1, <1>2

LEMMA OtherTypesStand ==
  ASSUME NEW p \in PathString, NEW r \in Notifyable, NEW rec \in BOOLEAN
  PROVE  /\ \A t \in MessageType \ {"Add"} : Msg(t, p, r) \in Standing
         /\ Update(p, rec, r) \in Standing /\ Remove(p, r) \in Standing
         /\ SetWatcher(p, r) \in Standing /\ Unwatch(p) \in Standing
<1>1. /\ \A t \in MessageType : Msg(t, p, r) \in Message /\ Msg(t, p, r).type = t
      /\ Update(p, rec, r) \in Message /\ Remove(p, r) \in Message
      /\ SetWatcher(p, r) \in Message /\ Unwatch(p) \in Message
  BY MessageTypes DEF Msg
<1>2. /\ Update(p, rec, r).type = "Update" /\ Remove(p, r).type = "Remove"
      /\ SetWatcher(p, r).type = "SetWatcher" /\ Unwatch(p).type = "Unwatch"
  BY DEF Update, Remove, SetWatcher, Unwatch, Msg
<1> QED
  BY <1>1, <1>2 DEF Standing

LEMMA StandingActorStep ==
  ASSUME TypeInv, StageInv, StandingInv, ActorStep
  PROVE  /\ mailbox' \in Seq(Standing) /\ handler'.msg \in Standing
         /\ handler'.stage \in {"fetched", "watchChildren", "watchData"} => Exists(handler'.msg.path)
         /\ handler'.stage \notin {"watchMissing", "addMissing"}
<1> DEFINE m == handler.msg
           h == Head(mailbox)
<1>0. /\ mailbox \in Seq(Standing) /\ m \in Standing /\ m \in Message
      /\ handler \in [stage : Stages, msg : Message, listed : SUBSET Name]
      /\ m.path \in PathString /\ m.notify \in Notifyable
      /\ m.data \in Nat /\ m.recursive \in BOOLEAN
      /\ \A p \in DOMAIN cache : cache[p].children \in SUBSET Name
  BY DEF TypeInv, TypeOK, ActorTypeOK, Message, StandingInv, Entry
<1>1. Idle.msg \in Standing /\ Idle.stage = "idle"
  BY RootMessageTypes DEF Idle, Handling, NoMessage, Msg, Standing
<1>r. ASSUME NEW type, Received(type)
      PROVE  /\ h \in Standing /\ h \in Message /\ h.type = type /\ mailbox # << >>
             /\ h.path \in PathString /\ h.notify \in Notifyable
  <2>1. h \in Standing /\ h.type = type /\ mailbox # << >>
    BY <1>0, <1>r DEF Received
  <2> QED
    BY <2>1 DEF Standing, Message
<1>e. << >> \in Seq(Standing) /\ \A x \in Standing : <<x>> \in Seq(Standing)
  OBVIOUS
<1>w. ASSUME NEW x \in Standing, x.type \in {"Add", "Remove", "SetWatcher"},
             handler' = AfterWatchers(x) \/ handler' = Handling("watchExists", x, {})
      PROVE  /\ handler'.msg \in Standing
             /\ handler'.stage \in {"idle", "list", "evict", "watchExists"}
  BY <1>w, <1>1 DEF AfterWatchers, Handling
<1>2. CASE HandleWatchUnderPath \/ HandleRemovePath \/ HandleShutdown \/ HandleUnwatch
  <2>1. handler' = handler
    BY <1>2 DEF HandleWatchUnderPath, HandleRemovePath, HandleShutdown, HandleUnwatch
  <2>2. mailbox' \in Seq(Standing)
    <3>1. CASE HandleWatchUnderPath
      <4>1. Update(h.path, TRUE, h.notify) \in Standing /\ mailbox # << >>
        BY <1>r, <3>1, OtherTypesStand DEF HandleWatchUnderPath
      <4> QED
        BY <1>0, <1>e, <3>1, <4>1, MailboxOf DEF HandleWatchUnderPath
    <3>2. CASE HandleRemovePath
      <4>1. Remove(h.path, h.notify) \in Standing /\ mailbox # << >>
        BY <1>r, <3>2, OtherTypesStand DEF HandleRemovePath
      <4> QED
        BY <1>0, <1>e, <3>2, <4>1, MailboxOf DEF HandleRemovePath
    <3>3. CASE HandleShutdown
      BY <1>e, <3>3 DEF HandleShutdown
    <3>4. CASE HandleUnwatch
      BY <1>0, <1>e, <1>r, <3>4, MailboxOf DEF HandleUnwatch
    <3> QED
      BY <1>2, <3>1, <3>2, <3>3, <3>4
  <2>3. m \in Standing /\ StandingInv
    BY <1>0
  <2> QED
    BY <1>2, <2>1, <2>2, <2>3, ActorLeavesNodes DEF StandingInv, Exists
<1>3. CASE HandleUpdate
  <2> DEFINE fetched == [h EXCEPT !.data = zk[h.path]]
  <2>1. Received("Update") /\ Consume(<< >>)
    BY <1>3 DEF HandleUpdate
  <2>2. h \in Standing /\ h \in Message /\ h.type = "Update" /\ mailbox # << >>
    BY <1>r, <2>1
  <2>3. mailbox' \in Seq(Standing)
    BY <1>0, <1>e, <2>1, <2>2, MailboxOf
  <2>4. CASE Read(h.path, "ok") /\ handler' = Handling("fetched", fetched, {})
    <3>1. Exists(h.path) /\ zk[h.path] \in Nat
      BY <2>4 DEF Read, RoundTrip, Exists, TypeInv, TypeOK, ZkTypeOK
    <3>2. fetched \in Message /\ fetched.path = h.path /\ fetched.type = "Update"
      BY <2>2, <3>1 DEF Message
    <3>3. fetched \in Standing
      BY <3>2 DEF Standing
    <3>4. handler'.stage = "fetched" /\ handler'.msg = fetched
      BY <2>4 DEF Handling
    <3> QED
      BY <2>3, <3>1, <3>2, <3>3, <3>4
  <2>5. CASE handler' = Handling("fetchMissing", h, {}) \/ handler' = Idle
    BY <1>1, <2>2, <2>3, <2>5 DEF Handling
  <2> QED
    BY <1>3, <2>4, <2>5 DEF HandleUpdate, Done
<1>4. CASE FinishUpdate
  <2> DEFINE x == Add(m.path, m.data, m.recursive, m.notify)
             y == SetWatcher(m.path, m.notify)
  <2>1. At("fetched") => x \in Standing
    <3>1. x \in Message /\ x.path = m.path
      BY <1>0, MessageTypes DEF Add, Msg
    <3> QED
      BY <3>1 DEF StandingInv, At, Standing
  <2>2. y \in Standing
    BY <1>0, OtherTypesStand
  <2> HIDE DEF x, y
  <2>3. mailbox' \in Seq(Standing)
    BY <1>0, <1>4, <1>e, <2>1, <2>2, MailboxOf DEF FinishUpdate, x, y
  <2> QED
    BY <1>1, <1>4, <2>3 DEF FinishUpdate, Done
<1>5. CASE HandleAdd \/ HandleSetWatcher \/ HandleRemove
  <2>1. PICK type \in {"Add", "SetWatcher", "Remove"} : Received(type)
    BY <1>5 DEF HandleAdd, HandleSetWatcher, HandleRemove
  <2>2. h \in Standing /\ h.type = type /\ mailbox # << >>
    BY <1>r, <2>1
  <2>3. mailbox' \in Seq(Standing)
    BY <1>0, <1>5, <1>e, <2>2, MailboxOf DEF HandleAdd, HandleSetWatcher, HandleRemove
  <2>4. /\ handler'.msg \in Standing
        /\ handler'.stage \in {"idle", "list", "evict", "watchExists"}
    <3>1. CASE HandleAdd \/ HandleSetWatcher
      BY <1>w, <2>2, <3>1 DEF HandleAdd, HandleSetWatcher, SetWatchers
    <3>2. CASE HandleRemove
      BY <2>2, <3>2 DEF HandleRemove, Handling
    <3> QED
      BY <1>5, <3>1, <3>2
  <2> QED
    BY <2>3, <2>4
<1>6. CASE WatchExists \/ WatchChildren \/ WatchData \/ RecordWatch \/ WatchMissing
  <2>1. m.type \in {"Add", "Remove", "SetWatcher"} /\ ~WatchMissing
    BY <1>6 DEF WatchExists, WatchChildren, WatchData, RecordWatch, WatchMissing, At, StandingInv,
       TypeInv, HandlerOK, WatchStages
  <2>2. mailbox' = mailbox /\ zk' = zk
    BY <1>6, <2>1, ActorLeavesNodes DEF WatchExists, WatchChildren, WatchData, RecordWatch, ActorStep
  <2>3. \/ Resume
        \/ GoTo("watchChildren") /\ Exists(m.path)
        \/ GoTo("watchData") /\ Exists(m.path)
        \/ GoTo("recordWatch")
    BY <1>6, <2>1 DEF WatchExists, WatchChildren, WatchData, RecordWatch, At, StandingInv,
       ExistsWithWatch, GetChildrenWithWatch, GetDataWithWatch, RoundTrip
  <2>4. CASE Resume
    BY <1>0, <1>w, <2>1, <2>2, <2>4 DEF Resume
  <2>5. ASSUME NEW stage \in WatchStages, GoTo(stage)
        PROVE  handler'.msg = m /\ handler'.stage = stage
    BY <1>0, <2>5 DEF GoTo
  <2> QED
    BY <1>0, <2>2, <2>3, <2>4, <2>5 DEF WatchStages
<1>7. CASE ListChildren
  <2>1. Exists(m.path)
    BY <1>0, <1>7 DEF ListChildren, At, StageInv, Standing
  <2>2. mailbox' = mailbox /\ handler'.msg = m /\ handler'.stage \in {"store", "addFailed"}
    BY <1>0, <1>7, <2>1 DEF ListChildren, Read, RoundTrip, Handling, GoTo
  <2> QED
    BY <1>0, <2>2
<1>8. CASE StoreEntry \/ FailAdd \/ Evict
  <2>1. handler' = Idle
    BY <1>8 DEF StoreEntry, FailAdd, Evict, Done
  <2>2. CASE StoreEntry
    <3> DEFINE update == [c \in handler.listed |-> Update(ChildPath(m.path, c), TRUE, m.notify)]
    <3>1. PICK updates \in ForEachChild(update) : Send(IF m.recursive THEN updates ELSE << >>)
      BY <2>2 DEF StoreEntry
    <3>2. handler.listed \in SUBSET Name /\ update \in [handler.listed -> Standing]
      BY <1>0, ChildPathType, OtherTypesStand
    <3>3. updates \in Seq(Standing)
      BY <3>1, <3>2, ForEachChildType
    <3>4. mailbox' \in Seq(Standing)
      BY <1>0, <1>e, <3>1, <3>3, MailboxOf
    <3> QED
      BY <1>1, <2>1, <3>4
  <2>3. CASE FailAdd
    <3>1. Remove(m.path, NoOne) \in Standing
      BY <1>0, OtherTypesStand DEF Notifyable
    <3>2. mailbox' \in Seq(Standing)
      BY <1>0, <1>e, <2>3, <3>1, MailboxOf DEF FailAdd
    <3> QED
      BY <1>1, <2>1, <3>2
  <2>4. CASE Evict
    <3> DEFINE C == cache[m.path].children
               remove == [c \in C |-> Remove(ChildPath(m.path, c), m.notify)]
    <3>1. CASE mailbox' = mailbox
      BY <1>0, <1>1, <2>1, <3>1
    <3>2. CASE Cached(m.path)
      <4>1. PICK removes \in ForEachChild(remove) : Send(removes)
        BY <2>4, <3>2 DEF Evict
      <4>2. C \in SUBSET Name /\ remove \in [C -> Standing]
        BY <1>0, <3>2, ChildPathType, OtherTypesStand DEF Cached
      <4>3. removes \in Seq(Standing)
        BY <4>1, <4>2, ForEachChildType
      <4>4. mailbox' \in Seq(Standing)
        BY <1>0, <4>1, <4>3, MailboxOf
      <4> QED
        BY <1>1, <2>1, <4>4
    <3> QED
      BY <2>4, <3>1, <3>2 DEF Evict
  <2> QED
    BY <1>8, <2>2, <2>3, <2>4
<1> QED
  BY <1>2, <1>3, <1>4, <1>5, <1>6, <1>7, <1>8 DEF ActorStep

(* Events, and what a lost connection has missed *)
LEMMA StandingEvents ==
  ASSUME "delete" \notin WriterOps, TypeInv, StandingInv, [Next]_vars
  PROVE  /\ events' \in Seq(Lasting) /\ watcher'.event.type # "NodeDeleted"
         /\ missed' # Nothing => \A p \in Znode : missed'.seen[p] # 0 => zk'[p] # 0
         /\ \A p \in childWatch' : Exists(p)'
<1>0. /\ zk \in [Znode -> Nat] /\ missed \in {Nothing} \cup Missed /\ ZkTypeOK
      /\ dataWatch \in SUBSET Znode /\ childWatch \in SUBSET Znode
      /\ events \in Seq(Lasting)
      /\ watcher \in {NoEvent} \cup [stage : {"unwatch", "followUp"}, event : Event]
  BY DEF TypeInv, TypeOK, ZkTypeOK, ActorTypeOK, StandingInv
<1>1. \A p : Exists(p) => Exists(p)'
  BY NodesStay
<1>2. \A p \in childWatch : Exists(p)'
  BY <1>1 DEF StandingInv
<1>3. missed # Nothing => \A p \in Znode : missed.seen[p] # 0 => zk'[p] # 0
  BY <1>1 DEF StandingInv, Exists
<1>4. CASE ActorStep
  <2>1. ASSUME NEW p, NEW o,
               Read(p, o) \/ ExistsWithWatch(p, o) \/ GetChildrenWithWatch(p, o) \/ GetDataWithWatch(p, o)
        PROVE  /\ UNCHANGED <<events, missed>>
               /\ childWatch' \subseteq childWatch \cup {q \in Znode : Exists(q)}
    BY <2>1 DEF Read, ExistsWithWatch, GetChildrenWithWatch, GetDataWithWatch, RoundTrip, Exists
  <2>2. CASE HandleUpdate \/ ListChildren \/ WatchExists \/ WatchChildren \/ WatchData
    <3>1. /\ UNCHANGED <<events, missed, watcher>>
          /\ childWatch' \subseteq childWatch \cup {q \in Znode : Exists(q)}
      BY <2>1, <2>2 DEF HandleUpdate, ListChildren, WatchExists, WatchChildren, WatchData
    <3> QED
      BY <1>0, <1>1, <1>2, <1>3, <3>1 DEF StandingInv
  <2>3. CASE ~(HandleUpdate \/ ListChildren \/ WatchExists \/ WatchChildren \/ WatchData)
    <3>1. UNCHANGED <<events, missed, watcher, childWatch>>
      BY <1>4, <2>3 DEF ActorStep, HandleWatchUnderPath, HandleRemovePath, HandleShutdown, FinishUpdate,
         HandleAdd, StoreEntry, FailAdd, HandleRemove, Evict, HandleSetWatcher, HandleUnwatch, RecordWatch,
         WatchMissing, zkVars
    <3> QED
      BY <1>0, <1>2, <1>3, <3>1 DEF StandingInv
  <2> QED
    BY <2>2, <2>3
<1>5. CASE WatcherStep
  <2>1. UNCHANGED <<missed, childWatch>>
    BY <1>5 DEF WatcherStep, ProcessEvent, SendUnwatch, SendFollowUp, zkVars
  <2>2. NoEvent.event.type # "NodeDeleted"
    BY DEF NoEvent
  <2>3. CASE ProcessEvent
    <3>1. Head(events) \in Lasting /\ Tail(events) \in Seq(Lasting)
      BY <1>0, <2>3 DEF ProcessEvent
    <3>2. events' = Tail(events) /\ (watcher' = NoEvent \/ watcher'.event = Head(events))
      BY <2>3 DEF ProcessEvent
    <3> QED
      BY <1>2, <1>3, <2>1, <2>2, <3>1, <3>2 DEF Lasting
  <2>4. CASE SendUnwatch \/ SendFollowUp
    <3>1. events' = events /\ (watcher' = NoEvent \/ watcher' = [watcher EXCEPT !.stage = "followUp"])
      BY <2>4 DEF SendUnwatch, SendFollowUp, zkVars
    <3>2. watcher'.event.type # "NodeDeleted"
      BY <1>0, <2>2, <3>1 DEF NoEvent, StandingInv
    <3> QED
      BY <1>0, <1>2, <1>3, <2>1, <3>1, <3>2
  <2> QED
    BY <1>5, <2>3, <2>4 DEF WatcherStep
<1>6. CASE WriterStep
  <2>1. PICK p \in Znode : CreateNode(p) \/ SetNodeData(p)
    BY <1>6 DEF WriterStep, DeleteNode, Write
  <2>2. ASSUME NEW watches \in SUBSET Znode, NEW q, NEW t \in EventType \ {"NodeDeleted"}
        PROVE  Fired(watches, q, t) \in Seq(Lasting)
    <3>1. CASE q \in watches
      <4>1. [type |-> t, path |-> q] \in Lasting
        BY <2>2, <3>1 DEF Event, Lasting
      <4> HIDE DEF Lasting
      <4> QED
        BY <3>1, <4>1 DEF Fired
    <3>2. CASE q \notin watches
      BY <3>2 DEF Fired
    <3> QED
      BY <3>1, <3>2
  <2>3. PICK raised \in Seq(Lasting) :
          \E dataPaths, childPaths, relisted : Notice(raised, dataPaths, childPaths, relisted)
    <3>1. /\ "NodeCreated" \in EventType \ {"NodeDeleted"}
          /\ "NodeDataChanged" \in EventType \ {"NodeDeleted"}
          /\ "NodeChildrenChanged" \in EventType \ {"NodeDeleted"}
      BY DEF EventType
    <3>2. \A s, t \in Seq(Lasting) : s \o t \in Seq(Lasting)
      OBVIOUS
    <3>3. CASE CreateNode(p)
      <4>1. /\ Fired(dataWatch, p, "NodeCreated") \in Seq(Lasting)
            /\ Fired(childWatch, ParentPath(p), "NodeChildrenChanged") \in Seq(Lasting)
        BY <1>0, <2>2, <3>1
      <4>2. Fired(dataWatch, p, "NodeCreated") \o Fired(childWatch, ParentPath(p), "NodeChildrenChanged")
              \in Seq(Lasting)
        BY <3>2, <4>1
      <4> QED
        BY <3>3, <4>2 DEF CreateNode
    <3>4. CASE SetNodeData(p)
      <4>1. Fired(dataWatch, p, "NodeDataChanged") \in Seq(Lasting)
        BY <1>0, <2>2, <3>1
      <4> QED
        BY <3>4, <4>1 DEF SetNodeData
    <3> QED
      BY <2>1, <3>3, <3>4
  <2>4. events' \in Seq(Lasting) /\ childWatch' \subseteq childWatch
    <3>1. \A s, t \in Seq(Lasting) : s \o t \in Seq(Lasting)
      OBVIOUS
    <3> QED
      BY <1>0, <2>3, <3>1 DEF Notice
  <2>5. \/ missed' = missed
        \/ missed # Nothing /\ missed'.seen = missed.seen
    BY <1>0, <2>3 DEF Notice, Connected, Missed
  <2>6. watcher' = watcher
    BY <1>6 DEF WriterStep, actorVars
  <2> QED
    BY <1>2, <1>3, <2>4, <2>5, <2>6 DEF StandingInv
<1>7. CASE LoseConnection
  <2>1. missed'.seen = zk /\ UNCHANGED <<zk, events, childWatch, watcher>>
    BY <1>7 DEF LoseConnection, Disconnect, actorVars
  <2> QED
    BY <1>0, <1>2, <2>1 DEF StandingInv
<1>8. CASE FindConnection
  <2>1. missed # Nothing /\ missed' = Nothing /\ childWatch' \subseteq childWatch /\ watcher' = watcher
    BY <1>8 DEF FindConnection, Reconnect, Connected, actorVars
  <2>2. DataMissed \in SUBSET Lasting /\ ChildrenMissed \in SUBSET Lasting
    <3>1. DataMissed \in SUBSET Event /\ ChildrenMissed \in SUBSET Event
      BY <1>0, MissedEvents
    <3>2. \A e \in DataMissed : e.type # "NodeDeleted"
      BY <1>0, <2>1 DEF DataMissed, StandingInv
    <3>3. \A e \in ChildrenMissed : e.type # "NodeDeleted"
      BY <1>0 DEF ChildrenMissed, StandingInv
    <3> QED
      BY <3>1, <3>2, <3>3 DEF Lasting
  <2>3. PICK data \in Traversals(DataMissed), children \in Traversals(ChildrenMissed) :
          events' = events \o data \o children
    BY <1>8 DEF FindConnection, Reconnect
  <2>4. data \in Seq(Lasting) /\ children \in Seq(Lasting)
    BY <1>0, <2>2, <2>3, MissedEvents, TraversalType
  <2>5. events' \in Seq(Lasting)
    BY <1>0, <2>3, <2>4
  <2> QED
    BY <1>2, <2>1, <2>5 DEF StandingInv
<1>9. CASE ApiStep \/ UNCHANGED vars
  <2>1. UNCHANGED <<events, missed, childWatch, watcher>>
    BY <1>9 DEF ApiStep, CheckAdd, CheckRemove, SendAdd, SendRemove, CallStop, StopCompletes,
       StopTimesOut, actorVars, zkVars, vars
  <2> QED
    BY <1>0, <1>2, <1>3, <2>1 DEF StandingInv
<1> QED
  BY <1>4, <1>5, <1>6, <1>7, <1>8, <1>9 DEF Next, SessionStep

LEMMA StandingInvStep ==
  ASSUME "delete" \notin WriterOps, TypeInv, StageInv, StandingInv, [Next]_vars
  PROVE  StandingInv'
<1>0. /\ mailbox \in Seq(Standing) /\ handler.msg \in Standing /\ request \in [Request -> Call \cup {NotMade}]
      /\ watcher \in {NoEvent} \cup [stage : {"unwatch", "followUp"}, event : Event]
  BY DEF StandingInv, TypeInv, TypeOK, CallsTypeOK, ActorTypeOK
<1>1. Standing \subseteq Standing'
  BY NodesStay DEF Standing
<1>2. /\ mailbox' \in Seq(Standing) /\ handler'.msg \in Standing
      /\ handler'.stage \in {"fetched", "watchChildren", "watchData"} => Exists(handler'.msg.path)
      /\ handler'.stage \notin {"watchMissing", "addMissing"}
  <2>1. CASE ActorStep
    BY <2>1, StandingActorStep
  <2>2. CASE ~ActorStep
    <3>1. handler' = handler
      BY <2>2, OthersLeaveHandler
    <3>2. mailbox' = mailbox \/ \E x \in Standing : Send(<<x>>)
      <4>1. CASE WatcherStep
        <5>1. CASE SendUnwatch \/ SendFollowUp
          <6>1. watcher.event \in Event
            BY <1>0, <5>1 DEF SendUnwatch, SendFollowUp, NoEvent
          <6>2. watcher.event.path \in PathString /\ NoOne \in Notifyable
            BY <6>1, ZnodeIsPathString DEF Event, Notifyable
          <6>3. Unwatch(watcher.event.path) \in Standing /\ FollowUp(watcher.event) \in Standing
            BY <6>2, OtherTypesStand DEF FollowUp
          <6> QED
            BY <5>1, <6>3 DEF SendUnwatch, SendFollowUp
        <5>2. CASE ProcessEvent
          BY <5>2 DEF ProcessEvent
        <5> QED
          BY <4>1, <5>1, <5>2 DEF WatcherStep
      <4>2. CASE ApiStep
        <5>1. PICK q \in Request :
                \/ \E path \in ApiPath : CheckAdd(q, path) \/ CheckRemove(q, path)
                \/ SendAdd(q) \/ SendRemove(q)
                \/ CallStop(q) \/ StopCompletes(q) \/ StopTimesOut(q)
          BY <4>2 DEF ApiStep
        <5>2. CASE SendAdd(q) \/ SendRemove(q)
          <6>1. PICK t \in {"ScakkaApiWatchUnderPath", "ScakkaApiRemovePath"} :
                  Send(<<Msg(t, request[q].path, q)>>)
            BY <5>2 DEF SendAdd, SendRemove
          <6>2. request[q] # NotMade
            BY <5>2 DEF SendAdd, SendRemove, IsPending
          <6>3. request[q].path \in PathString /\ q \in Notifyable
            BY <1>0, <6>2 DEF Call, PathString, Notifyable
          <6> QED
            BY <6>1, <6>3, OtherTypesStand DEF MessageType
        <5>3. CASE CallStop(q)
          <6>1. Shutdown \in Standing
            BY RootMessageTypes DEF Shutdown, Msg, Standing
          <6> QED
            BY <5>3, <6>1 DEF CallStop
        <5> QED
          BY <5>1, <5>2, <5>3 DEF CheckAdd, CheckRemove, StopCompletes, StopTimesOut, actorVars
      <4>3. CASE WriterStep \/ SessionStep \/ UNCHANGED vars
        BY <4>3 DEF WriterStep, SessionStep, LoseConnection, FindConnection, vars, actorVars
      <4> QED
        BY <2>2, <4>1, <4>2, <4>3 DEF Next
    <3>3. mailbox' \in Seq(Standing)
      <4>1. \A x \in Standing : <<x>> \in Seq(Standing)
        OBVIOUS
      <4>2. CASE \E x \in Standing : Send(<<x>>)
        BY <1>0, <4>1, <4>2, MailboxOf
      <4> QED
        BY <1>0, <3>2, <4>2
    <3> QED
      BY <1>0, <3>1, <3>3 DEF StandingInv
  <2> QED
    BY <2>1, <2>2
<1>3. mailbox' \in Seq(Standing') /\ handler'.msg \in Standing'
  BY <1>1, <1>2, SeqMonotonic
<1>4. handler'.stage \in {"fetched", "watchChildren", "watchData"} => Exists(handler.msg.path)'
  <2>1. ASSUME NEW p, Exists(p) PROVE p \in Znode /\ zk'[p] # 0
    BY <2>1, NodesStay DEF Exists
  <2> QED
    BY <1>2, <2>1 DEF Exists
<1> QED
  BY <1>2, <1>3, <1>4, StandingEvents DEF StandingInv

-----------------------------------------------------------------------------
(***************************************************************************)
(* A removal evicts the path of its call, succeeds with that, and goes on  *)
(* below it.  So whatever evicts an entry under the path of another call   *)
(* has succeeded.                                                          *)
(***************************************************************************)
RemovalType == {"ScakkaApiRemovePath", "Remove"}

Removing ==
  {m \in Message : m.type \in RemovalType =>
     /\ m.notify \in Request /\ IsRemoval(m.notify)
     /\ request[m.notify].at = "returned" /\ request[m.notify].attached
     /\ IsUnder(request[m.notify].path, m.path)
     /\ m.path # request[m.notify].path => promise[m.notify] = "succeeded"}

RemovalBearer(r) == {m \in Message : /\ m.type \in RemovalType
                                     /\ m.notify = r /\ m.path = request[r].path}

RemovalUnderWay(r) ==
  IsRemoval(r) /\ promise[r] = "open" /\ alive =>
    /\ request[r].attached
    /\ \/ Overtaken(r)
       \/ /\ Cached(request[r].path)
          /\ request[r].at = "checked" \/ Has(mailbox, handler.msg, RemovalBearer(r))

RemovalInv ==
  /\ mailbox \in Seq(Removing) /\ handler.msg \in Removing
  /\ \A r \in Request : /\ IsRemoval(r) /\ request[r].at = "checked" => request[r].attached
                        /\ RemovalUnderWay(r)

LEMMA RemovingStays == ContractInv /\ [Next]_vars => Removing \subseteq Removing'
<1> SUFFICES ASSUME ContractInv, [Next]_vars, NEW m \in Removing, m.type \in RemovalType
             PROVE  m \in Removing'
  BY DEF Removing
<1> DEFINE q == m.notify
<1>1. /\ m \in Message /\ q \in Request /\ IsRemoval(q)
      /\ request[q].at = "returned" /\ request[q].attached
      /\ IsUnder(request[q].path, m.path)
      /\ m.path # request[q].path => promise[q] = "succeeded"
  BY DEF Removing
<1>2. request'[q] = request[q]
  BY <1>1, CallsGoOn DEF ContractInv, DataInv, IsRemoval
<1>3. promise[q] = "succeeded" => promise'[q] = "succeeded"
  BY <1>1, AnswersStand
<1> HIDE DEF q
<1>4. /\ m \in Message /\ q \in Request /\ IsRemoval(q)'
      /\ request'[q].at = "returned" /\ request'[q].attached
      /\ IsUnder(request'[q].path, m.path)
      /\ m.path # request'[q].path => promise'[q] = "succeeded"
  BY <1>1, <1>2, <1>3 DEF IsRemoval
<1> QED
  BY <1>4 DEF Removing, q, IsRemoval, IsUnder

LEMMA OthersAreRemoving ==
  ASSUME NEW p \in PathString, NEW r \in Notifyable, NEW rec \in BOOLEAN, NEW d \in Nat
  PROVE  /\ \A t \in MessageType \ RemovalType : Msg(t, p, r) \in Removing
         /\ Update(p, rec, r) \in Removing /\ Add(p, d, rec, r) \in Removing
         /\ SetWatcher(p, r) \in Removing /\ Unwatch(p) \in Removing
<1>1. /\ \A t \in MessageType : Msg(t, p, r) \in Message /\ Msg(t, p, r).type = t
      /\ Update(p, rec, r) \in Message /\ Add(p, d, rec, r) \in Message
      /\ SetWatcher(p, r) \in Message /\ Unwatch(p) \in Message
  BY MessageTypes DEF Msg
<1>2. /\ Update(p, rec, r).type = "Update" /\ Add(p, d, rec, r).type = "Add"
      /\ SetWatcher(p, r).type = "SetWatcher" /\ Unwatch(p).type = "Unwatch"
  BY DEF Update, Add, SetWatcher, Unwatch, Msg
<1> QED
  BY <1>1, <1>2 DEF Removing, RemovalType

(* What evicts an entry serves a removal that has succeeded. *)
LEMMA EvictSucceeds ==
  ASSUME ContractInv, handler.msg \in Removing, Evict, Cached(handler.msg.path)
  PROVE  LET q == handler.msg.notify
         IN  /\ handler.msg.type = "Remove"
             /\ q \in Request /\ IsRemoval(q) /\ request[q].at = "returned" /\ request[q].attached
             /\ IsUnder(request[q].path, handler.msg.path)
             /\ promise'[q] = "succeeded"
<1> DEFINE m == handler.msg
           q == m.notify
<1>1. m.type = "Remove"
  BY DEF Evict, At, ContractInv, DataInv, StageInv
<1>2. /\ m \in Message /\ q \in Request /\ IsRemoval(q)
      /\ request[q].at = "returned" /\ request[q].attached
      /\ IsUnder(request[q].path, m.path)
      /\ m.path # request[q].path => promise[q] = "succeeded"
  BY <1>1 DEF Removing, RemovalType
<1>3. TypeInv /\ PromiseInv /\ Notify(m.notify, m.path, "succeeded")
  BY DEF Evict, SucceedNotifyable, ContractInv, DataInv
<1>4. \/ promise'[q] = promise[q]
      \/ promise[q] = "open" /\ promise'[q] = "succeeded"
  BY <1>2, <1>3, NotifyCompletesOpen
<1>5. CASE m.path = request[q].path
  <2>1. m \in Token(q)
    BY <1>2, <1>5 DEF Token
  <2>2. promise[q] = "open"
    BY <1>2, <1>3, <2>1 DEF PromiseInv, Has
  <2>3. promise'[q] # "open"
    BY <1>2, <1>3, <1>5, HeldIsAnswered
  <2> QED
    BY <1>1, <1>2, <1>4, <2>2, <2>3
<1>6. CASE m.path # request[q].path
  BY <1>1, <1>2, <1>4, <1>6
<1> QED
  BY <1>5, <1>6

(* Where the messages of a removal come from *)
LEMMA RemovingStep ==
  ASSUME ContractInv, StandingInv, RemovalInv, [Next]_vars
  PROVE  mailbox' \in Seq(Removing') /\ handler'.msg \in Removing'
<1> DEFINE m == handler.msg
           h == Head(mailbox)
<1>0. /\ TypeInv /\ StageInv
      /\ mailbox \in Seq(Removing) /\ m \in Removing /\ m \in Message
      /\ handler \in [stage : Stages, msg : Message, listed : SUBSET Name]
      /\ m.path \in PathString /\ m.notify \in Notifyable
      /\ m.data \in Nat /\ m.recursive \in BOOLEAN
      /\ \A p \in DOMAIN cache : cache[p].children \in SUBSET Name
      /\ request \in [Request -> Call \cup {NotMade}]
      /\ watcher \in {NoEvent} \cup [stage : {"unwatch", "followUp"}, event : Event]
  BY DEF ContractInv, DataInv, TypeInv, TypeOK, ActorTypeOK, CallsTypeOK, Message, RemovalInv, Entry
<1>1. Removing \subseteq Removing'
  BY RemovingStays
<1>2. Idle.msg \in Removing
  BY RootMessageTypes DEF Idle, Handling, NoMessage, Msg, Removing, RemovalType
<1>e. << >> \in Seq(Removing) /\ \A x \in Removing : <<x>> \in Seq(Removing)
  OBVIOUS
<1>q. ASSUME mailbox' \in Seq(Removing), handler'.msg \in Removing
      PROVE  mailbox' \in Seq(Removing') /\ handler'.msg \in Removing'
  BY <1>1, <1>q, SeqMonotonic
<1>r. ASSUME NEW type, Received(type)
      PROVE  /\ h \in Removing /\ h \in Message /\ h.type = type /\ mailbox # << >>
             /\ h.path \in PathString /\ h.notify \in Notifyable
  <2>1. h \in Removing /\ h.type = type /\ mailbox # << >>
    BY <1>0, <1>r DEF Received
  <2> QED
    BY <2>1 DEF Removing, Message
<1>3. CASE Evict
  <2>1. handler'.msg \in Removing
    BY <1>2, <1>3 DEF Evict, Done
  <2>2. CASE mailbox' = mailbox
    BY <1>0, <1>q, <2>1, <2>2
  <2>3. CASE Cached(m.path)
    <3> DEFINE C == cache[m.path].children
               remove == [c \in C |-> Remove(ChildPath(m.path, c), m.notify)]
               q == m.notify
    <3>1. PICK removes \in ForEachChild(remove) : Send(removes)
      BY <1>3, <2>3 DEF Evict
    <3>2. /\ q \in Request /\ IsRemoval(q) /\ request[q].at = "returned" /\ request[q].attached
          /\ IsUnder(request[q].path, m.path)
          /\ promise'[q] = "succeeded"
      BY <1>0, <1>3, <2>3, EvictSucceeds
    <3>3. request' = request /\ request[q].path \in Seq(Name)
      BY <1>0, <1>3, <3>2 DEF Evict, IsRemoval, Call
    <3> HIDE DEF q
    <3>4. ASSUME NEW c \in C PROVE Remove(ChildPath(m.path, c), q) \in Removing'
      <4> DEFINE x == Remove(ChildPath(m.path, c), q)
      <4>1. c \in Name
        BY <1>0, <2>3, <3>4 DEF Cached
      <4>2. ChildPath(m.path, c) \in PathString /\ IsUnder(request[q].path, ChildPath(m.path, c))
        BY <1>0, <3>2, <3>3, <4>1, ChildPathType, UnderChild
      <4>3. x \in Message /\ x.notify = q /\ x.path = ChildPath(m.path, c)
        BY <3>2, <4>2, MessageTypes DEF Remove, Msg, Notifyable
      <4> HIDE DEF x
      <4>4. /\ q \in Request /\ request'[q] # NotMade /\ request'[q].op = "removePathFromCache"
            /\ request'[q].at = "returned" /\ request'[q].attached
            /\ IsUnder(request'[q].path, x.path)
            /\ promise'[q] = "succeeded"
        BY <3>2, <3>3, <4>2, <4>3 DEF IsRemoval
      <4> QED
        BY <4>3, <4>4 DEF Removing, IsRemoval, IsUnder, x
    <3>5. C \in SUBSET Name /\ remove \in [C -> Removing']
      BY <1>0, <2>3, <3>4 DEF Cached, q
    <3>6. removes \in Seq(Removing')
      BY <3>1, <3>5, ForEachChildType
    <3>7. mailbox' \in Seq(Removing')
      <4>1. mailbox \in Seq(Removing')
        BY <1>0, <1>1, SeqMonotonic
      <4> QED
        BY <3>1, <3>6, <4>1, MailboxOf
    <3> QED
      BY <1>1, <2>1, <3>7
  <2> QED
    BY <1>3, <2>2, <2>3 DEF Evict
<1>4. ASSUME NEW q \in Request, SendRemove(q)
      PROVE  mailbox' \in Seq(Removing') /\ handler'.msg \in Removing'
  <2> DEFINE x == Msg("ScakkaApiRemovePath", request[q].path, q)
  <2>1. /\ IsRemoval(q) /\ request[q].at = "checked" /\ request[q] \in Call
        /\ Send(<<x>>) /\ request'[q] = [request[q] EXCEPT !.at = "returned"]
        /\ UNCHANGED handler
    BY <1>0, <1>4 DEF SendRemove, IsPending, Return, IsRemoval
  <2>2. request[q].attached
    BY <2>1 DEF RemovalInv
  <2>3. /\ request'[q] # NotMade /\ request'[q].op = "removePathFromCache"
        /\ request'[q].at = "returned" /\ request'[q].attached /\ request'[q].path = request[q].path
    BY <2>1, <2>2 DEF Call, NotMade, IsRemoval
  <2>4. request[q].path \in Seq(Name) /\ request[q].path \in PathString /\ q \in Notifyable
    BY <2>1 DEF Call, PathString, Notifyable
  <2>5. IsUnder(request'[q].path, request[q].path)
    BY <2>3, <2>4, UnderSelf
  <2>6. x \in Message /\ x.notify = q /\ x.path = request[q].path
    BY <2>4, MessageTypes DEF Msg, MessageType
  <2> HIDE DEF x
  <2>7. x \in Removing'
    BY <2>3, <2>5, <2>6 DEF Removing, IsRemoval, IsUnder
  <2>8. mailbox \in Seq(Removing') /\ <<x>> \in Seq(Removing')
    BY <1>0, <1>1, <2>7, SeqMonotonic
  <2> QED
    BY <1>0, <1>1, <2>1, <2>8, MailboxOf
<1>5. CASE HandleWatchUnderPath \/ HandleRemovePath \/ HandleShutdown \/ HandleUnwatch
  <2>1. handler' = handler
    BY <1>5 DEF HandleWatchUnderPath, HandleRemovePath, HandleShutdown, HandleUnwatch
  <2>2. CASE HandleWatchUnderPath
    <3>1. Update(h.path, TRUE, h.notify) \in Removing /\ mailbox # << >>
      BY <1>r, <2>2, OthersAreRemoving DEF HandleWatchUnderPath
    <3> QED
      BY <1>0, <1>e, <1>q, <2>1, <2>2, <3>1, MailboxOf DEF HandleWatchUnderPath
  <2>3. CASE HandleRemovePath
    <3> DEFINE x == Remove(h.path, h.notify)
    <3>1. h \in Removing /\ h.type = "ScakkaApiRemovePath" /\ mailbox # << >>
          /\ h.path \in PathString /\ h.notify \in Notifyable
      BY <1>r, <2>3 DEF HandleRemovePath
    <3>2. x \in Message /\ x.notify = h.notify /\ x.path = h.path
      BY <3>1, MessageTypes DEF Remove, Msg
    <3> HIDE DEF x
    <3>3. x \in Removing
      BY <3>1, <3>2 DEF Removing, RemovalType
    <3> QED
      BY <1>0, <1>e, <1>q, <2>1, <2>3, <3>1, <3>3, MailboxOf DEF HandleRemovePath, x
  <2>4. CASE HandleShutdown
    BY <1>0, <1>e, <1>q, <2>1, <2>4 DEF HandleShutdown
  <2>5. CASE HandleUnwatch
    BY <1>0, <1>e, <1>q, <1>r, <2>1, <2>5, MailboxOf DEF HandleUnwatch
  <2> QED
    BY <1>5, <2>2, <2>3, <2>4, <2>5
<1>6. CASE HandleUpdate \/ HandleAdd \/ HandleSetWatcher \/ HandleRemove
  <2>1. PICK type \in {"Update", "Add", "SetWatcher", "Remove"} : Received(type)
    BY <1>6 DEF HandleUpdate, HandleAdd, HandleSetWatcher, HandleRemove
  <2>2. h \in Removing /\ h \in Message /\ h.type = type /\ mailbox # << >>
    BY <1>r, <2>1
  <2>3. mailbox' \in Seq(Removing)
    BY <1>0, <1>6, <1>e, <2>2, MailboxOf DEF HandleUpdate, HandleAdd, HandleSetWatcher, HandleRemove
  <2>4. handler'.msg \in Removing
    <3>1. CASE HandleUpdate
      <4> DEFINE fetched == [h EXCEPT !.data = zk[h.path]]
      <4>1. h.type = "Update"
        BY <3>1 DEF HandleUpdate, Received
      <4>2. Read(h.path, "ok") => fetched \in Removing
        <5> SUFFICES ASSUME Read(h.path, "ok") PROVE fetched \in Removing
          OBVIOUS
        <5>1. zk[h.path] \in Nat
          BY <1>0 DEF Read, RoundTrip, Exists, TypeInv, TypeOK, ZkTypeOK
        <5>2. fetched \in Message /\ fetched.type = "Update"
          BY <2>2, <4>1, <5>1 DEF Message
        <5> QED
          BY <5>2 DEF Removing, RemovalType
      <4> HIDE DEF fetched
      <4>3. handler'.msg \in {fetched, h, Idle.msg} /\ (handler'.msg = fetched => Read(h.path, "ok") \/ handler'.msg \in {h, Idle.msg})
        BY <3>1 DEF HandleUpdate, Handling, Done, fetched
      <4> QED
        BY <1>2, <2>2, <4>2, <4>3
    <3>2. CASE HandleAdd \/ HandleSetWatcher \/ HandleRemove
      <4>1. handler'.msg \in {h, Idle.msg}
        BY <2>2, <3>2 DEF HandleAdd, HandleSetWatcher, HandleRemove, Received, SetWatchers, AfterWatchers, Handling
      <4> QED
        BY <1>2, <2>2, <4>1
    <3> QED
      BY <1>6, <3>1, <3>2
  <2> QED
    BY <1>q, <2>3, <2>4
<1>7. CASE FinishUpdate \/ FailAdd
  <2>1. handler'.msg \in Removing
    BY <1>2, <1>7 DEF FinishUpdate, FailAdd, Done
  <2>2. Add(m.path, m.data, m.recursive, m.notify) \in Removing /\ SetWatcher(m.path, m.notify) \in Removing
    BY <1>0, OthersAreRemoving
  <2>3. mailbox' \in Seq(Removing)
    <3>1. CASE FinishUpdate
      BY <1>0, <1>e, <2>2, <3>1, MailboxOf DEF FinishUpdate
    <3>2. CASE FailAdd
      <4>1. Send(<< >>)
        BY <3>2 DEF FailAdd, At, StandingInv
      <4> QED
        BY <1>0, <1>e, <4>1, MailboxOf
    <3> QED
      BY <1>7, <3>1, <3>2
  <2> QED
    BY <1>q, <2>1, <2>3
<1>8. CASE WatchExists \/ WatchChildren \/ WatchData \/ RecordWatch \/ WatchMissing
  <2>1. m.type \in {"Add", "Remove", "SetWatcher"} /\ ~WatchMissing
    BY <1>0, <1>8 DEF WatchExists, WatchChildren, WatchData, RecordWatch, WatchMissing, At, StandingInv,
       TypeInv, HandlerOK, WatchStages
  <2>2. mailbox' = mailbox /\ (Resume \/ \E stage : GoTo(stage))
    BY <1>8, <2>1 DEF WatchExists, WatchChildren, WatchData, RecordWatch
  <2>3. handler'.msg \in {m, Idle.msg}
    BY <1>0, <2>1, <2>2 DEF Resume, AfterWatchers, Handling, GoTo
  <2> QED
    BY <1>0, <1>2, <1>q, <2>2, <2>3
<1>9. CASE ListChildren
  <2>1. mailbox' = mailbox /\ handler'.msg = m
    BY <1>0, <1>9 DEF ListChildren, Handling, GoTo
  <2> QED
    BY <1>0, <1>q, <2>1
<1>10. CASE StoreEntry
  <2> DEFINE update == [c \in handler.listed |-> Update(ChildPath(m.path, c), TRUE, m.notify)]
  <2>1. PICK updates \in ForEachChild(update) : Send(IF m.recursive THEN updates ELSE << >>)
    BY <1>10 DEF StoreEntry
  <2>2. handler.listed \in SUBSET Name /\ update \in [handler.listed -> Removing]
    BY <1>0, ChildPathType, OthersAreRemoving
  <2>3. updates \in Seq(Removing)
    BY <2>1, <2>2, ForEachChildType
  <2>4. mailbox' \in Seq(Removing)
    BY <1>0, <1>e, <2>1, <2>3, MailboxOf
  <2>5. handler'.msg \in Removing
    BY <1>2, <1>10 DEF StoreEntry, Done
  <2> QED
    BY <1>q, <2>4, <2>5
<1>11. CASE ~ActorStep /\ ~(\E q \in Request : SendRemove(q))
  <2>1. handler' = handler
    BY <1>11, OthersLeaveHandler
  <2>2. mailbox' = mailbox \/ \E x \in Removing : Send(<<x>>)
    <3>1. CASE WatcherStep
      <4>1. CASE SendUnwatch \/ SendFollowUp
        <5>1. watcher.event \in Event
          BY <1>0, <4>1 DEF SendUnwatch, SendFollowUp, NoEvent
        <5>2. watcher.event.path \in PathString /\ NoOne \in Notifyable
          BY <5>1, ZnodeIsPathString DEF Event, Notifyable
        <5>3. Unwatch(watcher.event.path) \in Removing /\ FollowUp(watcher.event) \in Removing
          BY <5>2, OthersAreRemoving DEF FollowUp, StandingInv
        <5> QED
          BY <4>1, <5>3 DEF SendUnwatch, SendFollowUp
      <4>2. CASE ProcessEvent
        BY <4>2 DEF ProcessEvent
      <4> QED
        BY <3>1, <4>1, <4>2 DEF WatcherStep
    <3>2. CASE ApiStep
      <4>1. PICK q \in Request :
              \/ \E path \in ApiPath : CheckAdd(q, path) \/ CheckRemove(q, path)
              \/ SendAdd(q)
              \/ CallStop(q) \/ StopCompletes(q) \/ StopTimesOut(q)
        BY <1>11, <3>2 DEF ApiStep
      <4>2. CASE SendAdd(q)
        <5>1. Send(<<Msg("ScakkaApiWatchUnderPath", request[q].path, q)>>) /\ request[q] # NotMade
          BY <4>2 DEF SendAdd, IsPending
        <5>2. request[q].path \in PathString /\ q \in Notifyable
          BY <1>0, <5>1 DEF Call, PathString, Notifyable
        <5> QED
          BY <5>1, <5>2, OthersAreRemoving DEF MessageType, RemovalType
      <4>3. CASE CallStop(q)
        <5>1. Shutdown \in Removing
          BY RootMessageTypes DEF Shutdown, Msg, Removing, RemovalType
        <5> QED
          BY <4>3, <5>1 DEF CallStop
      <4> QED
        BY <4>1, <4>2, <4>3 DEF CheckAdd, CheckRemove, StopCompletes, StopTimesOut, actorVars
    <3>3. CASE WriterStep \/ SessionStep \/ UNCHANGED vars
      BY <3>3 DEF WriterStep, SessionStep, LoseConnection, FindConnection, vars, actorVars
    <3> QED
      BY <1>11, <3>1, <3>2, <3>3 DEF Next
  <2>3. mailbox' \in Seq(Removing)
    <3>1. \A x \in Removing : <<x>> \in Seq(Removing)
      OBVIOUS
    <3>2. CASE \E x \in Removing : Send(<<x>>)
      BY <1>0, <3>1, <3>2, MailboxOf
    <3> QED
      BY <1>0, <2>2, <3>2
  <2> QED
    BY <1>0, <1>q, <2>1, <2>3
<1> QED
  BY <1>3, <1>4, <1>5, <1>6, <1>7, <1>8, <1>9, <1>10, <1>11 DEF ActorStep

LEMMA OvertakenStays ==
  ASSUME ContractInv, [Next]_vars, NEW r \in Request, request[r] # NotMade, Overtaken(r)
  PROVE  Overtaken(r)'
<1>1. PICK q \in Request \ {r} :
        /\ IsRemoval(q) /\ promise[q] = "succeeded" /\ request[q].attached
        /\ IsUnder(request[q].path, request[r].path)
  BY DEF Overtaken
<1>2. promise'[q] = "succeeded"
  BY <1>1, AnswersStand
<1>3. TypeInv
  BY DEF ContractInv, DataInv
<1>4. /\ request'[q] # NotMade /\ request'[q].op = request[q].op
      /\ request'[q].path = request[q].path /\ request'[q].attached = request[q].attached
      /\ request'[r].path = request[r].path
  BY <1>1, <1>3, CallsGoOn DEF IsRemoval, Call, NotMade
<1>5. /\ q \in Request \ {r} /\ IsRemoval(q)' /\ promise'[q] = "succeeded" /\ request'[q].attached
      /\ IsUnder(request'[q].path, request'[r].path)
  BY <1>1, <1>2, <1>4 DEF IsRemoval
<1> QED
  BY <1>5 DEF Overtaken, IsRemoval, IsUnder

(* The handlers keep the entry and the message of a removal, until one of  *)
(* them evicts the entry.                                                  *)
LEMMA RemovalHandledOn ==
  ASSUME ContractInv, RemovalInv, ActorStep, NEW r \in Request, IsRemoval(r), alive',
         promise'[r] = "open", Cached(request[r].path),
         request[r].at = "checked" \/ Has(mailbox, handler.msg, RemovalBearer(r))
  PROVE  \/ Overtaken(r)'
         \/ /\ Cached(request[r].path)'
            /\ request[r].at = "checked" \/ Has(mailbox', handler'.msg, RemovalBearer(r)')
<1> DEFINE m == handler.msg
           h == Head(mailbox)
           T == RemovalBearer(r)
<1>0. /\ TypeInv /\ StageInv /\ alive /\ request' = request
      /\ mailbox \in Seq(Message) /\ m \in Message /\ m \in Removing
      /\ handler \in [stage : Stages, msg : Message, listed : SUBSET Name]
      /\ \A p \in DOMAIN cache : cache[p].children \in SUBSET Name
  BY OnlyAliveActs, ActorLeavesCalls
     DEF ContractInv, DataInv, TypeInv, TypeOK, ActorTypeOK, Entry, RemovalInv
<1>1. RemovalBearer(r)' = RemovalBearer(r)
  BY <1>0 DEF RemovalBearer
<1>k. ASSUME NEW M, NEW ms \in Seq(M), Send(ms), m \in T => handler'.msg \in T
      PROVE  Has(mailbox, m, T) => Has(mailbox', handler'.msg, T)
  <2>1. ~NoneOf(mailbox, T) => ~NoneOf(mailbox', T)
    BY <1>0, <1>k, StaysWhenSent
  <2> QED
    BY <1>k, <2>1 DEF Has
<1>t. ASSUME NEW type, Received(type), NEW M, NEW ms \in Seq(M), Consume(ms),
             h \in T => handler'.msg \in T \/ ~NoneOf(ms, T)
      PROVE  Has(mailbox, m, T) => Has(mailbox', handler'.msg, T)
  <2>1. m \notin T
    BY <1>t DEF RemovalBearer, RemovalType, Received, Idle, Handling, NoMessage, Msg
  <2>2. mailbox # << >>
    BY <1>t DEF Received
  <2>3. ~NoneOf(mailbox, T) => h \in T \/ ~NoneOf(mailbox', T)
    BY <1>0, <1>t, <2>2, StaysUntilTaken
  <2>4. ~NoneOf(ms, T) => ~NoneOf(mailbox', T)
    <3>1. Tail(mailbox) \in Seq(Message \cup M) /\ ms \in Seq(Message \cup M)
      BY <1>0, <2>2, SeqMonotonic, NoneOfTail
    <3> QED
      BY <1>t, <3>1, NoneOfConcat DEF Consume
  <2> QED
    BY <1>t, <2>1, <2>3, <2>4 DEF Has
<1>s. ASSUME Has(mailbox, m, T) => Has(mailbox', handler'.msg, T), Cached(request[r].path)'
      PROVE  \/ Overtaken(r)'
             \/ /\ Cached(request[r].path)'
                /\ request[r].at = "checked" \/ Has(mailbox', handler'.msg, RemovalBearer(r)')
  BY <1>1, <1>s
<1>c. ASSUME cache' = cache PROVE Cached(request[r].path)'
  BY <1>0, <1>c DEF Cached
<1>e. << >> \in Seq(Message) /\ \A x : <<x>> \in Seq({x})
  OBVIOUS
<1>2. CASE Evict
  <2>1. m.type = "Remove" /\ Done
    BY <1>0, <1>2 DEF Evict, At, StageInv
  <2>2. CASE ~Cached(m.path)
    <3>1. mailbox' = mailbox /\ cache' = cache
      BY <1>2, <2>2 DEF Evict
    <3>2. m \notin T
      BY <2>2 DEF RemovalBearer
    <3> QED
      BY <1>c, <1>s, <3>1, <3>2 DEF Has
  <2>3. CASE Cached(m.path)
    <3> DEFINE C == cache[m.path].children
               remove == [c \in C |-> Remove(ChildPath(m.path, c), m.notify)]
               M == {remove[c] : c \in C}
    <3>1. PICK q \in Request :
            /\ IsRemoval(q) /\ request[q].attached
            /\ IsUnder(request[q].path, m.path) /\ promise'[q] = "succeeded"
      BY <1>0, <1>2, <2>3, EvictSucceeds
    <3>2. q # r
      BY <3>1
    <3>3. CASE m.path = request[r].path
      <4>1. q \in Request \ {r} /\ IsUnder(request[q].path, request[r].path)
        BY <3>1, <3>2, <3>3
      <4>2. IsRemoval(q)'
        BY <1>0, <3>1 DEF IsRemoval
      <4>3. request'[q].attached /\ request'[q].path = request[q].path /\ request'[r].path = request[r].path
        BY <1>0, <3>1
      <4>4. Overtaken(r)'
        BY <3>1, <4>1, <4>2, <4>3 DEF Overtaken, IsRemoval, IsUnder
      <4> QED
        BY <4>4
    <3>4. CASE m.path # request[r].path
      <4>1. Cached(request[r].path)'
        BY <1>0, <1>2, <2>3, <3>4 DEF Evict, CacheWithout, Cached
      <4>2. m \notin T
        BY <3>4 DEF RemovalBearer
      <4>3. PICK removes \in ForEachChild(remove) : Send(removes)
        BY <1>2, <2>3 DEF Evict
      <4>4. C \in SUBSET Name /\ remove \in [C -> M]
        BY <1>0, <2>3 DEF Cached
      <4>5. removes \in Seq(M)
        BY <4>3, <4>4, ForEachChildType
      <4> QED
        BY <1>k, <1>s, <4>1, <4>2, <4>3, <4>5
    <3> QED
      BY <3>3, <3>4
  <2> QED
    BY <2>2, <2>3
<1>3. CASE StoreEntry
  <2> DEFINE update == [c \in handler.listed |-> Update(ChildPath(m.path, c), TRUE, m.notify)]
             M == {update[c] : c \in handler.listed}
  <2>1. PICK updates \in ForEachChild(update) : Send(IF m.recursive THEN updates ELSE << >>)
    BY <1>3 DEF StoreEntry
  <2>2. handler.listed \in SUBSET Name /\ update \in [handler.listed -> M]
    BY <1>0
  <2> HIDE DEF update, M
  <2>3. updates \in Seq(M) /\ << >> \in Seq(M)
    <3>1. updates \in Seq(M)
      BY <2>1, <2>2, ForEachChildType
    <3> QED
      BY <3>1
  <2>4. PICK ms \in {updates, << >>} : Send(ms)
    BY <2>1
  <2>5. m \notin T
    BY <1>0, <1>3 DEF StoreEntry, At, StageInv, RemovalBearer, RemovalType
  <2>6. Cached(request[r].path)'
    BY <1>0, <1>3 DEF StoreEntry, CacheWith, Cached
  <2> QED
    BY <1>k, <1>s, <2>3, <2>4, <2>5, <2>6
<1>4. CASE HandleRemovePath
  <2> DEFINE x == Remove(h.path, h.notify)
  <2>1. Received("ScakkaApiRemovePath") /\ Consume(<<x>>) /\ cache' = cache
    BY <1>4 DEF HandleRemovePath
  <2>2. h \in Message
    BY <1>0, <2>1, ReceivedType DEF TypeInv, TypeOK
  <2>3. x \in Message /\ x.type = "Remove" /\ x.path = h.path /\ x.notify = h.notify
    <3>1. h.path \in PathString /\ h.notify \in Notifyable
      BY <2>2 DEF Message
    <3> QED
      BY <3>1, MessageTypes DEF Remove, Msg
  <2> HIDE DEF x
  <2>4. h \in T => x \in T
    BY <2>3 DEF RemovalBearer, RemovalType
  <2>5. <<x>> \in Seq({x}) /\ (h \in T => ~NoneOf(<<x>>, T))
    BY <2>4, OneIsThere
  <2> QED
    BY <1>c, <1>s, <1>t, <2>1, <2>5
<1>5. CASE HandleRemove
  <2>1. Received("Remove") /\ Consume(<< >>) /\ cache' = cache /\ handler'.msg = h
    BY <1>5 DEF HandleRemove, Handling
  <2> QED
    BY <1>c, <1>e, <1>s, <1>t, <2>1
<1>6. CASE HandleWatchUnderPath \/ HandleUpdate \/ HandleAdd \/ HandleSetWatcher \/ HandleUnwatch
  <2>1. PICK type \in {"ScakkaApiWatchUnderPath", "Update", "Add", "SetWatcher", "Unwatch"} : Received(type)
    BY <1>6 DEF HandleWatchUnderPath, HandleUpdate, HandleAdd, HandleSetWatcher, HandleUnwatch
  <2>2. h \notin T
    BY <2>1 DEF Received, RemovalBearer, RemovalType
  <2>3. \E M : \E ms \in Seq(M) : Consume(ms)
    BY <1>6, <1>e DEF HandleWatchUnderPath, HandleUpdate, HandleAdd, HandleSetWatcher, HandleUnwatch
  <2>4. cache' = cache
    BY <1>6 DEF HandleWatchUnderPath, HandleUpdate, HandleAdd, HandleSetWatcher, HandleUnwatch
  <2> QED
    BY <1>c, <1>s, <1>t, <2>1, <2>2, <2>3, <2>4
<1>7. CASE WatchExists \/ WatchChildren \/ WatchData \/ RecordWatch \/ WatchMissing \/ ListChildren
  <2>1. cache' = cache
    BY <1>7 DEF WatchExists, WatchChildren, WatchData, RecordWatch, WatchMissing, ListChildren
  <2>2. m \in T => handler'.msg \in T
    <3>1. CASE ListChildren
      BY <1>0, <3>1 DEF ListChildren, At, StageInv, RemovalBearer, RemovalType
    <3>2. CASE WatchExists \/ WatchChildren \/ WatchData \/ RecordWatch \/ WatchMissing
      <4>1. m.type \in {"Add", "Remove", "SetWatcher"}
        BY <1>0, <3>2 DEF WatchExists, WatchChildren, WatchData, RecordWatch, WatchMissing, At,
           TypeInv, HandlerOK, WatchStages
      <4>2. m \in T => m.type = "Remove"
        BY <4>1 DEF RemovalBearer, RemovalType
      <4>3. Resume \/ \E stage : GoTo(stage)
        BY <3>2 DEF WatchExists, WatchChildren, WatchData, RecordWatch, WatchMissing
      <4>4. m.type = "Remove" => handler'.msg = m
        BY <1>0, <4>3 DEF Resume, AfterWatchers, Handling, GoTo
      <4> QED
        BY <4>2, <4>4
    <3> QED
      BY <1>7, <3>1, <3>2
  <2>3. CASE mailbox' = mailbox
    BY <1>c, <1>s, <2>1, <2>2, <2>3 DEF Has
  <2>4. CASE WatchMissing
    BY <1>c, <1>e, <1>k, <1>s, <2>1, <2>2, <2>4 DEF WatchMissing
  <2> QED
    BY <1>7, <2>3, <2>4 DEF WatchExists, WatchChildren, WatchData, RecordWatch, ListChildren
<1>8. CASE FinishUpdate \/ FailAdd
  <2>1. cache' = cache
    BY <1>8 DEF FinishUpdate, FailAdd
  <2>2. m \notin T
    BY <1>0, <1>8 DEF FinishUpdate, FailAdd, At, StageInv, RemovalBearer, RemovalType
  <2>3. \E M : \E ms \in Seq(M) : Send(ms)
    BY <1>8, <1>e DEF FinishUpdate, FailAdd
  <2> QED
    BY <1>c, <1>k, <1>s, <2>1, <2>2, <2>3
<1>9. ~HandleShutdown
  BY DEF HandleShutdown
<1> QED
  BY <1>2, <1>3, <1>4, <1>5, <1>6, <1>7, <1>8, <1>9 DEF ActorStep

(* The callers: a removal begins with an entry, or is answered at once. *)
LEMMA RemovalsBegin ==
  ASSUME ContractInv, [Next]_vars, NEW r \in Request, request[r] = NotMade, IsRemoval(r)'
  PROVE  \/ promise'[r] # "open" /\ request'[r].at = "returned"
         \/ request'[r].at = "checked" /\ request'[r].attached /\ Cached(request[r].path)'
<1>0. /\ request \in [Request -> Call \cup {NotMade}] /\ promise \in [Request -> PromiseState]
      /\ promise[r] = "open"
  BY DEF ContractInv, DataInv, PromiseInv, TypeInv, TypeOK, CallsTypeOK, NotMade
<1>1. ApiStep
  BY OnlyCallersCall DEF IsRemoval, vars, callVars
<1>2. PICK q \in Request :
        \/ \E path \in ApiPath : CheckAdd(q, path) \/ CheckRemove(q, path)
        \/ SendAdd(q) \/ SendRemove(q)
        \/ CallStop(q) \/ StopCompletes(q) \/ StopTimesOut(q)
  BY <1>1 DEF ApiStep
<1>3. q = r
  BY <1>0, <1>2 DEF CheckAdd, CheckRemove, SendAdd, SendRemove, CallStop, StopCompletes, StopTimesOut,
     Make, Return, IsRemoval
<1>4. PICK path \in ApiPath : CheckRemove(r, path)
  BY <1>0, <1>2, <1>3 DEF CheckAdd, SendAdd, SendRemove, CallStop, StopCompletes, StopTimesOut,
     Make, Return, IsPending, IsOpenStop, IsRemoval
<1>5. \/ Make(r, "removePathFromCache", path, "checked", TRUE) /\ Cached(path) /\ cache' = cache
      \/ Make(r, "removePathFromCache", path, "returned", FALSE) /\ Complete(r, "succeeded")
  BY <1>4 DEF CheckRemove, actorVars
<1>6. ASSUME NEW at, NEW attached, Make(r, "removePathFromCache", path, at, attached)
      PROVE  request'[r].at = at /\ request'[r].attached = attached /\ request'[r].path = path
  BY <1>0, <1>6 DEF Make
<1>7. Complete(r, "succeeded") => promise'[r] # "open"
  BY <1>0 DEF Complete
<1> QED
  BY <1>5, <1>6, <1>7 DEF Cached

LEMMA RemovalGoesOn ==
  ASSUME ContractInv, RemovalInv, [Next]_vars, NEW r \in Request
  PROVE  /\ IsRemoval(r)' /\ request'[r].at = "checked" => request'[r].attached
         /\ RemovalUnderWay(r)'
<1>0. TypeInv /\ mailbox \in Seq(Message) /\ (IsRemoval(r) /\ request[r].at = "checked" => request[r].attached)
  BY DEF ContractInv, DataInv, TypeInv, TypeOK, ActorTypeOK, RemovalInv
<1>1. CASE ~IsRemoval(r)'
  BY <1>1 DEF RemovalUnderWay
<1>2. CASE IsRemoval(r)' /\ request[r] = NotMade
  <2>1. \/ promise'[r] # "open" /\ request'[r].at = "returned"
        \/ request'[r].at = "checked" /\ request'[r].attached /\ Cached(request[r].path)'
    BY <1>2, RemovalsBegin
  <2> QED
    BY <2>1 DEF RemovalUnderWay
<1>3. CASE IsRemoval(r)' /\ request[r] # NotMade
  <2>1. \/ request'[r] = request[r]
        \/ /\ SendAdd(r) \/ SendRemove(r)
           /\ request[r].at = "checked"
           /\ request[r] \in Call /\ request'[r] = [request[r] EXCEPT !.at = "returned"]
    BY <1>0, <1>3, CallsGoOn
  <2>2. /\ IsRemoval(r) /\ request'[r].path = request[r].path
        /\ request'[r].attached = request[r].attached
        /\ request'[r].at = "checked" => request[r].at = "checked"
    BY <1>3, <2>1 DEF IsRemoval, Call
  <2>3. ASSUME promise'[r] = "open", alive' PROVE RemovalUnderWay(r)'
    <3>1. promise[r] = "open" /\ alive
      BY <2>3, AnswersStand, EndIsFinal
    <3>2. /\ request[r].attached
          /\ \/ Overtaken(r)
             \/ /\ Cached(request[r].path)
                /\ request[r].at = "checked" \/ Has(mailbox, handler.msg, RemovalBearer(r))
      BY <2>2, <3>1 DEF RemovalInv, RemovalUnderWay
    <3>3. CASE Overtaken(r)
      BY <1>3, <2>2, <3>2, <3>3, OvertakenStays DEF RemovalUnderWay
    <3>4. CASE /\ Cached(request[r].path)
               /\ request[r].at = "checked" \/ Has(mailbox, handler.msg, RemovalBearer(r))
      <4>1. CASE ActorStep
        <5>1. request' = request
          BY <4>1, ActorLeavesCalls
        <5>2. \/ Overtaken(r)'
              \/ /\ Cached(request[r].path)'
                 /\ request[r].at = "checked" \/ Has(mailbox', handler'.msg, RemovalBearer(r)')
          BY <2>2, <2>3, <3>4, <4>1, RemovalHandledOn
        <5> QED
          BY <3>2, <5>1, <5>2 DEF RemovalUnderWay
      <4>2. CASE ~ActorStep
        <5>1. RemovalBearer(r)' = RemovalBearer(r) /\ UNCHANGED <<handler, cache>>
          BY <2>2, <4>2, OthersLeaveHandler DEF RemovalBearer
        <5>2. Cached(request[r].path)'
          BY <2>2, <3>4, <5>1 DEF Cached
        <5>3. Has(mailbox, handler.msg, RemovalBearer(r)) => Has(mailbox', handler'.msg, RemovalBearer(r)')
          BY <1>0, <3>1, <4>2, <5>1, OthersOnlySend DEF Has
        <5>4. CASE request'[r] = request[r]
          BY <3>2, <3>4, <5>2, <5>3, <5>4 DEF RemovalUnderWay
        <5>5. CASE /\ SendAdd(r) \/ SendRemove(r)
                   /\ request[r] \in Call
          <6> DEFINE x == Msg("ScakkaApiRemovePath", request[r].path, r)
          <6>1. Send(<<x>>)
            BY <2>2, <5>5 DEF SendAdd, SendRemove, IsPending, IsRemoval
          <6>2. x \in RemovalBearer(r)
            <7>1. request[r].path \in PathString /\ r \in Notifyable
              BY <5>5 DEF Call, PathString, Notifyable
            <7>2. x \in Message
              BY <7>1, MessageTypes DEF MessageType
            <7> QED
              BY <7>2 DEF Msg, RemovalBearer, RemovalType
          <6> HIDE DEF x
          <6>3. ~NoneOf(mailbox', RemovalBearer(r))
            BY <1>0, <3>1, <6>1, <6>2, OneIsThere, StaysWhenSent
          <6> QED
            BY <2>2, <3>2, <5>1, <5>2, <6>3 DEF RemovalUnderWay, Has
        <5> QED
          BY <2>1, <5>4, <5>5
      <4> QED
        BY <4>1, <4>2
    <3> QED
      BY <3>2, <3>3, <3>4
  <2> QED
    BY <1>0, <2>2, <2>3 DEF RemovalUnderWay
<1> QED
  BY <1>1, <1>2, <1>3 DEF IsRemoval

AnswerInv == ContractInv /\ StandingInv /\ RemovalInv

LEMMA AnswerInvInit == Init => AnswerInv
<1> SUFFICES ASSUME Init PROVE AnswerInv
  OBVIOUS
<1>1. /\ mailbox = << >> /\ handler = Idle /\ events = << >> /\ watcher = NoEvent
      /\ missed = Nothing /\ childWatch = {} /\ request = [r \in Request |-> NotMade]
  BY DEF Init, ActorInit, ZkInit, CallsInit
<1>2. handler.msg = NoMessage /\ handler.stage = "idle" /\ NoEvent.event.type = "None"
  BY <1>1 DEF Idle, Handling, NoEvent
<1>3. NoMessage \in Standing /\ NoMessage \in Removing
  BY RootMessageTypes DEF NoMessage, Msg, Standing, Removing, RemovalType
<1>4. StandingInv
  BY <1>1, <1>2, <1>3 DEF StandingInv
<1>5. RemovalInv
  <2>1. \A r \in Request : ~IsRemoval(r)
    BY <1>1 DEF IsRemoval
  <2> QED
    BY <1>1, <1>2, <1>3, <2>1 DEF RemovalInv, RemovalUnderWay
<1> QED
  BY <1>4, <1>5, ContractInvInit DEF AnswerInv

LEMMA AnswerInvStep == "delete" \notin WriterOps /\ AnswerInv /\ [Next]_vars => AnswerInv'
<1> SUFFICES ASSUME "delete" \notin WriterOps, AnswerInv, [Next]_vars PROVE AnswerInv'
  OBVIOUS
<1>1. ContractInv /\ StandingInv /\ RemovalInv /\ TypeInv /\ StageInv
  BY DEF AnswerInv, ContractInv, DataInv
<1>2. ContractInv' /\ StandingInv'
  BY <1>1, ContractInvStep, StandingInvStep
<1>3. RemovalInv'
  <2>1. mailbox' \in Seq(Removing') /\ handler'.msg \in Removing'
    BY <1>1, RemovingStep
  <2>2. \A r \in Request : /\ IsRemoval(r)' /\ request'[r].at = "checked" => request'[r].attached
                           /\ RemovalUnderWay(r)'
    BY <1>1, RemovalGoesOn
  <2> QED
    BY <2>1, <2>2 DEF RemovalInv
<1> QED
  BY <1>2, <1>3 DEF AnswerInv

(***************************************************************************)
(* As long as no other client deletes a node, a removePathFromCache is     *)
(* left unanswered at rest only if another removal, of its path or of one  *)
(* above it, has succeeded: of the callers that race for an entry, the one *)
(* whose Remove evicts it is told (CacheUpdaterActor Remove, and the call  *)
(* in ScakkaZooCacheImpl that finds the entry first).                      *)
(***************************************************************************)
THEOREM RemovalsAnswered == "delete" \notin WriterOps /\ Spec => []RemovalsAreAnswered
<1> SUFFICES ASSUME "delete" \notin WriterOps PROVE Spec => []RemovalsAreAnswered
  OBVIOUS
<1>1. AnswerInv /\ [Next]_vars => AnswerInv'
  BY AnswerInvStep
<1>2. AnswerInv => RemovalsAreAnswered
  <2> SUFFICES ASSUME AnswerInv, AtRest, alive, NEW r \in Request, IsRemoval(r), promise[r] = "open"
               PROVE  Overtaken(r)
    BY DEF RemovalsAreAnswered
  <2>1. request[r].at # "checked" /\ ~Has(mailbox, handler.msg, RemovalBearer(r))
    BY DEF AtRest, Has, NoneOf, RemovalBearer, RemovalType, Idle, Handling, NoMessage, Msg
  <2> QED
    BY <2>1 DEF AnswerInv, RemovalInv, RemovalUnderWay
<1> QED
  BY <1>1, <1>2, AnswerInvInit, PTL DEF Spec
=============================================================================
