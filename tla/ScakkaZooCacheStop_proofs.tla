----------------------- MODULE ScakkaZooCacheStop_proofs ---------------------
(***************************************************************************)
(* A stop that has succeeded leaves nothing, for ever.                     *)
(*                                                                         *)
(* The end of the actor, and not the success of stop, is what empties the  *)
(* cache: a stopped actor has no message, no handler under way and empty   *)
(* sets, and takes no step any more.  Whatever the watcher and the callers *)
(* still send is lost.  Only the end of the actor makes a stop succeed:    *)
(* no notifyable stands for a call of stop.                                *)
(***************************************************************************)
EXTENDS ScakkaZooCachePromises_proofs

Ended ==
  /\ mailbox = << >> /\ handler = Idle
  /\ DOMAIN cache = {} /\ watchedNodes = {} /\ addedPaths = {}

StopSucceeded(r) ==
  request[r] # NotMade /\ request[r].op = "stop" /\ promise[r] = "succeeded"

StopInv ==
  /\ ~alive => Ended
  /\ \A r \in Request : StopSucceeded(r) => ~alive

-----------------------------------------------------------------------------
(* No step revives a stopped actor. *)
LEMMA EndIsFinal == ~alive /\ [Next]_vars => ~alive'
BY DEF Next, vars, ActorStep, WatcherStep, ApiStep, WriterStep, SessionStep, LoseConnection, FindConnection,
   actorVars, HandleWatchUnderPath, HandleRemovePath, HandleShutdown, HandleUpdate, FinishUpdate,
   HandleAdd, ListChildren, StoreEntry, FailAdd, HandleRemove, Evict, HandleSetWatcher,
   HandleUnwatch, WatchExists, WatchChildren, WatchData, RecordWatch, WatchMissing,
   ProcessEvent, SendUnwatch, SendFollowUp,
   CheckAdd, CheckRemove, SendAdd, SendRemove, CallStop, StopCompletes, StopTimesOut

LEMMA StopInvInit == Init => StopInv
<1> SUFFICES ASSUME Init PROVE StopInv
  OBVIOUS
<1>1. alive /\ \A r \in Request : request[r] = NotMade
  <2>1. alive = TRUE
    BY DEF Init, ActorInit
  <2>2. request = [r \in Request |-> NotMade]
    BY DEF Init, CallsInit
  <2> QED
    BY <2>1, <2>2
<1> QED
  BY <1>1 DEF StopInv, StopSucceeded

(* What the actor tells a notifyable never answers a call of stop. *)
LEMMA NotifyLeavesStops ==
  ASSUME TypeInv, PromiseInv, NEW result \in {"succeeded", "failed"},
         \/ Notify(handler.msg.notify, handler.msg.path, result)
         \/ promise' = promise
  PROVE  \A r \in Request : request[r] # NotMade /\ request[r].op = "stop"
                            => promise'[r] = promise[r]
<1> DEFINE n == handler.msg.notify
<1>1. promise \in [Request -> PromiseState] /\ n \in Notifyable
  BY DEF TypeInv, TypeOK, CallsTypeOK, ActorTypeOK, Message
<1>2. SUFFICES ASSUME NEW r \in Request, request[r] # NotMade, request[r].op = "stop"
               PROVE  promise'[r] = promise[r]
  OBVIOUS
<1>3. request[r].attached = FALSE
  BY <1>2 DEF PromiseInv, SentWithoutPromise
<1>4. CASE Notifies(n, handler.msg.path) /\ request[n].attached /\ Complete(n, result)
  BY <1>1, <1>3, <1>4 DEF Complete
<1>5. CASE promise' = promise
  BY <1>5
<1> QED
  BY <1>4, <1>5 DEF Notify

(* A stopped actor handles nothing. *)
LEMMA OnlyAliveActs == StopInv /\ ActorStep => alive
<1> SUFFICES ASSUME StopInv, ActorStep, ~alive PROVE FALSE
  OBVIOUS
<1>1. handler.stage = "idle"
  BY DEF StopInv, Ended, Idle, Handling
<1>2. \A type : ~Received(type)
  BY DEF Received
<1>3. ~(HandleWatchUnderPath \/ HandleRemovePath \/ HandleShutdown \/ HandleUpdate \/ HandleAdd
        \/ HandleRemove \/ HandleSetWatcher \/ HandleUnwatch)
  BY <1>2 DEF HandleWatchUnderPath, HandleRemovePath, HandleShutdown, HandleUpdate, HandleAdd,
     HandleRemove, HandleSetWatcher, HandleUnwatch
<1>4. ~(FinishUpdate \/ ListChildren \/ StoreEntry \/ FailAdd \/ Evict)
  BY <1>1 DEF FinishUpdate, ListChildren, StoreEntry, FailAdd, Evict, At
<1>5. ~(WatchExists \/ WatchChildren \/ WatchData \/ RecordWatch \/ WatchMissing)
  BY <1>1 DEF WatchExists, WatchChildren, WatchData, RecordWatch, WatchMissing, At
<1> QED
  BY <1>3, <1>4, <1>5 DEF ActorStep

LEMMA StopActorStep == TypeInv /\ PromiseInv /\ StopInv /\ ActorStep => StopInv'
<1> SUFFICES ASSUME TypeInv, PromiseInv, StopInv, ActorStep PROVE StopInv'
  OBVIOUS
<1>1. alive
  BY OnlyAliveActs
<1>2. request' = request
  BY DEF ActorStep, HandleWatchUnderPath, HandleRemovePath, HandleShutdown, HandleUpdate,
     FinishUpdate, HandleAdd, ListChildren, StoreEntry, FailAdd, HandleRemove, Evict,
     HandleSetWatcher, HandleUnwatch, WatchExists, WatchChildren, WatchData, RecordWatch,
     WatchMissing, callVars
<1>3. PICK result \in {"succeeded", "failed"} :
        \/ Notify(handler.msg.notify, handler.msg.path, result)
        \/ promise' = promise
  <2>1. CASE StoreEntry \/ Evict
    BY <2>1 DEF StoreEntry, Evict, SucceedNotifyable
  <2>2. CASE FailAdd
    BY <2>2 DEF FailAdd
  <2>3. CASE ~(StoreEntry \/ Evict \/ FailAdd)
    <3>1. promise' = promise
      BY <2>3 DEF ActorStep, HandleWatchUnderPath, HandleRemovePath, HandleShutdown,
         HandleUpdate, FinishUpdate, HandleAdd, ListChildren, HandleRemove,
         HandleSetWatcher, HandleUnwatch, WatchExists, WatchChildren, WatchData, RecordWatch,
         WatchMissing, callVars
    <3> QED
      BY <3>1
  <2> QED
    BY <2>1, <2>2, <2>3
<1>4. \A r \in Request : ~StopSucceeded(r)'
  BY <1>1, <1>2, <1>3, NotifyLeavesStops DEF StopInv, StopSucceeded
<1>5. CASE HandleShutdown
  <2>1. DOMAIN cache' = {}
    BY <1>5 DEF HandleShutdown
  <2>2. Ended'
    BY <1>5, <2>1 DEF HandleShutdown, Received, Ended
  <2> QED
    BY <1>4, <2>2 DEF StopInv
<1>6. CASE ~HandleShutdown
  <2>1. alive' = alive
    BY <1>6 DEF ActorStep, HandleWatchUnderPath, HandleRemovePath, HandleUpdate,
     FinishUpdate, HandleAdd, ListChildren, StoreEntry, FailAdd, HandleRemove, Evict,
     HandleSetWatcher, HandleUnwatch, WatchExists, WatchChildren, WatchData, RecordWatch,
     WatchMissing
  <2> QED
    BY <1>1, <1>4, <2>1 DEF StopInv
<1> QED
  BY <1>5, <1>6

(* The other threads send into the void, and leave the rest alone. *)
LEMMA StopOtherStep ==
  ASSUME TypeInv, PromiseInv, StopInv,
         WatcherStep \/ ApiStep \/ WriterStep \/ SessionStep \/ UNCHANGED vars
  PROVE  StopInv'
<1>1. UNCHANGED <<handler, cache, watchedNodes, addedPaths, alive>>
  <2>1. CASE WatcherStep
    BY <2>1 DEF WatcherStep, ProcessEvent, SendUnwatch, SendFollowUp
  <2>2. CASE ApiStep
    BY <2>2 DEF ApiStep, CheckAdd, CheckRemove, SendAdd, SendRemove, CallStop, StopCompletes,
       StopTimesOut, actorVars
  <2>3. CASE WriterStep \/ SessionStep \/ UNCHANGED vars
    BY <2>3 DEF WriterStep, SessionStep, LoseConnection, FindConnection, vars, actorVars
  <2> QED
    BY <2>1, <2>2, <2>3
<1>2. mailbox' = mailbox \/ \E ms : Send(ms)
  <2>1. CASE WatcherStep
    BY <2>1 DEF WatcherStep, ProcessEvent, SendUnwatch, SendFollowUp
  <2>2. CASE ApiStep
    BY <2>2 DEF ApiStep, CheckAdd, CheckRemove, SendAdd, SendRemove, CallStop, StopCompletes,
       StopTimesOut, actorVars
  <2>3. CASE WriterStep \/ SessionStep \/ UNCHANGED vars
    BY <2>3 DEF WriterStep, SessionStep, LoseConnection, FindConnection, vars, actorVars
  <2> QED
    BY <2>1, <2>2, <2>3
<1>3. ~alive' => Ended'
  <2>1. ~alive => mailbox' = mailbox
    BY <1>2 DEF Send
  <2> QED
    BY <1>1, <2>1 DEF StopInv, Ended
<1>4. ASSUME NEW r \in Request, StopSucceeded(r)' PROVE ~alive
  <2>1. CASE UNCHANGED <<request, promise>>
    BY <1>4, <2>1 DEF StopInv, StopSucceeded
  <2>2. CASE ApiStep
    <3>1. PICK q \in Request :
            \/ \E path \in ApiPath : CheckAdd(q, path) \/ CheckRemove(q, path)
            \/ SendAdd(q) \/ SendRemove(q)
            \/ CallStop(q) \/ StopCompletes(q) \/ StopTimesOut(q)
      BY <2>2 DEF ApiStep
    <3>2. /\ request \in [Request -> Call \cup {NotMade}]
          /\ promise \in [Request -> PromiseState]
      BY DEF TypeInv, TypeOK, CallsTypeOK
    <3>3. CASE q # r
      <4>1. request'[r] = request[r] /\ promise'[r] = promise[r]
        BY <3>1, <3>2, <3>3 DEF CheckAdd, CheckRemove, SendAdd, SendRemove, CallStop,
           StopCompletes, StopTimesOut, Make, Return, Complete
      <4> QED
        BY <1>4, <4>1 DEF StopInv, StopSucceeded
    <3>4. CASE q = r
      <4>1. CASE StopCompletes(r)
        BY <4>1 DEF StopCompletes
      <4>2. CASE StopTimesOut(r)
        <5>1. promise'[r] # "succeeded"
          BY <3>2, <4>2 DEF StopTimesOut, IsOpenStop, Complete
        <5> QED
          BY <1>4, <5>1 DEF StopSucceeded
      <4>3. CASE CallStop(r)
        <5>1. request[r] = NotMade /\ promise' = promise
          BY <4>3 DEF CallStop, Begin
        <5>2. promise[r] = "open"
          BY <5>1 DEF PromiseInv, NotMade
        <5> QED
          BY <1>4, <5>1, <5>2 DEF StopSucceeded
      <4>4. CASE \E path \in ApiPath : CheckAdd(r, path) \/ CheckRemove(r, path)
        <5>1. request'[r].op \in {"addPathToCache", "removePathFromCache"}
          BY <3>2, <4>4 DEF CheckAdd, CheckRemove, Make
        <5> QED
          BY <1>4, <5>1 DEF StopSucceeded
      <4>5. CASE SendAdd(r) \/ SendRemove(r)
        <5>1. request[r] \in Call /\ request[r].op # "stop"
          BY <3>2, <4>5 DEF SendAdd, SendRemove, IsPending
        <5>2. request'[r].op = request[r].op
          BY <3>2, <4>5, <5>1 DEF SendAdd, SendRemove, Return, Call
        <5> QED
          BY <1>4, <5>1, <5>2 DEF StopSucceeded
      <4> QED
        BY <3>1, <3>4, <4>1, <4>2, <4>3, <4>4, <4>5
    <3> QED
      BY <3>3, <3>4
  <2> QED
    BY <2>1, <2>2 DEF WatcherStep, ProcessEvent, SendUnwatch, SendFollowUp, WriterStep, SessionStep,
         LoseConnection, FindConnection, vars, callVars
<1> QED
  BY <1>1, <1>3, <1>4 DEF StopInv

LEMMA StopInvStep == TypeInv /\ PromiseInv /\ StopInv /\ [Next]_vars => StopInv'
BY StopActorStep, StopOtherStep DEF Next

(***************************************************************************)
(* Once stop() has told its caller that it succeeded, the cache is empty   *)
(* and stays so, whatever calls, events and messages were under way at the *)
(* shutdown (CacheUpdaterActor, ScakkaApiShutdown).                        *)
(***************************************************************************)
THEOREM StoppedIsEmpty == Spec => []StoppedMeansEmpty
<1>1. Init => TypeInv /\ PromiseInv /\ StopInv
  BY TypeInvInit, PromiseInvInit, StopInvInit
<1>2. (TypeInv /\ PromiseInv /\ StopInv) /\ [Next]_vars => (TypeInv /\ PromiseInv /\ StopInv)'
  BY TypeInvStep, PromiseInvStep, StopInvStep
<1>3. StopInv => StoppedMeansEmpty
  BY DEF StopInv, StopSucceeded, Ended, StoppedMeansEmpty
<1> QED
  BY <1>1, <1>2, <1>3, PTL DEF Spec
=============================================================================
