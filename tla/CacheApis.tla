----------------------------- MODULE CacheApis ------------------------------
(***************************************************************************)
(* A cache that Akka clients use through the facade actor and Java threads *)
(* through the Java API.  Both facades take any ScakkaZooCache.            *)
(***************************************************************************)
EXTENDS ScakkaZooCacheActor, ScakkaZooCacheJavaImpl

apiVars == <<vars, akkaVars, futures>>

(* The promises of stop() are completed by gracefulStop. *)
StopStep == \E r \in Request : StopCompletes(r) \/ StopTimesOut(r)

CallbackStep == \E r \in Request : RunCallback(r)

CacheStep == ActorStep \/ WatcherStep \/ StopStep \/ WriterStep \/ SessionStep

ApisInit == Init /\ AkkaInit /\ JavaInit

ApisNext ==
  \/ CacheStep /\ UNCHANGED <<akkaVars, futures>>
  \/ (FacadeStep \/ CallbackStep \/ ClientStep) /\ UNCHANGED futures
  \/ JavaStep /\ UNCHANGED akkaVars

(***************************************************************************)
(* The facade and the callbacks are scheduled.  Nothing is assumed of the  *)
(* updater: it may hang in a call of ZooKeeper for ever.                   *)
(***************************************************************************)
ApisFairness ==
  /\ WF_apiVars(FacadeStep /\ UNCHANGED futures)
  /\ WF_apiVars(CallbackStep /\ UNCHANGED futures)

ApisSpec == ApisInit /\ [][ApisNext]_apiVars /\ ApisFairness

-----------------------------------------------------------------------------
ApisTypeOK == TypeOK /\ AkkaTypeOK /\ JavaTypeOK

(***************************************************************************)
(* A response goes to the sender of its request, with its correlation, at  *)
(* most once, and answers what was asked; although callbacks run while the *)
(* facade handles messages of other senders.                               *)
(***************************************************************************)
AnswersFindTheirSender ==
  /\ \A i \in DOMAIN replies :
       LET question == asked[replies[i].correlation]
       IN  replies[i].to = question.from /\ replies[i].kind \in {question.op, "CacheFailure"}
  /\ \A i, j \in DOMAIN replies : replies[i].correlation = replies[j].correlation => i = j

(***************************************************************************)
(* What the clients read of a path never goes back: data older than what   *)
(* an earlier response told is never told again, also when the path was    *)
(* evicted and cached again in between.                                    *)
(***************************************************************************)
ReadsNeverGoBack ==
  \A i, j \in DOMAIN replies : i < j =>
    \A p \in DOMAIN replies[i].data \cap DOMAIN replies[j].data :
      replies[i].data[p] <= replies[j].data[p]

(***************************************************************************)
(* After a StopResponse no response tells of any path.                     *)
(***************************************************************************)
StopEndsReads ==
  \A i, j \in DOMAIN replies :
    i < j /\ replies[i].kind = "Stop" => DOMAIN replies[j].data = {}

(***************************************************************************)
(* The reads are answered, also behind calls that the updater never        *)
(* answers: again and again no read is left that waits for its response.   *)
(***************************************************************************)
IsAnswered(n) == \E i \in DOMAIN replies : replies[i].correlation = n
ReadsAreAnswered ==
  []<>(\A n \in DOMAIN asked : asked[n].op \in ReadOp => IsAnswered(n))

(***************************************************************************)
(* At rest every message of a client has its response.                     *)
(***************************************************************************)
FacadeQuiet ==
  /\ Quiet /\ taken = Len(asked) /\ calling = NoOne
  /\ \A r \in Request : ~IsAnswerable(r)
EveryMessageIsAnswered == FacadeQuiet => \A n \in DOMAIN asked : IsAnswered(n)
=============================================================================
