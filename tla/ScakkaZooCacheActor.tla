------------------------ MODULE ScakkaZooCacheActor -------------------------
(***************************************************************************)
(* The Akka API: an actor in front of the cache.  It answers a read at     *)
(* once.  For any other message it makes the call, and goes on to the next *)
(* message; when the promise of the call is completed, a callback on a     *)
(* thread of the dispatcher sends the response.                            *)
(***************************************************************************)
EXTENDS ScakkaZooCache

CONSTANTS
  Client,     \* the actors that use the API
  MaxAsks,    \* bound: the number of messages they send
  MayAsk      \* what each of the messages can be, and from whom

Ask    == 1 .. MaxAsks
ReadOp == {"GetChildren", "GetData", "Find"}
AskOp  == ReadOp \cup {"AddPathToCache", "RemovePathFromCache", "Stop"}

ASSUME AsksAssumption == MaxAsks \in Nat /\ MayAsk \in [Ask -> SUBSET (Client \X AskOp)]

VARIABLES
  asked,      \* the messages of the clients; the correlation is the number
  taken,      \* how many of them the facade has taken from its mailbox
  sender,     \* the sender of the message it took last, an actor's `sender'
  calling,    \* the call that it is in the middle of, or NoOne
  callbacks,  \* what is to be sent when a call completes
  replies     \* the responses, in the order in which they were sent

akkaVars == <<asked, taken, sender, calling, callbacks, replies>>

(* The response that is named after the message, or a failure. *)
ReplyKind  == AskOp \cup {"CacheFailure"}
NoCallback == [to |-> "nobody"]
Callback   == [to : Client, correlation : Ask, op : AskOp]

AkkaTypeOK ==
  /\ asked \in Seq([from : Client, op : AskOp, path : Seq(Name)])
  /\ taken \in 0 .. Len(asked)
  /\ sender \in Client \cup {"nobody"}
  /\ calling \in {NoOne} \cup Request
  /\ callbacks \in [Request -> {NoCallback} \cup Callback]
  /\ \A i \in DOMAIN replies :
       /\ replies[i].to \in Client /\ replies[i].correlation \in Ask
       /\ replies[i].kind \in ReplyKind
       /\ DOMAIN replies[i].data \subseteq PathString

AkkaInit ==
  /\ asked = << >> /\ taken = 0
  /\ sender = "nobody" /\ calling = NoOne
  /\ callbacks = [r \in Request |-> NoCallback]
  /\ replies = << >>

-----------------------------------------------------------------------------
Tell(client, op, path) ==
  /\ Len(asked) < MaxAsks
  /\ <<client, op>> \in MayAsk[Len(asked) + 1]
  /\ asked' = Append(asked, [from |-> client, op |-> op, path |-> path])
  /\ UNCHANGED <<taken, sender, calling, callbacks, replies, vars>>

Correlation == taken + 1
Asked    == asked[Correlation]

(* The facade is free and takes its next message, which is of this kind. *)
Takes(op) ==
  /\ calling = NoOne
  /\ taken < Len(asked) /\ Asked.op = op
  /\ taken' = Correlation
  /\ sender' = Asked.from

(* data: the data of the paths that the response tells of *)
Reply(to, correlation, kind, data) ==
  replies' = Append(replies, [to |-> to, correlation |-> correlation, kind |-> kind, data |-> data])

(* A read of a path that is not cached throws NotCachedException. *)
AnswerRead(op, data) ==
  /\ Takes(op)
  /\ \/ /\ Cached(Asked.path)
        /\ Reply(Asked.from, Correlation, op, data)
     \/ /\ ~Cached(Asked.path)
        /\ Reply(Asked.from, Correlation, "CacheFailure", << >>)
  /\ UNCHANGED <<asked, calling, callbacks, vars>>

HandleGetChildren == AnswerRead("GetChildren", << >>)

HandleGetData == AnswerRead("GetData", [p \in {Asked.path} |-> cache[p].data])

(* find: the entries whose path matches.  The regular expression is one     *)
(* that matches the paths of a subtree, or one that does not compile.       *)
Found(path) == {p \in DOMAIN cache : IsUnder(path, p)}

HandleFind ==
  /\ Takes("Find")
  /\ \/ Reply(Asked.from, Correlation, "Find", [p \in Found(Asked.path) |-> cache[p].data])
     \/ Reply(Asked.from, Correlation, "CacheFailure", << >>)
  /\ UNCHANGED <<asked, calling, callbacks, vars>>

(* Mutant: the sender is not kept. *)
KeepNobody(r) ==
  callbacks' = [callbacks EXCEPT ![r] =
    [to |-> "nobody", correlation |-> Correlation, op |-> Asked.op]]

(* val replyTo = sender, which the callback of call r will use *)
KeepSender(r) ==
  callbacks' = [callbacks EXCEPT ![r] =
    [to |-> Asked.from, correlation |-> Correlation, op |-> Asked.op]]

HandleAddPath(r) ==
  /\ Takes("AddPathToCache")
  /\ CheckAdd(r, Asked.path)
  /\ calling' = r
  /\ KeepSender(r)
  /\ UNCHANGED <<asked, replies>>

HandleRemovePathFromCache(r) ==
  /\ Takes("RemovePathFromCache")
  /\ CheckRemove(r, Asked.path)
  /\ calling' = IF Cached(Asked.path) THEN r ELSE NoOne
  /\ KeepSender(r)
  /\ UNCHANGED <<asked, replies>>

HandleStop(r) ==
  /\ Takes("Stop")
  /\ CallStop(r)
  /\ KeepSender(r)
  /\ UNCHANGED <<asked, calling, replies>>

(* Mutant: the facade waits for the future instead of leaving a callback. *)
FinishCallAwaiting ==
  /\ calling # NoOne
  /\ \/ SendAdd(calling) \/ SendRemove(calling)
     \/ promise[calling] # "open" /\ UNCHANGED vars
  /\ calling' = IF request[calling].at = "returned" THEN NoOne ELSE calling
  /\ UNCHANGED <<asked, taken, sender, callbacks, replies>>

(* The call sends its message to the updater and returns its future. *)
FinishCall ==
  /\ calling # NoOne
  /\ SendAdd(calling) \/ SendRemove(calling)
  /\ calling' = NoOne
  /\ UNCHANGED <<asked, taken, sender, callbacks, replies>>

IsAnswerable(r) == callbacks[r] # NoCallback /\ calling # r /\ promise[r] # "open"

AnswerTo(r, client) ==
  /\ IsAnswerable(r)
  /\ Reply(client, callbacks[r].correlation,
           IF promise[r] = "succeeded" THEN callbacks[r].op ELSE "CacheFailure", << >>)
  /\ callbacks' = [callbacks EXCEPT ![r] = NoCallback]
  /\ UNCHANGED <<asked, taken, sender, calling, vars>>

(* Mutant: the callback asks the actor for its sender. *)
RunCallbackWithSender(r) == AnswerTo(r, sender)

(* future.andThen { ... replyTo ! ... } *)
RunCallback(r) == AnswerTo(r, callbacks[r].to)

FacadeStep ==
  \/ HandleGetChildren \/ HandleGetData \/ HandleFind
  \/ \E r \in Request : HandleAddPath(r) \/ HandleRemovePathFromCache(r) \/ HandleStop(r)
  \/ FinishCall

ClientStep == \E client \in Client, op \in AskOp, path \in ApiPath : Tell(client, op, path)
=============================================================================
