-------------------------- MODULE CacheApis_proofs --------------------------
(***************************************************************************)
(* What the clients of the Akka API are told: at most one response to each *)
(* message, which finds its sender; data that never goes back, whichever   *)
(* responses tell it; and nothing any more once a stop has succeeded.      *)
(*                                                                         *)
(* Every step of the two facades is a step of the cache or leaves it       *)
(* alone, so the invariants of the cache hold of it here as well.          *)
(***************************************************************************)
EXTENDS CacheApis, ScakkaZooCacheData_proofs

CacheInv == DataInv /\ PromiseInv /\ StopInv

Question == [from : Client, op : AskOp, path : ApiPath]
Told     == UNION {[paths -> Nat] : paths \in SUBSET PathString}
Response == [to : Client, correlation : Ask, kind : ReplyKind, data : Told]

AskInv ==
  /\ asked \in Seq(Question) /\ Len(asked) <= MaxAsks
  /\ taken \in 0 .. Len(asked)
  /\ sender \in Client \cup {"nobody"}
  /\ calling \in {NoOne} \cup Request
  /\ callbacks \in [Request -> {NoCallback} \cup Callback]
  /\ replies \in Seq(Response)

(* A response, or a callback that is to send one, is for a message that    *)
(* the facade has taken, and for no other response's or callback's.        *)
IsFor(to, correlation, kind) ==
  /\ correlation \in 1 .. taken
  /\ to = asked[correlation].from
  /\ kind \in {asked[correlation].op, "CacheFailure"}

Left(r) == callbacks[r] # NoCallback

SenderInv ==
  /\ \A i \in DOMAIN replies : IsFor(replies[i].to, replies[i].correlation, replies[i].kind)
  /\ \A r \in Request : Left(r) => IsFor(callbacks[r].to, callbacks[r].correlation, callbacks[r].op)
  /\ \A i, j \in DOMAIN replies : replies[i].correlation = replies[j].correlation => i = j
  /\ \A r, q \in Request :
       Left(r) /\ Left(q) /\ callbacks[r].correlation = callbacks[q].correlation => r = q
  /\ \A i \in DOMAIN replies, r \in Request :
       Left(r) => replies[i].correlation # callbacks[r].correlation

(* What was told, the cache has seen. *)
TellsSeen(response) == \A p \in DOMAIN response.data : Seen(p, response.data[p])

ToldInv ==
  /\ \A i \in DOMAIN replies : TellsSeen(replies[i])
  /\ ReadsNeverGoBack

(* The callback of a Stop is that of a stop, which succeeds at the end. *)
EndInv ==
  /\ \A r \in Request : Left(r) /\ callbacks[r].op = "Stop" =>
       request[r] # NotMade /\ request[r].op = "stop"
  /\ \A i \in DOMAIN replies : replies[i].kind = "Stop" => ~alive
  /\ StopEndsReads

ApisInv == CacheInv /\ AskInv /\ SenderInv /\ ToldInv /\ EndInv

-----------------------------------------------------------------------------
(* What a step does to the clients' side *)

TakesNext == /\ taken < Len(asked) /\ taken' = Correlation
             /\ sender' = Asked.from
             /\ UNCHANGED asked

ClientAsks ==
  /\ Len(asked) < MaxAsks
  /\ \E question \in Question : asked' = Append(asked, question)
  /\ UNCHANGED <<taken, sender, calling, callbacks, replies, vars>>

FacadeReads ==
  /\ TakesNext
  /\ Asked.op \in ReadOp
  /\ \E kind \in {Asked.op, "CacheFailure"}, data \in Told :
       /\ \A p \in DOMAIN data : Cached(p) /\ data[p] = cache[p].data
       /\ Reply(Asked.from, Correlation, kind, data)
  /\ UNCHANGED <<calling, callbacks, vars>>

FacadeCalls ==
  /\ TakesNext
  /\ Asked.op \in AskOp \ ReadOp
  /\ \E r \in Request :
       /\ KeepSender(r)
       /\ calling' \in {calling, r, NoOne}
       /\ Asked.op = "Stop" => request'[r] # NotMade /\ request'[r].op = "stop"
  /\ [Next]_vars
  /\ UNCHANGED replies

FacadeRests ==
  /\ calling' \in {calling, NoOne}
  /\ [Next]_vars
  /\ UNCHANGED <<asked, taken, sender, callbacks, replies>>

CallbackRuns == \E r \in Request : RunCallback(r)

(* A response tells of entries of the cache, or of nothing. *)
LEMMA EntriesAreTold ==
  ASSUME TypeInv, NEW paths, \A p \in paths : Cached(p)
  PROVE  [p \in paths |-> cache[p].data] \in Told
<1>1. paths \in SUBSET PathString /\ \A p \in paths : cache[p].data \in Nat
  BY DEF TypeInv, TypeOK, ActorTypeOK, Cached, Entry
<1> QED
  BY <1>1 DEF Told

LEMMA NothingTold == << >> \in Told /\ DOMAIN << >> = {}
<1>1. << >> \in [{} -> Nat]
  OBVIOUS
<1> QED
  BY <1>1 DEF Told

LEMMA NextAsked ==
  ASSUME AskInv, taken < Len(asked)
  PROVE  /\ Asked \in Question /\ Correlation \in Ask
         /\ Asked.from \in Client /\ Asked.op \in AskOp /\ Asked.path \in ApiPath
<1>1. Correlation \in 1 .. Len(asked) /\ Correlation \in Ask
  BY AsksAssumption DEF AskInv, Correlation, Ask
<1>2. Asked \in Question
  BY <1>1 DEF AskInv, Asked
<1> QED
  BY <1>1, <1>2 DEF Question

LEMMA ReadIsRead ==
  ASSUME TypeInv, AskInv, NEW op \in ReadOp, NEW data, AnswerRead(op, data),
         Cached(Asked.path) =>
           data \in Told /\ \A p \in DOMAIN data : Cached(p) /\ data[p] = cache[p].data
  PROVE  FacadeReads
<1>1. TakesNext /\ Asked.op = op
  BY DEF AnswerRead, Takes, TakesNext
<1>2. UNCHANGED <<calling, callbacks, vars>>
  BY DEF AnswerRead
<1>3. CASE Cached(Asked.path) /\ Reply(Asked.from, Correlation, op, data)
  BY <1>1, <1>2, <1>3 DEF FacadeReads
<1>4. CASE Reply(Asked.from, Correlation, "CacheFailure", << >>)
  BY <1>1, <1>2, <1>4, NothingTold DEF FacadeReads
<1> QED
  BY <1>3, <1>4 DEF AnswerRead

LEMMA ApisCases ==
  ASSUME TypeInv, AskInv, [ApisNext]_apiVars
  PROVE  ClientAsks \/ FacadeReads \/ FacadeCalls \/ FacadeRests \/ CallbackRuns
<1>1. CASE UNCHANGED apiVars
  BY <1>1 DEF apiVars, akkaVars, FacadeRests
<1>2. CASE CacheStep /\ UNCHANGED akkaVars
  <2>1. Next
    BY <1>2 DEF CacheStep, StopStep, Next, ApiStep
  <2> QED
    BY <1>2, <2>1 DEF akkaVars, FacadeRests
<1>3. CASE JavaStep /\ UNCHANGED akkaVars
  <2>1. [Next]_vars
    BY <1>3 DEF JavaStep, JavaCall, JavaSend, Get, Next, ApiStep
  <2> QED
    BY <1>3, <2>1 DEF akkaVars, FacadeRests
<1>4. CASE CallbackStep
  BY <1>4 DEF CallbackStep, CallbackRuns
<1>5. CASE ClientStep
  <2>1. PICK client \in Client, op \in AskOp, path \in ApiPath : Tell(client, op, path)
    BY <1>5 DEF ClientStep
  <2>2. [from |-> client, op |-> op, path |-> path] \in Question
    BY DEF Question
  <2> QED
    BY <2>1, <2>2 DEF Tell, ClientAsks
<1>6. CASE HandleGetChildren
  BY <1>6, NothingTold, ReadIsRead DEF HandleGetChildren, ReadOp
<1>7. CASE HandleGetData
  <2> DEFINE data == [p \in {Asked.path} |-> cache[p].data]
  <2>1. Cached(Asked.path) =>
          data \in Told /\ \A p \in DOMAIN data : Cached(p) /\ data[p] = cache[p].data
    BY EntriesAreTold
  <2>2. AnswerRead("GetData", data)
    BY <1>7 DEF HandleGetData
  <2> HIDE DEF data
  <2> QED
    BY <2>1, <2>2, ReadIsRead DEF ReadOp
<1>8. CASE HandleFind
  <2> DEFINE data == [p \in Found(Asked.path) |-> cache[p].data]
  <2>1. data \in Told /\ \A p \in DOMAIN data : Cached(p) /\ data[p] = cache[p].data
    BY EntriesAreTold DEF Found, Cached
  <2>2. TakesNext /\ Asked.op = "Find" /\ UNCHANGED <<calling, callbacks, vars>>
    BY <1>8 DEF HandleFind, Takes, TakesNext
  <2>3. \/ Reply(Asked.from, Correlation, "Find", data)
        \/ Reply(Asked.from, Correlation, "CacheFailure", << >>)
    BY <1>8 DEF HandleFind
  <2> HIDE DEF data
  <2> QED
    BY <2>1, <2>2, <2>3, NothingTold DEF FacadeReads, ReadOp
<1>9. ASSUME NEW r \in Request,
             HandleAddPath(r) \/ HandleRemovePathFromCache(r) \/ HandleStop(r)
      PROVE  FacadeCalls
  <2>1. /\ TakesNext /\ Asked.op \in AskOp \ ReadOp
        /\ KeepSender(r) /\ calling' \in {calling, r, NoOne} /\ UNCHANGED replies
    BY <1>9 DEF HandleAddPath, HandleRemovePathFromCache, HandleStop, Takes, TakesNext,
       AskOp, ReadOp
  <2>2. Asked.path \in ApiPath
    BY <2>1, NextAsked DEF TakesNext
  <2>3. Next
    BY <1>9, <2>2 DEF HandleAddPath, HandleRemovePathFromCache, HandleStop, Next, ApiStep
  <2>4. Asked.op = "Stop" => request'[r] # NotMade /\ request'[r].op = "stop"
    <3>1. Asked.op = "Stop" => CallStop(r)
      BY <1>9 DEF HandleAddPath, HandleRemovePathFromCache, HandleStop, Takes
    <3>2. request \in [Request -> Call \cup {NotMade}]
      BY DEF TypeInv, TypeOK, CallsTypeOK
    <3> QED
      BY <3>1, <3>2 DEF CallStop, Make, NotMade
  <2> QED
    BY <2>1, <2>3, <2>4 DEF FacadeCalls
<1>10. CASE FinishCall
  <2>1. calling \in Request
    BY <1>10 DEF FinishCall, AskInv
  <2>2. Next
    BY <1>10, <2>1 DEF FinishCall, Next, ApiStep
  <2> QED
    BY <1>10, <2>2 DEF FinishCall, FacadeRests
<1> QED
  BY <1>1, <1>2, <1>3, <1>4, <1>5, <1>6, <1>7, <1>8, <1>9, <1>10 DEF ApisNext, FacadeStep
LEMMA ApisStepIsStep ==
  ASSUME TypeInv, AskInv, [ApisNext]_apiVars
  PROVE  [Next]_vars
BY ApisCases DEF ClientAsks, FacadeReads, FacadeCalls, FacadeRests, CallbackRuns, RunCallback, AnswerTo

(* Who is answered by a callback *)
LEMMA LeftCallback ==
  ASSUME AskInv, NEW r \in Request, Left(r)
  PROVE  /\ callbacks[r] \in Callback
         /\ callbacks[r].to \in Client /\ callbacks[r].correlation \in Ask
         /\ callbacks[r].op \in AskOp
<1>1. callbacks[r] \in Callback
  BY DEF AskInv, Left
<1> QED
  BY <1>1 DEF Callback

(* One response is sent. *)
Answers(response) ==
  /\ response \in Response
  /\ replies' = Append(replies, response)

LEMMA CallbackAnswers ==
  ASSUME AskInv, NEW r \in Request, RunCallback(r)
  PROVE  /\ Left(r) /\ promise[r] # "open" /\ ~Left(r)' /\ callbacks' \in [Request -> {NoCallback} \cup Callback]
         /\ \A q \in Request \ {r} : callbacks'[q] = callbacks[q]
         /\ \E response \in Response :
              /\ Answers(response)
              /\ response.to = callbacks[r].to /\ response.correlation = callbacks[r].correlation
              /\ response.kind = IF promise[r] = "succeeded" THEN callbacks[r].op ELSE "CacheFailure"
              /\ DOMAIN response.data = {}
<1>1. Left(r) /\ promise[r] # "open" /\ callbacks' = [callbacks EXCEPT ![r] = NoCallback]
  BY DEF RunCallback, AnswerTo, IsAnswerable, Left
<1>2. callbacks[r].to \in Client /\ callbacks[r].correlation \in Ask /\ callbacks[r].op \in AskOp
  BY <1>1, LeftCallback
<1> DEFINE kind == IF promise[r] = "succeeded" THEN callbacks[r].op ELSE "CacheFailure"
           response == [to |-> callbacks[r].to, correlation |-> callbacks[r].correlation,
                        kind |-> kind, data |-> << >>]
<1>3. kind \in ReplyKind
  BY <1>2 DEF ReplyKind
<1>4. response \in Response
  BY <1>2, <1>3, NothingTold DEF Response
<1>5. Answers(response)
  BY <1>4 DEF RunCallback, AnswerTo, Reply, Answers
<1>8. /\ response.to = callbacks[r].to /\ response.correlation = callbacks[r].correlation
      /\ response.kind = kind /\ DOMAIN response.data = {}
  BY NothingTold
<1>6. callbacks \in [Request -> {NoCallback} \cup Callback]
  BY DEF AskInv
<1>7. /\ ~Left(r)' /\ callbacks' \in [Request -> {NoCallback} \cup Callback]
      /\ \A q \in Request \ {r} : callbacks'[q] = callbacks[q]
  BY <1>1, <1>6 DEF Left
<1> HIDE DEF response
<1> QED
  BY <1>1, <1>4, <1>5, <1>7, <1>8

LEMMA ReadAnswers ==
  ASSUME AskInv, FacadeReads
  PROVE  \E response \in Response :
           /\ Answers(response)
           /\ response.to = Asked.from /\ response.correlation = Correlation
           /\ response.kind \in {Asked.op, "CacheFailure"}
           /\ \A p \in DOMAIN response.data : Cached(p) /\ response.data[p] = cache[p].data
<1>1. PICK kind \in {Asked.op, "CacheFailure"}, data \in Told :
        /\ \A p \in DOMAIN data : Cached(p) /\ data[p] = cache[p].data
        /\ Reply(Asked.from, Correlation, kind, data)
  BY DEF FacadeReads
<1>2. Asked.from \in Client /\ Correlation \in Ask /\ kind \in ReplyKind
  BY NextAsked DEF FacadeReads, TakesNext, ReplyKind
<1> DEFINE response == [to |-> Asked.from, correlation |-> Correlation, kind |-> kind, data |-> data]
<1>3. response \in Response
  BY <1>2 DEF Response
<1>4. Answers(response)
  BY <1>1, <1>3 DEF Reply, Answers
<1>5. /\ response.to = Asked.from /\ response.correlation = Correlation
      /\ response.kind = kind /\ response.data = data
  OBVIOUS
<1> HIDE DEF response
<1> QED
  BY <1>1, <1>3, <1>4, <1>5

LEMMA KeptSender ==
  ASSUME AskInv, taken < Len(asked), Asked.op \in AskOp \ ReadOp, NEW r \in Request, KeepSender(r)
  PROVE  /\ callbacks' \in [Request -> {NoCallback} \cup Callback]
         /\ Left(r)'
         /\ \E callback \in Callback :
              /\ callbacks'[r] = callback
              /\ callback.to = Asked.from
              /\ callback.correlation = Correlation /\ callback.op = Asked.op
         /\ \A q \in Request \ {r} : callbacks'[q] = callbacks[q]
<1> DEFINE callback == [to |-> Asked.from, correlation |-> Correlation, op |-> Asked.op]
<1>1. callback \in Callback /\ callback # NoCallback
  BY NextAsked DEF Callback, NoCallback
<1>2. callbacks \in [Request -> {NoCallback} \cup Callback]
  BY DEF AskInv
<1> QED
  BY <1>1, <1>2 DEF KeepSender, Left

LEMMA AskInvStep == TypeInv /\ AskInv /\ [ApisNext]_apiVars => AskInv'
<1> SUFFICES ASSUME TypeInv, AskInv, [ApisNext]_apiVars PROVE AskInv'
  OBVIOUS
<1>1. /\ asked \in Seq(Question) /\ Len(asked) <= MaxAsks
      /\ taken \in 0 .. Len(asked) /\ replies \in Seq(Response)
  BY DEF AskInv
<1>2. CASE ClientAsks
  <2>1. PICK question \in Question : asked' = Append(asked, question)
    BY <1>2 DEF ClientAsks
  <2>2. asked' \in Seq(Question) /\ Len(asked') = Len(asked) + 1
    BY <1>1, <2>1
  <2> QED
    BY <1>1, <1>2, <2>2, AsksAssumption DEF ClientAsks, AskInv
<1>3. CASE FacadeReads
  <2>1. /\ UNCHANGED <<asked, calling, callbacks>> /\ taken' = taken + 1 /\ taken < Len(asked)
        /\ sender' = Asked.from
    BY <1>3 DEF FacadeReads, TakesNext, Correlation
  <2>2. replies' \in Seq(Response)
    <3>1. PICK response \in Response : Answers(response)
      BY <1>3, ReadAnswers
    <3> QED
      BY <1>1, <3>1 DEF Answers
  <2> QED
    BY <1>1, <2>1, <2>2, NextAsked DEF AskInv
<1>4. CASE FacadeCalls
  <2>1. /\ UNCHANGED <<asked, replies>> /\ taken' = taken + 1 /\ taken < Len(asked)
        /\ sender' = Asked.from
    BY <1>4 DEF FacadeCalls, TakesNext, Correlation
  <2>2. PICK r \in Request : KeepSender(r) /\ calling' \in {calling, r, NoOne}
    BY <1>4 DEF FacadeCalls
  <2>3. callbacks' \in [Request -> {NoCallback} \cup Callback]
    BY <1>4, <2>1, <2>2, KeptSender DEF FacadeCalls
  <2> QED
    BY <1>1, <2>1, <2>2, <2>3, NextAsked DEF AskInv
<1>5. CASE FacadeRests
  BY <1>5 DEF FacadeRests, AskInv
<1>6. CASE CallbackRuns
  <2>1. PICK r \in Request : RunCallback(r)
    BY <1>6 DEF CallbackRuns
  <2>2. UNCHANGED <<asked, taken, sender, calling>>
    BY <2>1 DEF RunCallback, AnswerTo
  <2>3. callbacks' \in [Request -> {NoCallback} \cup Callback]
    BY <2>1, CallbackAnswers
  <2>4. replies' \in Seq(Response)
    <3>1. PICK response \in Response : Answers(response)
      BY <2>1, CallbackAnswers
    <3> QED
      BY <1>1, <3>1 DEF Answers
  <2> QED
    BY <2>2, <2>3, <2>4 DEF AskInv
<1> QED
  BY <1>2, <1>3, <1>4, <1>5, <1>6, ApisCases

-----------------------------------------------------------------------------
(* Responses and their senders *)

LEMMA AppendedReply ==
  ASSUME AskInv, NEW response, Answers(response)
  PROVE  \E n \in Nat :
           /\ DOMAIN replies' = DOMAIN replies \cup {n} /\ n \notin DOMAIN replies
           /\ \A i \in DOMAIN replies : i \in Nat /\ i < n /\ replies'[i] = replies[i]
           /\ replies'[n] = response
<1>1. replies \in Seq(Response)
  BY DEF AskInv
<1> QED
  BY <1>1 DEF Answers

(* Taking a message leaves what was taken before. *)
LEMMA IsForKept ==
  ASSUME AskInv, NEW to, NEW correlation, NEW kind, IsFor(to, correlation, kind),
         taken' \in {taken, taken + 1},
         asked' = asked \/ \E question \in Question : asked' = Append(asked, question)
  PROVE  IsFor(to, correlation, kind)'
<1>1. correlation \in 1 .. taken' /\ correlation \in 1 .. Len(asked) /\ asked \in Seq(Question)
  BY DEF IsFor, AskInv
<1>2. asked'[correlation] = asked[correlation]
  BY <1>1
<1> QED
  BY <1>1, <1>2 DEF IsFor

LEMMA SenderInvStep == TypeInv /\ AskInv /\ SenderInv /\ [ApisNext]_apiVars => SenderInv'
<1> SUFFICES ASSUME TypeInv, AskInv, SenderInv, [ApisNext]_apiVars PROVE SenderInv'
  OBVIOUS
<1>t. taken \in Nat /\ Correlation = taken + 1
  BY DEF AskInv, Correlation
<1>o. /\ \A i \in DOMAIN replies : replies[i].correlation \in 1 .. taken
      /\ \A r \in Request : Left(r) => callbacks[r].correlation \in 1 .. taken
  BY DEF SenderInv, IsFor
<1>1. CASE UNCHANGED <<callbacks, replies, taken>>
           /\ (asked' = asked \/ \E question \in Question : asked' = Append(asked, question))
  <2>1. \A to, correlation, kind : IsFor(to, correlation, kind) => IsFor(to, correlation, kind)'
    BY <1>1, IsForKept
  <2> QED
    BY <1>1, <2>1 DEF SenderInv, Left
<1>2. CASE FacadeReads
  <2>1. PICK response \in Response :
          /\ Answers(response)
          /\ response.to = Asked.from /\ response.correlation = Correlation
          /\ response.kind \in {Asked.op, "CacheFailure"}
    BY <1>2, ReadAnswers
  <2>2. /\ UNCHANGED <<asked, callbacks>> /\ taken' = taken + 1 /\ taken < Len(asked)
    BY <1>2, <1>t DEF FacadeReads, TakesNext
  <2>3. IsFor(response.to, response.correlation, response.kind)'
    BY <1>t, <2>1, <2>2 DEF IsFor, Asked
  <2>4. \A to, correlation, k : IsFor(to, correlation, k) => IsFor(to, correlation, k)'
    BY <2>2, IsForKept
  <2>5. PICK n \in Nat :
          /\ DOMAIN replies' = DOMAIN replies \cup {n} /\ n \notin DOMAIN replies
          /\ \A i \in DOMAIN replies : replies'[i] = replies[i]
          /\ replies'[n] = response
    BY <2>1, AppendedReply
  <2>6. response.correlation \notin 1 .. taken
    BY <1>t, <2>1
  <2>7. (\A i \in DOMAIN replies : IsFor(replies[i].to, replies[i].correlation, replies[i].kind))'
    BY <2>3, <2>4, <2>5 DEF SenderInv
  <2>8. (\A r \in Request : Left(r) =>
           IsFor(callbacks[r].to, callbacks[r].correlation, callbacks[r].op))'
    BY <2>2, <2>4 DEF SenderInv, Left
  <2>9. \A i, j \in DOMAIN replies' : replies'[i].correlation = replies'[j].correlation => i = j
    BY <1>o, <2>5, <2>6 DEF SenderInv
  <2>10. \A i \in DOMAIN replies', r \in Request :
           Left(r)' => replies'[i].correlation # callbacks'[r].correlation
    BY <1>o, <2>2, <2>5, <2>6 DEF SenderInv, Left
  <2> QED
    BY <2>2, <2>7, <2>8, <2>9, <2>10 DEF SenderInv, Left
<1>3. CASE FacadeCalls
  <2>1. PICK r \in Request : KeepSender(r)
    BY <1>3 DEF FacadeCalls
  <2>2. /\ UNCHANGED <<asked, replies>> /\ taken' = taken + 1 /\ taken < Len(asked)
    BY <1>3, <1>t DEF FacadeCalls, TakesNext
  <2>3. Left(r)' /\ \A q \in Request \ {r} : callbacks'[q] = callbacks[q]
    BY <1>3, <2>1, <2>2, KeptSender DEF FacadeCalls
  <2>8. PICK callback \in Callback :
          /\ callbacks'[r] = callback
          /\ callback.to = Asked.from
          /\ callback.correlation = Correlation /\ callback.op = Asked.op
    BY <1>3, <2>1, <2>2, KeptSender DEF FacadeCalls
  <2>4. IsFor(callback.to, callback.correlation, callback.op)'
    BY <1>t, <2>2, <2>8 DEF IsFor, Asked
  <2>5. \A to, correlation, k : IsFor(to, correlation, k) => IsFor(to, correlation, k)'
    BY <2>2, IsForKept
  <2>6. callback.correlation \notin 1 .. taken
    BY <1>t, <2>8
  <2>7. \A q \in Request \ {r} : Left(q)' <=> Left(q)
    BY <2>3 DEF Left
  <2> QED
    BY <1>o, <2>2, <2>3, <2>4, <2>5, <2>6, <2>7, <2>8 DEF SenderInv
<1>4. CASE CallbackRuns
  <2>1. PICK r \in Request : RunCallback(r)
    BY <1>4 DEF CallbackRuns
  <2>2. /\ Left(r) /\ ~Left(r)' /\ \A q \in Request \ {r} : callbacks'[q] = callbacks[q]
    BY <2>1, CallbackAnswers
  <2>3. PICK response \in Response :
          /\ Answers(response)
          /\ response.to = callbacks[r].to /\ response.correlation = callbacks[r].correlation
          /\ response.kind \in {callbacks[r].op, "CacheFailure"}
    BY <2>1, CallbackAnswers
  <2>4. UNCHANGED <<asked, taken>>
    BY <2>1 DEF RunCallback, AnswerTo
  <2>5. PICK n \in Nat :
          /\ DOMAIN replies' = DOMAIN replies \cup {n} /\ n \notin DOMAIN replies
          /\ \A i \in DOMAIN replies : replies'[i] = replies[i]
          /\ replies'[n] = response
    BY <2>3, AppendedReply
  <2>6. IsFor(response.to, response.correlation, response.kind)
    BY <2>2, <2>3 DEF SenderInv, IsFor
  <2>7. \A q \in Request \ {r} : Left(q)' <=> Left(q)
    BY <2>2 DEF Left
  <2>8. \A to, correlation, k : IsFor(to, correlation, k)' <=> IsFor(to, correlation, k)
    BY <2>4 DEF IsFor
  <2>9. (\A i \in DOMAIN replies : IsFor(replies[i].to, replies[i].correlation, replies[i].kind))'
    BY <2>5, <2>6, <2>8 DEF SenderInv
  <2>10. (\A q \in Request : Left(q) =>
           IsFor(callbacks[q].to, callbacks[q].correlation, callbacks[q].op))'
    BY <2>2, <2>7, <2>8 DEF SenderInv
  <2>11. \A i \in DOMAIN replies : replies[i].correlation # response.correlation
    BY <2>2, <2>3 DEF SenderInv
  <2>12. \A i, j \in DOMAIN replies' : replies'[i].correlation = replies'[j].correlation => i = j
    BY <2>5, <2>11 DEF SenderInv
  <2>13. \A i \in DOMAIN replies', q \in Request :
           Left(q)' => replies'[i].correlation # callbacks'[q].correlation
    BY <2>2, <2>3, <2>5, <2>7 DEF SenderInv
  <2> QED
    BY <2>2, <2>7, <2>9, <2>10, <2>12, <2>13 DEF SenderInv
<1> QED
  BY <1>1, <1>2, <1>3, <1>4, ApisCases DEF ClientAsks, FacadeRests
-----------------------------------------------------------------------------
(* What responses tell *)

LEMMA SeenStaysTold ==
  ASSUME DataInv, [Next]_vars, NEW response \in Response, TellsSeen(response)
  PROVE  TellsSeen(response)'
<1> SUFFICES ASSUME NEW p \in DOMAIN response.data PROVE Seen(p, response.data[p])'
  BY DEF TellsSeen
<1>1. response.data[p] \in Nat
  BY DEF Response, Told
<1>2. Seen(p, response.data[p])
  BY DEF TellsSeen
<1> QED
  BY <1>1, <1>2, DataInvStep

LEMMA ToldInvStep == DataInv /\ AskInv /\ ToldInv /\ [ApisNext]_apiVars => ToldInv'
<1> SUFFICES ASSUME DataInv, AskInv, ToldInv, [ApisNext]_apiVars PROVE ToldInv'
  OBVIOUS
<1>1. TypeInv /\ [Next]_vars
  BY ApisStepIsStep DEF DataInv
<1>2. \A response \in Response : TellsSeen(response) => TellsSeen(response)'
  BY <1>1, SeenStaysTold
<1>3. \A i \in DOMAIN replies : replies[i] \in Response /\ TellsSeen(replies[i])
  BY DEF AskInv, ToldInv
<1>4. CASE replies' = replies
  BY <1>2, <1>3, <1>4 DEF ToldInv, ReadsNeverGoBack
<1>5. ASSUME NEW response \in Response, Answers(response), TellsSeen(response),
             \A i \in DOMAIN replies : \A p \in DOMAIN replies[i].data \cap DOMAIN response.data :
               replies[i].data[p] <= response.data[p]
      PROVE  ToldInv'
  <2>1. PICK n \in Nat :
          /\ DOMAIN replies' = DOMAIN replies \cup {n} /\ n \notin DOMAIN replies
          /\ \A i \in DOMAIN replies : i \in Nat /\ i < n /\ replies'[i] = replies[i]
          /\ replies'[n] = response
    BY <1>5, AppendedReply
  <2>2. (\A i \in DOMAIN replies : TellsSeen(replies[i]))'
    BY <1>2, <1>3, <1>5, <2>1
  <2>3. ReadsNeverGoBack'
    <3> SUFFICES ASSUME NEW i \in DOMAIN replies', NEW j \in DOMAIN replies', i < j,
                        NEW p \in DOMAIN replies'[i].data \cap DOMAIN replies'[j].data
                 PROVE  replies'[i].data[p] <= replies'[j].data[p]
      BY DEF ReadsNeverGoBack
    <3>1. CASE j = n
      <4>1. i \in DOMAIN replies /\ replies'[i] = replies[i]
        BY <2>1, <3>1
      <4> QED
        BY <1>5, <2>1, <3>1, <4>1
    <3>2. CASE j # n
      <4>1. j \in DOMAIN replies /\ i \in DOMAIN replies
        BY <2>1, <3>2
      <4> QED
        BY <2>1, <4>1 DEF ToldInv, ReadsNeverGoBack
    <3> QED
      BY <3>1, <3>2
  <2> QED
    BY <2>2, <2>3 DEF ToldInv
<1>6. CASE FacadeReads
  <2>1. PICK response \in Response :
          /\ Answers(response)
          /\ \A p \in DOMAIN response.data : Cached(p) /\ response.data[p] = cache[p].data
    BY <1>6, ReadAnswers
  <2>2. TellsSeen(response)
    BY <2>1 DEF TellsSeen, DataInv, FreshInv, Cached
  <2>3. \A i \in DOMAIN replies : \A p \in DOMAIN replies[i].data \cap DOMAIN response.data :
          replies[i].data[p] <= response.data[p]
    BY <1>3, <2>1 DEF TellsSeen, Seen, Stored
  <2> QED
    BY <1>5, <2>1, <2>2, <2>3
<1>7. CASE CallbackRuns
  <2>1. PICK r \in Request : RunCallback(r)
    BY <1>7 DEF CallbackRuns
  <2>2. PICK response \in Response : Answers(response) /\ DOMAIN response.data = {}
    BY <2>1, CallbackAnswers
  <2> QED
    BY <1>5, <2>2 DEF TellsSeen
<1> QED
  BY <1>1, <1>4, <1>6, <1>7, ApisCases DEF ClientAsks, FacadeCalls, FacadeRests

-----------------------------------------------------------------------------
(* The end *)

LEMMA StopsAreKept ==
  ASSUME TypeInv, [Next]_vars, NEW r \in Request, request[r] # NotMade, request[r].op = "stop"
  PROVE  request'[r] # NotMade /\ request'[r].op = "stop"
<1>1. ApiStep \/ request' = request
  BY OnlyCallersCall DEF vars, callVars
<1> QED
  BY <1>1, CallsAreKept

LEMMA EndInvStep == CacheInv /\ AskInv /\ EndInv /\ [ApisNext]_apiVars => EndInv'
<1> SUFFICES ASSUME CacheInv, AskInv, EndInv, [ApisNext]_apiVars PROVE EndInv'
  OBVIOUS
<1>1. TypeInv /\ [Next]_vars
  BY ApisStepIsStep DEF CacheInv, DataInv
<1>2. \A r \in Request : request[r] # NotMade /\ request[r].op = "stop" =>
        request'[r] # NotMade /\ request'[r].op = "stop"
  BY <1>1, StopsAreKept
<1>3. ~alive => ~alive' /\ DOMAIN cache = {}
  BY <1>1, EndIsFinal DEF CacheInv, StopInv, Ended
<1> DEFINE StopCallbacks == \A r \in Request : Left(r) /\ callbacks[r].op = "Stop" =>
                              request[r] # NotMade /\ request[r].op = "stop"
<1>4. CASE replies' = replies /\ StopCallbacks'
  BY <1>3, <1>4 DEF EndInv, StopEndsReads
<1>5. ASSUME UNCHANGED callbacks PROVE StopCallbacks'
  BY <1>2, <1>5 DEF EndInv, Left
<1>6. ASSUME NEW response \in Response, Answers(response), StopCallbacks',
             response.kind = "Stop" => ~alive,
             ~alive => DOMAIN response.data = {}
      PROVE  EndInv'
  <2>1. PICK n \in Nat :
          /\ DOMAIN replies' = DOMAIN replies \cup {n} /\ n \notin DOMAIN replies
          /\ \A i \in DOMAIN replies : i \in Nat /\ i < n /\ replies'[i] = replies[i]
          /\ replies'[n] = response
    BY <1>6, AppendedReply
  <2>2. \A i \in DOMAIN replies' : replies'[i].kind = "Stop" => ~alive'
    BY <1>3, <1>6, <2>1 DEF EndInv
  <2>3. StopEndsReads'
    <3> SUFFICES ASSUME NEW i \in DOMAIN replies', NEW j \in DOMAIN replies', i < j,
                        replies'[i].kind = "Stop"
                 PROVE  DOMAIN replies'[j].data = {}
      BY DEF StopEndsReads
    <3>1. CASE j = n
      <4>1. i \in DOMAIN replies /\ replies'[i] = replies[i]
        BY <2>1, <3>1
      <4> QED
        BY <1>6, <2>1, <3>1, <4>1 DEF EndInv
    <3>2. CASE j # n
      <4>1. j \in DOMAIN replies /\ i \in DOMAIN replies
        BY <2>1, <3>2
      <4> QED
        BY <2>1, <4>1 DEF EndInv, StopEndsReads
    <3> QED
      BY <3>1, <3>2
  <2> QED
    BY <1>6, <2>2, <2>3 DEF EndInv
<1>7. CASE FacadeReads
  <2>1. PICK response \in Response :
          /\ Answers(response)
          /\ response.kind \in {Asked.op, "CacheFailure"}
          /\ \A p \in DOMAIN response.data : Cached(p) /\ response.data[p] = cache[p].data
    BY <1>7, ReadAnswers
  <2>2. response.kind # "Stop" /\ UNCHANGED callbacks
    BY <1>7, <2>1 DEF FacadeReads, ReadOp
  <2>3. ~alive => DOMAIN response.data = {}
    BY <1>3, <2>1 DEF Cached
  <2>4. StopCallbacks'
    BY <1>5, <2>2
  <2> HIDE DEF StopCallbacks
  <2> QED
    BY <1>6, <2>1, <2>2, <2>3, <2>4
<1>8. CASE CallbackRuns
  <2>1. PICK r \in Request : RunCallback(r)
    BY <1>8 DEF CallbackRuns
  <2>2. PICK response \in Response :
          /\ Answers(response) /\ DOMAIN response.data = {}
          /\ response.kind = IF promise[r] = "succeeded" THEN callbacks[r].op ELSE "CacheFailure"
    BY <2>1, CallbackAnswers
  <2>3. /\ Left(r) /\ ~Left(r)' /\ \A q \in Request \ {r} : callbacks'[q] = callbacks[q]
    BY <2>1, CallbackAnswers
  <2>4. response.kind = "Stop" => ~alive
    BY <2>2, <2>3 DEF EndInv, CacheInv, StopInv, StopSucceeded
  <2>5. StopCallbacks'
    BY <1>2, <2>3 DEF EndInv, Left
  <2> HIDE DEF StopCallbacks
  <2> QED
    BY <1>6, <2>2, <2>4, <2>5
<1>9. CASE FacadeCalls
  <2>1. PICK r \in Request :
          KeepSender(r) /\ (Asked.op = "Stop" => request'[r] # NotMade /\ request'[r].op = "stop")
    BY <1>9 DEF FacadeCalls
  <2>2. /\ \A q \in Request \ {r} : callbacks'[q] = callbacks[q]
        /\ callbacks'[r].op = Asked.op
    BY <1>9, <2>1, KeptSender DEF FacadeCalls, TakesNext
  <2>3. StopCallbacks'
    BY <1>2, <2>1, <2>2 DEF EndInv, Left
  <2> QED
    BY <1>4, <1>9, <2>3 DEF FacadeCalls
<1>10. CASE ClientAsks \/ FacadeRests
  BY <1>4, <1>5, <1>10 DEF ClientAsks, FacadeRests
<1> QED
  BY <1>1, <1>7, <1>8, <1>9, <1>10, ApisCases

-----------------------------------------------------------------------------
(* The theorems *)

LEMMA ApisInvInit == ApisInit => ApisInv
<1> SUFFICES ASSUME ApisInit PROVE ApisInv
  OBVIOUS
<1>1. CacheInv
  BY DataInvInit, PromiseInvInit, StopInvInit DEF ApisInit, CacheInv, DataInv
<1>2. /\ asked = << >> /\ replies = << >> /\ taken = 0 /\ sender = "nobody" /\ calling = NoOne
      /\ callbacks = [r \in Request |-> NoCallback]
  BY DEF ApisInit, AkkaInit
<1>3. \A r \in Request : ~Left(r)
  BY <1>2 DEF Left
<1> QED
  BY <1>1, <1>2, <1>3, AsksAssumption
     DEF ApisInv, AskInv, SenderInv, ToldInv, EndInv, ReadsNeverGoBack, StopEndsReads

LEMMA ApisInvStep == ApisInv /\ [ApisNext]_apiVars => ApisInv'
<1> SUFFICES ASSUME ApisInv, [ApisNext]_apiVars PROVE ApisInv'
  OBVIOUS
<1>1. /\ CacheInv /\ DataInv /\ PromiseInv /\ StopInv /\ TypeInv
      /\ AskInv /\ SenderInv /\ ToldInv /\ EndInv
  BY DEF ApisInv, CacheInv, DataInv
<1>2. [Next]_vars
  BY <1>1, ApisStepIsStep
<1>3. CacheInv'
  BY <1>1, <1>2, DataInvStep, PromiseInvStep, StopInvStep DEF CacheInv
<1> QED
  BY <1>1, <1>3, AskInvStep, SenderInvStep, ToldInvStep, EndInvStep DEF ApisInv

LEMMA ApisInvAlways == ApisSpec => []ApisInv
BY ApisInvInit, ApisInvStep, PTL DEF ApisSpec

LEMMA JavaStepType == JavaTypeOK /\ [ApisNext]_apiVars => JavaTypeOK'
<1> SUFFICES ASSUME JavaTypeOK, [ApisNext]_apiVars PROVE JavaTypeOK'
  OBVIOUS
<1>1. CASE futures' = futures
  BY <1>1 DEF JavaTypeOK
<1>2. ASSUME NEW r \in Request, NEW use \in FutureUse, Use(r, use) PROVE JavaTypeOK'
  BY <1>2 DEF JavaTypeOK, Use
<1>3. CASE JavaStep
  BY <1>1, <1>2, <1>3 DEF JavaStep, JavaCall, JavaSend, Get, FutureUse
<1> QED
  BY <1>1, <1>3 DEF ApisNext, apiVars

(***************************************************************************)
(* The variables of the cache and of both facades keep their types.        *)
(***************************************************************************)
THEOREM ApisTypeCorrect == ApisSpec => []ApisTypeOK
<1>1. ApisInit => JavaTypeOK
  BY DEF ApisInit, JavaInit, JavaTypeOK, FutureUse
<1>2. ApisSpec => []JavaTypeOK
  BY <1>1, JavaStepType, PTL DEF ApisSpec
<1>3. ApisInv => TypeOK /\ AkkaTypeOK
  <2> SUFFICES ASSUME ApisInv PROVE TypeOK /\ AkkaTypeOK
    OBVIOUS
  <2>1. TypeOK /\ AskInv
    BY DEF ApisInv, CacheInv, DataInv, TypeInv
  <2>2. asked \in Seq([from : Client, op : AskOp, path : Seq(Name)])
    <3>1. ApiPath \subseteq Seq(Name)
      BY CallsAssumption, ZnodeAssumption
    <3>2. Question \subseteq [from : Client, op : AskOp, path : Seq(Name)]
      BY <3>1 DEF Question
    <3>3. asked \in Seq(Question)
      BY <2>1 DEF AskInv
    <3> QED
      BY <3>2, <3>3, SeqMonotonic
  <2>3. \A i \in DOMAIN replies :
          /\ replies[i].to \in Client /\ replies[i].correlation \in Ask
          /\ replies[i].kind \in ReplyKind
          /\ DOMAIN replies[i].data \subseteq PathString
    <3> SUFFICES ASSUME NEW i \in DOMAIN replies
                 PROVE  /\ replies[i].to \in Client /\ replies[i].correlation \in Ask
                        /\ replies[i].kind \in ReplyKind
                        /\ DOMAIN replies[i].data \subseteq PathString
      OBVIOUS
    <3>1. replies[i] \in Response
      BY <2>1 DEF AskInv
    <3>2. replies[i].data \in Told
      BY <3>1 DEF Response
    <3>3. PICK paths \in SUBSET PathString : replies[i].data \in [paths -> Nat]
      BY <3>2 DEF Told
    <3> QED
      BY <3>1, <3>3 DEF Response
  <2> QED
    BY <2>1, <2>2, <2>3 DEF AskInv, AkkaTypeOK
<1> QED
  BY <1>2, <1>3, ApisInvAlways, PTL DEF ApisTypeOK

(***************************************************************************)
(* Each message gets at most one response, which goes to its sender with   *)
(* its correlation and answers what was asked, although callbacks run      *)
(* while the facade handles the messages of others (ScakkaZooCacheActor).  *)
(***************************************************************************)
THEOREM SendersAreAnswered == ApisSpec => []AnswersFindTheirSender
<1>1. ApisInv => AnswersFindTheirSender
  BY DEF ApisInv, SenderInv, IsFor, AnswersFindTheirSender
<1> QED
  BY <1>1, ApisInvAlways, PTL

(***************************************************************************)
(* The data that clients are told of a path never goes back, also when the *)
(* path was evicted and cached again in between (GetData, Find).           *)
(***************************************************************************)
THEOREM ReadsGoForward == ApisSpec => []ReadsNeverGoBack
<1>1. ApisInv => ReadsNeverGoBack
  BY DEF ApisInv, ToldInv
<1> QED
  BY <1>1, ApisInvAlways, PTL

(***************************************************************************)
(* After the response that confirms a stop, no response tells of any path. *)
(***************************************************************************)
THEOREM NothingReadAfterStop == ApisSpec => []StopEndsReads
<1>1. ApisInv => StopEndsReads
  BY DEF ApisInv, EndInv
<1> QED
  BY <1>1, ApisInvAlways, PTL
=============================================================================
