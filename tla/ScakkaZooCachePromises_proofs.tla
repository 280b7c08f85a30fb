-------------------- MODULE ScakkaZooCachePromises_proofs -------------------
(***************************************************************************)
(* No promise is completed twice.                                          *)
(*                                                                         *)
(* The promise of a call is completed by a message that carries the call   *)
(* and has the path of the call: a token of the call.  A handler passes on *)
(* the token it has, or uses it up, and what it sends for children names   *)
(* the same call with longer paths.  So there is never more than one       *)
(* token, in the mailbox or in the handler, and the promise is open as     *)
(* long as there is one.                                                   *)
(***************************************************************************)
EXTENDS ScakkaZooCache_proofs

NoneOf(s, T)    == \A i \in DOMAIN s : s[i] \notin T
AtMostOne(s, T) == \A i, j \in DOMAIN s : s[i] \in T /\ s[j] \in T => i = j

(* At most one of T is in the mailbox s or the handler's message h; some is. *)
One(s, h, T) == AtMostOne(s, T) /\ (h \in T => NoneOf(s, T))
Has(s, h, T) == h \in T \/ ~NoneOf(s, T)

Token(r) == {m \in Message : m.notify = r /\ m.path = request[r].path}

(* A message names a call that has been sent, and a path at or below its.  *)
Descendant ==
  {m \in Message : m.notify # NoOne =>
     request[m.notify].at = "returned" /\ Len(m.path) >= Len(request[m.notify].path)}

(* A call of stop has no promise that the actor could complete. *)
SentWithoutPromise(r) ==
  request[r] # NotMade /\ request[r].op = "stop"
    => request[r].at = "returned" /\ request[r].attached = FALSE

PromiseInv ==
  /\ mailbox \in Seq(Descendant) /\ handler.msg \in Descendant
  /\ \A r \in Request :
       /\ One(mailbox, handler.msg, Token(r))
       /\ request[r].at # "returned" => promise[r] = "open"
       /\ /\ request[r].at = "returned" /\ request[r].attached
          /\ Has(mailbox, handler.msg, Token(r))
          => promise[r] = "open"
       /\ SentWithoutPromise(r)
  /\ PromiseCompletedOnce

-----------------------------------------------------------------------------
(* Tokens in sequences *)

LEMMA NoneOfConcat ==
  ASSUME NEW M, NEW T, NEW s \in Seq(M), NEW t \in Seq(M)
  PROVE  NoneOf(s \o t, T) <=> NoneOf(s, T) /\ NoneOf(t, T)
<1>1. /\ Len(s \o t) = Len(s) + Len(t)
      /\ \A i \in 1 .. Len(s) : (s \o t)[i] = s[i]
      /\ \A i \in 1 .. Len(t) : (s \o t)[Len(s) + i] = t[i]
      /\ Len(s) \in Nat /\ Len(t) \in Nat
      /\ DOMAIN s = 1 .. Len(s) /\ DOMAIN t = 1 .. Len(t) /\ DOMAIN (s \o t) = 1 .. Len(s \o t)
  OBVIOUS
<1>2. ASSUME NoneOf(s \o t, T) PROVE NoneOf(s, T) /\ NoneOf(t, T)
  <2>1. ASSUME NEW i \in DOMAIN s PROVE s[i] \notin T
    <3>1. i \in DOMAIN (s \o t) /\ (s \o t)[i] = s[i]
      BY <1>1
    <3> QED
      BY <1>2, <3>1 DEF NoneOf
  <2>2. ASSUME NEW i \in DOMAIN t PROVE t[i] \notin T
    <3>1. Len(s) + i \in DOMAIN (s \o t) /\ (s \o t)[Len(s) + i] = t[i]
      BY <1>1
    <3> QED
      BY <1>2, <3>1 DEF NoneOf
  <2> QED
    BY <2>1, <2>2 DEF NoneOf
<1>3. ASSUME NoneOf(s, T), NoneOf(t, T) PROVE NoneOf(s \o t, T)
  <2> SUFFICES ASSUME NEW i \in DOMAIN (s \o t) PROVE (s \o t)[i] \notin T
    BY DEF NoneOf
  <2>1. CASE i <= Len(s)
    BY <1>1, <1>3, <2>1 DEF NoneOf
  <2>2. CASE i > Len(s)
    <3>1. i - Len(s) \in 1 .. Len(t) /\ Len(s) + (i - Len(s)) = i
      BY <1>1, <2>2
    <3> QED
      BY <1>1, <1>3, <3>1 DEF NoneOf
  <2> QED
    BY <1>1, <2>1, <2>2
<1> QED
  BY <1>2, <1>3

LEMMA AtMostOneConcat ==
  ASSUME NEW M, NEW T, NEW s \in Seq(M), NEW t \in Seq(M),
         AtMostOne(s, T), AtMostOne(t, T), NoneOf(s, T) \/ NoneOf(t, T)
  PROVE  AtMostOne(s \o t, T)
<1>1. /\ Len(s \o t) = Len(s) + Len(t)
      /\ \A i \in 1 .. Len(s) : (s \o t)[i] = s[i]
      /\ \A i \in 1 .. Len(t) : (s \o t)[Len(s) + i] = t[i]
      /\ Len(s) \in Nat /\ Len(t) \in Nat
      /\ DOMAIN s = 1 .. Len(s) /\ DOMAIN t = 1 .. Len(t) /\ DOMAIN (s \o t) = 1 .. Len(s \o t)
  OBVIOUS
<1>2. \A i \in DOMAIN (s \o t) : (s \o t)[i] \in T =>
        \/ i \in DOMAIN s /\ s[i] \in T
        \/ i - Len(s) \in DOMAIN t /\ t[i - Len(s)] \in T
  <2> SUFFICES ASSUME NEW i \in DOMAIN (s \o t), (s \o t)[i] \in T, i \notin DOMAIN s
               PROVE  i - Len(s) \in DOMAIN t /\ t[i - Len(s)] \in T
    BY <1>1
  <2>1. i - Len(s) \in 1 .. Len(t) /\ Len(s) + (i - Len(s)) = i
    BY <1>1
  <2> QED
    BY <1>1, <2>1
<1>3. \A i, j \in Int : i - Len(s) = j - Len(s) => i = j
  BY <1>1
<1> QED
  BY <1>1, <1>2, <1>3 DEF AtMostOne, NoneOf

LEMMA TokenOfTail ==
  ASSUME NEW M, NEW T, NEW s \in Seq(M), s # << >>, AtMostOne(s, T)
  PROVE  /\ Tail(s) \in Seq(M)
         /\ AtMostOne(Tail(s), T)
         /\ NoneOf(s, T) <=> Head(s) \notin T /\ NoneOf(Tail(s), T)
         /\ Head(s) \in T => NoneOf(Tail(s), T)
<1>1. /\ Tail(s) \in Seq(M) /\ Len(s) \in Nat /\ Len(s) >= 1 /\ Len(Tail(s)) = Len(s) - 1
      /\ \A i \in 1 .. Len(Tail(s)) : Tail(s)[i] = s[i + 1]
      /\ DOMAIN s = 1 .. Len(s) /\ DOMAIN Tail(s) = 1 .. Len(Tail(s))
      /\ Head(s) = s[1]
  OBVIOUS
<1>2. AtMostOne(Tail(s), T)
  BY <1>1 DEF AtMostOne
<1>3. Head(s) \in T => NoneOf(Tail(s), T)
  <2> SUFFICES ASSUME Head(s) \in T, NEW i \in DOMAIN Tail(s), Tail(s)[i] \in T PROVE FALSE
    BY DEF NoneOf
  <2>1. i + 1 \in DOMAIN s /\ 1 \in DOMAIN s /\ i + 1 # 1
    BY <1>1
  <2> QED
    BY <1>1, <2>1 DEF AtMostOne
<1>4. ASSUME NoneOf(s, T) PROVE Head(s) \notin T /\ NoneOf(Tail(s), T)
  BY <1>1, <1>4 DEF NoneOf
<1>5. ASSUME Head(s) \notin T, NoneOf(Tail(s), T) PROVE NoneOf(s, T)
  <2> SUFFICES ASSUME NEW i \in DOMAIN s, s[i] \in T PROVE FALSE
    BY DEF NoneOf
  <2>1. CASE i = 1
    BY <1>1, <1>5, <2>1
  <2>2. CASE i # 1
    <3>1. i - 1 \in DOMAIN Tail(s) /\ Tail(s)[i - 1] = s[i]
      BY <1>1, <2>2
    <3> QED
      BY <1>5, <3>1 DEF NoneOf
  <2> QED
    BY <2>1, <2>2
<1> QED
  BY <1>1, <1>2, <1>3, <1>4, <1>5

LEMMA SingletonToken ==
  ASSUME NEW M, NEW T, NEW m \in M
  PROVE  /\ <<m>> \in Seq(M) /\ AtMostOne(<<m>>, T)
         /\ NoneOf(<<m>>, T) <=> m \notin T
         /\ NoneOf(<< >>, T) /\ << >> \in Seq(M)
BY DEF AtMostOne, NoneOf

LEMMA NoneIsAtMostOne == ASSUME NEW T, NEW s, NoneOf(s, T) PROVE AtMostOne(s, T)
BY DEF NoneOf, AtMostOne

-----------------------------------------------------------------------------
(* What the handlers do with tokens *)

(* The first message is taken, and no token is sent. *)
LEMMA TokenTaken ==
  ASSUME NEW M, NEW T, NEW s \in Seq(M), NEW ms \in Seq(M), NEW h, NEW h2,
         s # << >>, h \notin T, One(s, h, T), NoneOf(ms, T), h2 \in T => Head(s) \in T
  PROVE  /\ One(Tail(s) \o ms, h2, T)
         /\ Has(Tail(s) \o ms, h2, T) => Has(s, h, T)
<1>1. /\ Tail(s) \in Seq(M) /\ AtMostOne(Tail(s), T)
      /\ NoneOf(s, T) <=> Head(s) \notin T /\ NoneOf(Tail(s), T)
      /\ Head(s) \in T => NoneOf(Tail(s), T)
  BY TokenOfTail DEF One
<1>2. NoneOf(Tail(s) \o ms, T) <=> NoneOf(Tail(s), T)
  BY <1>1, NoneOfConcat
<1>3. AtMostOne(Tail(s) \o ms, T)
  BY <1>1, AtMostOneConcat, NoneIsAtMostOne
<1> QED
  BY <1>1, <1>2, <1>3 DEF One, Has

(* The first message is taken, and its token, if any, sent again. *)
LEMMA TokenRequeued ==
  ASSUME NEW M, NEW T, NEW s \in Seq(M), NEW m \in M, NEW h,
         s # << >>, h \notin T, One(s, h, T), m \in T => Head(s) \in T
  PROVE  /\ One(Tail(s) \o <<m>>, h, T)
         /\ Has(Tail(s) \o <<m>>, h, T) => Has(s, h, T)
<1>1. /\ Tail(s) \in Seq(M) /\ AtMostOne(Tail(s), T)
      /\ NoneOf(s, T) <=> Head(s) \notin T /\ NoneOf(Tail(s), T)
      /\ Head(s) \in T => NoneOf(Tail(s), T)
  BY TokenOfTail DEF One
<1>2. /\ <<m>> \in Seq(M) /\ AtMostOne(<<m>>, T)
      /\ NoneOf(<<m>>, T) <=> m \notin T
  BY SingletonToken
<1>3. NoneOf(Tail(s) \o <<m>>, T) <=> NoneOf(Tail(s), T) /\ m \notin T
  BY <1>1, <1>2, NoneOfConcat
<1>4. AtMostOne(Tail(s) \o <<m>>, T)
  BY <1>1, <1>2, AtMostOneConcat
<1> QED
  BY <1>1, <1>3, <1>4 DEF One, Has

(* Messages without a token are sent; the handler keeps its own or ends. *)
LEMMA TokenKept ==
  ASSUME NEW M, NEW T, NEW s \in Seq(M), NEW ms \in Seq(M), NEW h, NEW h2,
         One(s, h, T), NoneOf(ms, T), h2 \in T => h \in T
  PROVE  /\ One(s \o ms, h2, T)
         /\ Has(s \o ms, h2, T) => Has(s, h, T)
         /\ h \in T /\ h2 \notin T => ~Has(s \o ms, h2, T)
<1>1. NoneOf(s \o ms, T) <=> NoneOf(s, T)
  BY NoneOfConcat
<1>2. AtMostOne(s \o ms, T)
  BY AtMostOneConcat, NoneIsAtMostOne DEF One
<1> QED
  BY <1>1, <1>2 DEF One, Has

(* The handler ends, and sends its token, if any, on. *)
LEMMA TokenPassed ==
  ASSUME NEW M, NEW T, NEW s \in Seq(M), NEW m \in M, NEW h, NEW h2,
         One(s, h, T), h2 \notin T, m \in T => h \in T
  PROVE  /\ One(s \o <<m>>, h2, T)
         /\ Has(s \o <<m>>, h2, T) => Has(s, h, T)
<1>1. /\ <<m>> \in Seq(M) /\ AtMostOne(<<m>>, T)
      /\ NoneOf(<<m>>, T) <=> m \notin T
  BY SingletonToken
<1>2. NoneOf(s \o <<m>>, T) <=> NoneOf(s, T) /\ m \notin T
  BY <1>1, NoneOfConcat
<1>3. AtMostOne(s \o <<m>>, T)
  BY <1>1, AtMostOneConcat DEF One
<1> QED
  BY <1>2, <1>3 DEF One, Has

-----------------------------------------------------------------------------
(* Which messages are tokens *)

LEMMA ChildPathIsLonger ==
  ASSUME NEW p \in PathString, NEW c \in Name
  PROVE  Len(ChildPath(p, c)) > Len(p) /\ Len(p) \in Nat /\ Len(ChildPath(p, c)) \in Nat
<1>1. Len(p) \in Nat /\ Len(Append(p, c)) = Len(p) + 1 /\ Len(<<EmptyName, c>>) = 2
  BY DEF PathString
<1>2. p = Root => Len(p) = 0
  BY DEF Root
<1> QED
  BY <1>1, <1>2 DEF ChildPath

LEMMA DescendantMessages ==
  ASSUME TypeInv, NEW m \in Descendant, NEW x \in Message,
         \/ x.notify = NoOne
         \/ x.notify = m.notify /\ Len(x.path) >= Len(m.path)
  PROVE  x \in Descendant
<1>1. CASE x.notify = NoOne
  BY <1>1 DEF Descendant
<1>2. CASE x.notify # NoOne /\ x.notify = m.notify /\ Len(x.path) >= Len(m.path)
  <2>1. m \in Message /\ m.notify \in Request
    BY <1>2 DEF Descendant, Message, Notifyable
  <2>2. /\ request[m.notify].at = "returned"
        /\ Len(m.path) >= Len(request[m.notify].path)
    BY <1>2 DEF Descendant
  <2>3. request[m.notify] \in Call
    BY <2>1, <2>2 DEF TypeInv, TypeOK, CallsTypeOK, NotMade
  <2>4. Len(m.path) \in Nat /\ Len(x.path) \in Nat /\ Len(request[m.notify].path) \in Nat
    BY <2>1, <2>3 DEF Message, PathString, Call
  <2> QED
    BY <1>2, <2>2, <2>4 DEF Descendant
<1> QED
  BY <1>1, <1>2

LEMMA NoTokenForNoOne ==
  ASSUME NEW x, x.notify = NoOne, NEW r \in Request
  PROVE  x \notin Token(r)
BY DEF Token, NoOne, Request

LEMMA NoTokenForChild ==
  ASSUME TypeInv, NEW m \in Descendant, NEW x \in Message,
         x.notify = m.notify, Len(x.path) > Len(m.path), NEW r \in Request
  PROVE  x \notin Token(r)
<1> SUFFICES ASSUME x \in Token(r) PROVE FALSE
  OBVIOUS
<1>1. m \in Message /\ m.notify = r /\ m.notify # NoOne /\ x.path = request[r].path
  BY DEF Token, Descendant, NoOne, Request
<1>2. Len(m.path) >= Len(request[r].path)
  BY <1>1 DEF Descendant
<1>3. Len(m.path) \in Nat /\ Len(x.path) \in Nat
  BY <1>1 DEF Message, PathString
<1> QED
  BY <1>1, <1>2, <1>3

LEMMA SameToken ==
  ASSUME NEW m \in Message, NEW x, x.notify = m.notify, x.path = m.path,
         NEW r \in Request, x \in Token(r)
  PROVE  m \in Token(r)
BY DEF Token

LEMMA IdleHasNoToken ==
  /\ Idle.msg.notify = NoOne
  /\ Idle.msg \in Descendant
  /\ \A r \in Request : Idle.msg \notin Token(r)
<1>1. Idle.msg = NoMessage /\ NoMessage.notify = NoOne
  BY DEF Idle, Handling, NoMessage, Msg
<1> QED
  BY <1>1, RootMessageTypes, NoTokenForNoOne DEF Descendant

(* A handler completes only the promise of the token it holds, and that is *)
(* still open.                                                             *)
LEMMA NotifyCompletesOpen ==
  ASSUME TypeInv, PromiseInv, NEW result \in {"succeeded", "failed"},
         Notify(handler.msg.notify, handler.msg.path, result)
  PROVE  \A r \in Request :
           \/ promise'[r] = promise[r]
           \/ /\ handler.msg \in Token(r) /\ request[r].at = "returned"
              /\ promise[r] = "open" /\ promise'[r] = result
<1> DEFINE n == handler.msg.notify
<1>1. handler.msg \in Message /\ handler.msg \in Descendant /\ n \in Notifyable
  BY DEF TypeInv, TypeOK, ActorTypeOK, PromiseInv, Message
<1>2. promise \in [Request -> PromiseState]
  BY DEF TypeInv, TypeOK, CallsTypeOK
<1>3. CASE Notifies(n, handler.msg.path) /\ request[n].attached
  <2>1. n \in Request /\ handler.msg \in Token(n) /\ request[n].at = "returned"
    BY <1>1, <1>3 DEF Notifies, Token, Descendant, Notifyable
  <2>2. promise[n] = "open"
    BY <1>3, <2>1 DEF PromiseInv, Has
  <2>3. promise' = [promise EXCEPT ![n] = result]
    BY <1>2, <1>3, <2>1, <2>2 DEF Notify, Complete
  <2> QED
    BY <1>2, <2>1, <2>2, <2>3
<1>4. CASE ~(Notifies(n, handler.msg.path) /\ request[n].attached)
  BY <1>4 DEF Notify
<1> QED
  BY <1>3, <1>4

-----------------------------------------------------------------------------
(* The steps *)

(* What remains to show of a step of the actor or the watcher: for every   *)
(* call there is still at most one token, a new one only for an old one,   *)
(* and a promise is completed only with its last token.                    *)
StepKeepsTokens ==
  /\ mailbox' \in Seq(Descendant) /\ handler'.msg \in Descendant
  /\ \A r \in Request :
       /\ One(mailbox', handler'.msg, Token(r))
       /\ Has(mailbox', handler'.msg, Token(r)) => Has(mailbox, handler.msg, Token(r))
       /\ \/ promise'[r] = promise[r]
          \/ /\ request[r].at = "returned" /\ promise'[r] \in {"succeeded", "failed"}
             /\ ~Has(mailbox', handler'.msg, Token(r))

LEMMA KeptTokensSuffice ==
  ASSUME PromiseInv, request' = request, StepKeepsTokens
  PROVE  PromiseInv'
<1>1. Descendant' = Descendant /\ \A r : Token(r)' = Token(r)
  BY DEF Descendant, Token
<1>2. \A r \in Request : SentWithoutPromise(r)'
  BY DEF PromiseInv, SentWithoutPromise
<1>3. \A r \in Request :
        /\ One(mailbox', handler'.msg, Token(r)')
        /\ request'[r].at # "returned" => promise'[r] = "open"
        /\ /\ request'[r].at = "returned" /\ request'[r].attached
           /\ Has(mailbox', handler'.msg, Token(r)')
           => promise'[r] = "open"
        /\ promise'[r] # "double"
  BY <1>1 DEF PromiseInv, StepKeepsTokens, PromiseCompletedOnce
<1> QED
  BY <1>1, <1>2, <1>3 DEF PromiseInv, StepKeepsTokens, PromiseCompletedOnce

(* Send appends, or does nothing after the shutdown. *)
LEMMA SendAppends ==
  ASSUME NEW M, mailbox \in Seq(M), NEW ms \in Seq(M), Send(ms)
  PROVE  \E sent \in {ms, << >>} : sent \in Seq(M) /\ mailbox' = mailbox \o sent
BY DEF Send

LEMMA PromiseActorStep == TypeInv /\ PromiseInv /\ ActorStep => PromiseInv'
<1> SUFFICES ASSUME TypeInv, PromiseInv, ActorStep PROVE PromiseInv'
  OBVIOUS
<1>0. request' = request
  BY DEF ActorStep, callVars,
     HandleWatchUnderPath, HandleRemovePath, HandleShutdown, HandleUpdate, FinishUpdate,
     HandleAdd, ListChildren, StoreEntry, FailAdd, HandleRemove, Evict, HandleSetWatcher,
     HandleUnwatch, WatchExists, WatchChildren, WatchData, RecordWatch, WatchMissing
<1> SUFFICES StepKeepsTokens
  BY <1>0, KeptTokensSuffice
<1> DEFINE h == handler.msg
<1>1. /\ mailbox \in Seq(Descendant) /\ h \in Descendant /\ h \in Message
      /\ h.path \in PathString /\ h.notify \in Notifyable
      /\ h.data \in Nat /\ h.recursive \in BOOLEAN /\ handler.listed \in SUBSET Name
      /\ \A r \in Request : One(mailbox, h, Token(r))
  BY DEF PromiseInv, TypeInv, TypeOK, ActorTypeOK, Message
<1>2. << >> \in Seq(Descendant) /\ \A m \in Descendant : <<m>> \in Seq(Descendant)
  OBVIOUS
(* A handler that has just taken the first message, or ends with it. *)
<1>a. ASSUME NEW type, Received(type), Consume(<< >>),
             \/ handler' = Idle
             \/ /\ handler'.msg \in Message
                /\ handler'.msg.notify = Head(mailbox).notify
                /\ handler'.msg.path = Head(mailbox).path,
             promise' = promise
      PROVE  StepKeepsTokens
  <2>1. /\ mailbox # << >> /\ handler = Idle /\ Head(mailbox) \in Descendant
        /\ Head(mailbox) \in Message /\ mailbox' = Tail(mailbox) \o << >>
    BY <1>a, <1>1 DEF Received, Consume, Descendant
  <2>2. mailbox' \in Seq(Descendant)
    BY <1>1, <1>2, <2>1, MailboxOf, <1>a
  <2>3. handler'.msg \in Descendant
    <3>1. CASE handler' = Idle
      BY <3>1, IdleHasNoToken
    <3>2. CASE handler'.msg \in Message /\ handler'.msg.notify = Head(mailbox).notify
                 /\ handler'.msg.path = Head(mailbox).path
      <4>1. Len(Head(mailbox).path) \in Nat
        BY <2>1 DEF Message, PathString
      <4> QED
        BY <2>1, <3>2, <4>1, DescendantMessages
    <3> QED
      BY <1>a, <3>1, <3>2
  <2>4. ASSUME NEW r \in Request
        PROVE  /\ One(mailbox', handler'.msg, Token(r))
               /\ Has(mailbox', handler'.msg, Token(r)) => Has(mailbox, h, Token(r))
    <3>1. handler'.msg \in Token(r) => Head(mailbox) \in Token(r)
      BY <1>a, <2>1, IdleHasNoToken, SameToken
    <3>2. h \notin Token(r) /\ NoneOf(<< >>, Token(r))
      BY <2>1, IdleHasNoToken DEF NoneOf
    <3> QED
      BY <1>1, <1>2, <2>1, <3>1, <3>2, TokenTaken
  <2> QED
    BY <1>a, <2>2, <2>3, <2>4 DEF StepKeepsTokens
(* A handler that goes on with its message, or ends, and sends nothing but *)
(* messages without a token.                                               *)
<1>b. ASSUME NEW ms \in Seq(Descendant), Send(ms) \/ mailbox' = mailbox,
             \A r \in Request : NoneOf(ms, Token(r)),
             handler' = Idle \/ handler'.msg = h,
             \A r \in Request :
               \/ promise'[r] = promise[r]
               \/ /\ h \in Token(r) /\ request[r].at = "returned" /\ handler' = Idle
                  /\ promise'[r] \in {"succeeded", "failed"}
      PROVE  StepKeepsTokens
  <2>1. PICK sent \in {ms, << >>} : sent \in Seq(Descendant) /\ mailbox' = mailbox \o sent
    <3>1. CASE Send(ms)
      BY <3>1, <1>1, SendAppends
    <3>2. CASE mailbox' = mailbox
      BY <3>2, <1>1, <1>2
    <3> QED
      BY <1>b, <3>1, <3>2
  <2>2. mailbox' \in Seq(Descendant) /\ handler'.msg \in Descendant
    BY <1>1, <1>b, <2>1, IdleHasNoToken
  <2>3. ASSUME NEW r \in Request
        PROVE  /\ One(mailbox', handler'.msg, Token(r))
               /\ Has(mailbox', handler'.msg, Token(r)) => Has(mailbox, h, Token(r))
               /\ h \in Token(r) /\ handler' = Idle => ~Has(mailbox', handler'.msg, Token(r))
    <3>1. NoneOf(sent, Token(r))
      BY <1>b, <2>1 DEF NoneOf
    <3>2. /\ handler'.msg \in Token(r) => h \in Token(r)
          /\ handler' = Idle => handler'.msg \notin Token(r)
      BY <1>b, IdleHasNoToken
    <3> QED
      BY <1>1, <2>1, <3>1, <3>2, TokenKept
  <2> QED
    BY <1>b, <2>2, <2>3 DEF StepKeepsTokens
(* A handler of the API's messages sends its token on at once. *)
<1>c. ASSUME NEW type, Received(type), NEW m \in Message, Consume(<<m>>),
             m.notify = Head(mailbox).notify, m.path = Head(mailbox).path,
             handler' = handler, promise' = promise
      PROVE  StepKeepsTokens
  <2>1. /\ mailbox # << >> /\ handler = Idle /\ Head(mailbox) \in Descendant
        /\ Head(mailbox) \in Message /\ mailbox' = Tail(mailbox) \o <<m>>
    BY <1>c, <1>1 DEF Received, Consume, Descendant
  <2>2. m \in Descendant
    <3>1. Len(Head(mailbox).path) \in Nat
      BY <2>1 DEF Message, PathString
    <3> QED
      BY <1>c, <2>1, <3>1, DescendantMessages
  <2>3. mailbox' \in Seq(Descendant)
    BY <1>1, <1>2, <2>1, <2>2, MailboxOf, <1>c
  <2>4. ASSUME NEW r \in Request
        PROVE  /\ One(mailbox', h, Token(r))
               /\ Has(mailbox', h, Token(r)) => Has(mailbox, h, Token(r))
    <3>1. m \in Token(r) => Head(mailbox) \in Token(r)
      BY <1>c, <2>1, SameToken
    <3>2. h \notin Token(r)
      BY <2>1, IdleHasNoToken
    <3> QED
      BY <1>1, <2>1, <2>2, <3>1, <3>2, TokenRequeued
  <2> QED
    BY <1>c, <1>1, <2>3, <2>4 DEF StepKeepsTokens
<1>3. CASE HandleWatchUnderPath
  <2>1. Head(mailbox) \in Message
    BY <1>3, <1>1 DEF HandleWatchUnderPath, Received, Descendant
  <2>2. Update(Head(mailbox).path, TRUE, Head(mailbox).notify) \in Message
    BY <2>1, MessageTypes DEF Message
  <2>3. /\ Update(Head(mailbox).path, TRUE, Head(mailbox).notify).path = Head(mailbox).path
        /\ Update(Head(mailbox).path, TRUE, Head(mailbox).notify).notify = Head(mailbox).notify
    BY DEF Update, Msg
  <2> QED
    BY <1>3, <1>c, <2>2, <2>3 DEF HandleWatchUnderPath, callVars
<1>4. CASE HandleRemovePath
  <2>1. Head(mailbox) \in Message
    BY <1>4, <1>1 DEF HandleRemovePath, Received, Descendant
  <2>2. Remove(Head(mailbox).path, Head(mailbox).notify) \in Message
    BY <2>1, MessageTypes DEF Message
  <2>3. /\ Remove(Head(mailbox).path, Head(mailbox).notify).path = Head(mailbox).path
        /\ Remove(Head(mailbox).path, Head(mailbox).notify).notify = Head(mailbox).notify
    BY DEF Remove, Msg
  <2> QED
    BY <1>4, <1>c, <2>2, <2>3 DEF HandleRemovePath, callVars
<1>5. CASE HandleShutdown
  <2>1. mailbox' = << >> /\ handler' = Idle /\ promise' = promise
    BY <1>5 DEF HandleShutdown, Received, callVars
  <2>2. \A r \in Request : Idle.msg \notin Token(r) /\ NoneOf(mailbox', Token(r))
    BY <2>1, IdleHasNoToken DEF NoneOf
  <2> QED
    BY <1>2, <2>1, <2>2, IdleHasNoToken, NoneIsAtMostOne DEF StepKeepsTokens, One, Has
<1>6. CASE HandleUpdate
  <2>1. Head(mailbox) \in Message /\ handler'.msg \in Message
    BY <1>6, <1>1, ActorStepType DEF HandleUpdate, Received, Descendant, TypeInv, TypeOK, ActorTypeOK
  <2>2. \/ handler' = Idle
        \/ handler'.msg.notify = Head(mailbox).notify /\ handler'.msg.path = Head(mailbox).path
    BY <1>6, <2>1 DEF HandleUpdate, Done, Handling, Message
  <2> QED
    BY <1>6, <1>a, <2>1, <2>2 DEF HandleUpdate, callVars
<1>7. CASE FinishUpdate
  <2> DEFINE add == Add(h.path, h.data, h.recursive, h.notify)
             set == SetWatcher(h.path, h.notify)
  <2>1. /\ add \in Message /\ add.path = h.path /\ add.notify = h.notify
        /\ set \in Message /\ set.path = h.path /\ set.notify = h.notify
    BY <1>1, MessageTypes DEF Add, SetWatcher, Msg
  <2> HIDE DEF add, set
  <2>2. add \in Descendant /\ set \in Descendant
    <3>1. Len(h.path) \in Nat
      BY <1>1 DEF PathString
    <3> QED
      BY <1>1, <2>1, <3>1, DescendantMessages
  <2>3. PICK m \in {add, set} : Send(<<m>>)
    BY <1>7 DEF FinishUpdate, add, set
  <2>4. handler' = Idle /\ promise' = promise
    BY <1>7 DEF FinishUpdate, Done, callVars
  <2>5. CASE mailbox' = mailbox
    <3>1. \A r \in Request : NoneOf(<< >>, Token(r))
      BY DEF NoneOf
    <3> QED
      BY <1>2, <1>b, <2>4, <2>5, <3>1
  <2>6. CASE mailbox' = mailbox \o <<m>>
    <3>1. \A r \in Request : m \in Token(r) => h \in Token(r)
      BY <1>1, <2>1, <2>3, SameToken
    <3>2. \A r \in Request : /\ One(mailbox', Idle.msg, Token(r))
                             /\ Has(mailbox', Idle.msg, Token(r)) => Has(mailbox, h, Token(r))
      BY <1>1, <2>2, <2>3, <2>6, <3>1, IdleHasNoToken, TokenPassed
    <3>3. mailbox' \in Seq(Descendant)
      BY <1>1, <1>2, <2>2, <2>3, <2>6
    <3> QED
      BY <2>4, <3>2, <3>3, IdleHasNoToken DEF StepKeepsTokens
  <2> QED
    BY <2>3, <2>5, <2>6 DEF Send
<1>w. ASSUME NEW msg \in Message, msg.type \in {"Add", "Remove", "SetWatcher"},
             handler' = AfterWatchers(msg) \/ handler' = Handling("watchExists", msg, {})
      PROVE  handler' = Idle \/ handler'.msg = msg
  BY <1>w DEF AfterWatchers, Handling
<1>8. CASE HandleAdd \/ HandleSetWatcher \/ HandleRemove
  <2>1. PICK type \in {"Add", "SetWatcher", "Remove"} : Received(type)
    BY <1>8 DEF HandleAdd, HandleSetWatcher, HandleRemove
  <2>2. Head(mailbox) \in Message /\ Head(mailbox).type = type
    BY <2>1, <1>1 DEF Received, Descendant
  <2>3. handler' = Idle \/ handler'.msg = Head(mailbox)
    <3>1. CASE HandleAdd \/ HandleSetWatcher
      BY <3>1, <1>w, <2>1, <2>2 DEF HandleAdd, HandleSetWatcher, SetWatchers
    <3>2. CASE HandleRemove
      BY <3>2 DEF HandleRemove, Handling
    <3> QED
      BY <1>8, <3>1, <3>2
  <2> QED
    BY <1>8, <1>a, <2>1, <2>2, <2>3 DEF HandleAdd, HandleSetWatcher, HandleRemove, callVars
<1>9. CASE HandleUnwatch
  BY <1>9, <1>a DEF HandleUnwatch, Received, callVars
<1>e. \A r \in Request : NoneOf(<< >>, Token(r))
  BY DEF NoneOf
<1>10. CASE ListChildren
  <2>1. handler'.msg = h
    BY <1>10 DEF ListChildren, GoTo, Handling, TypeInv, TypeOK, ActorTypeOK
  <2> QED
    BY <1>10, <1>2, <1>b, <1>e, <2>1 DEF ListChildren, callVars
<1>n. /\ <<Remove(h.path, NoOne)>> \in Seq(Descendant)
      /\ \A r \in Request : NoneOf(<<Remove(h.path, NoOne)>>, Token(r))
  <2>1. Remove(h.path, NoOne) \in Message /\ Remove(h.path, NoOne).notify = NoOne
    BY <1>1, MessageTypes DEF Notifyable, Remove, Msg
  <2>2. Remove(h.path, NoOne) \in Descendant
    BY <2>1 DEF Descendant
  <2> QED
    BY <2>1, <2>2, SingletonToken, NoTokenForNoOne
<1>s. ASSUME handler.stage \in WatchStages, Resume
      PROVE  handler' = Idle \/ handler'.msg = h
  BY <1>s, <1>w, <1>1 DEF Resume, TypeInv, HandlerOK
<1>g. ASSUME NEW stage, GoTo(stage)
      PROVE  handler'.msg = h
  BY <1>g DEF GoTo, TypeInv, TypeOK, ActorTypeOK
<1>11. CASE WatchExists \/ WatchChildren \/ WatchData
  <2>1. handler' = Idle \/ handler'.msg = h
    BY <1>11, <1>s, <1>g DEF WatchExists, WatchChildren, WatchData, At, WatchStages
  <2> QED
    BY <1>11, <1>2, <1>b, <1>e, <2>1 DEF WatchExists, WatchChildren, WatchData, callVars
<1>12. CASE RecordWatch
  <2>1. handler' = Idle \/ handler'.msg = h
    BY <1>12, <1>s DEF RecordWatch, At, WatchStages
  <2> QED
    BY <1>12, <1>2, <1>b, <1>e, <2>1 DEF RecordWatch, callVars
<1>13. CASE WatchMissing
  <2>1. handler' = Idle \/ handler'.msg = h
    BY <1>13, <1>s DEF WatchMissing, At, WatchStages
  <2> QED
    BY <1>13, <1>n, <1>b, <2>1 DEF WatchMissing, callVars
<1>14. CASE FailAdd
  <2>1. \A r \in Request :
          \/ promise'[r] = promise[r]
          \/ h \in Token(r) /\ request[r].at = "returned" /\ promise'[r] = "failed"
    BY <1>14, NotifyCompletesOpen DEF FailAdd
  <2>2. PICK ms \in {<<Remove(h.path, NoOne)>>, << >>} : Send(ms)
    BY <1>14 DEF FailAdd
  <2> QED
    BY <1>14, <1>2, <1>n, <1>e, <1>b, <2>1, <2>2 DEF FailAdd, Done
(* What is sent for the children carries no token. *)
<1>k. ASSUME NEW C \in SUBSET Name, NEW send \in [C -> Message],
             \A c \in C : send[c].notify = h.notify /\ send[c].path = ChildPath(h.path, c),
             NEW ms \in ForEachChild(send)
      PROVE  ms \in Seq(Descendant) /\ \A r \in Request : NoneOf(ms, Token(r))
  <2> DEFINE Tokenless == {m \in Descendant : \A r \in Request : m \notin Token(r)}
  <2>1. ASSUME NEW c \in C PROVE send[c] \in Tokenless
    <3>1. /\ send[c] \in Message /\ send[c].notify = h.notify
          /\ Len(send[c].path) > Len(h.path) /\ Len(h.path) \in Nat /\ Len(send[c].path) \in Nat
      BY <1>k, <1>1, ChildPathIsLonger
    <3>2. send[c] \in Descendant
      BY <1>1, <3>1, DescendantMessages
    <3>3. \A r \in Request : send[c] \notin Token(r)
      BY <1>1, <3>1, NoTokenForChild
    <3> QED
      BY <3>2, <3>3
  <2>2. ms \in Seq(Tokenless)
    <3>1. send \in [C -> Tokenless]
      BY <2>1
    <3> HIDE DEF Tokenless
    <3> QED
      BY <1>k, <3>1, ForEachChildType
  <2> QED
    BY <2>2 DEF NoneOf
<1>15. CASE StoreEntry
  <2> DEFINE update == [c \in handler.listed |-> Update(ChildPath(h.path, c), TRUE, h.notify)]
  <2>1. update \in [handler.listed -> Message]
    BY <1>1, MessageTypes, ChildPathType
  <2>2. \A c \in handler.listed : update[c].notify = h.notify /\ update[c].path = ChildPath(h.path, c)
    BY DEF Update, Msg
  <2>3. PICK updates \in ForEachChild(update) : Send(IF h.recursive THEN updates ELSE << >>)
    BY <1>15 DEF StoreEntry
  <2> HIDE DEF update
  <2>4. updates \in Seq(Descendant) /\ \A r \in Request : NoneOf(updates, Token(r))
    BY <1>1, <1>k, <2>1, <2>2
  <2>5. \A r \in Request :
          \/ promise'[r] = promise[r]
          \/ h \in Token(r) /\ request[r].at = "returned" /\ promise'[r] = "succeeded"
    BY <1>15, NotifyCompletesOpen DEF StoreEntry, SucceedNotifyable
  <2>6. PICK ms \in {updates, << >>} : Send(ms)
    BY <2>3
  <2> QED
    BY <1>15, <1>2, <1>e, <1>b, <2>4, <2>5, <2>6 DEF StoreEntry, Done
<1>16. CASE Evict
  <2> DEFINE C    == cache[h.path].children
             send == [c \in C |-> Remove(ChildPath(h.path, c), h.notify)]
  <2>1. handler' = Idle
    BY <1>16 DEF Evict, Done
  <2>2. CASE /\ Cached(h.path)
             /\ SucceedNotifyable(h.notify, h.path)
             /\ \E removes \in ForEachChild(send) : Send(removes)
    <3>1. C \in SUBSET Name
      BY <2>2 DEF Cached, TypeInv, TypeOK, ActorTypeOK, Entry
    <3>2. send \in [C -> Message]
      BY <1>1, <3>1, MessageTypes, ChildPathType
    <3>3. \A c \in C : send[c].notify = h.notify /\ send[c].path = ChildPath(h.path, c)
      BY DEF Remove, Msg
    <3>4. PICK removes \in ForEachChild(send) : Send(removes)
      BY <2>2
    <3> HIDE DEF send, C
    <3>5. removes \in Seq(Descendant) /\ \A r \in Request : NoneOf(removes, Token(r))
      BY <1>k, <3>1, <3>2, <3>3
    <3>6. \A r \in Request :
            \/ promise'[r] = promise[r]
            \/ h \in Token(r) /\ request[r].at = "returned" /\ promise'[r] = "succeeded"
      BY <2>2, NotifyCompletesOpen DEF SucceedNotifyable
    <3> QED
      BY <1>b, <2>1, <3>4, <3>5, <3>6
  <2>3. CASE UNCHANGED <<cache, promise, addedPaths, mailbox>>
    BY <1>2, <1>e, <1>b, <2>1, <2>3
  <2> QED
    BY <1>16, <2>2, <2>3 DEF Evict
<1> QED
  BY <1>3, <1>4, <1>5, <1>6, <1>7, <1>8, <1>9, <1>10, <1>11, <1>12, <1>13, <1>14, <1>15, <1>16
     DEF ActorStep

(* The watcher sends messages that notify nobody. *)
LEMMA PromiseWatcherStep == TypeInv /\ PromiseInv /\ WatcherStep => PromiseInv'
<1> SUFFICES ASSUME TypeInv, PromiseInv, WatcherStep PROVE PromiseInv'
  OBVIOUS
<1>1. UNCHANGED <<request, promise, handler>>
  BY DEF WatcherStep, ProcessEvent, SendUnwatch, SendFollowUp, callVars
<1>2. mailbox \in Seq(Descendant) /\ handler.msg \in Descendant
  BY DEF PromiseInv
<1>3. PICK ms \in Seq(Descendant) :
        /\ mailbox' = mailbox \o ms
        /\ \A r \in Request : NoneOf(ms, Token(r))
  <2>1. CASE ProcessEvent
    <3>1. mailbox' = mailbox \o << >>
      BY <2>1, <1>2 DEF ProcessEvent
    <3>2. << >> \in Seq(Descendant) /\ \A r \in Request : NoneOf(<< >>, Token(r))
      BY DEF NoneOf
    <3> QED
      BY <3>1, <3>2
  <2>2. CASE SendUnwatch \/ SendFollowUp
    <3>1. watcher # NoEvent
      BY <2>2 DEF SendUnwatch, SendFollowUp, NoEvent
    <3>2. watcher.event.path \in PathString
      BY <3>1, ZnodeIsPathString DEF TypeInv, TypeOK, ActorTypeOK, Event
    <3>3. PICK m \in {Unwatch(watcher.event.path), FollowUp(watcher.event)} : Send(<<m>>)
      BY <2>2 DEF SendUnwatch, SendFollowUp
    <3>4. m \in Message /\ m.notify = NoOne
      <4> DEFINE p == watcher.event.path
      <4>1. /\ Unwatch(p) \in Message /\ Remove(p, NoOne) \in Message
            /\ Update(p, TRUE, NoOne) \in Message /\ Update(p, FALSE, NoOne) \in Message
        BY <3>2, MessageTypes DEF Notifyable
      <4>2. m \in {Unwatch(p), Remove(p, NoOne), Update(p, TRUE, NoOne), Update(p, FALSE, NoOne)}
        BY <3>3 DEF FollowUp
      <4>3. \A x \in {Unwatch(p), Remove(p, NoOne), Update(p, TRUE, NoOne), Update(p, FALSE, NoOne)} :
              x.notify = NoOne
        BY DEF Unwatch, Remove, Update, Msg
      <4> QED
        BY <4>1, <4>2, <4>3
    <3>5. m \in Descendant
      BY <3>4 DEF Descendant
    <3>6. /\ <<m>> \in Seq(Descendant) /\ << >> \in Seq(Descendant)
          /\ \A r \in Request : NoneOf(<< >>, Token(r))
      BY <3>5 DEF NoneOf
    <3>7. \A r \in Request : NoneOf(<<m>>, Token(r))
      BY <3>4, <3>5, SingletonToken, NoTokenForNoOne
    <3> QED
      BY <1>2, <3>3, <3>6, <3>7, SendAppends
  <2> QED
    BY <2>1, <2>2 DEF WatcherStep
<1>4. mailbox' \in Seq(Descendant)
  BY <1>2, <1>3
<1>5. \A r \in Request :
        /\ One(mailbox', handler'.msg, Token(r))
        /\ Has(mailbox', handler'.msg, Token(r)) => Has(mailbox, handler.msg, Token(r))
  BY <1>1, <1>2, <1>3, TokenKept DEF PromiseInv
<1> QED
  BY <1>1, <1>2, <1>4, <1>5, KeptTokensSuffice DEF StepKeepsTokens

(* A call that is sent brings the only token of its own; the other tokens  *)
(* stay what they are, since made calls keep their paths.                  *)
LEMMA PromiseApiStep == TypeInv /\ PromiseInv /\ ApiStep => PromiseInv'
<1> SUFFICES ASSUME TypeInv, PromiseInv, ApiStep PROVE PromiseInv'
  OBVIOUS
<1>1. PICK r \in Request :
        \/ \E path \in ApiPath : CheckAdd(r, path) \/ CheckRemove(r, path)
        \/ SendAdd(r) \/ SendRemove(r)
        \/ CallStop(r) \/ StopCompletes(r) \/ StopTimesOut(r)
  BY DEF ApiStep
<1>2. /\ request \in [Request -> Call \cup {NotMade}]
      /\ promise \in [Request -> PromiseState]
      /\ mailbox \in Seq(Descendant) /\ handler.msg \in Descendant
      /\ handler' = handler
  BY <1>1 DEF PromiseInv, TypeInv, TypeOK, CallsTypeOK, CheckAdd, CheckRemove, SendAdd, SendRemove,
     CallStop, StopCompletes, StopTimesOut, actorVars
(* Before it is sent, a call has neither messages nor tokens. *)
<1>3. ASSUME request[r].at # "returned"
      PROVE  /\ promise[r] = "open"
             /\ \A m \in Descendant : m.notify # r
             /\ NoneOf(mailbox, {m \in Message : m.notify = r})
             /\ handler.msg.notify # r
  <2>1. \A m \in Descendant : m.notify # r
    BY <1>3 DEF Descendant, NoOne, Request
  <2> QED
    BY <1>2, <1>3, <2>1 DEF PromiseInv, NoneOf
<1>4. \A q \in Request \ {r} : request'[q] = request[q] /\ promise'[q] = promise[q]
  BY <1>1, <1>2 DEF CheckAdd, CheckRemove, SendAdd, SendRemove, CallStop,
     StopCompletes, StopTimesOut, Make, Return, Complete
<1>5. \A q \in Request \ {r} : Token(q)' = Token(q)
  BY <1>4 DEF Token
(* Messages stay below the calls they name. *)
<1>6. \/ request'[r] = request[r]
      \/ request[r].at # "returned"
  <2>1. CASE CallStop(r) \/ \E path \in ApiPath : CheckAdd(r, path) \/ CheckRemove(r, path)
    <3>1. request[r] = NotMade
      BY <2>1 DEF CheckAdd, CheckRemove, CallStop, Begin
    <3> QED
      BY <3>1 DEF NotMade
  <2>2. CASE SendAdd(r) \/ SendRemove(r)
    BY <2>2 DEF SendAdd, SendRemove, IsPending
  <2>3. CASE StopCompletes(r) \/ StopTimesOut(r)
    BY <2>3 DEF StopCompletes, StopTimesOut
  <2> QED
    BY <1>1, <2>1, <2>2, <2>3
<1>7. Descendant \subseteq Descendant'
  <2> SUFFICES ASSUME NEW m \in Descendant PROVE m \in Descendant'
    OBVIOUS
  <2>1. CASE m.notify = NoOne
    BY <2>1 DEF Descendant
  <2>2. CASE m.notify # NoOne
    <3>1. m.notify \in Request /\ m \in Message /\ request'[m.notify] = request[m.notify]
      BY <2>2, <1>3, <1>4, <1>6 DEF Descendant, Message, Notifyable
    <3> QED
      BY <2>2, <3>1 DEF Descendant
  <2> QED
    BY <2>1, <2>2
<1> DEFINE KeepsTokens(q) ==
      /\ One(mailbox', handler.msg, Token(q)')
      /\ request'[q].at # "returned" => promise'[q] = "open"
      /\ request'[q].at = "returned" /\ request'[q].attached /\ Has(mailbox', handler.msg, Token(q)')
           => promise'[q] = "open"
      /\ promise'[q] # "double"
      /\ SentWithoutPromise(q)'
<1>s. \A q \in Request \ {r} : SentWithoutPromise(q)'
  BY <1>4 DEF PromiseInv, SentWithoutPromise
<1>8. SUFFICES mailbox' \in Seq(Descendant') /\ \A q \in Request : KeepsTokens(q)
  BY <1>2, <1>7 DEF PromiseInv, PromiseCompletedOnce
<1>9. ASSUME NEW path \in ApiPath, CheckAdd(r, path) \/ CheckRemove(r, path)
      PROVE  mailbox' \in Seq(Descendant') /\ \A q \in Request : KeepsTokens(q)
  <2>1. mailbox' = mailbox /\ request[r] = NotMade
    BY <1>9 DEF CheckAdd, CheckRemove, actorVars, Begin
  <2>2. mailbox' \in Seq(Descendant')
    BY <1>2, <1>7, <2>1, SeqMonotonic
  <2>3. \A q \in Request \ {r} : KeepsTokens(q)
    BY <1>4, <1>5, <1>s, <2>1 DEF PromiseInv, PromiseCompletedOnce
  <2>4. KeepsTokens(r)
    <3>1. promise[r] = "open" /\ NoneOf(mailbox, Token(r)') /\ handler.msg \notin Token(r)'
      BY <1>3, <2>1 DEF NotMade, Token, NoneOf
    <3>2. One(mailbox, handler.msg, Token(r)') /\ ~Has(mailbox, handler.msg, Token(r)')
      BY <3>1, NoneIsAtMostOne DEF One, Has
    <3>3. /\ promise'[r] # "double"
          /\ request'[r].at # "returned" => promise'[r] = "open"
      BY <1>2, <1>9, <3>1 DEF CheckAdd, CheckRemove, Make, Complete
    <3>4. request'[r].op \in {"addPathToCache", "removePathFromCache"}
      BY <1>2, <1>9 DEF CheckAdd, CheckRemove, Make
    <3> QED
      BY <2>1, <3>2, <3>3, <3>4 DEF SentWithoutPromise
  <2> QED
    BY <2>2, <2>3, <2>4
<1>10. CASE SendAdd(r) \/ SendRemove(r)
  <2>1. /\ request[r] \in Call /\ request[r].at = "checked"
        /\ request'[r] = [request[r] EXCEPT !.at = "returned"]
    BY <1>2, <1>10 DEF SendAdd, SendRemove, IsPending, Return
  <2>2. /\ request'[r] \in Call /\ request'[r].at = "returned"
        /\ request'[r].path = request[r].path /\ request'[r].attached = request[r].attached
        /\ request'[r].op # "stop"
    BY <1>10, <2>1 DEF Call, SendAdd, SendRemove, IsPending
  <2>3. PICK type \in MessageType : Send(<<Msg(type, request[r].path, r)>>)
    BY <1>10 DEF SendAdd, SendRemove, MessageType
  <2> DEFINE m == Msg(type, request[r].path, r)
  <2>4. m \in Message /\ m.notify = r /\ m.path = request[r].path
    <3>1. request[r].path \in PathString /\ r \in Notifyable
      <4>1. request[r].path \in Seq(Name)
        BY <2>1 DEF Call
      <4> QED
        BY <4>1 DEF PathString, Notifyable
    <3> QED
      BY <3>1, MessageTypes DEF Msg
  <2> HIDE DEF m
  <2>5. m \in Descendant'
    <3>1. Len(m.path) >= Len(request'[r].path)
      BY <2>1, <2>2, <2>4 DEF Call
    <3> QED
      BY <2>2, <2>4, <3>1 DEF Descendant
  <2>6. mailbox \in Seq(Descendant')
    BY <1>2, <1>7, SeqMonotonic
  <2>7. PICK ms \in {<<m>>, << >>} : ms \in Seq(Descendant') /\ mailbox' = mailbox \o ms
    <3>1. <<m>> \in Seq(Descendant')
      BY <2>5
    <3> QED
      BY <2>3, <2>6, <3>1, SendAppends DEF m
  <2>8. mailbox' \in Seq(Descendant')
    BY <2>6, <2>7
  <2>9. ASSUME NEW q \in Request \ {r} PROVE KeepsTokens(q)
    <3>1. m \notin Token(q)' /\ NoneOf(ms, Token(q)')
      BY <2>4, <2>7, SingletonToken DEF Token, NoneOf
    <3>2. One(mailbox, handler.msg, Token(q)')
      BY <1>5 DEF PromiseInv
    <3>3. /\ One(mailbox', handler.msg, Token(q)')
          /\ Has(mailbox', handler.msg, Token(q)') => Has(mailbox, handler.msg, Token(q)')
      BY <2>6, <2>7, <3>1, <3>2, TokenKept
    <3> QED
      BY <1>4, <1>5, <1>s, <3>3 DEF PromiseInv, PromiseCompletedOnce
  <2>10. KeepsTokens(r)
    <3>1. promise[r] = "open" /\ NoneOf(mailbox, Token(r)') /\ handler.msg \notin Token(r)'
      BY <1>3, <2>1 DEF Token, NoneOf
    <3>2. AtMostOne(ms, Token(r)')
      BY <2>5, <2>7, SingletonToken DEF AtMostOne
    <3>3. One(mailbox', handler.msg, Token(r)')
      BY <2>6, <2>7, <3>1, <3>2, AtMostOneConcat, NoneIsAtMostOne DEF One
    <3>4. /\ promise'[r] # "double"
          /\ request'[r].attached => promise'[r] = "open"
      BY <1>2, <1>10, <2>2, <3>1 DEF SendAdd, SendRemove, Complete
    <3> QED
      BY <2>2, <3>3, <3>4 DEF SentWithoutPromise
  <2> QED
    BY <2>8, <2>9, <2>10
<1>11. CASE CallStop(r)
  <2>1. request[r] = NotMade /\ promise' = promise /\ Send(<<Shutdown>>)
    BY <1>11 DEF CallStop, Begin
  <2>2. request'[r].attached = FALSE /\ request'[r].at = "returned"
    BY <1>2, <1>11 DEF CallStop, Make
  <2>3. Shutdown \in Message /\ Shutdown.notify = NoOne
    BY RootMessageTypes DEF Shutdown, Msg
  <2>4. <<Shutdown>> \in Seq(Descendant) /\ << >> \in Seq(Descendant)
    BY <2>3 DEF Descendant
  <2>5. \A T \in {Token(q)' : q \in Request} : NoneOf(<<Shutdown>>, T) /\ NoneOf(<< >>, T)
    BY <2>3 DEF Token, NoneOf, NoOne, Request
  <2>6. PICK ms \in {<<Shutdown>>, << >>} : ms \in Seq(Descendant) /\ mailbox' = mailbox \o ms
    BY <1>2, <2>1, <2>4, SendAppends
  <2>7. mailbox' \in Seq(Descendant')
    <3>1. mailbox' \in Seq(Descendant)
      BY <1>2, <2>6
    <3> QED
      BY <1>7, <3>1, SeqMonotonic
  <2>8. ASSUME NEW q \in Request, One(mailbox, handler.msg, Token(q)')
        PROVE  /\ One(mailbox', handler.msg, Token(q)')
               /\ Has(mailbox', handler.msg, Token(q)') => Has(mailbox, handler.msg, Token(q)')
    <3>1. NoneOf(ms, Token(q)')
      BY <2>5, <2>6
    <3> QED
      BY <1>2, <2>6, <2>8, <3>1, TokenKept
  <2>9. \A q \in Request \ {r} : KeepsTokens(q)
    BY <1>4, <1>5, <1>s, <2>8 DEF PromiseInv, PromiseCompletedOnce
  <2>10. KeepsTokens(r)
    <3>1. promise[r] = "open" /\ NoneOf(mailbox, Token(r)') /\ handler.msg \notin Token(r)'
      BY <1>3, <2>1 DEF NotMade, Token, NoneOf
    <3>2. One(mailbox, handler.msg, Token(r)')
      BY <3>1, NoneIsAtMostOne DEF One
    <3> QED
      BY <2>1, <2>2, <2>8, <3>1, <3>2 DEF Has, SentWithoutPromise
  <2> QED
    BY <2>7, <2>9, <2>10
<1>12. CASE StopCompletes(r) \/ StopTimesOut(r)
  <2>1. UNCHANGED <<request, mailbox>> /\ request[r] # NotMade /\ request[r].op = "stop"
    BY <1>12 DEF StopCompletes, StopTimesOut, IsOpenStop, actorVars
  <2>2. request[r].at = "returned" /\ request[r].attached = FALSE
    BY <2>1 DEF PromiseInv, SentWithoutPromise
  <2>3. promise[r] = "open" /\ promise'[r] \in {"succeeded", "failed"}
    BY <1>2, <1>12 DEF StopCompletes, StopTimesOut, IsOpenStop, Complete
  <2>4. \A q \in Request : Token(q)' = Token(q) /\ One(mailbox', handler.msg, Token(q)')
    BY <2>1 DEF Token, PromiseInv
  <2>5. mailbox' \in Seq(Descendant')
    BY <1>2, <1>7, <2>1, SeqMonotonic
  <2>6. \A q \in Request \ {r} : KeepsTokens(q)
    BY <1>4, <1>s, <2>1, <2>4 DEF PromiseInv, PromiseCompletedOnce
  <2>7. KeepsTokens(r)
    BY <2>1, <2>2, <2>3, <2>4 DEF SentWithoutPromise
  <2> QED
    BY <2>5, <2>6, <2>7
<1> QED
  BY <1>1, <1>9, <1>10, <1>11, <1>12

(* At first there is no call, hence no token. *)
LEMMA PromiseInvInit == Init => PromiseInv
<1> SUFFICES ASSUME Init PROVE PromiseInv
  OBVIOUS
<1>1. /\ mailbox = << >> /\ handler = Idle
      /\ request = [r \in Request |-> NotMade]
      /\ promise = [r \in Request |-> "open"]
  BY DEF Init, ActorInit, CallsInit
<1>2. \A r \in Request : One(mailbox, handler.msg, Token(r))
  BY <1>1, IdleHasNoToken DEF One, AtMostOne
<1>3. mailbox \in Seq(Descendant) /\ handler.msg \in Descendant
  BY <1>1, IdleHasNoToken
<1>4. \A r \in Request : SentWithoutPromise(r) /\ promise[r] = "open"
  <2>1. \A r \in Request : request[r].at # "returned" /\ request[r] = NotMade
    BY <1>1 DEF NotMade
  <2> QED
    BY <1>1, <2>1 DEF SentWithoutPromise
<1> QED
  BY <1>2, <1>3, <1>4 DEF PromiseInv, PromiseCompletedOnce

LEMMA PromiseInvStep == TypeInv /\ PromiseInv /\ [Next]_vars => PromiseInv'
<1> SUFFICES ASSUME TypeInv, PromiseInv, [Next]_vars PROVE PromiseInv'
  OBVIOUS
<1>1. CASE ActorStep
  BY <1>1, PromiseActorStep
<1>2. CASE WatcherStep
  BY <1>2, PromiseWatcherStep
<1>3. CASE ApiStep
  BY <1>3, PromiseApiStep
<1>4. CASE WriterStep \/ SessionStep \/ UNCHANGED vars
  <2>1. UNCHANGED <<mailbox, handler, request, promise>>
    BY <1>4 DEF WriterStep, SessionStep, LoseConnection, FindConnection, vars, actorVars, callVars
  <2>2. StepKeepsTokens
    BY <2>1 DEF StepKeepsTokens, PromiseInv
  <2> QED
    BY <2>1, <2>2, KeptTokensSuffice
<1> QED
  BY <1>1, <1>2, <1>3, <1>4 DEF Next

(***************************************************************************)
(* No caller's promise is completed a second time, however many calls are  *)
(* under way and however large the subtree to which MessageNotifyable is   *)
(* handed down by Add and Remove: so notif.success(path) never throws.     *)
(***************************************************************************)
THEOREM PromiseOnce == Spec => []PromiseCompletedOnce
<1>1. Init => TypeInv /\ PromiseInv
  BY TypeInvInit, PromiseInvInit
<1>2. (TypeInv /\ PromiseInv) /\ [Next]_vars => (TypeInv /\ PromiseInv)'
  BY TypeInvStep, PromiseInvStep
<1>3. TypeInv /\ PromiseInv => PromiseCompletedOnce
  BY DEF PromiseInv
<1> QED
  BY <1>1, <1>2, <1>3, PTL DEF Spec
=============================================================================
