--------------------------- MODULE CacheContract ----------------------------
(***************************************************************************)
(* What the cache promises to its callers, without messages, watches and   *)
(* handlers: a map of entries that are served, and calls with outcomes.    *)
(* It is promised                                                          *)
(*   - which paths are served: those at or under a path of an add call;    *)
(*   - which data: that of some write, never older than what is served;    *)
(*   - what an outcome means: see Accept, Store, Evict and Confirm;        *)
(*   - that stop is final.                                                 *)
(* It is not promised that the data is the latest, that an entry is stored *)
(* or evicted at all, or that a call is answered: these are the subject of *)
(* other properties, or of findings.                                       *)
(***************************************************************************)
EXTENDS Integers, Sequences, Functions
SeqExt == INSTANCE SequencesExt

CONSTANTS
  ChildName,   \* the names of children
  CallNumber,  \* the numbers of calls
  CallPath     \* the paths that callers name

VARIABLES
  served,      \* the entries, by path
  open,        \* the cache has not been stopped
  clock,       \* the number of the last write of all
  calls,       \* what each call asks for, and whether its path was served then
  outcome      \* the outcome of each call

contractVars == <<served, open, clock, calls, outcome>>

Unmade == [op |-> "none", path |-> << >>, served |-> FALSE]

ContractInit ==
  /\ served = << >>
  /\ open = TRUE
  /\ clock = 1
  /\ calls = [r \in CallNumber |-> Unmade]
  /\ outcome = [r \in CallNumber |-> "open"]

-----------------------------------------------------------------------------
IsServed(p) == p \in DOMAIN served

(* Call r is answered; nobody is. *)
IsOpen(r, op)     == calls[r].op = op /\ outcome[r] = "open"
Answer(r, result) == outcome' = [outcome EXCEPT ![r] = result]
AnswerNobody      == UNCHANGED outcome

(* Only a call that found its path served waits for what happens to it. *)
WaitsFor(r, op, p) == IsOpen(r, op) /\ calls[r].path = p /\ calls[r].served

UnderAdded(p) == \E r \in CallNumber : calls[r].op = "addPathToCache" /\ SeqExt!IsPrefix(calls[r].path, p)

(* To remove a path that is not served is a success at once. *)
Make(r, op, p) ==
  /\ calls[r] = Unmade
  /\ calls' = [calls EXCEPT ![r] = [op |-> op, path |-> p, served |-> op # "stop" /\ IsServed(p)]]
  /\ IF op = "removePathFromCache" /\ ~IsServed(p) THEN Answer(r, "succeeded") ELSE AnswerNobody
  /\ UNCHANGED <<served, open, clock>>

(* To add a path that was not served is a success that promises nothing. *)
Accept(r) ==
  /\ IsOpen(r, "addPathToCache") /\ ~calls[r].served
  /\ Answer(r, "succeeded")
  /\ UNCHANGED <<served, open, clock, calls>>

(* Otherwise success means: the entry was stored just now. *)
Store(p, data, children) ==
  /\ open
  /\ UnderAdded(p)
  /\ IsServed(p) => data >= served[p].data
  /\ served' = [q \in DOMAIN served \cup {p} |->
                  IF q = p THEN [data |-> data, children |-> children] ELSE served[q]]
  /\ \/ AnswerNobody
     \/ \E r \in CallNumber : WaitsFor(r, "addPathToCache", p) /\ Answer(r, "succeeded")
  /\ UNCHANGED <<open, clock, calls>>

(* The success of a removal means: the entry was evicted just now. *)
Evict(p) ==
  /\ open
  /\ IsServed(p)
  /\ served' = Restrict(served, DOMAIN served \ {p})
  /\ \/ AnswerNobody
     \/ \E r \in CallNumber : WaitsFor(r, "removePathFromCache", p) /\ Answer(r, "succeeded")
  /\ UNCHANGED <<open, clock, calls>>

(* An add can fail and a stop can time out, but a removal never fails. *)
Fail(r) ==
  /\ \/ IsOpen(r, "addPathToCache") /\ calls[r].served
     \/ IsOpen(r, "stop")
  /\ Answer(r, "failed")
  /\ UNCHANGED <<served, open, clock, calls>>

Close ==
  /\ open
  /\ open' = FALSE
  /\ served' = << >>
  /\ UNCHANGED <<clock, calls, outcome>>

Confirm(r) ==
  /\ IsOpen(r, "stop") /\ ~open
  /\ Answer(r, "succeeded")
  /\ UNCHANGED <<served, open, clock, calls>>

(* Somebody writes to ZooKeeper. *)
Tick ==
  /\ clock' = clock + 1
  /\ UNCHANGED <<served, open, calls, outcome>>

ContractNext ==
  \/ \E r \in CallNumber :
       \/ \E p \in CallPath : Make(r, "addPathToCache", p) \/ Make(r, "removePathFromCache", p)
       \/ Make(r, "stop", << >>)
       \/ Accept(r) \/ Fail(r) \/ Confirm(r)
  \/ \E p \in DOMAIN served' : \E data \in 1 .. clock, children \in SUBSET ChildName :
       Store(p, data, children)
  \/ \E p \in DOMAIN served : Evict(p)
  \/ Close
  \/ Tick

ContractSpec == ContractInit /\ [][ContractNext]_contractVars
=============================================================================
