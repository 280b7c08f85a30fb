----------------------- MODULE ScakkaZooCacheJavaImpl -----------------------
(***************************************************************************)
(* The Java API: threads that make the calls of the cache and wait for     *)
(* their futures.  A thread that waits in get() is seen by nobody, and one *)
(* that gives up, after 30 minutes or the given time, leaves everything as *)
(* it was and can call get() again; so only the get() that returns is a    *)
(* step.  isDone looks at the promise; cancel and isCancelled are not      *)
(* supported.                                                              *)
(***************************************************************************)
EXTENDS ScakkaZooCache

CONSTANT
  MaxJavaCalls   \* bound: the number of calls of Java threads

ASSUME JavaCallsAssumption == MaxJavaCalls \in Nat

VARIABLE
  futures        \* what the caller of a Java call does with its future

FutureUse == {"notJava", "held", "obtained"}

JavaTypeOK == futures \in [Request -> FutureUse]
JavaInit   == futures = [r \in Request |-> "notJava"]

-----------------------------------------------------------------------------
IsJava(r) == futures[r] # "notJava"
Use(r, use) == futures' = [futures EXCEPT ![r] = use]

JavaCall(r) ==
  /\ Cardinality({q \in Request : IsJava(q)}) < MaxJavaCalls
  /\ \/ \E path \in ApiPath : CheckAdd(r, path) \/ CheckRemove(r, path)
     \/ CallStop(r)
  /\ Use(r, "held")

JavaSend(r) ==
  /\ IsJava(r)
  /\ SendAdd(r) \/ SendRemove(r)
  /\ UNCHANGED futures

(* Await.result(x, ...) returns or throws what the promise was given. *)
Get(r) ==
  /\ futures[r] = "held"
  /\ request[r].at = "returned" /\ promise[r] # "open"
  /\ Use(r, "obtained")
  /\ UNCHANGED vars

JavaStep == \E r \in Request : JavaCall(r) \/ JavaSend(r) \/ Get(r)
=============================================================================
