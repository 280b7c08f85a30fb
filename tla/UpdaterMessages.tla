--------------------------- MODULE UpdaterMessages --------------------------
(***************************************************************************)
(* The messages of the updater actor, the calls of the cache API that some *)
(* of them stand for, and the promises these calls answer with.            *)
(*                                                                         *)
(* A message names the call it notifies by number; the message classes     *)
(* ScakkaApiWatchUnderPath and ScakkaApiRemovePath hold the path and the   *)
(* promise of the call, which are looked up in `request' and `promise'.    *)
(***************************************************************************)
EXTENDS ZooKeeper

CONSTANTS
  MaxCalls,    \* bound: the number of calls of the API
  MayCall,     \* which operations each of the calls can be
  ApiPath      \* the paths that callers name

Request == 1 .. MaxCalls
Op      == {"addPathToCache", "removePathFromCache", "stop"}

ASSUME CallsAssumption ==
  /\ MaxCalls \in Nat
  /\ MayCall \in [Request -> SUBSET Op]
  /\ ApiPath \in SUBSET Znode

VARIABLES
  request,     \* what each call is and how far its caller has come
  promise      \* the promise of each call

callVars == <<request, promise>>

(* Notifyable option: None, or the call to notify. *)
NoOne      == 0
Notifyable == {NoOne} \cup Request

(* "checked" is between the cache.get(path) of a call and its send. *)
Call    == [op : Op, path : Seq(Name), at : {"checked", "returned"}, attached : BOOLEAN]
NotMade == [at |-> "unused"]

PromiseState == {"open", "succeeded", "failed", "double"}

MessageType == {"ScakkaApiWatchUnderPath", "ScakkaApiRemovePath", "ScakkaApiShutdown",
                "Add", "Update", "SetWatcher", "Remove", "Unwatch", "None"}
Message == [type : MessageType, path : PathString, data : Nat,
            recursive : BOOLEAN, notify : Notifyable]

CallsTypeOK ==
  /\ request \in [Request -> Call \cup {NotMade}]
  /\ promise \in [Request -> PromiseState]

CallsInit ==
  /\ request = [r \in Request |-> NotMade]
  /\ promise = [r \in Request |-> "open"]

-----------------------------------------------------------------------------
Msg(type, path, notify) ==
  [type |-> type, path |-> path, data |-> 0, recursive |-> FALSE, notify |-> notify]

NoMessage == Msg("None", Root, NoOne)
Shutdown  == Msg("ScakkaApiShutdown", Root, NoOne)

Remove(path, notify)     == Msg("Remove", path, notify)

(* Mutant: a missing node is polled instead of watched. *)
PollInstead(path, notify) == Msg("Update", path, notify)
SetWatcher(path, notify) == Msg("SetWatcher", path, notify)
Unwatch(path)            == Msg("Unwatch", path, NoOne)
Update(path, recursive, notify) ==
  [Msg("Update", path, notify) EXCEPT !.recursive = recursive]

Add(path, data, recursive, notify) ==
  [Msg("Add", path, notify) EXCEPT !.data = data, !.recursive = recursive]

-----------------------------------------------------------------------------
(* notif.success(path) and notif.failure(path, error) act, and return true, *)
(* only for the path that the call itself named.                            *)
(* Mutant: it acts for every path that it is asked about. *)
NotifiesAnyPath(r, path) == r # NoOne
Notifies(r, path) == r # NoOne /\ request[r].path = path

(* Promise.success and Promise.failure; on a completed promise they throw, *)
(* which would restart the actor, so that outcome is told apart.           *)
Complete(r, result) ==
  promise' = [promise EXCEPT ![r] = IF @ = "open" THEN result ELSE "double"]

(* An addPathToCache call of a path that was not cached is sent without    *)
(* its promise.                                                            *)
Notify(r, path, result) ==
  IF Notifies(r, path) /\ request[r].attached THEN Complete(r, result)
                                              ELSE UNCHANGED promise
=============================================================================
