----------------------------- MODULE ZnodePaths -----------------------------
(***************************************************************************)
(* Paths of znodes.  A path is the sequence of its names: "/" is <<>> and  *)
(* "/a/b" is <<a, b>>.  The updater never asks ZooKeeper for the path of a *)
(* child, it builds it with the interpolation s"$path/$child"; ChildPath   *)
(* is what that interpolation yields, including for the root, where it     *)
(* yields "//child", a path with an empty name.                            *)
(***************************************************************************)
EXTENDS Integers, Sequences, FiniteSets, Functions
SeqExt == INSTANCE SequencesExt

CONSTANTS
  Name,        \* the names a znode can have
  EmptyName,   \* the empty name between the two slashes of "//child"
  Znode        \* the paths at which a znode can exist

ASSUME NameAssumption  == IsFiniteSet(Name) /\ EmptyName \notin Name
ASSUME ZnodeAssumption == IsFiniteSet(Znode) /\ Znode \in SUBSET Seq(Name)

Root == << >>

(* Every string that is used as a path, well formed or not. *)
PathString == Seq(Name \cup {EmptyName})

(* s"$path/$child" *)
ChildPath(path, child) ==
  IF path = Root THEN <<EmptyName, child>> ELSE Append(path, child)

(* The znode of which p is a child, as the ZooKeeper server sees it. *)
ParentPath(p) == SeqExt!Front(p)

(* p is in the subtree of root. *)
IsUnder(root, p) == SeqExt!IsPrefix(root, p)

(* The orders in which a set can be traversed. *)
Traversals(set) == Bijection(1 .. Cardinality(set), set)
=============================================================================
