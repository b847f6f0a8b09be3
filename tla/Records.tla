------------------------------ MODULE Records ------------------------------
(***************************************************************************)
(* Pure functions over JSON values: the queries of the cache (match), the  *)
(* patches of the relayed state (RelayRoom.patchState) and their encoding  *)
(* (MpackSerializer), and the choice of a process for a new room           *)
(* (LoadBalancer.findProcessForRoom).  Only TLC's runs use this module: it *)
(* declares recursive operators.                                           *)
(*                                                                         *)
(* A value is a scalar that is not falsy, null, an object (a function on   *)
(* its keys) or, in the state of a room, an array (a sequence).  Hole      *)
(* stands for undefined: no field, or a deleted element of an array.       *)
(***************************************************************************)
EXTENDS Naturals, Sequences, FiniteSets
LOCAL INSTANCE SequencesExt

Scalar(type, v) == [type |-> type, is |-> v]
Null == [type |-> "null"]
Hole == [type |-> "undefined"]
Obj(fields) == [type |-> "object", of |-> fields]
Arr(elements) == [type |-> "array", of |-> elements]
Error == [type |-> "error"]

Keys(value) == IF value.type = "object" THEN DOMAIN value.of ELSE {}

TypeOf(value) == IF value = Null THEN "object" ELSE value.type

-----------------------------------------------------------------------------
(* match(item, query). *)

\* Mutant: an object matches any object.
RECURSIVE ShallowMatch(_, _)
ShallowMatch(item, query) ==
    IF query = Null \/ (item = Null /\ Keys(query) # {}) THEN {"throws"}
    ELSE LET Field(k) == IF k \in Keys(item) THEN item.of[k] ELSE Hole
         IN  IF \A k \in Keys(query) :
                   /\ TypeOf(Field(k)) = TypeOf(query.of[k])
                   /\ TypeOf(Field(k)) # "object" => Field(k) = query.of[k]
             THEN {"yes"} ELSE {"no"}

\* Every key of the query is compared in turn; the first that differs, or
\* that reads a key of null, decides.  Which one is first depends on the
\* order the keys were written in: the outcomes of all are possible.
RECURSIVE Match(_, _)
Match(item, query) ==
    IF query = Null \/ (item = Null /\ Keys(query) # {}) THEN {"throws"}
    ELSE LET Field(k) == IF k \in Keys(item) THEN item.of[k] ELSE Hole
             Outcome(k) ==
                 IF TypeOf(Field(k)) # TypeOf(query.of[k]) THEN {"no"}
                 ELSE IF TypeOf(Field(k)) = "object" THEN Match(Field(k), query.of[k])
                 ELSE IF Field(k) = query.of[k] THEN {"yes"} ELSE {"no"}
             failed == UNION {Outcome(k) : k \in Keys(query)} \ {"yes"}
         IN  IF failed = {} THEN {"yes"} ELSE failed

\* What a query asks: the paths it holds, with their scalars.
RECURSIVE Facts(_)
Facts(value) ==
    {<<<<>>, IF value.type = "object" THEN Obj(<<>>) ELSE value>>}
        \cup UNION {{<<<<k>> \o f[1], f[2]>> : f \in Facts(value.of[k])} : k \in Keys(value)}

HasNull(value) == \E f \in Facts(value) : f[2] = Null

-----------------------------------------------------------------------------
(* MpackSerializer: a patch is sent as [op, path, value?, oldValue?]. *)

Holds(patch, field) == field \in DOMAIN patch
Optional(patch, field) == IF Holds(patch, field) THEN <<patch[field]>> ELSE <<>>
With(field, v) == [f \in {field} |-> v]
Join(r, s) == [f \in DOMAIN r \cup DOMAIN s |-> IF f \in DOMAIN r THEN r[f] ELSE s[f]]

\* Mutant: the old value is written first.
OldValueFirst(patch) ==
    <<patch.op, patch.path>> \o Optional(patch, "oldValue") \o Optional(patch, "value")

EncodePatch(patch) ==
    <<patch.op, patch.path>> \o Optional(patch, "value") \o Optional(patch, "oldValue")

\* The first argument is the value of an add or replace, the next, or the
\* only one of a remove, is the old value of a replace or remove.
DecodePatch(args) ==
    LET base == [op |-> args[1], path |-> args[2]]
        taken == IF Len(args) > 2 /\ args[1] # "remove" THEN 3 ELSE 2
        valued == IF taken = 3 THEN Join(base, With("value", args[3])) ELSE base
    IN  IF Len(args) > taken /\ args[1] # "add"
        THEN Join(valued, With("oldValue", args[taken + 1]))
        ELSE valued

-----------------------------------------------------------------------------
(* RelayRoom.patchState, and what JSON Patch says of the same patch. *)

\* Keys of the model; Number is JavaScript's unary plus, 0 where it is falsy.
Number == [k \in {"0", "1", "2", "a", "b"} |->
              CASE k = "1" -> 1 [] k = "2" -> 2 [] OTHER -> 0]

IsIndex(k) == k \in {"0", "1", "2"}

Child(value, k) ==
    IF value.type = "object" /\ k \in DOMAIN value.of THEN value.of[k]
    ELSE IF value.type = "array" /\ IsIndex(k) /\ Number[k] < Len(value.of)
    THEN value.of[Number[k] + 1]
    ELSE Hole

\* obj[k] = v.  A named property of an array is not part of what is sent.
SetChild(value, k, v) ==
    CASE value.type = "object" ->
           Obj([f \in DOMAIN value.of \cup {k} |-> IF f = k THEN v ELSE value.of[f]])
      [] value.type = "array" /\ IsIndex(k) ->
           Arr([i \in 1..(IF Number[k] < Len(value.of) THEN Len(value.of) ELSE Number[k] + 1) |->
                   IF i = Number[k] + 1 THEN v
                   ELSE IF i <= Len(value.of) THEN value.of[i] ELSE Hole])
      [] value.type = "array" /\ ~IsIndex(k) -> value
      [] OTHER -> Error

DeleteChild(value, k) ==
    CASE value.type = "object" -> Obj([f \in DOMAIN value.of \ {k} |-> value.of[f]])
      [] value.type = "array" /\ Child(value, k) # Hole -> SetChild(value, k, Hole)
      [] OTHER -> value

Splice(elements, k, removed, inserted) ==
    LET at == IF k > Len(elements) THEN Len(elements) ELSE k
    IN  SubSeq(elements, 1, at) \o inserted \o SubSeq(elements, at + removed + 1, Len(elements))

\* Mutant: an element of an array is assigned, not inserted.
AssignHere(obj, key, patch) ==
    IF patch.op = "remove" THEN DeleteChild(obj, key) ELSE SetChild(obj, key, patch.value)

\* The last step of patchState: "replace" is "add".
ApplyHere(obj, key, patch) ==
    LET spliced == obj.type = "array" /\ Number[key] > 0
    IN  CASE patch.op # "remove" /\ spliced ->
               Arr(Splice(obj.of, Number[key], 0, <<patch.value>>))
          [] patch.op # "remove" /\ ~spliced -> SetChild(obj, key, patch.value)
          [] patch.op = "remove" /\ spliced -> Arr(Splice(obj.of, Number[key], 1, <<>>))
          [] patch.op = "remove" /\ ~spliced -> DeleteChild(obj, key)

Missing(k) == IF Number[k] > 0 THEN Arr(<<>>) ELSE Obj(<<>>)

\* Containers the path lacks are made, an array where the key is a number.
RECURSIVE PatchAt(_, _, _)
PatchAt(obj, path, patch) ==
    IF Len(path) = 1 THEN ApplyHere(obj, path[1], patch)
    ELSE LET child == Child(obj, path[1])
             below == PatchAt(IF child \in {Hole, Null} THEN Missing(path[1]) ELSE child,
                              Tail(path), patch)
         IN  IF below = Error THEN Error ELSE SetChild(obj, path[1], below)

PatchState(state, patch) == PatchAt(state, patch.path, patch)

\* RFC 6902: the target's container must exist, and so must the target of a
\* replace or remove; an element is inserted, replaced or removed in place.
JsonPatchHere(obj, key, patch) ==
    CASE obj.type = "object" /\ (patch.op = "add" \/ key \in Keys(obj)) ->
           IF patch.op = "remove" THEN DeleteChild(obj, key) ELSE SetChild(obj, key, patch.value)
      [] obj.type = "array" /\ IsIndex(key) /\ patch.op = "add" /\ Number[key] <= Len(obj.of) ->
           Arr(Splice(obj.of, Number[key], 0, <<patch.value>>))
      [] obj.type = "array" /\ IsIndex(key) /\ patch.op # "add" /\ Number[key] < Len(obj.of) ->
           Arr(Splice(obj.of, Number[key], 1,
                      IF patch.op = "remove" THEN <<>> ELSE <<patch.value>>))
      [] OTHER -> Error

RECURSIVE JsonPatchAt(_, _, _)
JsonPatchAt(obj, path, patch) ==
    IF Len(path) = 1 THEN JsonPatchHere(obj, path[1], patch)
    ELSE LET below == JsonPatchAt(Child(obj, path[1]), Tail(path), patch)
         IN  IF below = Error THEN Error ELSE SetChild(obj, path[1], below)

JsonPatch(state, patch) == JsonPatchAt(state, patch.path, patch)

RECURSIVE At(_, _)
At(value, path) == IF path = <<>> THEN value ELSE At(Child(value, path[1]), Tail(path))

-----------------------------------------------------------------------------
(* LoadBalancer.findProcessForRoom: rooms are [pid, clients]. *)

\* Rooms of processes that are not known are not counted.
LoadOf(rooms, pid) ==
    LET own == SelectSeq(rooms, LAMBDA r : r.pid = pid)
    IN  Len(own) * FoldLeft(LAMBDA n, r : n + r.clients, 0, own)

\* Mutant: the least load is not kept.
LastBelowFirst(self, pids, rooms) ==
    FoldLeft(LAMBDA best, pid :
                 IF best.some /\ LoadOf(rooms, pid) >= best.load THEN best
                 ELSE [some |-> TRUE, pid |-> pid,
                       load |-> IF best.some THEN best.load ELSE LoadOf(rooms, pid)],
             [some |-> FALSE, pid |-> self, load |-> 0], pids).pid

\* The first process in the order of pids with the least load; this process
\* when there is none.
FindProcessForRoom(self, pids, rooms) ==
    FoldLeft(LAMBDA best, pid :
                 IF best.some /\ LoadOf(rooms, pid) >= best.load THEN best
                 ELSE [some |-> TRUE, pid |-> pid, load |-> LoadOf(rooms, pid)],
             [some |-> FALSE, pid |-> self, load |-> 0], pids).pid
=============================================================================
