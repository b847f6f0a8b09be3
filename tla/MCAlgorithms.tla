---------------------------- MODULE MCAlgorithms ----------------------------
(***************************************************************************)
(* Paths and Records over bounded inputs: a state holds one input, and     *)
(* every property compares an algorithm with a reference definition on it. *)
(***************************************************************************)
EXTENDS Paths, Records

CONSTANT Handlers  \* sequences of change handlers an application registers

VARIABLE input

Segments == {"magx", "dev", "auth", "rooms", "join", "close", "r1", "xmagx", "magx2", "a b"}
MCWords == Segments \ {"a b"}
MCHeads == {"magx", "magx2"}
MCTails == {<<"xmagx", "magx">>}

Requests ==
    [kind : {"request"}, method : {"get", "post"}, verified : BOOLEAN, wellFormed : BOOLEAN,
     path : {<<head>> \o p : head \in MCHeads, p \in UNION {[1..n -> Segments] : n \in 0..3}}]

MCHandlers ==
    LET on(op, filter) == [op |-> op, filter |-> filter]
        players == <<Const("magx"), Param("id")>>
        deep == <<Const("magx"), Param("id"), Const("join")>>
        any == <<Const("magx"), Any>>
    IN  {<<on("add", players), on("*", deep)>>, <<on("*", players), on("add", players)>>,
         <<on("replace", any), on("replace", deep)>>, <<on("replace", any)>>}

Changes ==
    [kind : {"change"}, handlers : Handlers, op : {"add", "replace", "remove"},
     path : UNION {[1..n -> {"magx", "xmagx", "join", "r1", "a b"}] : n \in 1..4}]

Str == Scalar("string", "x")
Num == Scalar("number", 1)
Leaves == {Str, Num, Null}
Fields(keys, values) == {Obj(f) : f \in UNION {[ks -> values] : ks \in SUBSET keys}}
Flat == Fields({"a", "b"}, Leaves)
Documents == {Obj(f) : f \in [{"a"} -> Flat]} \cup Flat
               \cup {Obj(Join(With("a", v), With("b", w))) : v \in Flat, w \in Leaves}

Queries == [kind : {"query"}, item : Documents, query : Documents]

Values == {Str, Obj(<<>>)}
Recorded ==
    {Join([op |-> "add", path |-> "p"], With("value", v)) : v \in Values}
      \cup {Join([op |-> "replace", path |-> "p"], With("value", v)) : v \in Values}
      \cup {Join([op |-> "replace", path |-> "p"], [value |-> v, oldValue |-> w])
              : v \in Values, w \in Values}
      \cup {[op |-> "remove", path |-> "p"]}
      \cup {[op |-> "remove", path |-> "p", oldValue |-> v] : v \in Values}

Encodings == [kind : {"encoding"}, patch : Recorded]

Nested == {Str, Obj(<<>>), Obj(With("b", Str)), Arr(<<>>), Arr(<<Num>>), Arr(<<Num, Str>>),
           Arr(<<Str, Num, Num>>), Obj(With("b", Arr(<<Str, Num>>))), Arr(<<Obj(With("b", Num))>>)}
States == {Obj(<<>>), Obj(With("b", Str))} \cup {Obj(With("a", v)) : v \in Nested}
Places == UNION {[1..n -> {"a", "b", "0", "1", "2"}] : n \in 1..3}

Patches ==
    [kind : {"patch"}, state : States,
     patch : [op : {"add", "replace", "remove"}, path : Places, value : {Str, Obj(<<>>)}]]

Pids == {"p", "q", "r", "gone"}
Placements ==
    [kind : {"placement"}, pids : {<<>>, <<"p">>, <<"q", "p">>, <<"p", "q", "r">>, <<"r", "q", "p">>},
     rooms : UNION {[1..n -> [pid : Pids, clients : 1..2]] : n \in 0..3}]

Init == input = [kind |-> "none"]

Next ==
    /\ input.kind = "none"
    /\ \/ \E i \in Requests : input' = i
       \/ \E i \in Changes : input' = i
       \/ \E i \in Queries : input' = i
       \/ \E i \in Encodings : input' = i
       \/ \E i \in Patches : input' = i
       \/ \E i \in Placements : input' = i

Spec == Init /\ [][Next]_input

-----------------------------------------------------------------------------
NoTailAfterFirst(path, name) == \A i \in 2..Len(path) : ~EndsWith(path[i], name)

\* A request is answered by the first route that is declared for its path and
\* method, with the parameters of that declaration, unless a later segment ends
\* in the prefix: the expressions of the router are anchored at the end only, and
\* GET /magx/rooms/<id that ends in magx> returns the client script.  Even then
\* nothing but the scripts, the check of a token and the sign-in runs for a
\* request whose token is not verified (router.ts, api.ts).
RoutedAsDeclared ==
    input.kind = "request" =>
        LET declared == FirstIn(Routes, LAMBDA r : r.method = input.method
                                                     /\ Denotes(r.items, input.path))
            found == RouteOf(input.method, input.path)
        IN  /\ NoTailAfterFirst(input.path, "magx") =>
                 /\ found = declared
                 /\ found # None => \A i \in DOMAIN found.items :
                      found.items[i].type = "param" =>
                          ParamOf(found, input.path, found.items[i].name) = input.path[i]
            /\ ~input.verified /\ found # None =>
                 Exec(found, input.verified, input.wellFormed)
                     \in {None, "script", "verify", "authenticate"}

\* The handler an application registered first for a change is the one that is
\* told of it, as long as the pattern has no "*" and its first segment does not
\* come again deeper in the path (magx-client room.ts).
ChangeReachesHandler ==
    /\ input.kind = "change"
    /\ NoTailAfterFirst(input.path, "magx")
    /\ input.path[1] # "xmagx"
    /\ (\A i \in DOMAIN input.handlers : \A j \in DOMAIN input.handlers[i].filter :
            input.handlers[i].filter[j] # Any)
    => ChangeHandler(input.handlers, input) =
            FirstIn(input.handlers, LAMBDA h : h.op \in {"*", input.op}
                                                 /\ Denotes(h.filter, input.path))

\* A query finds exactly the items that hold everything it asks, and the search
\* throws for neither, as long as no null is compared ("TODO: check for null",
\* cache/local.ts).
QueryFindsItems ==
    input.kind = "query" /\ ~HasNull(input.item) /\ ~HasNull(input.query) =>
        Match(input.item, input.query) =
            {IF Facts(input.query) \subseteq Facts(input.item) THEN "yes" ELSE "no"}

\* A reversible patch is the same patch after it is encoded and decoded
\* (serializer.ts): the two optional values are told apart by their place and the
\* operation alone.
PatchSurvivesWire ==
    input.kind = "encoding" => DecodePatch(EncodePatch(input.patch)) = input.patch

\* The relay applies a patch as JSON Patch does, whenever JSON Patch can apply it,
\* except inside arrays, where "replace" inserts, "add" at 0 overwrites and
\* "remove" at 0 leaves a hole (relay.ts): players that apply the patches they
\* receive to the snapshot then hold another state than the room.
PatchAppliedAsStandard ==
    input.kind = "patch" =>
        LET path == input.patch.path
            key == path[Len(path)]
            target == At(input.state, SubSeq(path, 1, Len(path) - 1))
            expected == JsonPatch(input.state, input.patch)
            deviates == /\ target.type = "array"
                        /\ CASE input.patch.op = "replace" -> Number[key] > 0
                             [] input.patch.op = "add" -> Number[key] = 0 /\ target.of # <<>>
                             [] input.patch.op = "remove" -> Number[key] = 0
        IN  expected # Error => (PatchState(input.state, input.patch) = expected <=> ~deviates)

\* A room is created on a process this one knows, and no known process has less
\* rooms times clients; rooms listed for processes that are gone weigh nothing
\* (balancer.ts).
LeastLoadedChosen ==
    input.kind = "placement" =>
        LET chosen == FindProcessForRoom("p", input.pids, input.rooms)
            Load(pid) == LET own == {i \in DOMAIN input.rooms : input.rooms[i].pid = pid}
                             double == {i \in own : input.rooms[i].clients = 2}
                         IN  Cardinality(own) * (Cardinality(own) + Cardinality(double))
        IN  /\ input.pids # <<>> => \E i \in DOMAIN input.pids : input.pids[i] = chosen
            /\ \A i \in DOMAIN input.pids : Load(chosen) <= Load(input.pids[i])
=============================================================================
