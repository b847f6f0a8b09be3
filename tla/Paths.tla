------------------------------- MODULE Paths -------------------------------
(***************************************************************************)
(* Which route of the API answers a request (Router.has, addRoute, exec    *)
(* and api.ts), and which change handler of the client library a patch     *)
(* reaches (Room.onChange).  Both turn a pattern into a regular expression *)
(* that is anchored at the end of the path only.                           *)
(*                                                                         *)
(* A path is a sequence of segments.  What the expressions tell apart of a *)
(* segment is given by constants: whether it is a word, whether it begins  *)
(* with the prefix of the api, and which shorter segments it ends in.      *)
(***************************************************************************)
EXTENDS Naturals, Sequences

CONSTANTS
    Words,   \* segments made of letters, digits, _ . and -
    Heads,   \* segments that begin with the prefix of the api
    Tails,   \* pairs of a segment and a proper tail of it that is a segment too
    None     \* no route, no handler

Const(s) == [type |-> "const", name |-> s]
Param(s) == [type |-> "param", name |-> s]
Any == [type |-> "any"]

EndsWith(seg, tail) == seg = tail \/ <<seg, tail>> \in Tails

MatchesItem(item, seg) ==
    \/ item.type = "const" /\ seg = item.name
    \/ item.type = "param" /\ seg \in Words

\* The leftmost item of the expression may begin inside a segment.
MatchesTail(item, seg) ==
    \/ item.type = "const" /\ EndsWith(seg, item.name)
    \/ item.type = "param" /\ \E tail \in Words : EndsWith(seg, tail)

\* Mutant: the path may go on after the match.
PrefixMatches(items, path) ==
    /\ Len(items) <= Len(path)
    /\ \A i \in 1..Len(items) : MatchesItem(items[i], path[i])

\* new RegExp(items.join("/") + "$").test(path)
EndMatches(items, path) ==
    LET start == Len(path) - Len(items)
    IN  /\ Len(items) <= Len(path)
        /\ MatchesTail(items[1], path[start + 1])
        /\ \A i \in 2..Len(items) : MatchesItem(items[i], path[start + i])

\* What a pattern says: as many segments, each the constant or a word.
Denotes(items, path) ==
    /\ Len(items) = Len(path)
    /\ \A i \in DOMAIN items : MatchesItem(items[i], path[i])

FirstIn(seq, Test(_)) ==
    IF \E i \in DOMAIN seq : Test(seq[i])
    THEN seq[CHOOSE i \in DOMAIN seq : Test(seq[i]) /\ \A j \in 1..i - 1 : ~Test(seq[j])]
    ELSE None

-----------------------------------------------------------------------------
(* The routes of api.ts. *)

\* addRoute; the prefix is the first segment of every path.
Route(method, path, handlers) ==
    [method |-> method, items |-> <<Const("magx")>> \o path, handlers |-> handlers]

\* Mutant: closing a room is not authorized.
OpenAction(act) ==
    Route("post", <<Const("rooms"), Param("id"), Const(act)>>,
          IF act = "close" THEN <<act>> ELSE <<"authorized", act>>)

RoomAction(act) ==
    Route("post", <<Const("rooms"), Param("id"), Const(act)>>, <<"authorized", act>>)

Routes == <<
    Route("get", <<>>, <<"script">>),
    Route("get", <<Const("dev")>>, <<"script">>),
    Route("get", <<Const("auth"), Param("token")>>, <<"verify">>),
    Route("post", <<Const("auth")>>, <<"authenticate">>),
    Route("get", <<Const("rooms"), Param("id")>>, <<"authorized", "getRoom">>),
    Route("get", <<Const("rooms")>>, <<"authorized", "getRooms">>),
    Route("post", <<Const("rooms")>>, <<"authorized", "create">>),
    RoomAction("join"), RoomAction("update"), RoomAction("leave"), RoomAction("close")>>

\* Router.has of the api: the path starts with the prefix, the first route wins.
RouteOf(method, path) ==
    IF path = <<>> \/ path[1] \notin Heads THEN None
    ELSE FirstIn(Routes, LAMBDA r : r.method = method /\ EndMatches(r.items, path))

\* Mutant: parameters are counted without the prefix.
ShiftedIndex(items, name) == (CHOOSE i \in DOMAIN items : items[i] = Param(name)) - 1

IndexOf(items, name) == CHOOSE i \in DOMAIN items : items[i] = Param(name)

\* exec: the parameter is found by its index, counted from the start of the path.
ParamOf(route, path, name) == path[IndexOf(route.items, name)]

\* The first handler of most routes: it answers 403 unless the token is known.
Authorized(route, verified) == route.handlers[1] = "authorized" => verified

\* The handler that exec reaches: they run one after the other while each calls
\* next().  A body that is not JSON is parsed outside the try block: nothing runs.
Exec(route, verified, wellFormed) ==
    IF wellFormed /\ Authorized(route, verified)
    THEN route.handlers[Len(route.handlers)] ELSE None

-----------------------------------------------------------------------------
(* Room.onChange of the client library. *)

\* A filter with "*" has an item without a name: the expression ends in "/$",
\* or holds "//", and no path of a patch does.
MatchesChange(handler, patch) ==
    /\ handler.op \in {"*", patch.op}
    /\ \A i \in DOMAIN handler.filter : handler.filter[i] # Any
    /\ EndMatches(handler.filter, patch.path)

ChangeHandler(handlers, patch) == FirstIn(handlers, LAMBDA h : MatchesChange(h, patch))
=============================================================================
