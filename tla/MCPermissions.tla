---------------------------- MODULE MCPermissions ----------------------------
(***************************************************************************)
(* One plugin of two publishers' making, whose versions keep, drop, narrow *)
(* and widen what the one before declared, with one instance.              *)
(***************************************************************************)
EXTENDS Permissions

CONSTANTS a, b, ill, acme, other

Only(q, n) == [x \in {q} |-> n]
All(n) == [q \in Quotas |-> n]
Wire(scope, quota) == [scope |-> scope, quota |-> quota]
Cap(c, json) == [cap |-> c, json |-> json]
Template(o, n) == [origin |-> o, quota |-> [maxResponseBytes |-> n, maxTimeoutMs |-> 1]]

Store(c, keys, n) == Cap(c, Wire(keys, Only("maxBytes", n)))
Net(origins, n) == Cap("network:https", Wire(origins, Only("maxResponseBytes", n)))

Package(v, permissions) ==
    [version |-> v, publisher |-> acme, migration |-> 0, sound |-> TRUE, signed |-> TRUE,
     permissions |-> permissions, templates |-> {}]

Settings(scope, quota) == [scope |-> scope, quota |-> quota]
Made(v, project) == Package(v, GeneratedPermissions(project))

\* Version 1, made from a project, reads and writes key a only.  Versions 2
\* write it within the default quota, or every key, or are somebody else's,
\* or use the network with a template that fits or does not, or watch the
\* machine.  Version 3 adds a timer, or drops all, or comes with a migration,
\* or writes every key or more of one, or names an ill key or too large a
\* response, or declares the origin in a spelling the parser does not keep,
\* alone or beside the one it keeps.
MCPackages ==
    {Made(1, [storage |-> Settings({a}, Only("maxBytes", 2))]),
     Made(2, [metrics |-> Settings({}, Only("sampleRateHz", 2)),
              storage |-> Settings({a}, Only("maxBytes", 2))]),
     Package(2, <<Cap("storage:write", Wire({a}, [q \in {} |-> 0]))>>),
     Package(2, <<Store("storage:write", {}, 2), Cap("theme:subscribe", Omitted)>>),
     [Package(2, <<Store("storage:write", {a, b}, 3)>>) EXCEPT !.publisher = other],
     [Package(2, <<Net({a}, 2)>>) EXCEPT !.templates = {Template(a, 2)}],
     [Package(2, <<Net({a}, 1)>>) EXCEPT !.templates = {Template(a, 2)}],
     Package(3, <<Store("storage:write", Omitted, 3), Cap("timer:schedule", Omitted)>>),
     [Package(3, <<>>) EXCEPT !.migration = 1],
     [Package(3, <<Store("storage:read", {b}, 1)>>) EXCEPT !.signed = FALSE],
     Package(3, <<Store("storage:write", Omitted, 2)>>),
     Package(3, <<Store("storage:write", {a}, 4)>>),
     Package(3, <<Store("storage:write", {ill}, 1)>>),
     [Package(3, <<Net({b}, 1)>>) EXCEPT !.templates = {Template(b, 1)}],
     [Package(3, <<Net({a, b}, 2)>>) EXCEPT !.templates = {Template(a, 1), Template(b, 2)}],
     Package(3, <<Net({a}, 4)>>)}

\* b is a in another spelling: with a capital letter, or port 443.
MCOriginOf == [o \in {a, b} |-> a]

MCDefault == [All(1) EXCEPT !["maxBytes"] = 2]
MCLeast   == [All(0) EXCEPT !["maxRequestsPerMinute"] = 1, !["maxResponseBytes"] = 1,
                            !["maxTimeoutMs"] = 1]
MCMost    == [All(3) EXCEPT !["maxBytes"] = 4]
=============================================================================
