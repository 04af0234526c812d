------------------------------ MODULE MCGateway ------------------------------
(* Instances of Gateway for TLC. *)
EXTENDS Gateway, TLC

\* Model names are texts too.
e == <<1>>
f == <<2>>
r == <<3>>
s == <<4>>
t == <<5>>
w == <<6>>

Text(kind, limit, shipped, padding, segments, output) ==
    [kind |-> kind, limit |-> limit, shipped |-> shipped, padding |-> padding,
     segments |-> segments, output |-> output, inputs |-> 2, outputs |-> 1, features |-> 0]

\* The stub, a plain embedder, one with short fixed padding, a cross-encoder,
\* one of a single row, one of two columns, and a tabular model.
MCModel ==
    (<<0>> :> Text("stub", None, None, None, FALSE, "states"))
    @@ (e :> Text("embedding", None, None, None, FALSE, "states"))
    @@ (f :> Text("embedding", 3, 2, 2, FALSE, "states"))
    @@ (r :> Text("rerank", None, 4, 5, TRUE, "column"))
    @@ (s :> Text("rerank", 4, None, None, FALSE, "static"))
    @@ (w :> Text("rerank", 4, None, None, FALSE, "two"))
    @@ (t :> [Text("tabular", None, None, None, FALSE, "column") EXCEPT !.inputs = 1, !.features = 2])

MCConfigs == {{<<0>>, e, r, t}, {<<0>>, f, s}, {<<0>>, e, w}}

Q(channel, task, model, items) ==
    [channel |-> channel, task |-> task, model |-> model, items |-> items,
     option |-> None, damage |-> "none", cut |-> 0]

With(option, q)  == [q EXCEPT !.option = option]
Spoilt(how, q)  == [q EXCEPT !.damage = how]
Shortened(by, q) == [q EXCEPT !.damage = "cut", !.cut = by]

Asked(task, model, items) ==
    <<Q("http", task, model, items), Q("pipe", task, model, items), Q("socket", task, model, items)>>

Long(n)     == [i \in 1..n |-> 1]
Of(unit, n) == [i \in 1..n |-> unit]

P(d) == <<<<1>>, d>>

MCRequests ==
    Asked("embed", e, <<<<2>>, <<1, 3, 5, 0>>>>)
    \o Asked("embed", f, <<<<2>>, <<1, 3, 5>>>>)
    \o Asked("embed", <<0>>, <<<<>>, <<1, 2>>>>)
    \o Asked("rerank", r, <<P(<<1>>), P(<<3, 3>>), P(<<1>>)>>)
    \o Asked("rerank", s, <<P(<<1>>), P(<<2>>)>>)
    \o Asked("rerank", w, <<P(<<1>>)>>)
    \o Asked("evaluate", t, <<<<1, 60>>, <<3, 4>>>>)
    \o Asked("evaluate", t, <<<<1>>>>)
    \o Asked("embed", r, <<<<2>>>>)
    \o Asked("embed", e, <<>>)
    \o <<Q("http", "evaluate", t, <<<<1>>, <<2, 3, 4>>>>),
         Q("pipe", "evaluate", t, <<<<1>>, <<2, 3, 4>>>>),
         With(2, Q("http", "rerank", r, <<P(<<1>>), P(<<3, 3>>), P(<<1>>)>>)),
         With(2, Q("http", "embed", e, <<<<2>>>>)),
         With(3, Q("http", "embed", e, <<<<2>>>>)),
         Q("pipe", "embed", e, <<<<7, 2>>, <<2>>>>),
         Q("pipe", "embed", e, <<Long(26), Long(20)>>),
         Q("pipe", "embed", e, <<Long(40), Long(20)>>),
         Q("pipe", "embed", e, <<Of(5, 66)>>),
         Shortened(1, Q("pipe", "embed", e, <<<<2>>, <<1, 3>>>>)),
         Shortened(4, Q("pipe", "embed", e, <<<<2>>, <<1, 3>>>>)),
         Shortened(1, Q("socket", "embed", e, <<<<2>>>>)),
         Shortened(3, Q("socket", "embed", e, <<<<2>>>>)),
         Shortened(5, Q("socket", "embed", e, <<<<2>>>>)),
         Spoilt("version", Q("socket", "embed", e, <<<<2>>>>)),
         Spoilt("task", Q("socket", "embed", e, <<<<2>>>>)),
         Spoilt("trailing", Q("socket", "embed", e, <<<<2>>>>)),
         Spoilt("length", Q("socket", "embed", e, <<<<2>>>>))>>

MCReplacement == <<6, 5>>
=============================================================================
