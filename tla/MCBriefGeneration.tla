------------------------- MODULE MCBriefGeneration -------------------------
(* An instance of BriefGeneration for TLC. *)
EXTENDS BriefGeneration, TLC

CONSTANTS ax, AX, ay, bz, nx, A, B, a1, a2, a3, a4, a5

\* Topics "a.x", "A.X" (of the same key), "a.y", "b.z" and ".x".
KeyOf   == (ax :> ax) @@ (AX :> ax) @@ (ay :> ay) @@ (bz :> bz) @@ (nx :> nx)
GroupOf == (ax :> A) @@ (AX :> A) @@ (ay :> A) @@ (bz :> B) @@ (nx :> Absent)
RankOf  == (ax :> 1) @@ (ay :> 2) @@ (bz :> 3) @@ (nx :> 4) @@ (A :> 1) @@ (B :> 2)
Zero    == (ax :> 0) @@ (ay :> 0) @@ (bz :> 0)

Url(path, host, slashes) ==
    [scheme |-> "https", host |-> host, port |-> Absent, path |-> path,
     slashes |-> slashes, hash |-> Absent]
u1  == Url("p1", "web", 0)
u1s == [Url("p1", "web", 1) EXCEPT !.port = 443, !.hash = "h"]
u2  == Url("p2", "web", 0)
u3  == Url("p3", "web", 0)
far == Url("p4", "web", 0)
loc == Url("p5", "localhost", 0)
u6  == Url("p6", "web", 4)

Event(i, src, u, when, ts) ==
    [id |-> i, source |-> src, url |-> u, published |-> when, fetched |-> when,
     topics |-> ts, named |-> ts, body |-> Zero, engagement |-> 0, score |-> 0,
     summary |-> i]

e1  == Event(1, "rss", u1, 40, {ax})
e1s == [Event(2, "rss", u1s, 41, {ax, ay}) EXCEPT !.engagement = 2]
e2  == Event(3, "hackernews", u2, 30, {ay, bz})
e3  == [Event(4, "rss", u3, 45, {ax, bz}) EXCEPT !.named = {bz}, !.summary = 3]
e4  == [Event(5, "bluesky", loc, 44, {bz}) EXCEPT !.score = 3, !.summary = Absent]
e5  == [Event(6, "rss", u3, 10, {ax}) EXCEPT !.named = {}, !.body = [Zero EXCEPT ![ax] = 2]]
e6  == [Event(7, "rss", u6, 43, {ax, bz}) EXCEPT !.published = Absent]
EventsAtFirst   == {e1, e2, e3, e4, e5}
ArrivingEvents == {e1s}
RetentionCutoffs == {35, 46}

SnapshotTables == {<<>> , (46 :> (ax :> 1)),
                   (46 :> ((ax :> 2) @@ (ay :> 1))) @@
                       (40 :> ((bz :> 4) @@ (ay :> 3) @@ (nx :> 5)))}

Query == [topics |-> <<>>, query |-> TRUE, provider |-> "internal", at |-> 47,
          lookback |-> 1, globs |-> {ax, ay, bz}, maxTopics |-> 1, maxEvents |-> 0,
          maxEvidence |-> 0, strategy |-> "diversity"]
Topic(t, es) == [topic |-> t, evidence |-> {Evidence(e) : e \in es}]
Given(ts, p, n) == [Query EXCEPT !.topics = ts, !.query = FALSE, !.provider = p, !.maxTopics = n]
SomeRequests ==
    {Query,
     [Query EXCEPT !.lookback = 3],
     [Query EXCEPT !.lookback = 2, !.maxTopics = 2, !.strategy = "engagement",
                   !.globs = {ax, ay, bz, nx}, !.maxEvents = 2, !.maxEvidence = 1, !.provider = "http"],
     [Query EXCEPT !.lookback = 0, !.maxTopics = 0, !.globs = {ay, bz},
                   !.strategy = "recency", !.provider = "codex-cli"],
     Given(<<Topic(ax, {e1, e2}), Topic(ay, {e2, e3}), Topic(AX, {e3, e6})>>, "http", 2),
     Given(<<Topic(ax, {e4}), Topic(bz, {e3, e2})>>, "internal", 1),
     Given(<<Topic(ax, {e6}), Topic(bz, {e2, e3, e6})>>, "internal", 0),
     Given(<<Topic(bz, {e4, e3}), Topic(ax, {e1, e4})>>, "codex-cli", 1)}

H(t, urls) == [topic |-> t, cites |-> urls]
Replies ==
    (a1 :> [highlights |-> <<H(ax, {u1s, u2}), H(bz, {u2, u3})>>, notes |-> {u1}]) @@
    (a2 :> [highlights |-> <<H(ay, {u3, far}), H(AX, {u1, u3}), H(bz, {loc})>>, notes |-> {}]) @@
    (a3 :> [highlights |-> <<H(ax, {far})>>, notes |-> {u2}]) @@
    (a4 :> [highlights |-> <<H(bz, {u1, u3})>>, notes |-> {far}]) @@
    (a5 :> [highlights |-> <<H(nx, {u3, u6}), H(ax, {u6})>>, notes |-> {u3}])

=============================================================================
