--------------------------- MODULE RouteSelection ---------------------------
(***************************************************************************)
(* Automatic route selection: freescp-app/src/routing.rs over              *)
(* freescp-core/src/route.rs, and the cache warmer of site_manager.rs.     *)
(*                                                                         *)
(* A site is a sequence of candidates, its primary endpoint first.  A      *)
(* connect loads the cache file, probes unless the cached probes are       *)
(* fresh, ranks, and tries one candidate after the other.  Every save      *)
(* writes the whole document the connect once loaded.  Steps are cut where *)
(* the code awaits: probing, and each connect attempt.                     *)
(*                                                                         *)
(* Left out: what a candidate is made of (module SshConfig), the reporter, *)
(* the display fields of RouteChoice, and candidates without a host, for   *)
(* which connecting is refused before routing.                             *)
(***************************************************************************)
EXTENDS Integers, Sequences, FiniteSets, SequencesExt, Subsequences

CONSTANTS
    Connects,      \* connects that may be in flight at once
    Warmers,       \* background probes of rows selected in the Site Manager
    Sites,         \* the sequences of candidates the user may edit the site into
    Outcomes,      \* what a probe of each label may measure (sets of ProbeStatus)
    Ttl,           \* age up to which cached probes are served
    Backoff,       \* FAILURE_BACKOFF
    PruneAge,      \* age at which a save drops an entry
    MaxRouteTime,  \* bound on the clock
    MaxRoutes,     \* bound on the connects and warmers that begin
    NoRoute        \* no label, no time, no entry

VARIABLES
    savedSite,     \* the saved site: a sequence of labels
    clock,         \* wall clock
    cacheFile,     \* route-cache.toml: key -> entry
    stage,         \* per agent: idle, probing, trying
    cands,         \* per agent: candidates
    began,         \* per agent: `now`, read once
    loaded,        \* per agent: the document it loaded
    order,         \* per agent: attempt order, indices
    attempt,       \* per agent: which attempt is running
    begun,         \* how many have begun
    marks,         \* history: label of a key -> time of its last fail-over
    worked,        \* history: key -> route of the last success
    avoid,         \* history: routes in back-off when an order was made
    current,       \* history: agents who read or wrote the file after its last save
    overwritten    \* history: a save has overwritten another agent's save

routeVars == <<savedSite, clock, cacheFile, stage, cands, began, loaded, order, attempt,
          begun, marks, worked, avoid, current, overwritten>>
routeLocal == <<cands, began, loaded, order, attempt>>
routeHistory == <<marks, worked, avoid, current, overwritten>>

RouteAgents == Connects \cup Warmers
Labels == UNION {ToSet(s) : s \in Sites}
CacheKeys == {ToSet(s) : s \in Sites}
RouteTimes == 0..MaxRouteTime

ProbeLive(l, lan) == [up |-> "reachable", lat |-> l, lan |-> lan]
Unreachable == [up |-> "unreachable", lat |-> 0, lan |-> FALSE]
Unprobeable == [up |-> "unprobeable", lat |-> 0, lan |-> FALSE]

ProbeStatus == [up : {"reachable", "unreachable", "unprobeable"}, lat : Nat, lan : BOOLEAN]
CacheEntry == [updated : RouteTimes, good : Labels \cup {NoRoute},
          probes : Seq([label : Labels, up : {"reachable", "unreachable"},
                        lat : Nat, lan : BOOLEAN, failed : RouteTimes \cup {NoRoute}])]

\* An entry outlives what it remembers: a failure is at most Ttl later than
\* the probes beside it, and out of back-off when these are pruned.
ASSUME RouteAssumption ==
    /\ IsFiniteSet(RouteAgents) /\ Connects \cap Warmers = {}
    /\ \A s \in Sites : s \in Seq(Labels) /\ Len(s) >= 2 /\ IsInjective(s)
    /\ \A l \in Labels : Outcomes[l] \subseteq ProbeStatus
    /\ Ttl \in Nat /\ Backoff \in Nat /\ PruneAge \in Nat /\ MaxRouteTime \in Nat
    /\ MaxRoutes \in Nat
    /\ Ttl <= PruneAge /\ Backoff + Ttl <= PruneAge + 1
    /\ NoRoute \notin Labels /\ NoRoute \notin RouteTimes /\ NoRoute \notin CacheEntry
    /\ NoRoute \notin [CacheKeys -> CacheEntry \cup {NoRoute}]

----------------------------------------------------------------------------
(* Ranking (route.rs).  A result is a status with a label. *)

\* Sorted by latency; the sort is stable.
ByLatency(res, S) ==
    Ordered(S, {p \in S \X S :
                  \/ res[p[1]].lat < res[p[2]].lat
                  \/ res[p[1]].lat = res[p[2]].lat /\ p[1] <= p[2]})
InOrder(S) == Ascending(S)

\* The margins are 20 per cent and 5 milliseconds; both must be exceeded.
ChallengerWins(sticky, other) == (5 * other < 4 * sticky) /\ (sticky - other > 5)

StickyWithinClass(ord, res, sticky) ==
    LET at == {p \in DOMAIN ord : res[ord[p]].label = sticky} IN
    IF at = {} THEN ord
    ELSE LET p == CHOOSE q \in at : \A r \in at : q <= r
             rest == Keep(ord, DOMAIN ord \ {p}) IN
         IF rest # <<>> /\ ChallengerWins(res[ord[p]].lat, res[rest[1]].lat)
         THEN ord
         ELSE <<ord[p]>> \o rest

RankProbes(res, sticky) ==
    LET of(u) == {i \in DOMAIN res : res[i].up = u}
        lan == {i \in of("reachable") : res[i].lan} IN
    StickyWithinClass(ByLatency(res, lan), res, sticky)
      \o StickyWithinClass(ByLatency(res, of("reachable") \ lan), res, sticky)
      \o InOrder(of("unprobeable"))
      \o InOrder(of("unreachable"))

----------------------------------------------------------------------------
(* The cache document. *)

CacheKey(c) == ToSet(c)

\* fresh_probes; a cached unprobeable route comes back as unreachable.
IsFresh(d, k, t) == d[k] # NoRoute /\ t - d[k].updated <= Ttl
FreshProbes(d, k) ==
    [i \in DOMAIN d[k].probes |->
        [label |-> d[k].probes[i].label, up |-> d[k].probes[i].up,
         lat |-> d[k].probes[i].lat, lan |-> d[k].probes[i].lan]]

StickyLabel(d, k) == IF d[k] = NoRoute THEN NoRoute ELSE d[k].good

InBackoff(at, t) == at # NoRoute /\ t - at < Backoff
BackoffLabels(d, k, t) ==
    IF d[k] = NoRoute THEN {}
    ELSE {p.label : p \in {q \in ToSet(d[k].probes) : InBackoff(q.failed, t)}}

FailedAt(d, k, l) ==
    LET at == IF d[k] = NoRoute THEN {}
              ELSE {i \in DOMAIN d[k].probes : d[k].probes[i].label = l} IN
    IF at = {} THEN NoRoute ELSE d[k].probes[CHOOSE i \in at : TRUE].failed

\* Mutant: what was cached for the key is kept in front.
RecordAppends(d, k, res, t) ==
    [d EXCEPT ![k] =
        [updated |-> t, good |-> StickyLabel(d, k),
         probes |-> (IF d[k] = NoRoute THEN <<>> ELSE d[k].probes) \o
          [i \in DOMAIN res |->
            [label |-> res[i].label, lat |-> res[i].lat, lan |-> res[i].lan,
             up |-> IF res[i].up = "reachable" THEN "reachable" ELSE "unreachable",
             failed |-> FailedAt(d, k, res[i].label)]]]]

RecordProbes(d, k, res, t) ==
    [d EXCEPT ![k] =
        [updated |-> t, good |-> StickyLabel(d, k),
         probes |-> [i \in DOMAIN res |->
            [label |-> res[i].label, lat |-> res[i].lat, lan |-> res[i].lan,
             up |-> IF res[i].up = "reachable" THEN "reachable" ELSE "unreachable",
             failed |-> FailedAt(d, k, res[i].label)]]]]

Marked(d, k, l, t) ==
    [d EXCEPT ![k].probes =
        [i \in DOMAIN @ |-> IF @[i].label = l THEN [@[i] EXCEPT !.failed = t] ELSE @[i]]]

\* The branch that appends an unknown label is not reached: see CacheIsIndexed.
RecordFailure(d, k, l, t) == Marked(d, k, l, t)
RecordSuccess(d, k, l) == [Marked(d, k, l, NoRoute) EXCEPT ![k].good = l]

\* What a save writes.
Kept(d, t) == [k \in CacheKeys |-> IF d[k] = NoRoute \/ d[k].updated < t - PruneAge
                             THEN NoRoute ELSE d[k]]

----------------------------------------------------------------------------
RouteInit ==
    /\ savedSite \in Sites
    /\ clock = 0
    /\ cacheFile = [k \in CacheKeys |-> NoRoute]
    /\ stage = [a \in RouteAgents |-> "idle"]
    /\ cands = [a \in RouteAgents |-> <<>>]
    /\ began = [a \in RouteAgents |-> 0]
    /\ loaded = [a \in RouteAgents |-> NoRoute]
    /\ order = [a \in RouteAgents |-> <<>>]
    /\ attempt = [a \in RouteAgents |-> 0]
    /\ begun = 0
    /\ marks = [k \in CacheKeys |-> [l \in Labels |-> NoRoute]]
    /\ worked = [k \in CacheKeys |-> NoRoute]
    /\ avoid = [a \in RouteAgents |-> {}]
    /\ current = {}
    /\ overwritten = FALSE

\* History is kept up to the first overwritten save.
Remember(m, w, v, c) ==
    IF overwritten'
    THEN /\ marks' = [k \in CacheKeys |-> [l \in Labels |-> NoRoute]]
         /\ worked' = [k \in CacheKeys |-> NoRoute]
         /\ avoid' = [a \in RouteAgents |-> {}]
         /\ current' = {}
    ELSE marks' = m /\ worked' = w /\ avoid' = v /\ current' = c

\* The file holds what d, saved by agent a, says; what another has saved since
\* a last read or wrote the file is lost.
SaveCache(a, d) ==
    /\ cacheFile' = Kept(d, began[a])
    /\ overwritten' = (overwritten \/ a \notin current)

ReturnRoute(a) ==
    /\ stage' = [stage EXCEPT ![a] = "idle"]
    /\ cands' = [cands EXCEPT ![a] = <<>>]
    /\ began' = [began EXCEPT ![a] = 0]
    /\ order' = [order EXCEPT ![a] = <<>>]
    /\ attempt' = [attempt EXCEPT ![a] = 0]

\* rank, then a stable sort by back-off.  The indices are positions in res.
AttemptOrder(c, res, d, t) ==
    LET ranked == RankProbes(res, StickyLabel(d, CacheKey(c)))
        demoted == {n \in DOMAIN ranked : c[ranked[n]] \in BackoffLabels(d, CacheKey(c), t)} IN
    Keep(ranked, DOMAIN ranked \ demoted) \o Keep(ranked, demoted)

BeginTrying(a, c, res, d, t, cur) ==
    /\ stage' = [stage EXCEPT ![a] = "trying"]
    /\ cands' = [cands EXCEPT ![a] = c]
    /\ order' = [order EXCEPT ![a] = AttemptOrder(c, res, d, t)]
    /\ attempt' = [attempt EXCEPT ![a] = 1]
    /\ Remember(marks, worked,
                [avoid EXCEPT ![a] = {l \in Labels : InBackoff(marks[CacheKey(c)][l], t)}], cur)

\* Manual policy: the pinned candidate, or the primary if there is no such
\* label.  A disabled feature is a connect pinned to nothing.
StartPinned(a) ==
    /\ stage[a] = "idle" /\ a \in Connects
    /\ stage' = [stage EXCEPT ![a] = "trying"]
    /\ cands' = [cands EXCEPT ![a] = savedSite]
    /\ \E i \in DOMAIN savedSite : order' = [order EXCEPT ![a] = <<i>>]
    /\ attempt' = [attempt EXCEPT ![a] = 1]
    /\ UNCHANGED <<savedSite, clock, cacheFile, began, loaded, routeHistory>>

StartCached(a) ==
    /\ stage[a] = "idle" /\ a \in Connects
    /\ IsFresh(cacheFile, CacheKey(savedSite), clock)
    /\ began' = [began EXCEPT ![a] = clock]
    /\ loaded' = [loaded EXCEPT ![a] = cacheFile]
    /\ UNCHANGED <<savedSite, clock, cacheFile, overwritten>>
    /\ BeginTrying(a, savedSite, FreshProbes(cacheFile, CacheKey(savedSite)), cacheFile, clock,
                   current \cup {a})

\* A connect that must probe, or a warmer, which always does.
StartProbe(a) ==
    /\ stage[a] = "idle"
    /\ a \in Warmers \/ ~IsFresh(cacheFile, CacheKey(savedSite), clock)
    /\ stage' = [stage EXCEPT ![a] = "probing"]
    /\ cands' = [cands EXCEPT ![a] = savedSite]
    /\ began' = [began EXCEPT ![a] = clock]
    /\ loaded' = [loaded EXCEPT ![a] = cacheFile]
    /\ UNCHANGED <<savedSite, clock, cacheFile, order, attempt, overwritten>>
    /\ Remember(marks, worked, avoid, current \cup {a})

\* run_probes: one result per candidate, in candidate order.
Results(c) ==
    {[i \in DOMAIN c |-> [label |-> c[i], up |-> o[i].up, lat |-> o[i].lat, lan |-> o[i].lan]] :
        o \in {f \in [DOMAIN c -> UNION {Outcomes[l] : l \in Labels}] :
                  \A i \in DOMAIN c : f[i] \in Outcomes[c[i]]}}

Probed(a) ==
    /\ stage[a] = "probing" /\ a \in Connects
    /\ \E res \in Results(cands[a]) :
          LET d == RecordProbes(loaded[a], CacheKey(cands[a]), res, began[a]) IN
          /\ SaveCache(a, d)
          /\ loaded' = [loaded EXCEPT ![a] = d]
          /\ BeginTrying(a, cands[a], res, d, began[a], {a})
    /\ UNCHANGED <<savedSite, clock, began>>

Warmed(w) ==
    /\ stage[w] = "probing" /\ w \in Warmers
    /\ \E res \in Results(cands[w]) :
          SaveCache(w, RecordProbes(loaded[w], CacheKey(cands[w]), res, began[w]))
    /\ loaded' = [loaded EXCEPT ![w] = NoRoute]
    /\ ReturnRoute(w)
    /\ Remember(marks, worked, avoid, {})
    /\ UNCHANGED <<savedSite, clock>>

CurrentRoute(a) == cands[a][order[a][attempt[a]]]
UsesCache(a) == loaded[a] # NoRoute

RouteWorked(a) ==
    /\ stage[a] = "trying"
    /\ LET k == CacheKey(cands[a])  l == CurrentRoute(a) IN
       IF UsesCache(a)
       THEN /\ SaveCache(a, RecordSuccess(loaded[a], k, l))
            /\ Remember([marks EXCEPT ![k][l] = NoRoute], [worked EXCEPT ![k] = l],
                        [avoid EXCEPT ![a] = {}], {})
       ELSE /\ UNCHANGED <<cacheFile, overwritten>>
            /\ Remember(marks, worked, [avoid EXCEPT ![a] = {}], current)
    /\ loaded' = [loaded EXCEPT ![a] = NoRoute]
    /\ ReturnRoute(a)
    /\ UNCHANGED <<savedSite, clock>>

\* A transport error with another candidate to go on to.
FailOver(a) ==
    /\ stage[a] = "trying" /\ attempt[a] < Len(order[a])
    /\ LET k == CacheKey(cands[a])  l == CurrentRoute(a) IN
       /\ SaveCache(a, RecordFailure(loaded[a], k, l, began[a]))
       /\ loaded' = [loaded EXCEPT ![a] = RecordFailure(loaded[a], k, l, began[a])]
       /\ Remember([marks EXCEPT ![k][l] = began[a]], worked, avoid, {a})
    /\ attempt' = [attempt EXCEPT ![a] = attempt[a] + 1]
    /\ UNCHANGED <<savedSite, clock, stage, cands, began, order>>

\* The last candidate failed, or the error is not of the transport: nothing
\* is recorded.
RouteFailed(a) ==
    /\ stage[a] = "trying"
    /\ loaded' = [loaded EXCEPT ![a] = NoRoute]
    /\ ReturnRoute(a)
    /\ UNCHANGED <<savedSite, clock, cacheFile, overwritten>>
    /\ Remember(marks, worked, [avoid EXCEPT ![a] = {}], current \ {a})

\* The user edits the site in the Site Manager.
EditSite ==
    /\ savedSite' \in Sites \ {savedSite}
    /\ UNCHANGED <<clock, cacheFile, stage, routeLocal, begun, routeHistory>>

RouteTick ==
    /\ clock < MaxRouteTime
    /\ clock' = clock + 1
    /\ UNCHANGED <<savedSite, cacheFile, stage, routeLocal, begun, routeHistory>>

BeginRoute(a) ==
    /\ begun < MaxRoutes
    /\ begun' = begun + 1
    /\ StartPinned(a) \/ StartCached(a) \/ StartProbe(a)

StepRoute(a) ==
    /\ Probed(a) \/ Warmed(a) \/ RouteWorked(a) \/ FailOver(a) \/ RouteFailed(a)
    /\ UNCHANGED begun

RouteNext == EditSite \/ RouteTick \/ \E a \in RouteAgents : BeginRoute(a) \/ StepRoute(a)

RouteSpec == RouteInit /\ [][RouteNext]_routeVars

----------------------------------------------------------------------------
(* Properties. *)

\* The state has its types: in the file, latencies belong to reachable probes.
RouteTypeOK ==
    /\ savedSite \in Sites /\ clock \in RouteTimes /\ overwritten \in BOOLEAN
    /\ \A k \in CacheKeys : cacheFile[k] = NoRoute \/ cacheFile[k] \in CacheEntry
    /\ \A a \in RouteAgents : /\ stage[a] \in {"idle", "probing", "trying"}
                         /\ began[a] \in RouteTimes

\* The cached probes of a key are one per candidate.  connect_routed indexes
\* the candidates with positions in the cached probes, whoever wrote them and
\* in whatever order: an extra or a missing probe would be an index out of
\* range or a route that is never tried.
CacheIsIndexed ==
    \A k \in CacheKeys : cacheFile[k] # NoRoute =>
        LET labels == [i \in DOMAIN cacheFile[k].probes |-> cacheFile[k].probes[i].label] IN
        ToSet(labels) = k /\ Len(labels) = Cardinality(k)

\* A routed connect has every candidate in its order, once: fail-over can
\* reach each route whatever the probes and the cache say.
EachRouteOnce ==
    \A a \in Connects : (stage[a] = "trying" /\ UsesCache(a)) =>
        /\ ToSet(order[a]) = DOMAIN cands[a]
        /\ Len(order[a]) = Len(cands[a])

ProbesOf(a) == FreshProbes(loaded[a], CacheKey(cands[a]))
ReachedLan(a, n) == ProbesOf(a)[n].up = "reachable" /\ ProbesOf(a)[n].lan
ReachableLan(a, l) == \E n \in DOMAIN ProbesOf(a) : ProbesOf(a)[n].label = l /\ ReachedLan(a, n)
TriedRoute(a, i) == cands[a][order[a][i]]
RoutedAgents == {a \in Connects : stage[a] = "trying" /\ UsesCache(a)}

\* Probes are applied to the candidates by their position (routing.rs: `order`
\* indexes `candidates`).  A candidate whose position was reachable on the LAN,
\* and which has not just failed, is tried before every candidate whose
\* position was not, sticky or not, whatever was cached, marked or re-probed.
LanFirst ==
    \A a \in RoutedAgents : ~overwritten =>
        \A j \in DOMAIN order[a] : \A i \in 1 .. j - 1 :
            (ReachedLan(a, order[a][j]) /\ TriedRoute(a, j) \notin avoid[a])
                => ReachedLan(a, order[a][i])

\* What route.rs promises: "Reachable LAN routes always rank ahead".  It does
\* not hold: the key of the cache sorts the candidates (routing.rs, cache_key),
\* so once the user has reordered them a position is another route's.
LanRoutesFirst ==
    \A a \in RoutedAgents : ~overwritten =>
        \A j \in DOMAIN order[a] : \A i \in 1 .. j - 1 :
            (ReachableLan(a, TriedRoute(a, j)) /\ TriedRoute(a, j) \notin avoid[a])
                => ReachableLan(a, TriedRoute(a, i))

\* A route that failed over less than Backoff before this connect began, and
\* has not worked since, is tried after all routes that did not, even if
\* its first hop answered the probe, unless a save has overwritten another.
BackoffHonoured ==
    \A a \in RoutedAgents : ~overwritten =>
        \A j \in DOMAIN order[a] : \A i \in 1 .. j - 1 :
            TriedRoute(a, i) \in avoid[a] => TriedRoute(a, j) \in avoid[a]

\* The file remembers the last success and the failures since, through
\* re-probing, editing and pruning, unless a save has overwritten another.
CacheRemembers ==
    ~overwritten => \A k \in CacheKeys : cacheFile[k] # NoRoute =>
        /\ cacheFile[k].good # NoRoute => cacheFile[k].good = worked[k]
        /\ \A l \in k : InBackoff(marks[k][l], clock) => FailedAt(cacheFile, k, l) = marks[k][l]
=============================================================================
