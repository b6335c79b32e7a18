----------------------------- MODULE SshConfig ------------------------------
(***************************************************************************)
(* From ~/.ssh/config and a saved site to the options a connect is made    *)
(* with: freescp-core's ssh_config.rs, the candidates of the app's         *)
(* routing.rs, apply_ssh_config_defaults and run_connect of connect.rs.    *)
(*                                                                         *)
(* The parser is a machine with one step per line: a stack of files being  *)
(* read, the blocks read so far, the files visited.  When it ends, the     *)
(* candidates of a site are built, and one of them is connected, which     *)
(* applies the configuration a second time.                                *)
(*                                                                         *)
(* A line is its keyword and argument; a pattern is the set of names it    *)
(* matches.  Left out: quoting and comments, how paths are globbed, values *)
(* that do not parse, and every keyword the code skips.                    *)
(***************************************************************************)
EXTENDS Integers, Sequences, FiniteSets, SequencesExt

CONSTANTS
    ConfigTexts,    \* possible configurations: functions from files to lines
    RootFile,       \* ~/.ssh/config
    IncludeDepth,   \* MAX_INCLUDE_DEPTH
    SiteOptions,    \* sites with their routes
    HostNames,      \* names and addresses
    LanNames,       \* those that are private addresses
    NoValue

VARIABLES
    texts,          \* the configuration files
    readers,        \* parser: the files and Include lines being worked on
    visited,        \* files already included
    blocks,         \* Host blocks in the order in which they were begun
    options,        \* the candidates of the site, once built
    dialled,        \* the options of the candidate that is connected
    readLines       \* history: [pats, block, param, value] in the order of reading

configVars == <<texts, readers, visited, blocks, options, dialled, readLines>>

Params == {"hostname", "user", "port", "proxyjump"}

Keywords == Params \cup {"identityfile"}

Patterns == [negated : BOOLEAN, names : SUBSET HostNames]
LineOK(line) ==
    /\ line.kw = "host" => line.arg \in SUBSET Patterns
    /\ line.kw = "include" => line.arg \in Seq(STRING)
    /\ line.kw \in Keywords => line.arg \in STRING \ {NoValue}

ASSUME ConfigAssumption ==
    /\ NoValue \notin HostNames /\ LanNames \subseteq HostNames
    /\ \A t \in ConfigTexts :
        /\ RootFile \in DOMAIN t /\ DOMAIN t \subseteq STRING
        /\ \A f \in DOMAIN t : /\ Len(t[f]) \in Nat /\ DOMAIN t[f] = 1..Len(t[f])
                              /\ \A i \in DOMAIN t[f] : LineOK(t[f][i])
    /\ \A site \in SiteOptions :
        Len(site.routes) \in Nat /\ DOMAIN site.routes = 1..Len(site.routes)
    /\ IncludeDepth \in Nat

----------------------------------------------------------------------------
(* Parsing (parse_lines, include). *)

NoBlock == 0
Reader(f, b) == [file |-> f, at |-> 1, block |-> b, todo |-> <<>>]
NewBlock(pats) == [pats |-> pats, vals |-> [p \in Params |-> NoValue], ids |-> <<>>]
Depth == Len(readers) - 1

ConfigInit ==
    /\ texts \in ConfigTexts
    /\ readers = <<Reader(RootFile, NoBlock)>>
    /\ visited = {}
    /\ blocks = <<>>
    /\ options = <<>>
    /\ dialled = NoValue
    /\ readLines = <<>>

Top == readers[1]
Advanced(r) == [r EXCEPT !.at = @ + 1]
Reading == readers # <<>> /\ Top.todo = <<>>
LineIs(kw) == Reading /\ Top.at <= Len(texts[Top.file]) /\ texts[Top.file][Top.at].kw = kw
Argument == texts[Top.file][Top.at].arg

HostLine ==
    /\ LineIs("host")
    /\ blocks' = Append(blocks, NewBlock(Argument))
    /\ readers' = [readers EXCEPT ![1] = [Advanced(@) EXCEPT !.block = Len(blocks) + 1]]
    /\ UNCHANGED <<texts, visited, options, dialled, readLines>>

MatchLine ==
    /\ LineIs("match")
    /\ readers' = [readers EXCEPT ![1] = [Advanced(@) EXCEPT !.block = NoBlock]]
    /\ UNCHANGED <<texts, visited, blocks, options, dialled, readLines>>

IncludeLine ==
    /\ LineIs("include")
    /\ readers' = [readers EXCEPT ![1] =
                     [Advanced(@) EXCEPT !.todo = IF Depth < IncludeDepth THEN Argument ELSE <<>>]]
    /\ UNCHANGED <<texts, visited, blocks, options, dialled, readLines>>

\* The next file of an Include line: missing files and visited ones are
\* skipped, the others begin outside every block.
IncludeFile ==
    /\ readers # <<>> /\ Top.todo # <<>>
    /\ LET f == Head(Top.todo)
           rest == [readers EXCEPT ![1].todo = Tail(@)] IN
       IF f \in visited \/ f \notin DOMAIN texts
       THEN readers' = rest /\ UNCHANGED visited
       ELSE readers' = <<Reader(f, NoBlock)>> \o rest /\ visited' = visited \cup {f}
    /\ UNCHANGED <<texts, blocks, options, dialled, readLines>>

\* The first value of a block wins; identity files accumulate.
Filled(b, kw, v) ==
    IF kw = "identityfile"
    THEN IF v \in ToSet(b.ids) THEN b ELSE [b EXCEPT !.ids = Append(@, v)]
    ELSE IF b.vals[kw] = NoValue THEN [b EXCEPT !.vals[kw] = v] ELSE b

ParamLine ==
    /\ \E kw \in Keywords :
         /\ LineIs(kw)
         /\ IF Top.block = NoBlock THEN UNCHANGED <<blocks, readLines>>
            ELSE /\ blocks' = [blocks EXCEPT ![Top.block] = Filled(@, kw, Argument)]
                 /\ readLines' = Append(readLines, [pats |-> blocks[Top.block].pats,
                        block |-> Top.block, param |-> kw, value |-> Argument])
    /\ readers' = [readers EXCEPT ![1] = Advanced(@)]
    /\ UNCHANGED <<texts, visited, options, dialled>>

FileEnds ==
    /\ Reading /\ Top.at > Len(texts[Top.file])
    /\ readers' = Tail(readers)
    /\ UNCHANGED <<texts, visited, blocks, options, dialled, readLines>>

Parsed == readers = <<>>

----------------------------------------------------------------------------
(* Resolution. *)

\* A matching negated pattern excludes the whole block.
BlockMatches(pats, h) ==
    /\ \E p \in pats : ~p.negated /\ h \in p.names
    /\ \A p \in pats : p.negated => h \notin p.names

Matching(h) == {i \in DOMAIN blocks : BlockMatches(blocks[i].pats, h)}

\* The first of the values of s at the places in I.
FirstOf(s, I) == IF I = {} THEN NoValue ELSE s[CHOOSE i \in I : \A j \in I : i <= j]

\* What a block says of a parameter, and what the blocks that match do.
BlockValue(b, p) == IF p = "identityfile" THEN FirstOf(b.ids, DOMAIN b.ids) ELSE b.vals[p]
ResolvedValue(h, p) ==
    FirstOf([i \in DOMAIN blocks |-> BlockValue(blocks[i], p)],
            {i \in Matching(h) : BlockValue(blocks[i], p) # NoValue})
Resolve(h) == [p \in Params |-> ResolvedValue(h, p)]
ResolvedKey(h) == ResolvedValue(h, "identityfile")

Else(v, w) == IF v = NoValue THEN w ELSE v

\* apply_resolved_params: what the user left at its default.
WithDefaults(o, allowJump) ==
    LET r == Resolve(o.host)
        jump == allowJump /\ o.jump = NoValue /\ o.proxy = NoValue IN
    [o EXCEPT !.host = Else(r["hostname"], @), !.user = Else(@, r["user"]),
              !.port = Else(@, r["port"]), !.key = Else(@, ResolvedKey(o.host)),
              !.jump = IF jump THEN r["proxyjump"] ELSE @]

\* apply_resolved of the core, which knows neither allowJump nor the proxy.
WithUserConfig(o) ==
    LET r == Resolve(o.host) IN
    [o EXCEPT !.host = Else(r["hostname"], @), !.user = Else(@, r["user"]),
              !.port = Else(@, r["port"]), !.key = Else(@, ResolvedKey(o.host)),
              !.jump = Else(@, r["proxyjump"])]

----------------------------------------------------------------------------
(* The candidates of a site (routing.rs). *)

Tunnelled(o) == o.jump # NoValue \/ o.proxy # NoValue

\* A route owns its transport: its jump host, else its proxy, else none.
RouteOptions(site, route) ==
    [host |-> Else(route.host, site.host), user |-> Else(route.user, site.user),
     port |-> Else(route.port, site.port), key |-> Else(route.key, site.key),
     jump |-> route.jump,
     proxy |-> IF route.jump # NoValue THEN NoValue ELSE route.proxy,
     own |-> IF route.jump # NoValue \/ route.proxy # NoValue THEN "tunnel" ELSE "direct"]

RouteCandidate(site, route) ==
    WithDefaults(RouteOptions(site, route), route.jump # NoValue)

Primary(site) ==
    WithDefaults([host |-> site.host, user |-> site.user, port |-> site.port, key |-> site.key,
                  jump |-> site.jump, proxy |-> site.proxy, own |-> "primary"], TRUE)

\* A tunnelled primary endpoint with a private address is also tried directly,
\* unless some candidate does so already.
LanCandidates(cs) ==
    LET p == cs[1]
        direct == {i \in DOMAIN cs : cs[i].host = p.host /\ cs[i].port = p.port
                                     /\ ~Tunnelled(cs[i])} IN
    IF Tunnelled(p) /\ p.host \in LanNames /\ direct = {}
    THEN <<[p EXCEPT !.jump = NoValue, !.proxy = NoValue, !.own = "direct"]>>
    ELSE <<>>

Candidates(site) ==
    LET cs == <<Primary(site)>>
              \o [i \in DOMAIN site.routes |-> RouteCandidate(site, site.routes[i])] IN
    cs \o LanCandidates(cs)

BuildCandidates ==
    /\ Parsed /\ options = <<>>
    /\ \E site \in SiteOptions : options' = Candidates(site)
    /\ UNCHANGED <<texts, readers, visited, blocks, dialled, readLines>>

\* run_connect and run_shell_connect begin with apply_user_config.
RunConnect ==
    /\ options # <<>> /\ dialled = NoValue
    /\ \E i \in DOMAIN options : dialled' = WithUserConfig(options[i])
    /\ UNCHANGED <<texts, readers, visited, blocks, options, readLines>>

ConfigNext ==
    \/ HostLine \/ MatchLine \/ IncludeLine \/ IncludeFile \/ ParamLine \/ FileEnds
    \/ BuildCandidates \/ RunConnect

ConfigSpec == ConfigInit /\ [][ConfigNext]_configVars

----------------------------------------------------------------------------
(* Properties. *)

ConfigTypeOK ==
    /\ visited \subseteq DOMAIN texts
    /\ Len(readers) <= IncludeDepth + 1
    /\ \A i \in DOMAIN readers : readers[i].block \in 0..Len(blocks)

(***************************************************************************)
(* "first obtained value wins ... across blocks" (ssh_config.rs:28): what  *)
(* is resolved for a host is, of the lines that stand in a matching block, *)
(* the first of the block whose Host line was read first, however files    *)
(* include one another, are skipped, and leave blocks to be filled later.  *)
(* Where no Include stands inside a Host block, that is the first of all   *)
(* such lines in the order of reading.                                     *)
(***************************************************************************)
IncludeInBlock ==
    \E f \in DOMAIN texts : \E i, j \in DOMAIN texts[f] :
        /\ j < i /\ texts[f][j].kw = "host" /\ texts[f][i].kw = "include"
        /\ \A k \in j..i : texts[f][k].kw # "match"
LinesFor(h, p) ==
    {i \in DOMAIN readLines : readLines[i].param = p /\ BlockMatches(readLines[i].pats, h)}
ReadValues == [i \in DOMAIN readLines |-> readLines[i].value]
FirstObtained(h, p) == FirstOf(ReadValues, LinesFor(h, p))
FirstInBlocks(h, p) ==
    FirstOf(ReadValues, {i \in LinesFor(h, p) :
        \A j \in LinesFor(h, p) : readLines[i].block <= readLines[j].block})
FirstObtainedWins ==
    Parsed =>
        \A h \in HostNames, p \in Keywords :
            /\ ResolvedValue(h, p) = FirstInBlocks(h, p)
            /\ ~IncludeInBlock => ResolvedValue(h, p) = FirstObtained(h, p)

\* OpenSSH's rule without the condition does not hold: an Include inside a
\* Host block is read before the rest of the block, whose values still win
\* over those of the included file.
FirstReadWins ==
    Parsed => \A h \in HostNames, p \in Keywords : ResolvedValue(h, p) = FirstObtained(h, p)

(***************************************************************************)
(* A candidate has one way to its host: a route that brings its own jump   *)
(* host or proxy, and nothing else, uses it; a route without either, and   *)
(* the injected LAN candidate, is direct, whatever the configuration says  *)
(* of its host (build_candidates).  What is dialled goes the way of its    *)
(* candidate, but for a jump host: one the candidate lacks is added when   *)
(* the configuration has it for the host the candidate was resolved to.    *)
(***************************************************************************)
SameWay(o, c) == o.own = c.own /\ o.jump = c.jump /\ o.proxy = c.proxy
RoutesKeepTransport ==
    /\ \A i \in DOMAIN options :
         /\ options[i].own = "direct" => ~Tunnelled(options[i])
         /\ options[i].own # "primary" => ~(options[i].jump # NoValue /\ options[i].proxy # NoValue)
    /\ dialled # NoValue => \E i \in DOMAIN options :
         \/ SameWay(dialled, options[i])
         \/ /\ options[i].jump = NoValue
            /\ SameWay(dialled, [options[i] EXCEPT !.jump = dialled.jump])
            /\ dialled.jump = ResolvedValue(options[i].host, "proxyjump")

\* "Direct routes must not pick up ProxyJump from the Host alias"
\* (routing.rs:213): it does not hold of what is dialled, for the core applies
\* the configuration again, to the host name the first time gave.
DialledAsBuilt ==
    dialled # NoValue /\ dialled.own # "primary" =>
        \E i \in DOMAIN options : SameWay(dialled, options[i])
=============================================================================
