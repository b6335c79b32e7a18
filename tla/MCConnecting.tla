---------------------------- MODULE MCConnecting ----------------------------
(***************************************************************************)
(* Small instances of the modules about how a session comes to be: the     *)
(* saved sites, the SSH configuration, the choice among a site's routes,   *)
(* the proxy it dials through, and the host keys it accepts.  They meet    *)
(* only in the options one hands to the next, so each behaviour plays one  *)
(* of them, its scene, while the others rest in one of their initial       *)
(* states.                                                                 *)
(***************************************************************************)
EXTENDS RouteSelection, SshConnect, SshConfig, ProxyDial, SavedSites

\* A site, and the same with its routes in another order.
MCSites == {<<"primary", "lan", "jump">>, <<"primary", "jump", "lan">>}
MCOutcomes ==
  [l \in {"primary", "lan", "jump"} |->
     CASE l = "primary" -> {ProbeLive(12, FALSE), Unreachable}
       [] l = "lan" -> {ProbeLive(10, TRUE), Unreachable}
       [] l = "jump" -> {Unprobeable}]

\* Two hosts, one on a port of its own; a known_hosts file that is missing,
\* cannot be read, or holds lines of every kind.
CONSTANTS h1, h2, k1, k2
MCTokens == [h \in {h1, h2} |-> IF h = h1 THEN {"h1", "[h1]:22"} ELSE {"[h2]:2222"}]
MCToken == [h \in {h1, h2} |-> IF h = h1 THEN "h1" ELSE "[h2]:2222"]
Line(names, hashed, key) == [names |-> names, hashed |-> hashed, key |-> key]
MCFiles ==
  {[state |-> "absent", lines |-> <<>>], [state |-> "unreadable", lines |-> <<>>],
   [state |-> "present", lines |-> <<Line({"h1", "[h2]:2222"}, FALSE, UnparsedKey),
                                     Line({"[h1]:22"}, TRUE, k1)>>],
   [state |-> "present", lines |-> <<Line({"h1"}, FALSE, UnparsedKey)>>]}
DialOpt(host, policy, backend, hash, proxy, jump, creds) ==
  [host |-> host, policy |-> policy, backend |-> backend, hash |-> hash,
   proxy |-> proxy, jump |-> jump, creds |-> creds]
MCOptions ==
  {DialOpt(h1, "AcceptNew", "sftp", FALSE, FALSE, FALSE, {"password"}),
   DialOpt(h2, "AcceptNew", "sftp", TRUE, FALSE, FALSE, {"password"}),
   DialOpt(h1, "Strict", "scp", FALSE, TRUE, TRUE, {"key"}),
   DialOpt(h2, "AcceptNew", "scp", FALSE, FALSE, TRUE, {"keyboard"}),
   DialOpt(h1, "Off", "sftp", FALSE, TRUE, TRUE, {})}

\* Every main file of four lines over an include, a Match, two Host patterns
\* and two values; two files to include.
ConfigLine(kw, arg) == [kw |-> kw, arg |-> arg]
Pat(negated, names) == [negated |-> negated, names |-> names]
AnyHost == {Pat(FALSE, HostNames)}
OneHost(h) == {Pat(FALSE, {h})}
LineAlphabet ==
  {ConfigLine("include", <<"more", "missing">>), ConfigLine("match", {}),
   ConfigLine("host", OneHost("alias")), ConfigLine("host", AnyHost),
   ConfigLine("hostname", "10.0.0.2"), ConfigLine("proxyjump", "bastion")}
MoreTexts ==
  {<<ConfigLine("user", "stray"), ConfigLine("host", AnyHost \cup {Pat(TRUE, {"alias"})}),
     ConfigLine("user", "more"), ConfigLine("identityfile", "id1"),
     ConfigLine("include", <<"more", "main">>)>>,
   <<ConfigLine("host", OneHost("alias")), ConfigLine("port", "2200"),
     ConfigLine("hostname", "example"), ConfigLine("hostname", "10.0.0.2")>>}
Texts(t, m) == [f \in {"main", "more"} |-> IF f = "main" THEN t ELSE m]
MCTexts == {Texts(t, m) : t \in [1..4 -> LineAlphabet], m \in MoreTexts}
MCRoute(host, jump, proxy) ==
  [host |-> host, user |-> NoValue, port |-> NoValue, key |-> NoValue,
   jump |-> jump, proxy |-> proxy]
MCSite(host, jump, proxy, routes) ==
  [host |-> host, user |-> NoValue, port |-> NoValue, key |-> NoValue,
   jump |-> jump, proxy |-> proxy, routes |-> routes]
MCSiteOptions ==
  {MCSite("alias", NoValue, NoValue, <<>>), MCSite("10.0.0.2", "bastion", NoValue, <<>>),
   MCSite("alias", NoValue, "squid", <<MCRoute("10.0.0.2", NoValue, NoValue)>>),
   MCSite("alias", "bastion", NoValue,
          <<MCRoute(NoValue, "bastion", "squid"), MCRoute("example", NoValue, "squid"),
            MCRoute(NoValue, NoValue, NoValue)>>)}

\* A file of the predecessor's, without ids, and one of this program's, with
\* a route; two secrets in the predecessor's keyring service.
SiteOf(id, name, routes) == [id |-> id, name |-> name, host |-> name, routes |-> routes]
MCSiteFiles ==
  {<<>>, <<SiteOf("", "nas", <<>>), SiteOf("", "web", <<>>)>>,
   <<SiteOf("1", "nas", <<RouteRow("lan", "nas")>>), SiteOf("2", "web", <<>>)>>}
EmptyStore == [k \in SiteKeys |-> ""]
MCVaults ==
  {[up |-> TRUE, ring |-> EmptyStore, plain |-> EmptyStore,
    legacy |-> [EmptyStore EXCEPT ![<<"site", "nas", "password">>] = "old",
                                  ![<<"site-id", "1", "proxypass">>] = "old"]]}
\* Deletions that keep the secrets, and the fallback file allowed; or neither.
MCPrefs == {[deleteSecrets |-> b, fallback |-> ~b] : b \in BOOLEAN}
MCNameOrder == <<"lab", "nas", "web">>
MCAliases == <<"nas", "web">>

-----------------------------------------------------------------------------
VARIABLE scene
Scenes == {"routes", "hostkeys", "config", "proxy", "sites"}
allVars == <<scene, routeVars, sshVars, configVars, proxyVars, siteVars>>

\* The initial state in which a part rests while another plays.
RoutesRest == savedSite = <<"primary", "lan", "jump">>
HostKeysRest == knownHosts.state = "absent" /\ \A h \in SshHosts : serverKey[h] = k1
ConfigRests == texts = Texts([i \in 1..4 |-> ConfigLine("match", {})],
                             CHOOSE m \in MoreTexts : Len(m) = 4)
ProxyRests ==
  /\ dialling = [by |-> "core", kind |-> "socks5", creds |-> FALSE]
  /\ script = (CHOOSE s \in SocksScripts(dialling) : TRUE)
SitesRest == sitesFile.list = <<>> /\ ~sitePrefs.deleteSecrets

Init ==
  /\ scene \in Scenes
  /\ RouteInit /\ (scene = "routes" \/ RoutesRest)
  /\ SshInit /\ (scene = "hostkeys" \/ HostKeysRest)
  /\ SitesInit /\ (scene = "sites" \/ SitesRest)
  /\ DialInit /\ (scene = "proxy" \/ ProxyRests)
  /\ ConfigInit /\ (scene = "config" \/ ConfigRests)

Next ==
  \/ /\ scene = "routes" /\ RouteNext
     /\ UNCHANGED <<scene, sshVars, configVars, proxyVars, siteVars>>
  \/ /\ scene = "hostkeys" /\ SshNext
     /\ UNCHANGED <<scene, routeVars, configVars, proxyVars, siteVars>>
  \/ /\ scene = "config" /\ ConfigNext
     /\ UNCHANGED <<scene, routeVars, sshVars, proxyVars, siteVars>>
  \/ /\ scene = "proxy" /\ DialNext
     /\ UNCHANGED <<scene, routeVars, sshVars, configVars, siteVars>>
  \/ /\ scene = "sites" /\ SitesNext
     /\ UNCHANGED <<scene, routeVars, sshVars, configVars, proxyVars>>

Spec == Init /\ [][Next]_allVars

\* Each part's types, while it plays.
AllTypesOK ==
  /\ scene = "routes" => RouteTypeOK
  /\ scene = "hostkeys" => SshTypeOK
  /\ scene = "config" => ConfigTypeOK
  /\ scene = "proxy" => DialTypeOK
  /\ scene = "sites" => SitesTypeOK

\* A site's routes are tried once each, those first whose position was probed
\* as reachable on the LAN, those in back-off last, and the cache remembers
\* what was learnt (routing.rs, rank_probes).  LanRoutesFirst is not among them.
RoutesAreRanked ==
  scene = "routes" =>
    CacheIsIndexed /\ EachRouteOnce /\ LanFirst /\ BackoffHonoured /\ CacheRemembers

\* A session is set up as configured: over a host key that was known or that
\* the user accepted, each option as the first block of the SSH configuration
\* that has it says, each route over its own transport but for the jump host
\* the configuration adds, and nothing but the peer's bytes left in a proxied
\* stream (ssh_transport.rs, ssh_config.rs, routing.rs, proxy.rs).
SessionIsAsConfigured ==
  /\ scene = "hostkeys" => AcceptedIsKnown /\ KeysAreVouchedFor
  /\ scene = "config" => FirstObtainedWins /\ RoutesKeepTransport
  /\ scene = "proxy" => TunnelIsClean
=============================================================================
