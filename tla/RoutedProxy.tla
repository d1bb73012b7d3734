---------------------------- MODULE RoutedProxy -----------------------------
(***************************************************************************)
(* The router built from the rules of a tunnel and the proxies it picks:   *)
(* NewRouter, Match, NewRoutedProxy, pickRouteProxy, the path that is      *)
(* stripped and the Host that is sent to the origin.  All of it is         *)
(* computed once, from the configuration, and read by every request.       *)
(***************************************************************************)
EXTENDS RouteRules, SequencesExt

CONSTANT Bare    \* a lower-case host without its port or brackets

ASSUME BareAssumption == Bare \in [Hosts -> Hosts] /\ Bare[Empty] = Empty

Error == [ok |-> FALSE]

-----------------------------------------------------------------------------
(* Targets                                                                 *)

schemeForProtocol(scheme) ==
  CASE scheme = "ws" -> "http" [] scheme = "wss" -> "https" [] OTHER -> scheme

(* ParseTarget; a target that is not a full URL is an error.               *)
ParseTarget(t, serverName, insecure, pass) ==
  IF ~validateTarget(t) THEN Error
  ELSE [ok |-> TRUE,
        url |-> [t EXCEPT !.scheme = schemeForProtocol(@)],
        serverName |-> serverName, insecureSkipVerify |-> insecure,
        passHostHeader |-> pass,
        websocketUpgradeMode |-> t.scheme \in {"ws", "wss"}]

-----------------------------------------------------------------------------
(* NewRouter                                                               *)

(* The kind of a rule's path and what is left of it: surrounding spaces,   *)
(* no slash at the start, two slashes in a row, or a star anywhere but in  *)
(* a last segment of its own are errors; / is the default route.           *)
classifyAndNormalizeRulePath(path) ==
  LET segs   == path.segs
      prefix == SubSeq(segs, 1, Len(segs) - 1)
      double == \E i \in 1..Len(segs) - 1 : segs[i] = Empty
  IN  IF path.padded THEN PathError
      ELSE IF path.rooted /\ segs = Root THEN [kind |-> "default", base |-> Root]
      ELSE IF ~path.rooted THEN PathError
      ELSE IF double THEN PathError
      ELSE IF segs[Len(segs)] # "*"
        THEN IF HasStar(segs) THEN PathError ELSE [kind |-> "exact", base |-> segs]
      ELSE IF prefix = <<>> THEN PathError
      ELSE IF HasStar(prefix) THEN PathError
      ELSE [kind |-> "prefix", base |-> prefix]

(* A rule compiled: its host normalized, its path classified.              *)
Compile(rule) ==
  LET p == classifyAndNormalizeRulePath(rule.path)
  IN  [rule |-> rule, host |-> Lower[rule.host], kind |-> p.kind, base |-> p.base]

routeHostPathKey(route) == <<route.host, route.kind, route.base>>

(* The router, or an error for a bad path or a duplicate.  Its maps and    *)
(* lists hold the compiled rules, told apart by kind and host.             *)
NewRouter(rules) ==
  LET routes == [i \in DOMAIN rules |-> Compile(rules[i])]
  IN  IF \/ \E i \in DOMAIN routes : routes[i].kind = "error"
         \/ \E i, j \in DOMAIN routes :
              i # j /\ routeHostPathKey(routes[i]) = routeHostPathKey(routes[j])
      THEN Error
      ELSE [ok |-> TRUE, routes |-> { routes[i] : i \in DOMAIN routes }]

(* The order of sort.Slice, longest path first.  Counted in segments: of   *)
(* two prefixes of one path the longer text is the one with more segments, *)
(* and no others compete.                                                  *)
ByLength(route1, route2) == Len(route1.base) > Len(route2.base)

-----------------------------------------------------------------------------
(* Match                                                                   *)

normalizeRequestHost(host) == Bare[Lower[host]]

NoRoute == [rule |-> <<>>, host |-> Empty, kind |-> "none", base |-> <<>>]

(* path == p.Path || strings.HasPrefix(path, p.Path+"/")                   *)
under(path, base) == IsPrefix(base, path)

(* What a scan of a sorted list for a match finds first: a match that no   *)
(* other match precedes.  The sort is not stable, so that equals come in   *)
(* any order.                                                              *)
FirstOf(matches) == CHOOSE r \in matches : \A other \in matches : ~ByLength(other, r)

(* The maps of exact routes and of defaults, and the sorted prefix list,   *)
(* tried in this order for one host ("" for the routes without a host).    *)
MatchHost_PrefixFirst(router, host, path) ==
  LET of(kind) == { r \in router.routes : r.host = host /\ r.kind = kind }
      exact    == { r \in of("exact") : r.base = path }
      matching == { r \in of("prefix") : under(path, r.base) }
  IN  IF matching # {} THEN FirstOf(matching)
      ELSE IF exact # {} THEN CHOOSE r \in exact : TRUE
      ELSE IF of("default") # {} THEN CHOOSE r \in of("default") : TRUE
      ELSE NoRoute

MatchHost(router, host, path) ==
  LET of(kind) == { r \in router.routes : r.host = host /\ r.kind = kind }
      exact    == { r \in of("exact") : r.base = path }
      matching == { r \in of("prefix") : under(path, r.base) }
  IN  IF exact # {} THEN CHOOSE r \in exact : TRUE
      ELSE IF matching # {} THEN FirstOf(matching)
      ELSE IF of("default") # {} THEN CHOOSE r \in of("default") : TRUE
      ELSE NoRoute

Match(router, host, path) ==
  LET h      == normalizeRequestHost(host)
      byHost == MatchHost(router, h, path)
  IN  IF h # Empty /\ byHost # NoRoute THEN byHost ELSE MatchHost(router, Empty, path)

-----------------------------------------------------------------------------
(* NewRoutedProxy and pickRouteProxy                                       *)

effectivePassHost(rule, default) ==
  IF rule.passHostHeader = "unset" THEN default ELSE rule.passHostHeader = "true"

(* A key is made of everything that tells two proxies apart; the host in   *)
(* it is the rule's own spelling here, the normalized one in the match.    *)
routeProxyKey(host, base, rule, pass) ==
  <<host, base, rule.target, rule.originServerName, rule.insecureSkipVerify, pass>>

routeRuleProxyKey(rule, pass) ==
  routeProxyKey(rule.host, classifyAndNormalizeRulePath(rule.path).base, rule, pass)

matchedRouteProxyKey(route, default) ==
  routeProxyKey(route.host, route.base, route.rule, effectivePassHost(route.rule, default))

routeTarget(rule, default) ==
  ParseTarget(rule.target, rule.originServerName, rule.insecureSkipVerify,
              effectivePassHost(rule, default))

NewRoutedProxy(target, rules) ==
  LET default == target.passHostHeader
      router  == NewRouter(rules)
  IN  IF rules = <<>> THEN [ok |-> TRUE, routed |-> FALSE, default |-> target]
      ELSE IF ~router.ok \/ \E i \in DOMAIN rules : ~routeTarget(rules[i], default).ok
        THEN Error
      ELSE [ok |-> TRUE, routed |-> TRUE, default |-> target, router |-> router,
            byKey |-> { <<routeRuleProxyKey(rules[i], effectivePassHost(rules[i], default)),
                          routeTarget(rules[i], default)>> : i \in DOMAIN rules }]

(* The target a request goes to and the route it is stripped by.           *)
pickRouteProxy(proxy, host, path) ==
  LET fallback == [target |-> proxy.default, route |-> NoRoute]
  IN  IF ~proxy.routed THEN fallback
      ELSE LET route == Match(proxy.router, host, path)
               key   == matchedRouteProxyKey(route, proxy.default.passHostHeader)
               found == { e \in proxy.byKey : e[1] = key }
           IN  IF route = NoRoute \/ found = {} THEN fallback
               ELSE [target |-> (CHOOSE e \in found : TRUE)[2], route |-> route]

(* requestWithStrippedPathPrefix.                                          *)
strippedPath(route, path) ==
  IF \/ route = NoRoute \/ route.base = Root \/ ~under(path, route.base)
     \/ ~route.rule.stripPathPrefix
  THEN path
  ELSE LET rest == SubSeq(path, Len(route.base) + 1, Len(path))
       IN  IF rest = <<>> THEN Root ELSE rest

(* rewriteRequest: the Host the origin is asked for.                       *)
originHost(target, host) ==
  IF target.passHostHeader /\ host # Empty THEN host
  ELSE IF target.serverName # Empty THEN target.serverName ELSE target.url.origin

(* What the origin sees of a request.                                      *)
Forward(proxy, host, path) ==
  LET picked == pickRouteProxy(proxy, host, path)
  IN  [target |-> picked.target.url,
       host |-> originHost(picked.target, host),
       insecure |-> picked.target.insecureSkipVerify,
       path |-> strippedPath(picked.route, path)]
=============================================================================
