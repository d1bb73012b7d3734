------------------------------ MODULE Startup -------------------------------
(***************************************************************************)
(* A tunnel from the command line to its first request: Parse, then for    *)
(* one of the configured tunnels (they share nothing here) Normalize, the  *)
(* session from a token or from a new quick tunnel, and PrepareRuntime,    *)
(* which builds the routed proxy.  Composes Configuration, RoutedProxy and *)
(* QuickTunnelClient; what follows is BridgeRunner.                        *)
(***************************************************************************)
EXTENDS Configuration, RoutedProxy, QuickTunnelClient

CONSTANTS
  Inputs,           \* environment token, command line and configuration file
  BadTokens,        \* tokens that do not decode, or lack a field
  Requests          \* requests of the edge: host and path

(* A block of the file has some of its fields; so has a rule in it.        *)
IsRawBlock(raw) ==
  /\ "target" \in DOMAIN raw => IsTarget(raw.target)
  /\ "routes" \in DOMAIN raw =>
       \A i \in DOMAIN raw.routes :
         /\ "path" \in DOMAIN raw.routes[i] => IsPath(raw.routes[i].path)
         /\ "target" \in DOMAIN raw.routes[i] => IsTarget(raw.routes[i].target)

(* Paths and targets are texts, and a file has at most one cf_tunnel.      *)
ASSUME InputAssumption ==
  /\ \A i \in Inputs :
       /\ "target" \in DOMAIN i.cli => IsTarget(i.cli.target)
       /\ \A k \in DOMAIN i.cli.routes :
            IsPath(i.cli.routes[k].path) /\ IsTarget(i.cli.routes[k].target)
       /\ i.config # <<>> =>
            /\ i.config[1].cf = <<>> \/ DOMAIN i.config[1].cf = {1}
            /\ \A k \in DOMAIN i.config[1].cf : IsRawBlock(i.config[1].cf[k])
            /\ \A k \in DOMAIN i.config[1].tunnels : IsRawBlock(i.config[1].tunnels[k].cf)
  /\ \A r \in Requests : r.path \in Seq(STRING)

VARIABLES
  phase,            \* "parse", "rejected", "prepare", "reserve", "session",
                    \* "serving", "failed"
  input, cfg,       \* what Parse was given, and its result
  block,            \* the tunnel block that is followed
  session, proxy    \* results of BuildSession and PrepareRuntime

vars == <<phase, input, cfg, block, session, proxy, ctxDone, clientVars>>

Init ==
  /\ phase = "parse" /\ ctxDone = FALSE /\ ClientInit
  /\ input = <<>> /\ cfg = ConfigError /\ block = <<>>
  /\ session = <<>> /\ proxy = Error

Cancel ==
  /\ phase # "parse" /\ ~ctxDone
  /\ ctxDone' = TRUE
  /\ UNCHANGED <<phase, input, cfg, block, session, proxy, clientVars>>

ParseArguments ==
  /\ phase = "parse"
  /\ \E i \in Inputs :
       /\ input' = i
       /\ cfg' = Parse(i.env, i.cli, i.config)
       /\ phase' = IF cfg'.ok THEN "prepare" ELSE "rejected"
       /\ IF cfg'.ok THEN block' \in Blocks(cfg') ELSE UNCHANGED block
  /\ UNCHANGED <<session, proxy, ctxDone, clientVars>>

(* The origin of the runtime configuration.                                *)
Normalize(c) ==
  ParseTarget(c.target, c.serverName, c.insecureSkipVerify, c.passHostHeader)

(* BuildSession and BuildTokenSession: the origin is kept as the text of   *)
(* its URL, whose scheme ParseTarget has replaced.                         *)
BuildSession(c, quick) ==
  [quickTunnel |-> quick, edgeProtocol |-> c.edgeProtocol,
   origin |-> Normalize(c), routes |-> c.routes]

(* ParseTunnelToken decodes the token.                                     *)
ParseTunnelToken(token) == token \notin BadTokens

(* prepareTunnelSessionWith: with a token no quick tunnel is asked for.    *)
PrepareTunnelSession ==
  /\ phase = "prepare"
  /\ LET ok    == Normalize(block).ok
         token == trim(block.token)
     IN  \/ /\ ~ok \/ (token # Empty /\ ~ParseTunnelToken(token))
            /\ phase' = "failed" /\ UNCHANGED <<session, clientVars>>
         \/ /\ ok /\ token # Empty /\ ParseTunnelToken(token)
            /\ phase' = "session" /\ session' = BuildSession(block, FALSE)
            /\ UNCHANGED clientVars
         \/ /\ ok /\ token = Empty
            /\ CreateQuickTunnel /\ phase' = "reserve" /\ UNCHANGED session
  /\ UNCHANGED <<input, cfg, block, proxy, ctxDone>>

ReserveStep ==
  /\ phase = "reserve" /\ ClientStep
  /\ UNCHANGED <<phase, input, cfg, block, session, proxy, ctxDone>>

(* prepareQuickTunnelSessionFromRuntime, after the reservation.            *)
ReserveReturns ==
  /\ phase = "reserve" /\ client \in ClientResults
  /\ \/ /\ client = "reserved" /\ phase' = "session"
        /\ session' = BuildSession(block, TRUE)
     \/ client # "reserved" /\ phase' = "failed" /\ UNCHANGED session
  /\ UNCHANGED <<input, cfg, block, proxy, ctxDone, clientVars>>

(* OriginTarget: the URL of the session is parsed again, so that a ws      *)
(* target comes back as an http one, without its WebSocket mode.           *)
OriginTarget(s) ==
  ParseTarget(s.origin.url, s.origin.serverName, s.origin.insecureSkipVerify,
              s.origin.passHostHeader)

(* PrepareRuntime; the root certificates may fail to load.                 *)
PrepareRuntime ==
  /\ phase = "session"
  /\ \/ /\ proxy' = NewRoutedProxy(OriginTarget(session), session.routes)
        /\ phase' = IF proxy'.ok THEN "serving" ELSE "failed"
     \/ phase' = "failed" /\ UNCHANGED proxy
  /\ UNCHANGED <<input, cfg, block, session, ctxDone, clientVars>>

Settled == phase \in {"rejected", "serving", "failed"}

Terminating == Settled /\ UNCHANGED vars

Step ==
  \/ ParseArguments \/ PrepareTunnelSession \/ ReserveStep \/ ReserveReturns
  \/ PrepareRuntime

Next == Cancel \/ Step \/ Terminating

(* Each step is a computation or a request with a timeout.                 *)
Spec == Init /\ [][Next]_vars
FairSpec == Spec /\ WF_vars(Step)

-----------------------------------------------------------------------------
(* Properties                                                              *)

Padded(rule) == rule.path.padded \/ rule.target.padded

(* What Validate accepts, the runtime can build: the validation of the     *)
(* rules and the router agree on paths, duplicates and targets, except for *)
(* a rule written with surrounding spaces, which only the validation       *)
(* trims.  (validateRouteRules, NewRouter, ParseTarget.)                   *)
AcceptedRoutesBuild ==
  cfg.ok => \A c \in Blocks(cfg) :
    /\ Normalize(c).ok
    /\ \/ \E i \in DOMAIN c.routes : Padded(c.routes[i])
       \/ NewRoutedProxy(Normalize(c), c.routes).ok

(* The routing table as the documentation has it: a rule applies to its    *)
(* host, or to any without one, and to its path, exact or with /*, and /   *)
(* to every path; a host comes first, then the longest path.               *)
Applies(rule, host, path) ==
  LET segs == rule.path.segs
  IN  /\ Lower[rule.host] \in {Empty, normalizeRequestHost(host)}
      /\ \/ segs \in {path, Root}
         \/ Last(segs) = "*" /\ IsPrefix(Front(segs), path)

PathWeight(rule) ==
  LET segs == rule.path.segs
  IN  CASE segs = Root -> 0
        [] segs # Root /\ Last(segs) = "*" -> 2 * Len(segs) - 2
        [] OTHER -> 2 * Len(segs) + 1

Outranks(rule1, rule2) ==
  LET hosted(rule) == Lower[rule.host] # Empty
  IN  \/ hosted(rule1) /\ ~hosted(rule2)
      \/ /\ hosted(rule1) <=> hosted(rule2)
         /\ PathWeight(rule1) > PathWeight(rule2)

Best(rules, host, path) ==
  { i \in DOMAIN rules :
      /\ Applies(rules[i], host, path)
      /\ \A j \in DOMAIN rules :
           Applies(rules[j], host, path) => ~Outranks(rules[j], rules[i]) }

(* The origin, Host and TLS options of a rule, or of the tunnel.           *)
Configured(c, host, rules) ==
  LET target == IF rules = {} THEN Normalize(c)
                ELSE routeTarget(c.routes[CHOOSE i \in rules : TRUE], c.passHostHeader)
  IN  <<target.url, target.insecureSkipVerify, originHost(target, host)>>

(* Every request goes to the origin, with the Host and the TLS options, of *)
(* the one most specific rule that applies to it, whatever the order of    *)
(* the rules; without one, to the target of the tunnel.  The exception: a  *)
(* host not in lower case, which YAML keeps and the lookup of the proxy    *)
(* misses, so that the tunnel's own target may serve it.  A rule strips    *)
(* paths apart: only /p and /p/ become one.  (Match, pickRouteProxy,       *)
(* routeRuleProxyKey, requestWithStrippedPathPrefix, rewriteRequest.)      *)
RequestsGoWhereConfigured ==
  phase = "serving" =>
    \A r \in Requests :
      LET rules == Best(block.routes, r.host, r.path)
          sent  == Forward(proxy, r.host, r.path)
          goes  == <<sent.target, sent.insecure, sent.host>>
      IN  /\ \A i, j \in rules : i = j
          /\ \/ goes = Configured(block, r.host, rules)
             \/ /\ \E i \in rules : Lower[block.routes[i].host] # block.routes[i].host
                /\ goes = Configured(block, r.host, {})
          /\ \A q \in Requests :
               /\ q.host = r.host /\ Best(block.routes, q.host, q.path) = rules
               /\ Forward(proxy, q.host, q.path).path = sent.path
               => q.path \in {r.path, Append(r.path, Empty)} \/ r.path = Append(q.path, Empty)

(* A token is only ever used with the target of the source that names it:  *)
(* a block of the file never inherits the token of the flag or of the      *)
(* environment, and with a block in the file those are not used at all.    *)
(* (Parse, applyConfigFile.)                                               *)
TokenStaysWithTarget ==
  cfg.ok => \A c \in Blocks(cfg) : c.token # Empty =>
    LET file   == IF input.config = <<>> THEN {} ELSE {input.config[1]}
        blocks == UNION { { f.cf[i] : i \in DOMAIN f.cf }
                          \cup { f.tunnels[i].cf : i \in DOMAIN f.tunnels } : f \in file }
    IN  \/ \E b \in blocks : field(b, "token", Empty) = c.token /\ b.target = c.target
        \/ /\ blocks = {} /\ input.cli.target = c.target
           /\ c.token = IF input.cli.token = Unset THEN input.env ELSE input.cli.token

(* Retries never leave a second tunnel behind: at most one is created,     *)
(* none for a tunnel with a token, and a session of a quick tunnel has     *)
(* the one that was.  (CreateQuickTunnel, prepareTunnelSessionWith.)       *)
AtMostOneTunnel ==
  /\ created <= 1
  /\ created = 1 => trim(block.token) = Empty
  /\ session # <<>> => (session.quickTunnel <=> created = 1)

(* Start-up never hangs: it ends with a proxy or with an error.            *)
StartupSettles == <>Settled
=============================================================================
