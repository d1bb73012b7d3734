--------------------------- MODULE StartupProofs ----------------------------
(***************************************************************************)
(* Whatever the configuration, the number of back-offs and the answers of  *)
(* the service, start-up creates at most one quick tunnel; and whatever    *)
(* the environment, the command line, the file and the requests, tokens    *)
(* stay with their targets, accepted routes can be built, and every        *)
(* request goes where the configuration says.                              *)
(***************************************************************************)
EXTENDS Startup, RoutedProxyProofs, TLAPS

(* A session of a quick tunnel has the tunnel that was created.            *)
SessionMatches == session # <<>> => (session.quickTunnel <=> created = 1)

(* The block that is followed names no token.                              *)
NoToken == trim(block.token) = Empty

(* Inductive strengthening of AtMostOneTunnel: a tunnel exists only once   *)
(* the client has its result, and the client is only used, once, for a     *)
(* block without a token.                                                  *)
ClientInv ==
  /\ created \in {0, 1}
  /\ phase \in {"parse", "rejected", "prepare"} =>
       client = "idle" /\ created = 0 /\ session = <<>>
  /\ phase = "reserve" => session = <<>> /\ NoToken
  /\ client \in {"idle", "request", "sent", "backoff", "rateLimited"} => created = 0
  /\ client = "reserved" => created = 1
  /\ created = 1 => NoToken

(* A step of the client: it creates a tunnel only with its last answer.    *)
LEMMA ClientSteps ==
  ASSUME created \in {0, 1}, ClientStep,
         client \in {"idle", "request", "sent", "backoff", "rateLimited"} => created = 0,
         client = "reserved" => created = 1
  PROVE  /\ created' \in {0, 1}
         /\ client' \in {"idle", "request", "sent", "backoff", "rateLimited"} => created' = 0
         /\ client' = "reserved" => created' = 1
<1>1. CASE SendRequest
  BY <1>1 DEF SendRequest, RetryOrReturn
<1>2. CASE NoAnswer
  BY <1>2 DEF NoAnswer, RetryOrReturn, MaybeCreated
<1>3. CASE RateLimited
  BY <1>3 DEF RateLimited, RetryOrReturn
<1>4. CASE AnswerRejected
  BY <1>4 DEF AnswerRejected, RetryOrReturn, MaybeCreated
<1>5. CASE Reserved
  BY <1>5 DEF Reserved
<1>6. CASE Backoff
  BY <1>6 DEF Backoff
<1>. QED
  BY <1>1, <1>2, <1>3, <1>4, <1>5, <1>6 DEF ClientStep

(* A session records whether it belongs to a quick tunnel.                 *)
LEMMA SessionKind ==
  ASSUME NEW c, NEW quick
  PROVE  BuildSession(c, quick).quickTunnel = quick
BY DEF BuildSession

(* A step of start-up keeps the invariant of the client.                   *)
LEMMA TunnelStep ==
  ASSUME ClientInv, SessionMatches, [Next]_vars
  PROVE  ClientInv' /\ SessionMatches'
<1>1. CASE UNCHANGED vars
  BY <1>1 DEF vars, clientVars, ClientInv, SessionMatches, NoToken
<1>2. CASE Cancel
  BY <1>2 DEF Cancel, clientVars, ClientInv, SessionMatches, NoToken
<1>3. CASE ParseArguments
  <2>1. phase' \in {"prepare", "rejected"} /\ phase = "parse"
    BY <1>3 DEF ParseArguments
  <2>2. UNCHANGED <<session, clientVars>>
    BY <1>3 DEF ParseArguments
  <2>3. ClientInv'
    BY <2>1, <2>2 DEF ClientInv, clientVars
  <2>. QED
    BY <2>2, <2>3, Zenon DEF SessionMatches, clientVars
<1>4. CASE PrepareTunnelSession
  <2>1. /\ phase = "prepare" /\ block' = block
        /\ client = "idle" /\ created = 0 /\ session = <<>>
    BY <1>4 DEF PrepareTunnelSession, ClientInv
  <2>n. NoToken' <=> NoToken
    BY <2>1, Zenon DEF NoToken
  <2>2. CASE phase' = "failed" /\ UNCHANGED <<session, clientVars>>
    BY <2>1, <2>n, <2>2 DEF clientVars, ClientInv, SessionMatches
  <2>3. CASE /\ phase' = "session" /\ session' = BuildSession(block, FALSE)
             /\ UNCHANGED clientVars
    <3>1. created' # 1 /\ ClientInv'
      BY <2>1, <2>n, <2>3 DEF clientVars, ClientInv
    <3>. QED
      BY <2>3, <3>1, SessionKind, Zenon DEF SessionMatches
  <2>4. CASE /\ NoToken /\ phase' = "reserve"
             /\ CreateQuickTunnel /\ UNCHANGED session
    BY <2>1, <2>n, <2>4 DEF CreateQuickTunnel, ClientInv, SessionMatches
  <2>. QED
    BY <1>4, <2>2, <2>3, <2>4, Zenon DEF PrepareTunnelSession, NoToken
<1>5. CASE ReserveStep
  <2>1. /\ phase' = "reserve" /\ block' = block /\ session' = <<>>
        /\ NoToken
    BY <1>5 DEF ReserveStep, ClientInv
  <2>n. NoToken'
    BY <2>1, Zenon DEF NoToken
  <2>2. /\ created' \in {0, 1}
        /\ client' \in {"idle", "request", "sent", "backoff", "rateLimited"} => created' = 0
        /\ client' = "reserved" => created' = 1
    BY <1>5, ClientSteps DEF ReserveStep, ClientInv
  <2>. QED
    BY <2>1, <2>n, <2>2 DEF ClientInv, SessionMatches
<1>6. CASE ReserveReturns
  <2>1. phase' \in {"session", "failed"} /\ block' = block /\ UNCHANGED clientVars
    BY <1>6 DEF ReserveReturns
  <2>n. NoToken' <=> NoToken
    BY <2>1, Zenon DEF NoToken
  <2>2. ClientInv'
    BY <1>6, <2>1, <2>n DEF ReserveReturns, ClientInv, clientVars
  <2>3. CASE client = "reserved"
    <3>1. created' = 1 /\ session' = BuildSession(block, TRUE)
      BY <1>6, <2>3 DEF ReserveReturns, ClientInv, clientVars
    <3>. QED
      BY <2>2, <3>1, SessionKind, Zenon DEF SessionMatches
  <2>4. CASE client # "reserved"
    BY <1>6, <2>2, <2>4 DEF ReserveReturns, clientVars, SessionMatches
  <2>. QED
    BY <2>3, <2>4
<1>7. CASE PrepareRuntime
  <2>1. phase' \in {"serving", "failed"} /\ block' = block
        /\ UNCHANGED <<session, clientVars>>
    BY <1>7 DEF PrepareRuntime
  <2>n. NoToken' <=> NoToken
    BY <2>1, Zenon DEF NoToken
  <2>. QED
    BY <1>7, <2>1, <2>n DEF PrepareRuntime, ClientInv, SessionMatches, clientVars
<1>8. CASE Terminating
  BY <1>8 DEF Terminating, vars, clientVars, ClientInv, SessionMatches, NoToken
<1>. QED
  BY <1>1, <1>2, <1>3, <1>4, <1>5, <1>6, <1>7, <1>8 DEF Next, Step

(* Retries never leave a second tunnel behind (CreateQuickTunnel,          *)
(* prepareTunnelSessionWith).                                              *)
THEOREM OneQuickTunnel == Spec => []AtMostOneTunnel
<1>1. Init => ClientInv /\ SessionMatches
  BY DEF Init, ClientInit, ClientInv, SessionMatches
<1>2. ClientInv /\ SessionMatches /\ [Next]_vars => ClientInv' /\ SessionMatches'
  BY TunnelStep
<1>3. ClientInv /\ SessionMatches => AtMostOneTunnel
  <2>1. ClientInv => created <= 1 /\ (created = 1 => NoToken)
    BY DEF ClientInv
  <2>. QED
    BY <2>1, Zenon DEF SessionMatches, AtMostOneTunnel, NoToken
<1>. QED
  BY <1>1, <1>2, <1>3, PTL DEF Spec

-----------------------------------------------------------------------------
(* What Parse returns                                                      *)

(* The texts of a block.                                                   *)
IsBlock(c) ==
  /\ IsTarget(c.target)
  /\ \A k \in DOMAIN c.routes : IsPath(c.routes[k].path) /\ IsTarget(c.routes[k].target)

(* The blocks of a configuration file.                                     *)
FileBlocks(config) ==
  IF config = <<>> THEN {}
  ELSE { config[1].cf[k] : k \in DOMAIN config[1].cf }
       \cup { config[1].tunnels[k].cf : k \in DOMAIN config[1].tunnels }

(* Where a block that is run comes from: a block of the file, or, when     *)
(* there is none, the command line.                                        *)
FromFile(i, c) == \E b \in FileBlocks(i.config) : c = trimToken(applyDefaults(b))
FromFlags(i, c) == FileBlocks(i.config) = {} /\ c = trimToken(parseFlags(i.cli, i.env))

IsConfig(m) == DOMAIN m = {"ok", "globals", "cf", "tunnels"}

(* The last step of Parse before Validate.                                 *)
Trimmed(m) ==
  [m EXCEPT !.cf      = trimToken(@),
            !.tunnels = [i \in DOMAIN @ |-> [name |-> @[i].name, cf |-> trimToken(@[i].cf)]]]

TrimmedOf(m, t) ==
  /\ t.cf = trimToken(m.cf)
  /\ t.tunnels = [i \in DOMAIN m.tunnels |->
                   [name |-> m.tunnels[i].name, cf |-> trimToken(m.tunnels[i].cf)]]

(* Parse trims the tokens of a configuration and nothing else.             *)
LEMMA TrimmedParts ==
  ASSUME NEW m, IsConfig(m), NEW t, t = Trimmed(m)
  PROVE  TrimmedOf(m, t)
<1>1. PICK cf, tunnels :
        /\ cf = trimToken(m.cf)
        /\ tunnels = [i \in DOMAIN m.tunnels |->
                          [name |-> m.tunnels[i].name, cf |-> trimToken(m.tunnels[i].cf)]]
  OBVIOUS
<1>2. t = [m EXCEPT !.cf = cf, !.tunnels = tunnels]
  BY <1>1, Zenon DEF Trimmed
<1>3. t.cf = cf /\ t.tunnels = tunnels
  BY <1>2 DEF IsConfig
<1>. QED
  BY <1>1, <1>3, Zenon DEF TrimmedOf

(* What the file makes of the command line's settings.                     *)
MergedOf(m, file, t) ==
  /\ t.cf = IF file.cf = <<>> THEN m.cf ELSE applyDefaults(file.cf[1])
  /\ t.tunnels = [i \in DOMAIN file.tunnels |->
                   [name |-> file.tunnels[i].name,
                    cf |-> applyDefaults(file.tunnels[i].cf)]]

(* applyConfigFile takes every block of the file, and keeps the command    *)
(* line's block only where the file has none.                              *)
LEMMA MergedParts ==
  ASSUME NEW m, IsConfig(m), NEW file, NEW t, t = applyConfigFile(m, file)
  PROVE  IsConfig(t) /\ MergedOf(m, file, t)
<1>1. PICK globals, cf, tunnels :
        /\ globals = [g \in DOMAIN m.globals |-> field(file.globals, g, m.globals[g])]
        /\ cf = IF file.cf = <<>> THEN m.cf ELSE applyDefaults(file.cf[1])
        /\ tunnels = [i \in DOMAIN file.tunnels |->
                       [name |-> file.tunnels[i].name,
                        cf |-> applyDefaults(file.tunnels[i].cf)]]
  OBVIOUS
<1>2. t = [m EXCEPT !.globals = globals, !.cf = cf, !.tunnels = tunnels]
  BY <1>1, Zenon DEF applyConfigFile
<1>3. IsConfig(t) /\ t.cf = cf /\ t.tunnels = tunnels
  BY <1>2 DEF IsConfig
<1>. QED
  BY <1>1, <1>3, Zenon DEF MergedOf

(* The settings before the trimming.                                       *)
Flags(i) == [ok |-> TRUE, globals |-> i.cli.globals,
             cf |-> parseFlags(i.cli, i.env), tunnels |-> <<>>]
Merged(i) == IF i.config = <<>> THEN Flags(i) ELSE applyConfigFile(Flags(i), i.config[1])

(* The configuration of the command line alone has no list of tunnels.     *)
LEMMA FlagsParts ==
  ASSUME NEW i, NEW m, m = Flags(i)
  PROVE  IsConfig(m) /\ m.cf = parseFlags(i.cli, i.env) /\ m.tunnels = <<>>
<1>1. PICK cf : cf = parseFlags(i.cli, i.env)
  OBVIOUS
<1>2. m = [ok |-> TRUE, globals |-> i.cli.globals, cf |-> cf, tunnels |-> <<>>]
  BY <1>1, Zenon DEF Flags
<1>3. IsConfig(m) /\ m.cf = cf /\ m.tunnels = <<>>
  BY <1>2 DEF IsConfig
<1>. QED
  BY <1>1, <1>3, Zenon

(* A configuration that Parse accepts has passed Validate.                 *)
LEMMA Accepted ==
  ASSUME NEW i, NEW c, c = Parse(i.env, i.cli, i.config), c.ok
  PROVE  c = Trimmed(Merged(i)) /\ Validate(c)
<1>1. PICK t : t = Trimmed(Merged(i))
  OBVIOUS
<1>2. c = ConfigError \/ (c = t /\ Validate(t))
  BY <1>1, Zenon DEF Parse, Trimmed, Merged, Flags
<1>3. ~ConfigError.ok
  BY DEF ConfigError
<1>. QED
  BY <1>1, <1>2, <1>3, Zenon

(* A function over indices that is the empty sequence has none.            *)
LEMMA NoIndices ==
  ASSUME NEW f, f = <<>>
  PROVE  DOMAIN f = {}
OBVIOUS

(* The blocks that are run are valid and come from one source.             *)
LEMMA BlockSources ==
  ASSUME NEW i \in Inputs, NEW c, c = Parse(i.env, i.cli, i.config), c.ok,
         NEW b \in Blocks(c)
  PROVE  validateBlock(b) /\ (FromFile(i, b) \/ FromFlags(i, b))
<1>1. PICK m, file : m = Merged(i) /\ file = i.config[1]
  OBVIOUS
<1>2. c = Trimmed(m) /\ Validate(c)
  BY <1>1, Accepted, Zenon
<1>3. CASE i.config = <<>>
  <2>1. IsConfig(m) /\ m.cf = parseFlags(i.cli, i.env) /\ m.tunnels = <<>>
    <3>1. m = Flags(i)
      BY <1>1, <1>3, Zenon DEF Merged
    <3>. QED
      BY <3>1, FlagsParts, Zenon
  <2>2. /\ c.cf = trimToken(m.cf)
        /\ c.tunnels = [k \in DOMAIN m.tunnels |->
                         [name |-> m.tunnels[k].name, cf |-> trimToken(m.tunnels[k].cf)]]
    BY <1>2, <2>1, TrimmedParts, Zenon DEF TrimmedOf
  <2>3. c.tunnels = <<>>
    BY <2>1, <2>2
  <2>4. b = c.cf /\ validateBlock(b)
    BY <1>2, <2>3, Zenon DEF Blocks, Validate
  <2>. QED
    BY <1>3, <2>1, <2>2, <2>4, Zenon DEF FromFlags, FileBlocks
<1>4. CASE i.config # <<>>
  <2>0. PICK f : f = Flags(i)
    OBVIOUS
  <2>1. IsConfig(f) /\ f.cf = parseFlags(i.cli, i.env) /\ m = applyConfigFile(f, file)
    <3>1. m = applyConfigFile(f, file)
      BY <1>1, <1>4, <2>0, Zenon DEF Merged
    <3>. QED
      BY <2>0, <3>1, FlagsParts, Zenon
  <2>2. /\ IsConfig(m)
        /\ m.cf = IF file.cf = <<>> THEN f.cf ELSE applyDefaults(file.cf[1])
        /\ m.tunnels = [k \in DOMAIN file.tunnels |->
                         [name |-> file.tunnels[k].name,
                          cf |-> applyDefaults(file.tunnels[k].cf)]]
    <3>1. IsConfig(m) /\ MergedOf(f, file, m)
      BY <2>1, MergedParts, Zenon
    <3>. QED
      BY <3>1, Zenon DEF MergedOf
  <2>3. /\ c.cf = trimToken(m.cf)
        /\ c.tunnels = [k \in DOMAIN m.tunnels |->
                         [name |-> m.tunnels[k].name, cf |-> trimToken(m.tunnels[k].cf)]]
    <3>1. TrimmedOf(m, c)
      BY <1>2, <2>2, TrimmedParts, Zenon
    <3>. QED
      BY <3>1, Zenon DEF TrimmedOf
  <2>4. FileBlocks(i.config) = { file.cf[k] : k \in DOMAIN file.cf }
                               \cup { file.tunnels[k].cf : k \in DOMAIN file.tunnels }
    BY <1>1, <1>4, Zenon DEF FileBlocks
  <2>5. DOMAIN c.tunnels = DOMAIN file.tunnels
    BY <2>2, <2>3, Zenon
  <2>6. CASE c.tunnels = <<>>
    <3>1. b = c.cf /\ validateBlock(b)
      BY <1>2, <2>6, Zenon DEF Blocks, Validate
    <3>2. CASE file.cf = <<>>
      <4>1. DOMAIN file.cf = {} /\ DOMAIN file.tunnels = {}
        BY <2>5, <2>6, <3>2, NoIndices, Zenon
      <4>2. FileBlocks(i.config) = {}
        BY <2>4, <4>1, Zenon
      <4>. QED
        BY <2>1, <2>2, <2>3, <3>1, <3>2, <4>2, Zenon DEF FromFlags
    <3>3. CASE file.cf # <<>>
      <4>1. 1 \in DOMAIN file.cf
        BY <1>1, <1>4, <3>3, InputAssumption, Zenon
      <4>2. file.cf[1] \in FileBlocks(i.config)
        BY <2>4, <4>1, Zenon
      <4>. QED
        BY <2>2, <2>3, <3>1, <3>3, <4>2, Zenon DEF FromFile
    <3>. QED
      BY <3>2, <3>3
  <2>7. CASE c.tunnels # <<>>
    <3>1. PICK k \in DOMAIN c.tunnels : b = c.tunnels[k].cf
      BY <2>7, Zenon DEF Blocks
    <3>2. validateBlock(b)
      BY <1>2, <2>7, <3>1, Zenon DEF Validate, validateNamedTunnels
    <3>3. k \in DOMAIN file.tunnels /\ k \in DOMAIN m.tunnels
      BY <2>2, <2>5, <3>1, Zenon
    <3>4. PICK raw, d, e, mk : /\ raw = file.tunnels[k].cf /\ d = applyDefaults(raw)
                               /\ e = trimToken(d) /\ mk = m.tunnels[k]
      OBVIOUS
    <3>5. mk = [name |-> file.tunnels[k].name, cf |-> d]
      BY <2>2, <3>3, <3>4, Zenon
    <3>6. mk.cf = d
      BY <3>5
    <3>7. c.tunnels[k] = [name |-> mk.name, cf |-> e]
      BY <2>3, <3>3, <3>4, <3>6, Zenon
    <3>8. c.tunnels[k].cf = e
      BY <3>7
    <3>9. raw \in FileBlocks(i.config)
      BY <2>4, <3>3, <3>4, Zenon
    <3>. QED
      BY <3>1, <3>2, <3>4, <3>8, <3>9, Zenon DEF FromFile
  <2>. QED
    BY <2>6, <2>7
<1>. QED
  BY <1>3, <1>4

-----------------------------------------------------------------------------
(* The texts of a block                                                    *)

blockFields == {"token", "edgeProtocol", "haConnections", "target", "serverName",
                "insecureSkipVerify", "passHostHeader", "routes"}

(* Trimming the token of a block leaves its target and its routes.         *)
LEMMA TokenTrimmed ==
  ASSUME NEW d, DOMAIN d = blockFields, NEW c, c = trimToken(d)
  PROVE  c.token = trim(d.token) /\ c.target = d.target /\ c.routes = d.routes
<1>1. PICK token : token = trim(d.token)
  OBVIOUS
<1>2. c = [d EXCEPT !.token = token]
  BY <1>1, Zenon DEF trimToken
<1>3. c.token = token /\ c.target = d.target /\ c.routes = d.routes
  BY <1>2 DEF blockFields
<1>. QED
  BY <1>1, <1>3, Zenon

(* The parts of a block of the file, and of the command line's.            *)
FileRoutes(raw) == [i \in DOMAIN field(raw, "routes", <<>>) |-> UnmarshalYAML(raw.routes[i])]
FlagRoutes(cli) == [i \in DOMAIN cli.routes |-> parseRouteFlag(cli.routes[i])]

(* What applyDefaults makes of a block of the file.                        *)
LEMMA FileBlockParts ==
  ASSUME NEW raw, NEW c, c = trimToken(applyDefaults(raw))
  PROVE  /\ c.token = trim(field(raw, "token", Empty))
         /\ c.target = field(raw, "target", NoTarget) /\ c.routes = FileRoutes(raw)
<1>1. PICK d, token, protocol, ha, target, name, insecure, pass, routes :
        /\ d = applyDefaults(raw)
        /\ token = field(raw, "token", Empty) /\ protocol = field(raw, "edgeProtocol", Empty)
        /\ ha = IF field(raw, "haConnections", 0) = 0 THEN DefaultHAConnections
                ELSE field(raw, "haConnections", 0)
        /\ target = field(raw, "target", NoTarget) /\ name = field(raw, "serverName", Empty)
        /\ insecure = field(raw, "insecureSkipVerify", FALSE)
        /\ pass = field(raw, "passHostHeader", FALSE) /\ routes = FileRoutes(raw)
  OBVIOUS
<1>2. d = [token |-> token, edgeProtocol |-> protocol, haConnections |-> ha,
           target |-> target, serverName |-> name, insecureSkipVerify |-> insecure,
           passHostHeader |-> pass, routes |-> routes]
  BY <1>1, Zenon DEF applyDefaults, FileRoutes
<1>3. /\ DOMAIN d = blockFields
      /\ d.token = token /\ d.target = target /\ d.routes = routes
  BY <1>2 DEF blockFields
<1>. QED
  BY <1>1, <1>3, TokenTrimmed, Zenon

(* What parseFlags makes of the command line and the environment.          *)
LEMMA FlagBlockParts ==
  ASSUME NEW cli, NEW env, NEW c, c = trimToken(parseFlags(cli, env))
  PROVE  /\ c.token = trim(IF cli.token = Unset THEN trim(env) ELSE cli.token)
         /\ c.target = field(cli, "target", NoTarget) /\ c.routes = FlagRoutes(cli)
<1>1. PICK d, token, protocol, ha, target, name, insecure, pass, routes :
        /\ d = parseFlags(cli, env)
        /\ token = IF cli.token = Unset THEN trim(env) ELSE cli.token
        /\ protocol = field(cli, "edgeProtocol", "http2")
        /\ ha = field(cli, "haConnections", DefaultHAConnections)
        /\ target = field(cli, "target", NoTarget) /\ name = field(cli, "serverName", Empty)
        /\ insecure = field(cli, "insecureSkipVerify", FALSE)
        /\ pass = field(cli, "passHostHeader", FALSE) /\ routes = FlagRoutes(cli)
  OBVIOUS
<1>2. d = [token |-> token, edgeProtocol |-> protocol, haConnections |-> ha,
           target |-> target, serverName |-> name, insecureSkipVerify |-> insecure,
           passHostHeader |-> pass, routes |-> routes]
  BY <1>1, Zenon DEF parseFlags, FlagRoutes
<1>3. /\ DOMAIN d = blockFields
      /\ d.token = token /\ d.target = target /\ d.routes = routes
  BY <1>2 DEF blockFields
<1>. QED
  BY <1>1, <1>3, TokenTrimmed, Zenon

(* Zero values are texts, and so is what TrimSpace returns.                *)
LEMMA Texts ==
  /\ IsPath(NoPath) /\ IsTarget(NoTarget)
  /\ \A p : IsPath(p) => IsPath(TrimSpace(p))
  /\ \A t, fields : IsTarget(t) => IsTarget([TrimSpace(t) EXCEPT !.tail = fields])
<1>1. IsPath(NoPath)
  BY DEF IsPath, NoPath
<1>2. IsTarget(NoTarget)
  BY DEF IsTarget, NoTarget
<1>3. ASSUME NEW p, IsPath(p) PROVE IsPath(TrimSpace(p))
  BY <1>3 DEF IsPath, TrimSpace
<1>4. ASSUME NEW t, NEW fields, IsTarget(t) PROVE IsTarget([TrimSpace(t) EXCEPT !.tail = fields])
  <2>1. PICK u : u = TrimSpace(t)
    OBVIOUS
  <2>2. u = [origin |-> t.origin, scheme |-> t.scheme, tail |-> t.tail, padded |-> FALSE]
    BY <1>4, <2>1 DEF IsTarget, TrimSpace
  <2>3. PICK w : w = [u EXCEPT !.tail = fields]
    OBVIOUS
  <2>4. w = [origin |-> t.origin, scheme |-> t.scheme, tail |-> fields, padded |-> FALSE]
    BY <2>2, <2>3
  <2>5. IsTarget(w)
    BY <2>4 DEF IsTarget
  <2>. QED
    BY <2>1, <2>3, <2>5, Zenon
<1>. QED
  BY <1>1, <1>2, <1>3, <1>4, Zenon

(* A rule of the file and one of the command line.                         *)
LEMMA RuleTexts ==
  /\ \A raw : /\ "path" \in DOMAIN raw => IsPath(raw.path)
              /\ "target" \in DOMAIN raw => IsTarget(raw.target)
              => IsPath(UnmarshalYAML(raw).path) /\ IsTarget(UnmarshalYAML(raw).target)
  /\ \A spec : IsPath(spec.path) /\ IsTarget(spec.target)
               => IsPath(parseRouteFlag(spec).path) /\ IsTarget(parseRouteFlag(spec).target)
<1>1. ASSUME NEW raw, "path" \in DOMAIN raw => IsPath(raw.path),
             "target" \in DOMAIN raw => IsTarget(raw.target)
      PROVE  IsPath(UnmarshalYAML(raw).path) /\ IsTarget(UnmarshalYAML(raw).target)
  <2>1. PICK path, target : /\ path = field(raw, "path", NoPath)
                            /\ target = field(raw, "target", NoTarget)
    OBVIOUS
  <2>2. IsPath(path) /\ IsTarget(target)
    BY <1>1, <2>1, Texts, Zenon DEF field
  <2>3. UnmarshalYAML(raw).path = path /\ UnmarshalYAML(raw).target = target
    BY <2>1 DEF UnmarshalYAML
  <2>. QED
    BY <2>2, <2>3, Zenon
<1>2. ASSUME NEW spec, IsPath(spec.path), IsTarget(spec.target)
      PROVE  IsPath(parseRouteFlag(spec).path) /\ IsTarget(parseRouteFlag(spec).target)
  <2>1. PICK path, target :
          /\ path = TrimSpace(spec.path)
          /\ target = [TrimSpace(spec.target) EXCEPT
                         !.tail = SubSeq(spec.fields, 1, TargetFields(spec.fields))]
    OBVIOUS
  <2>2. IsPath(path) /\ IsTarget(target)
    BY <1>2, <2>1, Texts, Zenon
  <2>3. parseRouteFlag(spec).path = path /\ parseRouteFlag(spec).target = target
    BY <2>1, Zenon DEF parseRouteFlag
  <2>. QED
    BY <2>2, <2>3, Zenon
<1>. QED
  BY <1>1, <1>2, Zenon

(* Paths and targets of a block that is run are texts.                     *)
LEMMA BlockTexts ==
  ASSUME NEW i \in Inputs, NEW c, FromFile(i, c) \/ FromFlags(i, c)
  PROVE  IsBlock(c)
<1>1. CASE FromFile(i, c)
  <2>1. PICK b \in FileBlocks(i.config) : c = trimToken(applyDefaults(b))
    BY <1>1, Zenon DEF FromFile
  <2>2. IsRawBlock(b)
    BY <2>1, InputAssumption, Zenon DEF FileBlocks
  <2>3. c.target = field(b, "target", NoTarget) /\ c.routes = FileRoutes(b)
    BY <2>1, FileBlockParts, Zenon
  <2>4. IsTarget(c.target)
    BY <2>2, <2>3, Texts, Zenon DEF IsRawBlock, field
  <2>5. ASSUME NEW k \in DOMAIN c.routes
        PROVE  IsPath(c.routes[k].path) /\ IsTarget(c.routes[k].target)
    <3>1. k \in DOMAIN field(b, "routes", <<>>) /\ c.routes[k] = UnmarshalYAML(b.routes[k])
      BY <2>3, <2>5, Zenon DEF FileRoutes
    <3>2. "routes" \in DOMAIN b /\ k \in DOMAIN b.routes
      <4>1. SUFFICES ASSUME "routes" \notin DOMAIN b PROVE FALSE
        BY <3>1, Zenon DEF field
      <4>2. k \in DOMAIN <<>>
        BY <3>1, <4>1, Zenon DEF field
      <4>. QED
        BY <4>2
    <3>3. /\ "path" \in DOMAIN b.routes[k] => IsPath(b.routes[k].path)
          /\ "target" \in DOMAIN b.routes[k] => IsTarget(b.routes[k].target)
      BY <2>2, <3>2, Zenon DEF IsRawBlock
    <3>. QED
      BY <3>1, <3>3, RuleTexts, Zenon
  <2>. QED
    BY <2>4, <2>5, Zenon DEF IsBlock
<1>2. CASE FromFlags(i, c)
  <2>1. c.target = field(i.cli, "target", NoTarget) /\ c.routes = FlagRoutes(i.cli)
    <3>1. c = trimToken(parseFlags(i.cli, i.env))
      BY <1>2, Zenon DEF FromFlags
    <3>. QED
      BY <3>1, FlagBlockParts, Zenon
  <2>2. IsTarget(c.target)
    BY <2>1, InputAssumption, Texts, Zenon DEF field
  <2>3. ASSUME NEW k \in DOMAIN c.routes
        PROVE  IsPath(c.routes[k].path) /\ IsTarget(c.routes[k].target)
    <3>1. k \in DOMAIN i.cli.routes /\ c.routes[k] = parseRouteFlag(i.cli.routes[k])
      BY <2>1, <2>3, Zenon DEF FlagRoutes
    <3>2. IsPath(i.cli.routes[k].path) /\ IsTarget(i.cli.routes[k].target)
      BY <3>1, InputAssumption, Zenon
    <3>. QED
      BY <3>1, <3>2, RuleTexts, Zenon
  <2>. QED
    BY <2>2, <2>3, Zenon DEF IsBlock
<1>. QED
  BY <1>1, <1>2

(* A valid target is not the zero value, so that its source names it.      *)
LEMMA TargetIsNamed ==
  ASSUME NEW b, NEW t, t = field(b, "target", NoTarget), validateTarget(t)
  PROVE  b.target = t
<1>1. t.origin # Empty
  BY Zenon DEF validateTarget
<1>2. t # NoTarget
  BY <1>1 DEF NoTarget
<1>. QED
  BY <1>2, Zenon DEF field

-----------------------------------------------------------------------------
(* The configuration that a run uses                                       *)

(* The configuration is the one that Parse returns, and what follows works *)
(* on one of its blocks: the session keeps its origin and its rules, and   *)
(* the proxy that serves is built from those.                              *)
ParsedInv ==
  cfg.ok => /\ input \in Inputs /\ cfg = Parse(input.env, input.cli, input.config)
            /\ block \in Blocks(cfg)

SessionInv ==
  /\ phase \in {"prepare", "reserve", "session", "serving"} => cfg.ok
  /\ phase \in {"session", "serving"} =>
       session.origin = Normalize(block) /\ session.routes = block.routes
  /\ phase = "serving" =>
       proxy.ok /\ proxy = NewRoutedProxy(OriginTarget(session), session.routes)

ConfigInv == ParsedInv /\ SessionInv

(* A session has the origin and the routes of its block.                   *)
LEMMA SessionParts ==
  ASSUME NEW c, NEW quick, NEW s, s = BuildSession(c, quick)
  PROVE  s.origin = Normalize(c) /\ s.routes = c.routes
<1>1. PICK n : n = Normalize(c)
  OBVIOUS
<1>2. s = [quickTunnel |-> quick, edgeProtocol |-> c.edgeProtocol, origin |-> n,
           routes |-> c.routes]
  BY <1>1, Zenon DEF BuildSession
<1>3. s.origin = n /\ s.routes = c.routes
  BY <1>2
<1>. QED
  BY <1>1, <1>3, Zenon

(* A step of start-up keeps ConfigInv: the configuration is written once,  *)
(* and each later step computes its result from it.                        *)
LEMMA ConfigStep ==
  ASSUME ConfigInv, [Next]_vars
  PROVE  ConfigInv'
<1> USE DEF ConfigInv
<1>1. ASSUME UNCHANGED <<phase, input, cfg, block, session, proxy>> PROVE ConfigInv'
  BY <1>1, Zenon DEF ParsedInv, SessionInv
<1>2. CASE ParseArguments
  <2>1. PICK i \in Inputs :
          /\ input' = i /\ cfg' = Parse(i.env, i.cli, i.config)
          /\ phase' = IF cfg'.ok THEN "prepare" ELSE "rejected"
          /\ cfg'.ok => block' \in Blocks(cfg')
    BY <1>2, Zenon DEF ParseArguments
  <2>2. ParsedInv'
    BY <2>1, Zenon DEF ParsedInv
  <2>3. phase' \in {"prepare", "rejected"} /\ (phase' = "prepare" => cfg'.ok)
    BY <2>1
  <2>4. SessionInv'
    BY <2>3 DEF SessionInv
  <2>. QED
    BY <2>2, <2>4
<1>3. ASSUME phase \in {"prepare", "reserve", "session"}, UNCHANGED <<input, cfg, block>>
      PROVE  ParsedInv' /\ cfg.ok /\ cfg'.ok
  <2>1. cfg.ok
    BY <1>3, Zenon DEF SessionInv
  <2>. QED
    BY <1>3, <2>1, Zenon DEF ParsedInv
<1>4. ASSUME phase \in {"prepare", "reserve"}, UNCHANGED <<input, cfg, block>>,
             phase' = "session", \E quick : session' = BuildSession(block, quick)
      PROVE  ConfigInv'
  <2>1. session'.origin = Normalize(block) /\ session'.routes = block.routes
    BY <1>4, SessionParts, Zenon
  <2>2. session'.origin = Normalize(block)' /\ session'.routes = block'.routes
    BY <1>4, <2>1, Zenon DEF Normalize
  <2>3. phase' # "serving"
    BY <1>4
  <2>. QED
    BY <1>3, <1>4, <2>2, <2>3, Zenon DEF SessionInv
<1>5. ASSUME phase \in {"prepare", "reserve", "session"}, UNCHANGED <<input, cfg, block>>,
             phase' \in {"reserve", "failed"}
      PROVE  ConfigInv'
  <2>1. phase' \notin {"session", "serving"}
    BY <1>5
  <2>. QED
    BY <1>3, <1>5, <2>1, Zenon DEF SessionInv
<1>6. CASE PrepareTunnelSession
  <2>1. phase = "prepare" /\ UNCHANGED <<input, cfg, block>>
    BY <1>6, Zenon DEF PrepareTunnelSession
  <2>2. \/ phase' \in {"reserve", "failed"}
        \/ phase' = "session" /\ session' = BuildSession(block, FALSE)
    BY <1>6, Zenon DEF PrepareTunnelSession
  <2>3. phase \in {"prepare", "reserve"} /\ phase \in {"prepare", "reserve", "session"}
    BY <2>1
  <2>4. CASE phase' \in {"reserve", "failed"}
    BY <1>5, <2>1, <2>3, <2>4
  <2>5. CASE phase' = "session" /\ session' = BuildSession(block, FALSE)
    BY <1>4, <2>1, <2>3, <2>5
  <2>. QED
    BY <2>2, <2>4, <2>5, Zenon
<1>7. CASE ReserveReturns
  <2>1. phase = "reserve" /\ UNCHANGED <<input, cfg, block>>
    BY <1>7, Zenon DEF ReserveReturns
  <2>2. \/ phase' \in {"reserve", "failed"}
        \/ phase' = "session" /\ session' = BuildSession(block, TRUE)
    BY <1>7, Zenon DEF ReserveReturns
  <2>3. phase \in {"prepare", "reserve"} /\ phase \in {"prepare", "reserve", "session"}
    BY <2>1
  <2>4. CASE phase' \in {"reserve", "failed"}
    BY <1>5, <2>1, <2>3, <2>4
  <2>5. CASE phase' = "session" /\ session' = BuildSession(block, TRUE)
    BY <1>4, <2>1, <2>3, <2>5
  <2>. QED
    BY <2>2, <2>4, <2>5, Zenon
<1>8. CASE PrepareRuntime
  <2>1. phase = "session" /\ UNCHANGED <<input, cfg, block, session>>
    BY <1>8, Zenon DEF PrepareRuntime
  <2>2. \/ phase' = "failed"
        \/ /\ proxy' = NewRoutedProxy(OriginTarget(session), session.routes)
           /\ phase' = "serving" /\ proxy'.ok
    BY <1>8, Zenon DEF PrepareRuntime
  <2>3. CASE phase' = "failed"
    BY <1>5, <2>1, <2>3, Zenon
  <2>4. CASE /\ proxy' = NewRoutedProxy(OriginTarget(session), session.routes)
             /\ phase' = "serving" /\ proxy'.ok
    <3>1. session.origin = Normalize(block) /\ session.routes = block.routes
      BY <2>1, Zenon DEF SessionInv
    <3>2. session'.origin = Normalize(block)' /\ session'.routes = block'.routes
      BY <2>1, <3>1, Zenon DEF Normalize
    <3>3. proxy' = NewRoutedProxy(OriginTarget(session), session.routes)'
      BY <2>1, <2>4, Zenon DEF NewRoutedProxy, OriginTarget
    <3>4. ParsedInv' /\ cfg'.ok
      BY <1>3, <2>1, Zenon
    <3>. QED
      BY <2>4, <3>2, <3>3, <3>4, Zenon DEF SessionInv
  <2>. QED
    BY <2>2, <2>3, <2>4
<1>. QED
  BY <1>1, <1>2, <1>6, <1>7, <1>8, Zenon
     DEF Next, Step, Cancel, ReserveStep, Terminating, vars

(* What start-up works with is what Parse has returned: the block that is  *)
(* followed is one of its blocks, the session was built from that block,   *)
(* and the proxy from that session (Parse, prepareTunnelSessionWith,       *)
(* PrepareRuntime).                                                        *)
THEOREM ConfigIsParsed == Spec => []ConfigInv
<1>1. Init => ConfigInv
  <2>1. ~ConfigError.ok
    BY DEF ConfigError
  <2>2. Init => phase = "parse" /\ ~cfg.ok
    BY <2>1, Zenon DEF Init
  <2>. QED
    BY <2>2 DEF ConfigInv, ParsedInv, SessionInv
<1>2. ConfigInv /\ [Next]_vars => ConfigInv'
  BY ConfigStep
<1>. QED
  BY <1>1, <1>2, PTL DEF Spec

-----------------------------------------------------------------------------
(* TokenStaysWithTarget                                                    *)

(* The blocks of the file, as the property collects them.                  *)
LEMMA BlocksCollected ==
  ASSUME NEW config, NEW file, file = IF config = <<>> THEN {} ELSE {config[1]}
  PROVE  UNION { { f.cf[i] : i \in DOMAIN f.cf }
                 \cup { f.tunnels[i].cf : i \in DOMAIN f.tunnels } : f \in file }
           = FileBlocks(config)
<1> DEFINE of(f) == { f.cf[i] : i \in DOMAIN f.cf }
                    \cup { f.tunnels[i].cf : i \in DOMAIN f.tunnels }
<1>1. FileBlocks(config) = IF config = <<>> THEN {} ELSE of(config[1])
  BY Zenon DEF FileBlocks
<1> HIDE DEF of
<1>2. UNION { of(f) : f \in file } = FileBlocks(config)
  BY <1>1
<1>. QED
  BY <1>2, Zenon DEF of

(* A trimmed token that is not empty is the token.                         *)
LEMMA TrimKeeps ==
  ASSUME NEW text, trim(text) # Empty
  PROVE  trim(text) = text
BY Zenon DEF trim

(* The token of a block that is run was given where its target was.        *)
LEMMA TokenOfSource ==
  ASSUME NEW i \in Inputs, NEW c, c.token # Empty, validateTarget(c.target),
         FromFile(i, c) \/ FromFlags(i, c)
  PROVE  \/ \E b \in FileBlocks(i.config) :
              field(b, "token", Empty) = c.token /\ b.target = c.target
         \/ /\ FileBlocks(i.config) = {} /\ i.cli.target = c.target
            /\ c.token = IF i.cli.token = Unset THEN i.env ELSE i.cli.token
<1>1. CASE FromFile(i, c)
  <2>1. PICK b \in FileBlocks(i.config) : c = trimToken(applyDefaults(b))
    BY <1>1, Zenon DEF FromFile
  <2>2. c.token = trim(field(b, "token", Empty)) /\ c.target = field(b, "target", NoTarget)
    BY <2>1, FileBlockParts, Zenon
  <2>3. field(b, "token", Empty) = c.token
    BY <2>2, TrimKeeps, Zenon
  <2>4. b.target = c.target
    BY <2>2, TargetIsNamed, Zenon
  <2>. QED
    BY <2>3, <2>4, Zenon
<1>2. CASE FromFlags(i, c)
  <2>1. FileBlocks(i.config) = {} /\ c = trimToken(parseFlags(i.cli, i.env))
    BY <1>2, Zenon DEF FromFlags
  <2>2. /\ c.token = trim(IF i.cli.token = Unset THEN trim(i.env) ELSE i.cli.token)
        /\ c.target = field(i.cli, "target", NoTarget)
    BY <2>1, FlagBlockParts, Zenon
  <2>3. i.cli.target = c.target
    BY <2>2, TargetIsNamed, Zenon
  <2>4. c.token = IF i.cli.token = Unset THEN trim(i.env) ELSE i.cli.token
    BY <2>2, TrimKeeps, Zenon
  <2>5. c.token = IF i.cli.token = Unset THEN i.env ELSE i.cli.token
    BY <2>4, TrimKeeps, Zenon
  <2>. QED
    BY <2>1, <2>3, <2>5, Zenon
<1>. QED
  BY <1>1, <1>2

(* A block of the file never runs with the token of the flag or of the     *)
(* environment (Parse, applyConfigFile).                                   *)
THEOREM TokensStay == Spec => []TokenStaysWithTarget
<1>1. ASSUME ConfigInv, cfg.ok, NEW c \in Blocks(cfg), c.token # Empty
      PROVE  \/ \E b \in FileBlocks(input.config) :
                  field(b, "token", Empty) = c.token /\ b.target = c.target
             \/ /\ FileBlocks(input.config) = {} /\ input.cli.target = c.target
                /\ c.token = IF input.cli.token = Unset THEN input.env ELSE input.cli.token
  <2>1. input \in Inputs /\ cfg = Parse(input.env, input.cli, input.config)
    BY <1>1, Zenon DEF ConfigInv, ParsedInv
  <2>2. validateBlock(c) /\ (FromFile(input, c) \/ FromFlags(input, c))
    BY <1>1, <2>1, BlockSources, Zenon
  <2>3. validateTarget(c.target)
    BY <2>2, Zenon DEF validateBlock
  <2>. QED
    BY <1>1, <2>1, <2>2, <2>3, TokenOfSource, Zenon
<1>2. ConfigInv => TokenStaysWithTarget
  <2> DEFINE file == IF input.config = <<>> THEN {} ELSE {input.config[1]}
             blocks == UNION { { f.cf[i] : i \in DOMAIN f.cf }
                               \cup { f.tunnels[i].cf : i \in DOMAIN f.tunnels } : f \in file }
  <2>1. SUFFICES ASSUME ConfigInv, cfg.ok, NEW c \in Blocks(cfg), c.token # Empty
                 PROVE  \/ \E b \in blocks :
                             field(b, "token", Empty) = c.token /\ b.target = c.target
                        \/ /\ blocks = {} /\ input.cli.target = c.target
                           /\ c.token = IF input.cli.token = Unset THEN input.env
                                        ELSE input.cli.token
    BY Zenon DEF TokenStaysWithTarget
  <2>2. blocks = FileBlocks(input.config)
    BY BlocksCollected, Zenon
  <2> HIDE DEF blocks
  <2>. QED
    BY <1>1, <2>1, <2>2, Zenon
<1>. QED
  BY <1>2, ConfigIsParsed, PTL

-----------------------------------------------------------------------------
(* AcceptedRoutesBuild                                                     *)

(* What holds of every block that is run.                                  *)
LEMMA RunBlocks ==
  ASSUME ConfigInv, cfg.ok, NEW c \in Blocks(cfg)
  PROVE  validateBlock(c) /\ IsBlock(c)
<1>1. input \in Inputs /\ cfg = Parse(input.env, input.cli, input.config)
  BY Zenon DEF ConfigInv, ParsedInv
<1>2. validateBlock(c) /\ (FromFile(input, c) \/ FromFlags(input, c))
  BY <1>1, BlockSources, Zenon
<1>3. IsBlock(c)
  BY <1>1, <1>2, BlockTexts, Zenon
<1>. QED
  BY <1>2, <1>3

(* The origin of a valid block.                                            *)
LEMMA BlockOrigin ==
  ASSUME NEW c, validateBlock(c), NEW n, n = Normalize(c)
  PROVE  IsParsed(n, c.target, c.serverName, c.insecureSkipVerify, c.passHostHeader)
<1>1. validateTarget(c.target)
  BY Zenon DEF validateBlock
<1>2. n = ParseTarget(c.target, c.serverName, c.insecureSkipVerify, c.passHostHeader)
  BY Zenon DEF Normalize
<1>. QED
  BY <1>1, <1>2, ValidParses, Zenon

(* What Validate accepts, PrepareRuntime can build, but for rules written  *)
(* with spaces around them (validateRouteRules, NewRouter, ParseTarget).   *)
THEOREM AcceptedBuilds == Spec => []AcceptedRoutesBuild
<1>1. ASSUME ConfigInv, cfg.ok, NEW c \in Blocks(cfg)
      PROVE  /\ Normalize(c).ok
             /\ \/ \E i \in DOMAIN c.routes : Padded(c.routes[i])
                \/ NewRoutedProxy(Normalize(c), c.routes).ok
  <2>1. validateBlock(c) /\ IsBlock(c)
    BY <1>1, RunBlocks, Zenon
  <2>2. Normalize(c).ok
    BY <2>1, BlockOrigin, Zenon DEF IsParsed
  <2>3. ASSUME ~\E i \in DOMAIN c.routes : Padded(c.routes[i])
        PROVE  NewRoutedProxy(Normalize(c), c.routes).ok
    <3>1. \A i \in DOMAIN c.routes : IsPlain(c.routes[i])
      BY <2>1, <2>3, Zenon DEF IsBlock, IsPlain, Padded
    <3>2. validateRouteRules(c.routes)
      BY <2>1, Zenon DEF validateBlock
    <3>. QED
      BY <3>1, <3>2, ValidProxy, Zenon
  <2>. QED
    BY <2>2, <2>3, Zenon
<1>2. ConfigInv => AcceptedRoutesBuild
  BY <1>1, Zenon DEF AcceptedRoutesBuild
<1>. QED
  BY <1>2, ConfigIsParsed, PTL

-----------------------------------------------------------------------------
(* RequestsGoWhereConfigured                                               *)

(* The documented table reads a rule as the router has compiled it.        *)
LEMMA RuleReads ==
  ASSUME NEW rule, IsPath(rule.path), NEW r, r = Compile(rule), r.kind # "error",
         NEW host, NEW h, h = normalizeRequestHost(host), NEW path \in Seq(STRING)
  PROVE  /\ Applies(rule, host, path) <=> r.host \in {Empty, h} /\ Fits(r, path)
         /\ PathWeight(rule) = RouteWeight(r)
<1>0. PICK segs, kind, base : segs = rule.path.segs /\ kind = r.kind /\ base = r.base
  OBVIOUS
<1>1. /\ r.host = Lower[rule.host]
      /\ \/ IsDefault(segs, kind, base)
         \/ IsPrefixRule(segs, kind, base)
         \/ IsExact(segs, kind, base)
  BY <1>0, CompiledRule, Zenon
<1>2. segs \in Seq(STRING)
  BY <1>0 DEF IsPath
<1> DEFINE reads == \/ segs \in {path, Root}
                    \/ Last(segs) = "*" /\ IsPrefix(Front(segs), path)
           fits == \/ kind = "default"
                   \/ kind = "exact" /\ base = path
                   \/ kind = "prefix" /\ IsPrefix(base, path)
           weight == CASE segs = Root -> 0
                       [] segs # Root /\ Last(segs) = "*" -> 2 * Len(segs) - 2
                       [] OTHER -> 2 * Len(segs) + 1
           routeWeight == IF kind = "default" THEN 0
                          ELSE IF kind = "prefix" THEN 2 * Len(base) ELSE 2 * Len(base) + 1
<1>3. (reads <=> fits) /\ weight = routeWeight
  <2>1. CASE IsDefault(segs, kind, base)
    BY <2>1 DEF IsDefault
  <2>2. CASE IsPrefixRule(segs, kind, base)
    <3>1. /\ segs # <<>> /\ Len(segs) > 1 /\ segs[1] # Empty /\ Last(segs) = "*"
          /\ kind = "prefix" /\ base = Front(segs)
      BY <2>2, Zenon DEF IsPrefixRule, Last
    <3>2. /\ Len(segs) \in Nat \ {0}
          /\ base \in Seq(STRING) /\ Len(base) = Len(segs) - 1
          /\ \A i \in 1..Len(segs) - 1 : base[i] = segs[i]
      BY <1>2, <3>1, FrontElements, Zenon
    <3>3. segs # Root
      <4>1. segs[1] # Empty
        BY <3>1
      <4>. QED
        BY <4>1 DEF Root
    <3>4. segs = path => IsPrefix(base, path)
      BY <3>2, PrefixElements
    <3>5. reads <=> fits
      BY <3>1, <3>3, <3>4, Zenon
    <3>6. weight = routeWeight
      <4>1. weight = 2 * Len(segs) - 2
        BY <3>1, <3>3, Zenon
      <4>2. routeWeight = 2 * Len(base)
        BY <3>1, Zenon
      <4>3. 2 * Len(segs) - 2 = 2 * Len(base)
        BY <3>2
      <4>. QED
        BY <4>1, <4>2, <4>3, Zenon
    <3>. QED
      BY <3>5, <3>6
  <2>3. CASE IsExact(segs, kind, base)
    <3>1. segs # Root /\ Last(segs) # "*" /\ kind = "exact" /\ base = segs
      BY <2>3, Zenon DEF IsExact, Last
    <3>2. reads <=> fits
      BY <3>1
    <3>3. weight = routeWeight
      BY <3>1, Zenon
    <3>. QED
      BY <3>2, <3>3
  <2>. QED
    BY <1>1, <2>1, <2>2, <2>3
<1>4. Applies(rule, host, path) <=> r.host \in {Empty, h} /\ reads
  BY <1>0, <1>1, Zenon DEF Applies
<1>5. Fits(r, path) <=> fits
  BY <1>0, Zenon DEF Fits
<1>6. PathWeight(rule) = weight /\ RouteWeight(r) = routeWeight
  BY <1>0, Zenon DEF PathWeight, RouteWeight
<1> HIDE DEF reads, fits, weight, routeWeight
<1>. QED
  BY <1>3, <1>4, <1>5, <1>6, Zenon

(* The rules that the table puts first are the one that Match returns.     *)
BestFor(rules, best, path, m) ==
  \/ m = NoRoute /\ best = {}
  \/ \E k \in DOMAIN rules : best = {k} /\ m = Compile(rules[k]) /\ Fits(m, path)

(* For a router that was built, Match returns the one rule that the        *)
(* documented table puts first, or none where none applies.                *)
LEMMA BestIsMatch ==
  ASSUME NEW rules, \A i \in DOMAIN rules : IsPath(rules[i].path),
         NEW router, router = NewRouter(rules), router.ok,
         NEW host, NEW path \in Seq(STRING), NEW m, m = Match(router, host, path)
  PROVE  BestFor(rules, Best(rules, host, path), path, m)
<1> USE DEF BestFor
<1>0. PICK h, routes : h = normalizeRequestHost(host) /\ routes = router.routes
  OBVIOUS
<1>1. /\ routes = { Compile(rules[i]) : i \in DOMAIN rules }
      /\ \A i \in DOMAIN rules : Compile(rules[i]).kind # "error"
      /\ \A i, j \in DOMAIN rules :
           routeHostPathKey(Compile(rules[i])) = routeHostPathKey(Compile(rules[j])) => i = j
      /\ \A r \in routes : IsRoute(r)
  BY <1>0, RouterHolds, Zenon
<1>2. FoundFor(routes, h, path, m)
  <2>1. \A r \in router.routes : IsRoute(r)
    BY <1>0, <1>1, Zenon
  <2>2. h = normalizeRequestHost(host)
    BY <1>0
  <2>3. FoundFor(router.routes, h, path, m)
    BY <2>1, <2>2, MatchFinds, Zenon
  <2>. QED
    BY <1>0, <2>3, Zenon
<1> DEFINE R(i) == Compile(rules[i])
           Fit(i) == R(i).host \in {Empty, h} /\ Fits(R(i), path)
<1>3. \A i \in DOMAIN rules : /\ R(i) \in routes /\ IsRoute(R(i))
                              /\ R(i).host = Lower[rules[i].host]
                              /\ RouteWeight(R(i)) \in Nat
  <2>1. \A i \in DOMAIN rules : R(i) \in routes /\ IsRoute(R(i))
    BY <1>1, Zenon
  <2>2. \A i \in DOMAIN rules : R(i).host = Lower[rules[i].host]
    BY <1>1, CompiledRule, Zenon
  <2>3. \A r : IsRoute(r) => RouteWeight(r) \in Nat
    BY DEF IsRoute, RouteWeight
  <2>. QED
    BY <2>1, <2>2, <2>3, Zenon
<1>4. \A i \in DOMAIN rules : /\ Applies(rules[i], host, path) <=> Fit(i)
                              /\ PathWeight(rules[i]) = RouteWeight(R(i))
  BY <1>0, <1>1, RuleReads, Zenon
<1>5. \A i, j \in DOMAIN rules : Outranks(rules[i], rules[j]) <=> Above(R(i), R(j))
  BY <1>3, <1>4, Zenon DEF Outranks, Above
<1>6. Best(rules, host, path) = { i \in DOMAIN rules :
                                    Fit(i) /\ \A j \in DOMAIN rules : Fit(j) => ~Above(R(j), R(i)) }
  BY <1>4, <1>5, Zenon DEF Best
<1>7. CASE m = NoRoute /\ \A r \in routes : r.host \in {Empty, h} => ~Fits(r, path)
  <2>1. \A i \in DOMAIN rules : ~Fit(i)
    BY <1>3, <1>7, Zenon
  <2> HIDE DEF Fit
  <2>. QED
    BY <1>6, <1>7, <2>1, Zenon
<1>8. CASE /\ m \in routes /\ m.host \in {Empty, h} /\ Fits(m, path)
           /\ \A r \in routes : r.host \in {Empty, h} /\ Fits(r, path) => ~Above(r, m)
  <2>1. PICK k \in DOMAIN rules : m = R(k)
    BY <1>1, <1>8, Zenon
  <2>2. Fit(k) /\ \A j \in DOMAIN rules : Fit(j) => ~Above(R(j), R(k))
    BY <1>3, <1>8, <2>1, Zenon
  <2>3. ASSUME NEW i \in DOMAIN rules, Fit(i), ~Above(R(k), R(i)) PROVE i = k
    <3>0. PICK r, s : r = R(i) /\ s = R(k)
      OBVIOUS
    <3>1. /\ r.host \in {Empty, h} /\ Fits(r, path) /\ IsRoute(r) /\ RouteWeight(r) \in Nat
          /\ s.host \in {Empty, h} /\ Fits(s, path) /\ IsRoute(s) /\ RouteWeight(s) \in Nat
          /\ ~Above(s, r) /\ ~Above(r, s)
      BY <1>3, <2>2, <2>3, <3>0, Zenon
    <3>2. (r.host # Empty <=> s.host # Empty) /\ RouteWeight(r) = RouteWeight(s)
      BY <3>1 DEF Above
    <3>3. r.host = s.host
      BY <3>1, <3>2
    <3>4. r.kind = s.kind /\ r.base = s.base
      BY <3>1, <3>2, SameWeight, Zenon
    <3>5. routeHostPathKey(r) = routeHostPathKey(s)
      BY <3>3, <3>4, Zenon DEF routeHostPathKey
    <3>. QED
      BY <1>1, <3>0, <3>5, Zenon
  <2> HIDE DEF Fit
  <2>4. Best(rules, host, path) = {k}
    BY <1>6, <2>2, <2>3, Zenon
  <2>. QED
    BY <1>8, <2>1, <2>4, Zenon
<1>. QED
  BY <1>2, <1>7, <1>8, Zenon DEF FoundFor

(* What the proxy picks for a request whose best rules are given.          *)
Serves(rules, target, best, path, picked) ==
  \/ best = {} /\ picked.target = target /\ picked.route = NoRoute
  \/ \E k \in DOMAIN rules :
       /\ best = {k}
       /\ \/ /\ picked.target = routeTarget(rules[k], target.passHostHeader)
             /\ IsRoute(picked.route) /\ Fits(picked.route, path)
          \/ /\ Lower[rules[k].host] # rules[k].host
             /\ picked.target = target /\ picked.route = NoRoute

(* A request is served by the proxy of its best rule, or by the tunnel's   *)
(* own where there is none or where its host is not in lower case.         *)
LEMMA RequestServed ==
  ASSUME NEW rules, \A i \in DOMAIN rules : IsPath(rules[i].path), NEW target,
         NEW proxy_, IsBuilt(target, rules, proxy_),
         NEW host, NEW path \in Seq(STRING),
         NEW best, best = Best(rules, host, path),
         NEW picked, picked = pickRouteProxy(proxy_, host, path)
  PROVE  Serves(rules, target, best, path, picked)
<1>1. /\ proxy_.default = target
      /\ \/ rules = <<>> /\ ~proxy_.routed
         \/ proxy_.routed /\ proxy_.router = NewRouter(rules) /\ proxy_.router.ok
  <2>1. Holds(target, rules, proxy_)
    BY ProxyHolds, Zenon
  <2>. QED
    BY <2>1, Zenon DEF Holds
<1>2. CASE rules = <<>> /\ ~proxy_.routed
  <2>1. DOMAIN rules = {}
    BY <1>2
  <2>2. best = {}
    BY <2>1, Zenon DEF Best
  <2>3. proxy_.routed => Match(proxy_.router, host, path) = NoRoute
    BY <1>2
  <2>4. PickedNone(target, picked)
    BY <2>3, NoRulePicked, Zenon
  <2>. QED
    BY <2>2, <2>4, Zenon DEF Serves, PickedNone
<1>3. CASE proxy_.routed /\ proxy_.router = NewRouter(rules) /\ proxy_.router.ok
  <2>0. PICK router, m : router = proxy_.router /\ m = Match(router, host, path)
    OBVIOUS
  <2>1. BestFor(rules, best, path, m)
    BY <1>3, <2>0, BestIsMatch, Zenon
  <2>2. CASE m = NoRoute /\ best = {}
    <3>1. proxy_.routed => Match(proxy_.router, host, path) = NoRoute
      BY <2>0, <2>2, Zenon
    <3>2. PickedNone(target, picked)
      BY <3>1, NoRulePicked, Zenon
    <3>. QED
      BY <2>2, <3>2, Zenon DEF Serves, PickedNone
  <2>3. ASSUME NEW k \in DOMAIN rules, best = {k}, m = Compile(rules[k]), Fits(m, path)
        PROVE  Serves(rules, target, best, path, picked)
    <3>1. m.kind # "error"
      BY <1>3, <2>3, RouterHolds, Zenon
    <3>2. IsRoute(m)
      BY <2>3, <3>1, CompiledRule, Zenon
    <3>3. m = Match(proxy_.router, host, path) /\ IsPath(rules[k].path)
      BY <2>0, Zenon
    <3>4. PickedRule(rules[k], target, m, picked)
      BY <1>3, <2>3, <3>1, <3>3, PickedProxy, Zenon
    <3>. QED
      BY <2>3, <3>2, <3>4, Zenon DEF Serves, PickedRule
  <2>. QED
    BY <2>1, <2>2, <2>3, Zenon DEF BestFor
<1>. QED
  BY <1>1, <1>2, <1>3

(* Requests of one host with the same best rules are served alike.         *)
PickedBy(p, host, path, picked) == picked = pickRouteProxy(p, host, path)

(* Two requests with the same best rule are served by the same proxy under *)
(* the same route.                                                         *)
LEMMA PicksAlike ==
  ASSUME NEW rules, \A i \in DOMAIN rules : IsPath(rules[i].path), NEW target,
         NEW proxy_, IsBuilt(target, rules, proxy_),
         NEW host, NEW path \in Seq(STRING), NEW other \in Seq(STRING),
         NEW best, best = Best(rules, host, path), best = Best(rules, host, other),
         NEW picked, PickedBy(proxy_, host, path, picked)
  PROVE  PickedBy(proxy_, host, other, picked)
<1> USE DEF PickedBy
<1>1. CASE ~proxy_.routed
  BY <1>1, Zenon DEF pickRouteProxy
<1>2. CASE proxy_.routed
  <2>0. Holds(target, rules, proxy_)
    BY ProxyHolds, Zenon
  <2>1. proxy_.router = NewRouter(rules) /\ proxy_.router.ok
    BY <1>2, <2>0, Zenon DEF Holds
  <2>2. PICK m, n : /\ m = Match(proxy_.router, host, path)
                    /\ n = Match(proxy_.router, host, other)
    OBVIOUS
  <2>3. BestFor(rules, best, path, m)
    BY <2>1, <2>2, BestIsMatch, Zenon
  <2>4. BestFor(rules, best, other, n)
    BY <2>1, <2>2, BestIsMatch, Zenon
  <2>5. m = n
    BY <2>3, <2>4, Zenon DEF BestFor
  <2>. QED
    BY <1>2, <2>2, <2>5, Zenon DEF pickRouteProxy
<1>. QED
  BY <1>1, <1>2

(* What the origin sees, from what is picked.                              *)
SentAs(picked, host, path, sent) ==
  /\ sent.target = picked.target.url
  /\ sent.host = originHost(picked.target, host)
  /\ sent.insecure = picked.target.insecureSkipVerify
  /\ sent.path = strippedPath(picked.route, path)

(* Forward sends a request as the proxy that was picked says.              *)
LEMMA Forwarded ==
  ASSUME NEW proxy_, NEW host, NEW path, NEW sent, sent = Forward(proxy_, host, path),
         NEW picked, picked = pickRouteProxy(proxy_, host, path)
  PROVE  SentAs(picked, host, path, sent)
<1>1. PICK h, p : h = originHost(picked.target, host) /\ p = strippedPath(picked.route, path)
  OBVIOUS
<1>2. sent = [target |-> picked.target.url, host |-> h,
              insecure |-> picked.target.insecureSkipVerify, path |-> p]
  BY <1>1, Zenon DEF Forward
<1>3. /\ sent.target = picked.target.url /\ sent.host = h
      /\ sent.insecure = picked.target.insecureSkipVerify /\ sent.path = p
  BY <1>2
<1>. QED
  BY <1>1, <1>3, Zenon DEF SentAs

(* Where a request goes, from its target.                                  *)
Goes(target, host) == <<target.url, target.insecureSkipVerify, originHost(target, host)>>

(* The origin q serves as the origin of block c.                           *)
ServesAs(q, c) ==
  /\ q.passHostHeader = c.passHostHeader
  /\ \A host : Goes(q, host) = Goes(Normalize(c), host)

(* The target of the session, parsed once more, is that of the block.      *)
LEMMA SameOrigin ==
  ASSUME NEW c, validateBlock(c), IsBlock(c), NEW s, s.origin = Normalize(c),
         NEW q, q = OriginTarget(s)
  PROVE  ServesAs(q, c)
<1>0. PICK n, t, name, insecure, pass :
        /\ n = Normalize(c) /\ t = c.target /\ name = c.serverName
        /\ insecure = c.insecureSkipVerify /\ pass = c.passHostHeader
  OBVIOUS
<1>1. IsParsed(n, t, name, insecure, pass)
  BY <1>0, BlockOrigin, Zenon
<1>2. q = ParseTarget(n.url, n.serverName, n.insecureSkipVerify, n.passHostHeader)
  BY <1>0, Zenon DEF OriginTarget
<1>3. PICK u : u = Resolved(t)
  OBVIOUS
<1>4. q = ParseTarget(u, name, insecure, pass)
  BY <1>1, <1>2, <1>3, Zenon DEF IsParsed
<1>5. validateTarget(t) /\ IsTarget(t)
  BY <1>0, Zenon DEF validateBlock, IsBlock
<1>6. IsParsed(q, t, name, insecure, pass)
  BY <1>3, <1>4, <1>5, ParsedTwice, Zenon
<1>7. /\ q.url = n.url /\ q.serverName = n.serverName /\ q.passHostHeader = pass
      /\ q.insecureSkipVerify = n.insecureSkipVerify /\ q.passHostHeader = n.passHostHeader
  BY <1>1, <1>6, Zenon DEF IsParsed
<1>8. ASSUME NEW host PROVE Goes(q, host) = Goes(n, host)
  <2>1. originHost(q, host) = originHost(n, host)
    BY <1>7, Zenon DEF originHost
  <2>. QED
    BY <1>7, <2>1, Zenon DEF Goes
<1>. QED
  BY <1>0, <1>7, <1>8, Zenon DEF ServesAs

(* What Configured says of no rule and of one.                             *)
LEMMA ConfiguredGoes ==
  ASSUME NEW c, NEW host
  PROVE  /\ Configured(c, host, {}) = Goes(Normalize(c), host)
         /\ \A k : Configured(c, host, {k}) = Goes(routeTarget(c.routes[k], c.passHostHeader), host)
<1>1. Configured(c, host, {}) = Goes(Normalize(c), host)
  BY Zenon DEF Configured, Goes
<1>2. ASSUME NEW k
      PROVE  Configured(c, host, {k}) = Goes(routeTarget(c.routes[k], c.passHostHeader), host)
  <2>1. (CHOOSE i \in {k} : TRUE) = k
    BY Zenon
  <2>2. {k} # {}
    BY Zenon
  <2>. QED
    BY <2>1, <2>2, Zenon DEF Configured, Goes
<1>. QED
  BY <1>1, <1>2, Zenon

(* Where a request of a given host is sent.                                *)
RightPlace(c, host, best, goes) ==
  /\ \A i, j \in best : i = j
  /\ \/ goes = Configured(c, host, best)
     \/ /\ \E i \in best : Lower[c.routes[i].host] # c.routes[i].host
        /\ goes = Configured(c, host, {})

(* A request that is served as it should be goes where its block says.     *)
LEMMA GoesWhereConfigured ==
  ASSUME NEW c, validateBlock(c), IsBlock(c), NEW s, s.origin = Normalize(c),
         NEW q, q = OriginTarget(s), NEW host, NEW best, NEW path,
         NEW picked, Serves(c.routes, q, best, path, picked),
         NEW goes, goes = Goes(picked.target, host)
  PROVE  RightPlace(c, host, best, goes)
<1> USE DEF RightPlace
<1>1. q.passHostHeader = c.passHostHeader /\ Goes(q, host) = Goes(Normalize(c), host)
  <2>1. ServesAs(q, c)
    BY SameOrigin, Zenon
  <2>. QED
    BY <2>1, Zenon DEF ServesAs
<1>2. Goes(q, host) = Configured(c, host, {})
  BY <1>1, ConfiguredGoes, Zenon
<1>3. CASE best = {} /\ picked.target = q
  BY <1>2, <1>3, Zenon
<1>4. ASSUME NEW k, best = {k}, picked.target = routeTarget(c.routes[k], q.passHostHeader)
      PROVE  goes = Configured(c, host, best) /\ \A i, j \in best : i = j
  <2>1. PICK t : t = routeTarget(c.routes[k], c.passHostHeader)
    OBVIOUS
  <2>2. Configured(c, host, {k}) = Goes(t, host)
    BY <2>1, ConfiguredGoes, Zenon
  <2>3. goes = Goes(t, host)
    BY <1>1, <1>4, <2>1, Zenon
  <2>4. \A i, j \in {k} : i = j
    BY Zenon
  <2>. QED
    BY <1>4, <2>2, <2>3, <2>4, Zenon
<1>5. ASSUME NEW k, best = {k}, Lower[c.routes[k].host] # c.routes[k].host, picked.target = q
      PROVE  /\ goes = Configured(c, host, {}) /\ \A i, j \in best : i = j
             /\ \E i \in best : Lower[c.routes[i].host] # c.routes[i].host
  BY <1>2, <1>5, Zenon
<1>. QED
  BY <1>3, <1>4, <1>5, Zenon DEF Serves

(* Two requests that are served alike and sent alike.                      *)
LEMMA StrippedApart ==
  ASSUME NEW rules, NEW target, NEW best, NEW picked,
         NEW path \in Seq(STRING), NEW other \in Seq(STRING),
         Serves(rules, target, best, path, picked), Serves(rules, target, best, other, picked),
         strippedPath(picked.route, path) = strippedPath(picked.route, other)
  PROVE  other \in {path, Append(path, Empty)} \/ path = Append(other, Empty)
<1>0. PICK route : route = picked.route
  OBVIOUS
<1>1. \/ route = NoRoute
      \/ IsRoute(route) /\ Fits(route, path) /\ Fits(route, other)
  <2>1. route = NoRoute \/ (IsRoute(route) /\ Fits(route, path))
    BY <1>0, Zenon DEF Serves
  <2>2. route = NoRoute \/ (IsRoute(route) /\ Fits(route, other))
    BY <1>0, Zenon DEF Serves
  <2>. QED
    BY <2>1, <2>2
<1>2. CASE route = NoRoute
  <2>1. strippedPath(route, path) = path /\ strippedPath(route, other) = other
    BY <1>2, Zenon DEF strippedPath
  <2>. QED
    BY <1>0, <2>1, Zenon
<1>3. CASE IsRoute(route) /\ Fits(route, path) /\ Fits(route, other)
  <2>1. strippedPath(route, path) = strippedPath(route, other)
    BY <1>0, Zenon
  <2>. QED
    BY <1>3, <2>1, StripsApart, Zenon
<1>. QED
  BY <1>1, <1>2, <1>3

(* What RequestsGoWhereConfigured says of one request.                     *)
Routed(r, best, sent) ==
  /\ RightPlace(block, r.host, best, <<sent.target, sent.insecure, sent.host>>)
  /\ \A q \in Requests :
       /\ q.host = r.host /\ Best(block.routes, q.host, q.path) = best
       /\ Forward(proxy, q.host, q.path).path = sent.path
       => q.path \in {r.path, Append(r.path, Empty)} \/ r.path = Append(q.path, Empty)

(* Every request goes where the most specific rule that applies to it says *)
(* (Match, pickRouteProxy, requestWithStrippedPathPrefix, rewriteRequest). *)
THEOREM RequestsRouted == Spec => []RequestsGoWhereConfigured
<1>1. ASSUME ConfigInv, phase = "serving"
      PROVE  /\ validateBlock(block) /\ IsBlock(block)
             /\ \A i \in DOMAIN block.routes : IsPath(block.routes[i].path)
             /\ session.origin = Normalize(block)
             /\ IsBuilt(OriginTarget(session), block.routes, proxy)
  <2>1. cfg.ok /\ block \in Blocks(cfg)
    BY <1>1, Zenon DEF ConfigInv, ParsedInv, SessionInv
  <2>2. validateBlock(block) /\ IsBlock(block)
    BY <1>1, <2>1, RunBlocks, Zenon
  <2>3. session.origin = Normalize(block) /\ session.routes = block.routes
    BY <1>1, Zenon DEF ConfigInv, SessionInv
  <2>4. IsBuilt(OriginTarget(session), block.routes, proxy)
    BY <1>1, <2>3, Zenon DEF ConfigInv, SessionInv, IsBuilt
  <2>. QED
    BY <2>2, <2>3, <2>4, Zenon DEF IsBlock
<1>2. ASSUME ConfigInv, phase = "serving", NEW r \in Requests,
             NEW best, best = Best(block.routes, r.host, r.path),
             NEW sent, sent = Forward(proxy, r.host, r.path)
      PROVE  Routed(r, best, sent)
  <2>0. PICK target, picked : /\ target = OriginTarget(session)
                              /\ picked = pickRouteProxy(proxy, r.host, r.path)
    OBVIOUS
  <2>1. /\ validateBlock(block) /\ IsBlock(block)
        /\ \A i \in DOMAIN block.routes : IsPath(block.routes[i].path)
        /\ session.origin = Normalize(block) /\ IsBuilt(target, block.routes, proxy)
    BY <1>1, <1>2, <2>0, Zenon
  <2>2. \A q \in Requests : q.path \in Seq(STRING)
    BY InputAssumption, Zenon
  <2>3. Serves(block.routes, target, best, r.path, picked)
    BY <1>2, <2>0, <2>1, <2>2, RequestServed, Zenon
  <2>4. SentAs(picked, r.host, r.path, sent)
    BY <1>2, <2>0, Forwarded, Zenon
  <2>5. <<sent.target, sent.insecure, sent.host>> = Goes(picked.target, r.host)
    BY <2>4, Zenon DEF Goes, SentAs
  <2>6. RightPlace(block, r.host, best, <<sent.target, sent.insecure, sent.host>>)
    BY <2>0, <2>1, <2>3, <2>5, GoesWhereConfigured, Zenon
  <2>7. ASSUME NEW q \in Requests, q.host = r.host, Best(block.routes, q.host, q.path) = best,
               Forward(proxy, q.host, q.path).path = sent.path
        PROVE  q.path \in {r.path, Append(r.path, Empty)} \/ r.path = Append(q.path, Empty)
    <3>1. picked = pickRouteProxy(proxy, r.host, q.path)
      <4>1. best = Best(block.routes, r.host, r.path) /\ best = Best(block.routes, r.host, q.path)
        BY <1>2, <2>7, Zenon
      <4>2. r.path \in Seq(STRING) /\ q.path \in Seq(STRING)
        BY <2>2, Zenon
      <4>3. PickedBy(proxy, r.host, r.path, picked)
        BY <2>0, Zenon DEF PickedBy
      <4>4. PickedBy(proxy, r.host, q.path, picked)
        BY <2>1, <4>1, <4>2, <4>3, PicksAlike, Zenon
      <4>. QED
        BY <4>4, Zenon DEF PickedBy
    <3>2. Serves(block.routes, target, best, q.path, picked)
      <4>1. best = Best(block.routes, r.host, q.path) /\ q.path \in Seq(STRING)
        BY <2>2, <2>7, Zenon
      <4>. QED
        BY <2>1, <3>1, <4>1, RequestServed, Zenon
    <3>3. strippedPath(picked.route, q.path) = strippedPath(picked.route, r.path)
      <4>1. PICK also : also = Forward(proxy, r.host, q.path)
        OBVIOUS
      <4>2. SentAs(picked, r.host, q.path, also)
        BY <3>1, <4>1, Forwarded, Zenon
      <4>. QED
        BY <2>4, <2>7, <4>1, <4>2, Zenon DEF SentAs
    <3>4. r.path \in Seq(STRING) /\ q.path \in Seq(STRING)
      BY <2>2, Zenon
    <3>. QED
      BY <2>3, <3>2, <3>3, <3>4, StrippedApart, Zenon
  <2>. QED
    BY <2>6, <2>7, Zenon DEF Routed
<1>3. ConfigInv => RequestsGoWhereConfigured
  <2>1. ASSUME ConfigInv, phase = "serving", NEW r \in Requests
        PROVE  Routed(r, Best(block.routes, r.host, r.path), Forward(proxy, r.host, r.path))
    BY <1>2, <2>1, Zenon
  <2>. QED
    BY <2>1, Zenon DEF RequestsGoWhereConfigured, Routed, RightPlace
<1>. QED
  BY <1>3, ConfigIsParsed, PTL
=============================================================================
