--------------------------- MODULE Configuration ----------------------------
(***************************************************************************)
(* Parse: the environment, then the command line, then the YAML file, then *)
(* Validate.  The result is a record with the global settings and the      *)
(* tunnels, or an error.  Values that are only passed on (log level,       *)
(* listen address) are entries of a function of global settings.           *)
(***************************************************************************)
EXTENDS RouteRules

CONSTANTS
  DefaultHAConnections,   \* 4
  MaxHAConnections        \* 256

ASSUME HAAssumption ==
  /\ DefaultHAConnections \in Nat \ {0}
  /\ MaxHAConnections \in Nat /\ DefaultHAConnections <= MaxHAConnections

Unset == "unset"

(* strings.TrimSpace of a token or a name; "blank" is nothing but spaces.  *)
trim(text) == IF text = "blank" THEN Empty ELSE text

(* A block with its token trimmed.                                         *)
trimToken(c) == [c EXCEPT !.token = trim(@)]

ConfigError == [ok |-> FALSE]

-----------------------------------------------------------------------------
(* Validate                                                                *)

validateBlock(c) ==
  LET ha == IF c.haConnections = 0 THEN DefaultHAConnections ELSE c.haConnections
  IN  /\ c.edgeProtocol \in {"http2", "quic"}
      /\ ha \in 1..MaxHAConnections
      /\ validateTarget(c.target)
      /\ validateRouteRules(c.routes)

validateNamedTunnels(tunnels) ==
  /\ \A i \in DOMAIN tunnels : trim(tunnels[i].name) # Empty /\ validateBlock(tunnels[i].cf)
  /\ \A i, j \in DOMAIN tunnels : i # j => trim(tunnels[i].name) # trim(tunnels[j].name)

Validate(cfg) ==
  /\ cfg.globals["log_format"] \in {"text", "json"}
  /\ cfg.globals["shutdown_timeout"] = "positive"
  /\ IF cfg.tunnels # <<>> THEN validateNamedTunnels(cfg.tunnels)
     ELSE validateBlock(cfg.cf)

-----------------------------------------------------------------------------
(* The command line: the defaults of the flags, and routes in order.  The  *)
(* token of the environment is the default of its flag.                    *)
parseFlags(cli, envToken) ==
  [token        |-> IF cli.token = Unset THEN trim(envToken) ELSE cli.token,
   edgeProtocol |-> field(cli, "edgeProtocol", "http2"),
   haConnections |-> field(cli, "haConnections", DefaultHAConnections),
   target       |-> field(cli, "target", NoTarget),
   serverName   |-> field(cli, "serverName", Empty),
   insecureSkipVerify |-> field(cli, "insecureSkipVerify", FALSE),
   passHostHeader |-> field(cli, "passHostHeader", FALSE),
   routes       |-> [i \in DOMAIN cli.routes |-> parseRouteFlag(cli.routes[i])]]

(* A cf_tunnel block of the file after decoding and applyDefaults: zero    *)
(* values, and a default for the connections but not for the protocol.     *)
applyDefaults(raw) ==
  LET ha == field(raw, "haConnections", 0)
  IN  [token        |-> field(raw, "token", Empty),
       edgeProtocol |-> field(raw, "edgeProtocol", Empty),
       haConnections |-> IF ha = 0 THEN DefaultHAConnections ELSE ha,
       target       |-> field(raw, "target", NoTarget),
       serverName   |-> field(raw, "serverName", Empty),
       insecureSkipVerify |-> field(raw, "insecureSkipVerify", FALSE),
       passHostHeader |-> field(raw, "passHostHeader", FALSE),
       routes       |-> [i \in DOMAIN field(raw, "routes", <<>>)
                          |-> UnmarshalYAML(raw.routes[i])]]

blockError(raw) ==
  "routes" \in DOMAIN raw /\ \E i \in DOMAIN raw.routes : yamlError(raw.routes[i])

(* The extension, reading and decoding; a duration that does not parse.    *)
fileError(file) ==
  \/ ~file.readable
  \/ "shutdown_timeout" \in DOMAIN file.globals /\ file.globals["shutdown_timeout"] = "bad"
  \/ \E i \in DOMAIN file.cf : blockError(file.cf[i])
  \/ \E i \in DOMAIN file.tunnels : blockError(file.tunnels[i].cf)

applyConfigFile_KeepsToken(cfg, file) ==
  [cfg EXCEPT
     !.globals = [g \in DOMAIN @ |-> field(file.globals, g, @[g])],
     !.cf      = IF file.cf = <<>> THEN @
                 ELSE [applyDefaults(file.cf[1]) EXCEPT
                         !.token = IF @ = Empty THEN cfg.cf.token ELSE @],
     !.tunnels = [i \in DOMAIN file.tunnels |->
                    [name |-> file.tunnels[i].name,
                     cf |-> applyDefaults(file.tunnels[i].cf)]]]

(* Global settings one by one where the file has them; the cf_tunnel block *)
(* (a sequence of at most one) replaces the command line's as a whole.     *)
applyConfigFile(cfg, file) ==
  [cfg EXCEPT
     !.globals = [g \in DOMAIN @ |-> field(file.globals, g, @[g])],
     !.cf      = IF file.cf = <<>> THEN @ ELSE applyDefaults(file.cf[1]),
     !.tunnels = [i \in DOMAIN file.tunnels |->
                    [name |-> file.tunnels[i].name,
                     cf |-> applyDefaults(file.tunnels[i].cf)]]]

(* --config is a sequence of at most one file.                             *)
Parse(envToken, cli, config) ==
  LET flags  == [ok |-> TRUE, globals |-> cli.globals,
                 cf |-> parseFlags(cli, envToken), tunnels |-> <<>>]
      merged == IF config = <<>> THEN flags ELSE applyConfigFile(flags, config[1])
      cfg    == [merged EXCEPT
                   !.cf      = trimToken(@),
                   !.tunnels = [i \in DOMAIN @ |->
                                  [name |-> @[i].name, cf |-> trimToken(@[i].cf)]]]
  IN  IF \/ cli.positional
         \/ \E i \in DOMAIN cli.routes : flagError(cli.routes[i])
         \/ config # <<>> /\ fileError(config[1])
      THEN ConfigError
      ELSE IF Validate(cfg) THEN cfg ELSE ConfigError

(* The blocks the process runs: the named ones, or the single one.         *)
Blocks(cfg) ==
  IF cfg.tunnels = <<>> THEN {cfg.cf}
  ELSE { cfg.tunnels[i].cf : i \in DOMAIN cfg.tunnels }
=============================================================================
