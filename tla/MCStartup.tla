----------------------------- MODULE MCStartup ------------------------------
(***************************************************************************)
(* Inputs for Startup: every list of up to two of a set of YAML rules that *)
(* covers the path grammar, the spellings of a host and the options; lists *)
(* of three nested ones; --cf-route flags with up to three fields; every   *)
(* combination of a token in the environment, on the command line and in   *)
(* the file; and the limits and defaults of the other settings.            *)
(***************************************************************************)
EXTENDS Startup

MCHosts == {"", " ", "a", "A", "a:80", ".a", "b"}
MCLower == [h \in MCHosts |-> CASE h = "A" -> "a" [] h = " " -> "" [] OTHER -> h]
MCBare  == [h \in MCHosts |-> IF h = "a:80" THEN "a" ELSE h]
MCMalformed == {".a"}

Path(segs) == [segs |-> segs, rooted |-> TRUE, padded |-> FALSE]
Target(o, s) == [origin |-> o, scheme |-> s, tail |-> <<>>, padded |-> FALSE]

Globals == [log_level |-> "info", log_format |-> "text", shutdown_timeout |-> "positive"]

NoCLI == [token |-> Unset, routes |-> <<>>, positional |-> FALSE, globals |-> Globals]
CLI == [target |-> Target("o1", "ws")] @@ NoCLI
File == [readable |-> TRUE, globals |-> [log_level |-> "debug"], cf |-> <<>>, tunnels |-> <<>>]

Run(env, cli, config) == [env |-> env, cli |-> cli, config |-> config]
FromBlock(b) == Run("", NoCLI, <<[File EXCEPT !.cf = <<b>>]>>)

Block == [token |-> "file", edgeProtocol |-> "quic", target |-> Target("o1", "https"),
          serverName |-> "sni", passHostHeader |-> FALSE]

-----------------------------------------------------------------------------
(* Rules *)

Paths == {Path(<<"">>), Path(<<"a">>), Path(<<"a", "*">>), Path(<<"*">>),
          Path(<<"a*">>), Path(<<"", "a">>), Path(<<"a", "">>), NoPath,
          [Path(<<"a">>) EXCEPT !.rooted = FALSE],
          [Path(<<"a">>) EXCEPT !.padded = TRUE]}

(* Rules with different paths have different origins.                      *)
OriginFor(segs) ==
  CASE segs = <<"">> -> "default"
    [] segs = <<"a", "*">> -> "prefix"
    [] segs = <<"a", "b", "*">> -> "longer"
    [] OTHER -> "exact"

Rule(p) == [path |-> p, target |-> Target(OriginFor(p.segs), "http")]

Rules ==
  { Rule(p) : p \in Paths }
  \cup { [host |-> h, path |-> Path(p), target |-> Target(OriginFor(p), "wss"),
          strip_path_prefix |-> TRUE] :
           h \in {" ", "a", "A", "a:80", ".a"}, p \in {<<"">>, <<"a">>, <<"a", "*">>} }
  \cup { [pass_host_header |-> "true"] @@ Rule(Path(<<"b">>)),
         [server_name |-> "x"] @@ Rule(Path(<<"b">>)),
         [Rule(Path(<<"b">>)) EXCEPT !.target.padded = TRUE],
         [Rule(Path(<<"b">>)) EXCEPT !.target.scheme = "ftp"] }

Nested ==
  { [host |-> h, path |-> Path(p),
     target |-> Target(OriginFor(p), IF h = "" THEN "http" ELSE "wss"), strip_path_prefix |-> TRUE] :
      h \in {"", "a"}, p \in {<<"">>, <<"a", "*">>, <<"a", "b", "*">>} }

RuleLists ==
  { <<>> } \cup { <<r>> : r \in Rules } \cup (Rules \X Rules)
  \cup (Nested \X Nested \X Nested)

RuleInputs == { FromBlock([routes |-> rs] @@ Block) : rs \in RuleLists }

-----------------------------------------------------------------------------
(* Flags *)

Fields ==
  { [key |-> "host", value |-> "A"], [key |-> "host", value |-> "b"],
    [key |-> "strip_path_prefix", value |-> "true"],
    [key |-> "strip_path_prefix", value |-> "yes"],
    [key |-> "pass_host_header", value |-> "false"],
    [key |-> "origin_server_name", value |-> "sni2"],
    [key |-> "server_name", value |-> "x"],
    [key |-> "text", value |-> "x"], [key |-> "", value |-> ""] }

FieldLists == {<<>>} \cup { <<f>> : f \in Fields } \cup (Fields \X Fields)
              \cup (Fields \X Fields \X Fields)

FlagInputs ==
  { Run("env", [CLI EXCEPT !.routes =
      <<[path |-> Path(<<"a", "*">>), target |-> Target("o2", "http"), fields |-> fs]>>], <<>>) :
        fs \in FieldLists }
  \cup { Run("", [CLI EXCEPT !.routes =
           <<[path |-> p, target |-> t, fields |-> <<>>]>>], <<>>) :
             p \in Paths, t \in {NoTarget, [Target("o2", "http") EXCEPT !.padded = TRUE]} }

-----------------------------------------------------------------------------
(* Sources and limits *)

Tokens == {"", "env", "blank"}

Files ==
  {<<>>}
  \cup { <<[File EXCEPT !.cf = cf, !.tunnels = ts]>> :
           cf \in {<<>>, <<Block>>, <<[Block EXCEPT !.token = ""]>>},
           ts \in {<<>>, <<[name |-> "t1", cf |-> [Block EXCEPT !.token = ""]],
                          [name |-> "t2", cf |-> [Block EXCEPT !.token = "junk"]]>>} }

SourceInputs ==
  { Run(e, [CLI EXCEPT !.token = t], f) :
      e \in Tokens, t \in {Unset, "", "flag", "blank"}, f \in Files }

LimitInputs ==
  { FromBlock([haConnections |-> n] @@ Block) : n \in {-1, 0, 1, 3, 4} }
  \cup { FromBlock([Block EXCEPT !.edgeProtocol = p]) : p \in {"", "auto", "http2"} }
  \cup { FromBlock([Block EXCEPT !.target = NoTarget]) }
  \cup { Run("", CLI, <<[File EXCEPT !.globals = g]>>) :
           g \in {[log_format |-> "xml"], [shutdown_timeout |-> "bad"],
                  [shutdown_timeout |-> "zero"]} }
  \cup { Run("", CLI, <<[File EXCEPT !.readable = FALSE]>>),
         Run("", [CLI EXCEPT !.positional = TRUE], <<>>), Run("", NoCLI, <<>>) }
  \cup { Run("", NoCLI, <<[File EXCEPT !.tunnels =
           <<[name |-> n, cf |-> Block], [name |-> "t1", cf |-> Block]>>]>>) :
             n \in {"", "blank", "t1", "t2"} }

MCInputs == RuleInputs \cup FlagInputs \cup SourceInputs \cup LimitInputs

MCBadTokens == {"junk"}

MCRequests == { [host |-> h, path |-> p] :
                  h \in MCHosts \ {".a"},
                  p \in {<<"">>, <<"a">>, <<"a", "">>, <<"a", "b">>, <<"a", "b", "c">>, <<"b">>} }
=============================================================================
