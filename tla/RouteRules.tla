----------------------------- MODULE RouteRules -----------------------------
(***************************************************************************)
(* The route rules of a tunnel as the configuration reads and validates    *)
(* them: the --cf-route flag, the YAML rule, validateRouteRules.           *)
(*                                                                         *)
(* A path is the sequence of its segments between slashes: <<"a">> is /a,  *)
(* <<"a", "">> is /a/, <<"">> is /, <<"a", "*">> is /a/*; the empty        *)
(* sequence is the empty string.  Whether the text begins with a slash,    *)
(* and whether it is surrounded by spaces, is recorded beside it.  Hosts   *)
(* are spellings, with the string functions of the code as tables.         *)
(***************************************************************************)
EXTENDS Integers, Sequences, FiniteSets

Empty == ""           \* the empty text: no host, no token, a segment of nothing
Root  == <<Empty>>    \* the path /

CONSTANTS
  Hosts,       \* spellings of a host; "" is no host
  Lower,       \* strings.ToLower and TrimSpace of a spelling
  Malformed    \* spellings with separators, spaces or empty labels

ASSUME HostAssumption ==
  /\ Empty \in Hosts /\ Malformed \subseteq Hosts \ {Empty}
  /\ Lower \in [Hosts -> Hosts] /\ Lower[Empty] = Empty
  /\ \A h \in Hosts : Lower[Lower[h]] = Lower[h]

NoPath   == [segs |-> <<>>, rooted |-> FALSE, padded |-> FALSE]
NoTarget == [origin |-> Empty, scheme |-> Empty, tail |-> <<>>, padded |-> FALSE]

(* What a path and a target are, as text: one with a leading slash has at  *)
(* least one segment.                                                      *)
IsPath(p) ==
  /\ p \in [segs : Seq(STRING), rooted : BOOLEAN, padded : BOOLEAN]
  /\ p.rooted => p.segs # <<>>

IsTarget(t) ==
  /\ t = [origin |-> t.origin, scheme |-> t.scheme, tail |-> t.tail, padded |-> t.padded]
  /\ t.padded \in BOOLEAN

Schemes == {"http", "https", "ws", "wss"}

(* strings.TrimSpace of a path or a target.                                *)
TrimSpace(text) == [text EXCEPT !.padded = FALSE]

(* A URL that url.Parse accepts, with a host and a supported scheme.       *)
validateTarget(t) == t.origin # Empty /\ ~t.padded /\ t.scheme \in Schemes

-----------------------------------------------------------------------------
(* validateRouteRules                                                      *)

HasStar(segs) == \E i \in DOMAIN segs : segs[i] \in {"*", "a*"}

PathError == [kind |-> "error", base |-> <<>>]

(* validateAndNormalizeRoutePath.                                          *)
validateAndNormalizeRoutePath(path) ==
  LET segs == path.segs
      base == SubSeq(segs, 1, Len(segs) - 1)
  IN  IF path.rooted /\ segs = Root THEN [kind |-> "exact", base |-> segs]
      ELSE IF ~path.rooted \/ \E i \in 1..Len(segs) - 1 : segs[i] = Empty
        THEN PathError
      ELSE IF segs[Len(segs)] = "*"
        THEN IF base = <<>> \/ HasStar(base) THEN PathError
             ELSE [kind |-> "prefix", base |-> base]
      ELSE IF HasStar(segs) THEN PathError ELSE [kind |-> "exact", base |-> segs]

(* What may not occur twice in the rules of a tunnel.                      *)
routeDuplicateKey(rule) ==
  LET p == validateAndNormalizeRoutePath(TrimSpace(rule.path))
  IN  <<Lower[rule.host], p.kind, p.base>>

validRule(rule) ==
  /\ Lower[rule.host] \notin Malformed
  /\ rule.path.segs # <<>>
  /\ validateTarget(TrimSpace(rule.target))
  /\ validateAndNormalizeRoutePath(TrimSpace(rule.path)).kind # "error"

validateRouteRules_RawHost(rules) ==
  /\ \A i \in DOMAIN rules : validRule(rules[i])
  /\ \A i, j \in DOMAIN rules :
       /\ i # j /\ rules[i].host = rules[j].host
       => routeDuplicateKey(rules[i]) # routeDuplicateKey(rules[j])

validateRouteRules(rules) ==
  /\ \A i \in DOMAIN rules : validRule(rules[i])
  /\ \A i, j \in DOMAIN rules :
       i # j => routeDuplicateKey(rules[i]) # routeDuplicateKey(rules[j])

-----------------------------------------------------------------------------
(* A --cf-route flag: a path, a target and comma separated fields, each a  *)
(* key and a value, or plain text (key "text"), or nothing (key "").       *)

isSupportedRouteOptionKey(key) ==
  key \in {"host", "strip_path_prefix", "origin_server_name",
           "origin_insecure_skip_verify", "pass_host_header"}

Switches == {"strip_path_prefix", "origin_insecure_skip_verify", "pass_host_header"}

(* How many fields stay with the target: options are peeled off from the   *)
(* right, up to the first field that is none.                              *)
TargetFields(fields) ==
  CHOOSE n \in 0..Len(fields) :
    /\ n = 0 \/ ~isSupportedRouteOptionKey(fields[n].key)
    /\ \A i \in n + 1 .. Len(fields) : isSupportedRouteOptionKey(fields[i].key)

(* An empty field is an error only where the peeling meets it; the old     *)
(* option names are refused wherever they stay with the target.            *)
flagError(spec) ==
  LET n    == TargetFields(spec.fields)
      opts == n + 1 .. Len(spec.fields)
  IN  \/ spec.path.segs = <<>> \/ spec.target.origin = Empty
      \/ n > 0 /\ spec.fields[n].key = Empty
      \/ \E i \in 1..n : spec.fields[i].key \in {"server_name", "insecure_skip_verify"}
      \/ \E i, j \in opts : i # j /\ spec.fields[i].key = spec.fields[j].key
      \/ \E i \in opts : /\ spec.fields[i].key \in Switches
                         /\ spec.fields[i].value \notin {"true", "false"}

(* The value of an option of the flag, or a default when it is not there.  *)
option(spec, key, default) ==
  LET given == { i \in TargetFields(spec.fields) + 1 .. Len(spec.fields) :
                   spec.fields[i].key = key }
  IN  IF given = {} THEN default ELSE spec.fields[CHOOSE i \in given : TRUE].value

(* parseRouteTargetOptions and Set.  Fields that stay with the target are  *)
(* part of its URL.  The host is lower-cased here, in YAML it is not.      *)
parseRouteFlag(spec) ==
  [host               |-> Lower[option(spec, "host", Empty)],
   path               |-> TrimSpace(spec.path),
   target             |-> [TrimSpace(spec.target) EXCEPT
                             !.tail = SubSeq(spec.fields, 1, TargetFields(spec.fields))],
   stripPathPrefix    |-> option(spec, "strip_path_prefix", "false") = "true",
   originServerName   |-> option(spec, "origin_server_name", Empty),
   insecureSkipVerify |-> option(spec, "origin_insecure_skip_verify", "false") = "true",
   passHostHeader     |-> option(spec, "pass_host_header", "unset")]

(* A rule of the YAML file has some of the fields; the others are zero     *)
(* values.  An unknown field is refused, text is kept as it is written,    *)
(* and a pointer tells pass_host_header: false from its absence.           *)
yamlFields == {"host", "path", "target", "strip_path_prefix", "origin_server_name",
               "origin_insecure_skip_verify", "pass_host_header"}

yamlError(raw) == ~(DOMAIN raw \subseteq yamlFields)

field(raw, key, default) == IF key \in DOMAIN raw THEN raw[key] ELSE default

UnmarshalYAML(raw) ==
  [host               |-> field(raw, "host", Empty),
   path               |-> field(raw, "path", NoPath),
   target             |-> field(raw, "target", NoTarget),
   stripPathPrefix    |-> field(raw, "strip_path_prefix", FALSE),
   originServerName   |-> field(raw, "origin_server_name", Empty),
   insecureSkipVerify |-> field(raw, "origin_insecure_skip_verify", FALSE),
   passHostHeader     |-> field(raw, "pass_host_header", "unset")]
=============================================================================
