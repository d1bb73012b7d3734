------------------------- MODULE RoutedProxyProofs --------------------------
(***************************************************************************)
(* What the router and the routed proxy compute, for every list of rules   *)
(* and every request: the lemmas that StartupProofs rests on.              *)
(***************************************************************************)
EXTENDS RoutedProxy, SequenceTheorems, WellFoundedInduction, TLAPS

-----------------------------------------------------------------------------
(* Sequences and sets of numbers                                           *)

(* What IsPrefix says of sequences, element by element.                    *)
LEMMA PrefixElements ==
  ASSUME NEW s \in Seq(STRING), NEW t \in Seq(STRING)
  PROVE  IsPrefix(s, t) <=> Len(s) <= Len(t) /\ \A i \in 1..Len(s) : s[i] = t[i]
<1>1. SubSeq(s, 1, Len(s)) = s
  BY SubSeqFull
<1>2. CASE Len(s) <= Len(t)
  <2> DEFINE u == SubSeq(t, 1, Len(s))
  <2>1. u \in Seq(STRING) /\ Len(u) = Len(s) /\ \A i \in 1..Len(s) : u[i] = t[i]
    BY <1>2
  <2>2. (s = u) <=> \A i \in 1..Len(s) : s[i] = u[i]
    BY <2>1, SeqEqual
  <2>. QED
    BY <1>1, <1>2, <2>1, <2>2 DEF IsPrefix
<1>3. CASE ~(Len(s) <= Len(t))
  BY <1>3 DEF IsPrefix
<1>. QED
  BY <1>2, <1>3

(* Two prefixes of a path that are equally long are equal.                 *)
LEMMA PrefixesOfOneLength ==
  ASSUME NEW s \in Seq(STRING), NEW t \in Seq(STRING), NEW path \in Seq(STRING),
         IsPrefix(s, path), IsPrefix(t, path), Len(s) = Len(t)
  PROVE  s = t
<1>1. \A i \in 1..Len(s) : s[i] = t[i]
  BY PrefixElements
<1>. QED
  BY <1>1, SeqEqual

(* A sequence without its last element.                                    *)
LEMMA FrontElements ==
  ASSUME NEW s \in Seq(STRING), s # <<>>, NEW f, f = Front(s)
  PROVE  /\ Len(s) \in Nat \ {0}
         /\ f \in Seq(STRING) /\ Len(f) = Len(s) - 1
         /\ \A i \in 1..Len(s) - 1 : f[i] = s[i]
<1>1. Len(s) \in Nat \ {0}
  BY EmptySeq
<1>2. PICK n : n = Len(s) - 1
  OBVIOUS
<1>3. n \in Nat /\ \A i \in 1..n : s[i] \in STRING
  BY <1>1, <1>2
<1>4. f = SubSeq(s, 1, n)
  BY <1>2, Zenon DEF Front
<1>5. /\ f \in Seq(STRING)
      /\ Len(f) = IF 1 <= n THEN n - 1 + 1 ELSE 0
      /\ \A i \in 1..n - 1 + 1 : f[i] = s[1 + i - 1]
  BY <1>3, <1>4, SubSeqProperties
<1>. QED
  BY <1>1, <1>2, <1>3, <1>5

(* A non-empty set of numbers has a least element.                         *)
LEMMA LeastNumber ==
  ASSUME NEW T, T \subseteq Nat, T # {}
  PROVE  \E i \in T : \A j \in T : i <= j
<1>1. PICK i \in T : \A j \in T : <<j, i>> \notin OpToRel(<, Nat)
  BY NatLessThanWellFounded, WFMin, Zenon
<1>2. \A j \in T : ~(j < i)
  BY <1>1 DEF OpToRel
<1>. QED
  BY <1>2

-----------------------------------------------------------------------------
(* The two readings of a rule's path                                       *)

(* What a path that is not an error looks like, and what it becomes.       *)
IsDefault(segs, kind, base) == segs = Root /\ kind = "default" /\ base = Root

IsPrefixRule(segs, kind, base) ==
  /\ segs # <<>> /\ Len(segs) > 1 /\ segs[1] # Empty /\ segs[Len(segs)] = "*"
  /\ kind = "prefix" /\ base = Front(segs)

IsExact(segs, kind, base) ==
  /\ segs # <<>> /\ segs # Root /\ segs[Len(segs)] # "*"
  /\ kind = "exact" /\ base = segs

(* The base of a prefix rule, element by element.                          *)
LEMMA PrefixRuleBase ==
  ASSUME NEW segs \in Seq(STRING), NEW kind, NEW base, IsPrefixRule(segs, kind, base)
  PROVE  /\ Len(segs) \in Nat /\ Len(segs) > 1
         /\ base \in Seq(STRING) /\ Len(base) = Len(segs) - 1
         /\ base # Root
<1>1. Len(segs) > 1 /\ segs # <<>> /\ segs[1] # Empty /\ base = Front(segs)
  BY Zenon DEF IsPrefixRule
<1>2. /\ Len(segs) \in Nat \ {0}
      /\ base \in Seq(STRING) /\ Len(base) = Len(segs) - 1
      /\ \A i \in 1..Len(segs) - 1 : base[i] = segs[i]
  BY <1>1, FrontElements, Zenon
<1>3. Len(segs) > 1 /\ segs[1] # Empty
  BY <1>1
<1>4. base[1] # Empty
  BY <1>2, <1>3
<1>5. base # Root
  BY <1>4 DEF Root
<1>. QED
  BY <1>2, <1>3, <1>5

(* validateAndNormalizeRoutePath knows no default: / is an exact path.     *)
LEMMA ValidatedPath ==
  ASSUME NEW path, IsPath(path), NEW p, p = validateAndNormalizeRoutePath(path),
         p.kind # "error"
  PROVE  \/ path.segs = Root /\ p.kind = "exact" /\ p.base = path.segs
         \/ IsPrefixRule(path.segs, p.kind, p.base)
         \/ IsExact(path.segs, p.kind, p.base)
<1>0. PICK segs, base : segs = path.segs /\ base = p.base
  OBVIOUS
<1>1. /\ path.rooted \in BOOLEAN /\ segs \in Seq(STRING)
      /\ path.rooted => segs # <<>>
  BY <1>0 DEF IsPath
<1>2. CASE path.rooted /\ segs = Root
  <2>1. p.kind = "exact" /\ base = segs
    BY <1>0, <1>2 DEF validateAndNormalizeRoutePath
  <2>. QED
    BY <1>0, <1>2, <2>1, Zenon
<1>3. CASE ~(path.rooted /\ segs = Root)
  <2>1. path.rooted /\ \A i \in 1..Len(segs) - 1 : segs[i] # Empty
    BY <1>0, <1>3 DEF validateAndNormalizeRoutePath, PathError
  <2>2. segs # <<>> /\ Len(segs) \in Nat \ {0} /\ segs # Root
    BY <1>1, <1>3, <2>1, EmptySeq
  <2>3. CASE segs[Len(segs)] = "*"
    <3>1. base # <<>> /\ p.kind = "prefix" /\ base = Front(segs)
      BY <1>0, <1>3, <2>1, <2>3 DEF validateAndNormalizeRoutePath, PathError, Front
    <3>2. base \in Seq(STRING) /\ Len(base) = Len(segs) - 1
      BY <1>1, <2>2, <3>1, FrontElements, Zenon
    <3>3. Len(base) \in Nat \ {0}
      BY <3>1, <3>2, EmptySeq
    <3>4. Len(segs) > 1 /\ 1 \in 1..Len(segs) - 1
      BY <2>2, <3>2, <3>3
    <3>5. IsPrefixRule(segs, p.kind, base)
      BY <2>1, <2>2, <2>3, <3>1, <3>4, Zenon DEF IsPrefixRule
    <3>. QED
      BY <1>0, <3>5, Zenon
  <2>4. CASE segs[Len(segs)] # "*"
    <3>1. p.kind = "exact" /\ base = segs
      BY <1>0, <1>3, <2>1, <2>4 DEF validateAndNormalizeRoutePath, PathError
    <3>2. IsExact(segs, p.kind, base)
      BY <2>2, <2>4, <3>1, Zenon DEF IsExact
    <3>. QED
      BY <1>0, <3>2, Zenon
  <2>. QED
    BY <2>3, <2>4
<1>. QED
  BY <1>2, <1>3

(* The router reads a path without surrounding spaces as the validation    *)
(* does, except that / becomes the default route.                          *)
LEMMA PathsAgree ==
  ASSUME NEW path, IsPath(path), ~path.padded,
         NEW v, v = validateAndNormalizeRoutePath(path),
         NEW p, p = classifyAndNormalizeRulePath(path)
  PROVE  p = IF v.base = Root THEN [kind |-> "default", base |-> v.base] ELSE v
<1>0. PICK segs, rooted, prefix :
        segs = path.segs /\ rooted = path.rooted /\ prefix = SubSeq(segs, 1, Len(segs) - 1)
  OBVIOUS
<1>1. /\ rooted \in BOOLEAN /\ segs \in Seq(STRING)
      /\ rooted => segs # <<>>
  BY <1>0 DEF IsPath
<1>2. CASE rooted /\ segs = Root
  <2>1. v = [kind |-> "exact", base |-> segs]
    BY <1>0, <1>2, Zenon DEF validateAndNormalizeRoutePath
  <2>2. p = [kind |-> "default", base |-> Root]
    BY <1>0, <1>2, Zenon DEF classifyAndNormalizeRulePath
  <2>. QED
    BY <1>2, <2>1, <2>2
<1>3. PathError.base # Root
  BY DEF PathError, Root
<1>4. CASE /\ ~(rooted /\ segs = Root)
           /\ ~rooted \/ \E i \in 1..Len(segs) - 1 : segs[i] = Empty
  <2>1. v = PathError
    BY <1>0, <1>4, Zenon DEF validateAndNormalizeRoutePath
  <2>2. p = PathError
    BY <1>0, <1>4, Zenon DEF classifyAndNormalizeRulePath
  <2>. QED
    BY <1>3, <2>1, <2>2, Zenon
<1>5. CASE /\ rooted /\ segs # Root
           /\ ~\E i \in 1..Len(segs) - 1 : segs[i] = Empty
  <2>1. CASE segs[Len(segs)] = "*"
    <3>1. v = IF prefix = <<>> \/ HasStar(prefix) THEN PathError
              ELSE [kind |-> "prefix", base |-> prefix]
      BY <1>0, <1>5, <2>1, Zenon DEF validateAndNormalizeRoutePath
    <3>2. p = IF prefix = <<>> THEN PathError
              ELSE IF HasStar(prefix) THEN PathError
              ELSE [kind |-> "prefix", base |-> prefix]
      BY <1>0, <1>5, <2>1, Zenon DEF classifyAndNormalizeRulePath
    <3>3. p = v
      BY <3>1, <3>2, Zenon
    <3>4. v.base # Root
      <4>1. CASE prefix = <<>> \/ HasStar(prefix)
        BY <1>3, <3>1, <4>1, Zenon
      <4>2. CASE ~(prefix = <<>> \/ HasStar(prefix))
        <5>1. v.base = prefix
          BY <3>1, <4>2
        <5>2. SUFFICES ASSUME prefix = Root PROVE FALSE
          BY <5>1
        <5>3. Len(prefix) = 1 /\ prefix[1] = Empty
          BY <5>2 DEF Root
        <5>4. segs # <<>> /\ prefix = Front(segs)
          BY <1>0, <1>1, <1>5, Zenon DEF Front
        <5>5. /\ Len(segs) \in Nat \ {0} /\ Len(prefix) = Len(segs) - 1
              /\ \A i \in 1..Len(segs) - 1 : prefix[i] = segs[i]
          BY <1>1, <5>4, FrontElements, Zenon
        <5>6. PICK n \in Nat : n = Len(segs)
          BY <5>5
        <5>7. 1 \in 1..n - 1
          BY <5>3, <5>5, <5>6
        <5>8. segs[1] = Empty
          BY <5>3, <5>5, <5>6, <5>7, Zenon
        <5>. QED
          BY <1>5, <5>6, <5>7, <5>8, Zenon
      <4>. QED
        BY <4>1, <4>2
    <3>. QED
      BY <3>3, <3>4, Zenon
  <2>2. CASE segs[Len(segs)] # "*"
    <3>1. v = IF HasStar(segs) THEN PathError ELSE [kind |-> "exact", base |-> segs]
      BY <1>0, <1>5, <2>2, Zenon DEF validateAndNormalizeRoutePath
    <3>2. p = IF HasStar(segs) THEN PathError ELSE [kind |-> "exact", base |-> segs]
      BY <1>0, <1>5, <2>2, Zenon DEF classifyAndNormalizeRulePath
    <3>3. v.base # Root
      BY <1>3, <1>5, <3>1
    <3>. QED
      BY <3>1, <3>2, <3>3, Zenon
  <2>. QED
    BY <2>1, <2>2
<1>. QED
  BY <1>2, <1>4, <1>5

(* A path that the router accepts is / or looks like a prefix or an exact  *)
(* path, and this is what it becomes.                                      *)
LEMMA ClassifiedPath ==
  ASSUME NEW path, IsPath(path), NEW p, p = classifyAndNormalizeRulePath(path),
         p.kind # "error"
  PROVE  /\ ~path.padded
         /\ \/ IsDefault(path.segs, p.kind, p.base)
            \/ IsPrefixRule(path.segs, p.kind, p.base)
            \/ IsExact(path.segs, p.kind, p.base)
<1>0. PICK v : v = validateAndNormalizeRoutePath(path)
  OBVIOUS
<1>1. ~path.padded
  BY DEF classifyAndNormalizeRulePath, PathError, IsPath
<1>2. p = IF v.base = Root THEN [kind |-> "default", base |-> v.base] ELSE v
  BY <1>0, <1>1, PathsAgree, Zenon
<1>3. v.kind # "error"
  <2>1. SUFFICES ASSUME v.kind = "error" PROVE FALSE
    OBVIOUS
  <2>2. v = PathError
    BY <1>0, <2>1 DEF validateAndNormalizeRoutePath, PathError
  <2>3. v.base # Root
    BY <2>2 DEF PathError, Root
  <2>. QED
    BY <1>2, <2>1, <2>3, Zenon
<1>4. \/ path.segs = Root /\ v.kind = "exact" /\ v.base = path.segs
      \/ IsPrefixRule(path.segs, v.kind, v.base)
      \/ IsExact(path.segs, v.kind, v.base)
  BY <1>0, <1>3, ValidatedPath, Zenon
<1>5. path.segs \in Seq(STRING)
  BY DEF IsPath
<1>6. CASE path.segs = Root /\ v.kind = "exact" /\ v.base = path.segs
  <2>1. p.kind = "default" /\ p.base = Root
    BY <1>2, <1>6
  <2>. QED
    BY <1>1, <1>6, <2>1, Zenon DEF IsDefault
<1>7. CASE IsPrefixRule(path.segs, v.kind, v.base)
  <2>1. p = v
    BY <1>2, <1>5, <1>7, PrefixRuleBase, Zenon
  <2>. QED
    BY <1>1, <1>7, <2>1, Zenon
<1>8. CASE IsExact(path.segs, v.kind, v.base)
  <2>1. p = v
    BY <1>2, <1>8, Zenon DEF IsExact
  <2>. QED
    BY <1>1, <1>8, <2>1, Zenon
<1>. QED
  BY <1>4, <1>6, <1>7, <1>8

-----------------------------------------------------------------------------
(* Match                                                                   *)

(* A compiled rule that is no error.                                       *)
IsRoute(r) ==
  /\ r.kind \in {"default", "prefix", "exact"} /\ r.base \in Seq(STRING)
  /\ r.kind = "default" => r.base = Root
  /\ r.kind = "prefix" => Len(r.base) > 0

(* A route fits a path of its host, and the heavier of two that fit wins.  *)
Fits(r, path) ==
  \/ r.kind = "default"
  \/ r.kind = "exact" /\ r.base = path
  \/ r.kind = "prefix" /\ IsPrefix(r.base, path)

RouteWeight(r) ==
  IF r.kind = "default" THEN 0
  ELSE IF r.kind = "prefix" THEN 2 * Len(r.base) ELSE 2 * Len(r.base) + 1

Above(r, s) ==
  \/ r.host # Empty /\ s.host = Empty
  \/ (r.host # Empty <=> s.host # Empty) /\ RouteWeight(r) > RouteWeight(s)

(* A scan of the prefixes of a path, longest first, finds one, and none is *)
(* longer.                                                                 *)
LEMMA FirstOfIsLongest ==
  ASSUME NEW path \in Seq(STRING), NEW M, M # {},
         \A r \in M : r.base \in Seq(STRING) /\ IsPrefix(r.base, path)
  PROVE  FirstOf(M) \in M /\ \A r \in M : Len(r.base) <= Len(FirstOf(M).base)
<1> DEFINE Left(r) == Len(path) - Len(r.base)
           T == { Left(r) : r \in M }
<1>1. \A r \in M : Len(r.base) \in Nat /\ Len(r.base) <= Len(path)
  BY PrefixElements
<1>2. T \subseteq Nat /\ T # {}
  BY <1>1
<1>3. PICK n \in T : \A k \in T : n <= k
  BY <1>2, LeastNumber
<1>4. PICK r \in M : n = Left(r)
  BY <1>3
<1>5. ASSUME NEW other \in M PROVE ~ByLength(other, r)
  <2>1. Left(other) \in T
    OBVIOUS
  <2>2. Left(r) <= Left(other)
    BY <1>3, <1>4, <2>1
  <2>. QED
    BY <1>1, <2>2 DEF ByLength
<1>6. FirstOf(M) \in M /\ \A other \in M : ~ByLength(other, FirstOf(M))
  BY <1>5, Zenon DEF FirstOf
<1>. QED
  BY <1>1, <1>6 DEF ByLength

(* What the lookups for one host find: nothing when no route of that host  *)
(* fits, else one that fits and that none outweighs.                       *)
Found(routes, host, path, m) ==
  \/ /\ m = NoRoute
     /\ \A r \in routes : r.host = host => ~Fits(r, path)
  \/ /\ m \in routes /\ m.host = host /\ Fits(m, path)
     /\ \A r \in routes : r.host = host /\ Fits(r, path) => RouteWeight(r) <= RouteWeight(m)

(* MatchHost returns a route that fits and that no other outweighs, and    *)
(* none only when none fits.                                               *)
LEMMA MatchHostFinds ==
  ASSUME NEW router, \A r \in router.routes : IsRoute(r),
         NEW host, NEW path \in Seq(STRING),
         NEW m, m = MatchHost(router, host, path)
  PROVE  Found(router.routes, host, path, m)
<1> USE DEF Found
<1> DEFINE of(kind) == { r \in router.routes : r.host = host /\ r.kind = kind }
           exact    == { r \in of("exact") : r.base = path }
           matching == { r \in of("prefix") : under(path, r.base) }
<1>0. m = IF exact # {} THEN CHOOSE r \in exact : TRUE
          ELSE IF matching # {} THEN FirstOf(matching)
          ELSE IF of("default") # {} THEN CHOOSE r \in of("default") : TRUE
          ELSE NoRoute
  BY Zenon DEF MatchHost
<1>1. \A r \in router.routes : r.base \in Seq(STRING) /\ Len(r.base) \in Nat
  BY DEF IsRoute
<1>2. \A r \in router.routes : r.host = host /\ Fits(r, path) =>
        r \in exact \/ r \in matching \/ r \in of("default")
  BY DEF Fits, under
<1>3. \A r \in exact : /\ r \in router.routes /\ r.host = host /\ Fits(r, path)
                       /\ RouteWeight(r) = 2 * Len(path) + 1
  BY DEF Fits, RouteWeight
<1>4. \A r \in matching : /\ r \in router.routes /\ r.host = host /\ Fits(r, path)
                          /\ Len(r.base) > 0 /\ Len(r.base) <= Len(path)
                          /\ RouteWeight(r) = 2 * Len(r.base)
  BY <1>1, PrefixElements DEF Fits, RouteWeight, under, IsRoute
<1>5. \A r \in of("default") : /\ r \in router.routes /\ r.host = host /\ Fits(r, path)
                               /\ RouteWeight(r) = 0
  BY DEF Fits, RouteWeight
<1> HIDE DEF exact, matching, of
<1>6. Len(path) \in Nat
  OBVIOUS
<1>7. CASE exact # {}
  <2>1. m \in exact
    BY <1>0, <1>7, Zenon
  <2>2. \A r \in router.routes : r.host = host /\ Fits(r, path) => RouteWeight(r) <= RouteWeight(m)
    BY <1>1, <1>2, <1>3, <1>4, <1>5, <1>6, <2>1
  <2>. QED
    BY <1>3, <2>1, <2>2
<1>8. CASE exact = {} /\ matching # {}
  <2>1. m = FirstOf(matching)
    BY <1>0, <1>8, Zenon
  <2>2. \A r \in matching : r.base \in Seq(STRING) /\ IsPrefix(r.base, path)
    BY <1>1, <1>4 DEF matching, under
  <2>3. m \in matching /\ \A r \in matching : Len(r.base) <= Len(m.base)
    BY <1>8, <2>1, <2>2, FirstOfIsLongest, Zenon
  <2>4. \A r \in router.routes : r.host = host /\ Fits(r, path) => RouteWeight(r) <= RouteWeight(m)
    BY <1>1, <1>2, <1>4, <1>5, <1>8, <2>3
  <2>. QED
    BY <1>4, <2>3, <2>4
<1>9. CASE exact = {} /\ matching = {} /\ of("default") # {}
  <2>1. m \in of("default")
    BY <1>0, <1>9, Zenon
  <2>2. \A r \in router.routes : r.host = host /\ Fits(r, path) => RouteWeight(r) <= RouteWeight(m)
    BY <1>2, <1>5, <1>9, <2>1
  <2>. QED
    BY <1>5, <2>1, <2>2
<1>10. CASE exact = {} /\ matching = {} /\ of("default") = {}
  BY <1>0, <1>2, <1>10, Zenon
<1>. QED
  BY <1>7, <1>8, <1>9, <1>10

(* What Match finds among the routes of the request's host and those       *)
(* without one.                                                            *)
FoundFor(routes, h, path, m) ==
  \/ /\ m = NoRoute
     /\ \A r \in routes : r.host \in {Empty, h} => ~Fits(r, path)
  \/ /\ m \in routes /\ m.host \in {Empty, h} /\ Fits(m, path)
     /\ \A r \in routes : r.host \in {Empty, h} /\ Fits(r, path) => ~Above(r, m)

(* Match tries the routes of the host before those of no host.             *)
LEMMA MatchFinds ==
  ASSUME NEW router, \A r \in router.routes : IsRoute(r),
         NEW host, NEW h, h = normalizeRequestHost(host), NEW path \in Seq(STRING),
         NEW m, m = Match(router, host, path)
  PROVE  FoundFor(router.routes, h, path, m)
<1> USE DEF FoundFor
<1>0. PICK a, b : a = MatchHost(router, h, path) /\ b = MatchHost(router, Empty, path)
  OBVIOUS
<1>1. m = IF h # Empty /\ a # NoRoute THEN a ELSE b
  BY <1>0, Zenon DEF Match
<1>2. Found(router.routes, h, path, a)
  BY <1>0, MatchHostFinds, Zenon
<1>3. Found(router.routes, Empty, path, b)
  BY <1>0, MatchHostFinds, Zenon
<1>4. \A r \in router.routes : RouteWeight(r) \in Nat /\ r # NoRoute
  BY DEF IsRoute, RouteWeight, NoRoute
<1>5. \A r, s \in router.routes : RouteWeight(r) <= RouteWeight(s) => ~(RouteWeight(r) > RouteWeight(s))
  BY <1>4
<1>6. CASE h # Empty /\ a # NoRoute
  BY <1>1, <1>2, <1>5, <1>6, Zenon DEF Above, Found
<1>7. CASE ~(h # Empty /\ a # NoRoute)
  <2>1. \A r \in router.routes : r.host \in {Empty, h} /\ Fits(r, path) => r.host = Empty
    BY <1>2, <1>4, <1>7, Zenon DEF Found
  <2>. QED
    BY <1>1, <1>3, <1>5, <1>7, <2>1, Zenon DEF Above, Found
<1>. QED
  BY <1>6, <1>7

(* Two routes that fit one path and weigh the same have the same path.     *)
LEMMA SameWeight ==
  ASSUME NEW r, IsRoute(r), NEW s, IsRoute(s), NEW path \in Seq(STRING),
         Fits(r, path), Fits(s, path), RouteWeight(r) = RouteWeight(s)
  PROVE  r.kind = s.kind /\ r.base = s.base
<1>1. Len(r.base) \in Nat /\ Len(s.base) \in Nat
  BY DEF IsRoute
<1>2. r.kind = s.kind
  BY <1>1 DEF IsRoute, RouteWeight
<1>3. CASE r.kind = "default"
  BY <1>2, <1>3 DEF IsRoute
<1>4. CASE r.kind = "exact"
  BY <1>2, <1>4 DEF Fits
<1>5. CASE r.kind = "prefix"
  <2>1. Len(r.base) = Len(s.base)
    BY <1>1, <1>2, <1>5 DEF RouteWeight
  <2>2. IsPrefix(r.base, path) /\ IsPrefix(s.base, path)
    BY <1>2, <1>5 DEF Fits
  <2>3. r.base \in Seq(STRING) /\ s.base \in Seq(STRING)
    BY DEF IsRoute
  <2>. QED
    BY <1>2, <2>1, <2>2, <2>3, PrefixesOfOneLength, Zenon
<1>. QED
  BY <1>2, <1>3, <1>4, <1>5 DEF IsRoute

-----------------------------------------------------------------------------
(* NewRouter and pickRouteProxy                                            *)

(* What a rule that compiles looks like.                                   *)
LEMMA CompiledRule ==
  ASSUME NEW rule, IsPath(rule.path), NEW r, r = Compile(rule), r.kind # "error"
  PROVE  /\ r.rule = rule /\ r.host = Lower[rule.host] /\ ~rule.path.padded /\ IsRoute(r)
         /\ \/ IsDefault(rule.path.segs, r.kind, r.base)
            \/ IsPrefixRule(rule.path.segs, r.kind, r.base)
            \/ IsExact(rule.path.segs, r.kind, r.base)
<1>0. PICK p : p = classifyAndNormalizeRulePath(rule.path)
  OBVIOUS
<1>1. r = [rule |-> rule, host |-> Lower[rule.host], kind |-> p.kind, base |-> p.base]
  BY <1>0, Zenon DEF Compile
<1>2. r.rule = rule /\ r.host = Lower[rule.host] /\ r.kind = p.kind /\ r.base = p.base
  BY <1>1
<1>3. /\ ~rule.path.padded
      /\ \/ IsDefault(rule.path.segs, r.kind, r.base)
         \/ IsPrefixRule(rule.path.segs, r.kind, r.base)
         \/ IsExact(rule.path.segs, r.kind, r.base)
  BY <1>0, <1>2, ClassifiedPath, Zenon
<1>4. PICK segs : segs = rule.path.segs
  OBVIOUS
<1>5. segs \in Seq(STRING)
  BY <1>4 DEF IsPath
<1>6. IsRoute(r)
  <2>1. CASE IsDefault(segs, r.kind, r.base)
    BY <1>5, <2>1 DEF IsRoute, IsDefault
  <2>2. CASE IsPrefixRule(segs, r.kind, r.base)
    <3>1. /\ r.base \in Seq(STRING) /\ Len(r.base) = Len(segs) - 1
          /\ Len(segs) \in Nat /\ Len(segs) > 1
      BY <1>5, <2>2, PrefixRuleBase, Zenon
    <3>2. r.kind = "prefix"
      BY <2>2 DEF IsPrefixRule
    <3>. QED
      BY <3>1, <3>2 DEF IsRoute
  <2>3. CASE IsExact(segs, r.kind, r.base)
    BY <1>5, <2>3 DEF IsRoute, IsExact
  <2>. QED
    BY <1>3, <1>4, <2>1, <2>2, <2>3, Zenon
<1>. QED
  BY <1>2, <1>3, <1>6, Zenon

(* A router that is built holds its compiled rules, and no two alike.      *)
LEMMA RouterHolds ==
  ASSUME NEW rules, \A i \in DOMAIN rules : IsPath(rules[i].path),
         NEW router, router = NewRouter(rules), router.ok
  PROVE  /\ router.routes = { Compile(rules[i]) : i \in DOMAIN rules }
         /\ \A i \in DOMAIN rules : Compile(rules[i]).kind # "error"
         /\ \A i, j \in DOMAIN rules :
              routeHostPathKey(Compile(rules[i])) = routeHostPathKey(Compile(rules[j])) => i = j
         /\ \A r \in router.routes : IsRoute(r)
<1> DEFINE routes == [i \in DOMAIN rules |-> Compile(rules[i])]
           Wrong  == \/ \E i \in DOMAIN routes : routes[i].kind = "error"
                     \/ \E i, j \in DOMAIN routes :
                          i # j /\ routeHostPathKey(routes[i]) = routeHostPathKey(routes[j])
           held   == { routes[i] : i \in DOMAIN routes }
<1>1. router = IF Wrong THEN Error ELSE [ok |-> TRUE, routes |-> held]
  BY Zenon DEF NewRouter
<1> HIDE DEF Wrong, held
<1>2. ~Wrong /\ router.routes = held
  BY <1>1 DEF Error
<1> USE DEF Wrong, held
<1>3. DOMAIN routes = DOMAIN rules /\ \A i \in DOMAIN rules : routes[i] = Compile(rules[i])
  BY Zenon
<1> HIDE DEF routes
<1>4. router.routes = { Compile(rules[i]) : i \in DOMAIN rules }
  <2>1. held = { Compile(rules[i]) : i \in DOMAIN rules }
    BY <1>3
  <2>. HIDE DEF held
  <2>. QED
    BY <1>2, <2>1, Zenon
<1>5. \A i \in DOMAIN rules : Compile(rules[i]).kind # "error"
  BY <1>2, <1>3, Zenon
<1>6. \A i, j \in DOMAIN rules :
        routeHostPathKey(Compile(rules[i])) = routeHostPathKey(Compile(rules[j])) => i = j
  BY <1>2, <1>3, Zenon
<1>7. \A i \in DOMAIN rules : IsRoute(Compile(rules[i]))
  BY <1>5, CompiledRule, Zenon
<1>. QED
  BY <1>4, <1>5, <1>6, <1>7, Zenon

(* A scheme is resolved once and for all.                                  *)
LEMMA SchemeResolved ==
  ASSUME NEW s \in Schemes
  PROVE  schemeForProtocol(s) \in Schemes /\ schemeForProtocol(schemeForProtocol(s)) = schemeForProtocol(s)
BY DEF schemeForProtocol, Schemes

(* What ParseTarget makes of a target.                                     *)
Resolved(t) == [t EXCEPT !.scheme = schemeForProtocol(t.scheme)]

IsParsed(p, t, name, insecure, pass) ==
  /\ p.ok = TRUE /\ p.url = Resolved(t) /\ p.serverName = name
  /\ p.insecureSkipVerify = insecure /\ p.passHostHeader = pass

(* ParseTarget accepts what validateTarget accepts.                        *)
LEMMA ValidParses ==
  ASSUME NEW t, validateTarget(t), NEW name, NEW insecure, NEW pass,
         NEW p, p = ParseTarget(t, name, insecure, pass)
  PROVE  IsParsed(p, t, name, insecure, pass)
<1>1. PICK url, ws : url = Resolved(t) /\ ws = (t.scheme \in {"ws", "wss"})
  OBVIOUS
<1>2. p = [ok |-> TRUE, url |-> url, serverName |-> name, insecureSkipVerify |-> insecure,
           passHostHeader |-> pass, websocketUpgradeMode |-> ws]
  BY <1>1, Zenon DEF ParseTarget, Resolved
<1>3. /\ p.ok = TRUE /\ p.url = url /\ p.serverName = name
      /\ p.insecureSkipVerify = insecure /\ p.passHostHeader = pass
  BY <1>2
<1>. QED
  BY <1>1, <1>3, Zenon DEF IsParsed

(* And only of a valid one.                                                *)
LEMMA ParsedIsValid ==
  ASSUME NEW t, NEW name, NEW insecure, NEW pass, ParseTarget(t, name, insecure, pass).ok
  PROVE  validateTarget(t)
<1>1. SUFFICES ASSUME ~validateTarget(t) PROVE FALSE
  OBVIOUS
<1>2. ParseTarget(t, name, insecure, pass) = Error
  BY <1>1, Zenon DEF ParseTarget
<1>3. ~Error.ok
  BY DEF Error
<1>. QED
  BY <1>2, <1>3, Zenon

(* A target that was parsed once is parsed again to the same origin, as    *)
(* OriginTarget does with the URL of the session.                          *)
LEMMA ParsedTwice ==
  ASSUME NEW t, IsTarget(t), validateTarget(t), NEW name, NEW insecure, NEW pass,
         NEW u, u = Resolved(t), NEW q, q = ParseTarget(u, name, insecure, pass)
  PROVE  IsParsed(q, t, name, insecure, pass)
<1>1. PICK s : s = schemeForProtocol(t.scheme)
  OBVIOUS
<1>2. s \in Schemes /\ schemeForProtocol(s) = s
  <2>1. t.scheme \in Schemes
    BY DEF validateTarget
  <2>. QED
    BY <1>1, <2>1, SchemeResolved, Zenon
<1>3. u = [t EXCEPT !.scheme = s]
  BY <1>1, Zenon DEF Resolved
<1>4. validateTarget(u) /\ u.scheme = s /\ u = [u EXCEPT !.scheme = s]
  BY <1>2, <1>3 DEF IsTarget, validateTarget
<1>5. Resolved(u) = u
  BY <1>2, <1>4, Zenon DEF Resolved
<1>6. IsParsed(q, u, name, insecure, pass)
  BY <1>4, ValidParses, Zenon
<1>. QED
  BY <1>5, <1>6, Zenon DEF IsParsed

(* The proxies of the rules, by their keys.                                *)
Entry(rule, default) ==
  <<routeRuleProxyKey(rule, effectivePassHost(rule, default)), routeTarget(rule, default)>>

Entries(rules, default) == { Entry(rules[i], default) : i \in DOMAIN rules }

KeyedBy(entries, key) == { e \in entries : e[1] = key }

(* What NewRoutedProxy builds.                                             *)
IsBuilt(target, rules, proxy) == proxy = NewRoutedProxy(target, rules) /\ proxy.ok

Holds(target, rules, proxy) ==
  /\ proxy.default = target
  /\ \/ rules = <<>> /\ ~proxy.routed
     \/ /\ proxy.routed
        /\ proxy.router = NewRouter(rules) /\ proxy.router.ok
        /\ proxy.byKey = Entries(rules, target.passHostHeader)

(* A proxy that is built has its router and a target for every rule.       *)
LEMMA ProxyHolds ==
  ASSUME NEW target, NEW rules, NEW proxy, IsBuilt(target, rules, proxy)
  PROVE  Holds(target, rules, proxy)
<1> USE DEF IsBuilt, Holds
<1>1. PICK router, byKey :
        /\ router = NewRouter(rules)
        /\ byKey = Entries(rules, target.passHostHeader)
  OBVIOUS
<1>2. CASE rules = <<>>
  <2>1. proxy = [ok |-> TRUE, routed |-> FALSE, default |-> target]
    BY <1>2, Zenon DEF NewRoutedProxy
  <2>. QED
    BY <1>2, <2>1
<1>3. CASE rules # <<>>
  <2> DEFINE Wrong == ~router.ok \/ \E i \in DOMAIN rules :
                                     ~routeTarget(rules[i], target.passHostHeader).ok
  <2>1. proxy = IF Wrong THEN Error
                ELSE [ok |-> TRUE, routed |-> TRUE, default |-> target, router |-> router,
                      byKey |-> byKey]
    BY <1>1, <1>3, Zenon DEF NewRoutedProxy, Entry, Entries
  <2> HIDE DEF Wrong
  <2>2. ~Wrong /\ proxy.default = target /\ proxy.routed /\ proxy.router = router /\ proxy.byKey = byKey
    BY <2>1 DEF Error
  <2>3. router.ok
    BY <2>2 DEF Wrong
  <2>. QED
    BY <1>1, <2>2, <2>3, Zenon
<1>. QED
  BY <1>2, <1>3

(* Rules with equal keys share a target.                                   *)
KeysMeet(rule, other, host, base, default) ==
  routeRuleProxyKey(other, effectivePassHost(other, default))
    = routeProxyKey(host, base, rule, effectivePassHost(rule, default))

(* The key of a rule names every part of its target.                       *)
LEMMA KeyDecidesTarget ==
  ASSUME NEW rule, NEW other, NEW host, NEW base, NEW default,
         KeysMeet(rule, other, host, base, default)
  PROVE  routeTarget(other, default) = routeTarget(rule, default)
<1>1. PICK p1, p2, b2 : /\ p1 = effectivePassHost(rule, default)
                        /\ p2 = effectivePassHost(other, default)
                        /\ b2 = classifyAndNormalizeRulePath(other.path).base
  OBVIOUS
<1>2. <<other.host, b2, other.target, other.originServerName, other.insecureSkipVerify, p2>>
        = <<host, base, rule.target, rule.originServerName, rule.insecureSkipVerify, p1>>
  BY <1>1, Zenon DEF KeysMeet, routeRuleProxyKey, routeProxyKey
<1>3. /\ other.target = rule.target /\ other.originServerName = rule.originServerName
      /\ other.insecureSkipVerify = rule.insecureSkipVerify /\ p2 = p1
  BY <1>2
<1>. QED
  BY <1>1, <1>3, Zenon DEF routeTarget

(* What pickRouteProxy makes of a match.                                   *)
Picked(route, found, default, picked) ==
  \/ /\ route = NoRoute \/ found = {}
     /\ picked.target = default /\ picked.route = NoRoute
  \/ /\ route # NoRoute
     /\ \E e \in found : picked.target = e[2] /\ picked.route = route

(* pickRouteProxy looks the matched route up under its key.                *)
LEMMA PickByMatch ==
  ASSUME NEW proxy, proxy.routed, NEW host, NEW path,
         NEW route, route = Match(proxy.router, host, path),
         NEW key, key = matchedRouteProxyKey(route, proxy.default.passHostHeader),
         NEW found, found = KeyedBy(proxy.byKey, key),
         NEW picked, picked = pickRouteProxy(proxy, host, path)
  PROVE  Picked(route, found, proxy.default, picked)
<1> USE DEF Picked
<1>1. CASE route = NoRoute \/ found = {}
  <2>1. picked = [target |-> proxy.default, route |-> NoRoute]
    BY <1>1, Zenon DEF pickRouteProxy, KeyedBy
  <2>. QED
    BY <1>1, <2>1
<1>2. CASE route # NoRoute /\ found # {}
  <2>1. PICK e : e = CHOOSE x \in found : TRUE
    OBVIOUS
  <2>2. e \in found
    BY <1>2, <2>1, Zenon
  <2>3. picked = [target |-> e[2], route |-> route]
    BY <1>2, <2>1, Zenon DEF pickRouteProxy, KeyedBy
  <2>. QED
    BY <1>2, <2>2, <2>3
<1>. QED
  BY <1>1, <1>2

(* The proxy of a matched rule: the rule's own, or, when the spelling of   *)
(* its host keeps the key from being found, the tunnel's.                  *)
PickedRule(rule, target, route, picked) ==
  \/ /\ picked.target = routeTarget(rule, target.passHostHeader)
     /\ picked.route = route
  \/ /\ Lower[rule.host] # rule.host
     /\ picked.target = target /\ picked.route = NoRoute

(* A matched rule is served by its own proxy, unless the spelling of its   *)
(* host keeps the key from being found.                                    *)
LEMMA PickedProxy ==
  ASSUME NEW target, NEW rules, NEW proxy, IsBuilt(target, rules, proxy), proxy.routed,
         NEW host, NEW path, NEW i \in DOMAIN rules, IsPath(rules[i].path),
         NEW route, route = Compile(rules[i]), route.kind # "error",
         route = Match(proxy.router, host, path),
         NEW picked, picked = pickRouteProxy(proxy, host, path)
  PROVE  PickedRule(rules[i], target, route, picked)
<1>1. PICK default : default = target.passHostHeader
  OBVIOUS
<1>2. /\ proxy.default = target
      /\ proxy.byKey = Entries(rules, default)
  <2>1. Holds(target, rules, proxy)
    BY ProxyHolds, Zenon
  <2>. QED
    BY <1>1, <2>1, Zenon DEF Holds
<1>3. PICK key, found : /\ key = matchedRouteProxyKey(route, default)
                        /\ found = KeyedBy(proxy.byKey, key)
  OBVIOUS
<1>4. /\ route.rule = rules[i] /\ route.host = Lower[rules[i].host]
      /\ route.base = classifyAndNormalizeRulePath(rules[i].path).base
  <2>1. route.rule = rules[i] /\ route.host = Lower[rules[i].host]
    BY CompiledRule, Zenon
  <2>2. PICK p : p = classifyAndNormalizeRulePath(rules[i].path)
    OBVIOUS
  <2>3. route = [rule |-> rules[i], host |-> Lower[rules[i].host], kind |-> p.kind, base |-> p.base]
    BY <2>2, Zenon DEF Compile
  <2>4. route.base = p.base
    BY <2>3
  <2>. QED
    BY <2>1, <2>2, <2>4, Zenon
<1>5. route # NoRoute
  <2>1. IsRoute(route)
    BY CompiledRule, Zenon
  <2>. QED
    BY <2>1 DEF IsRoute, NoRoute
<1>6. key = routeProxyKey(Lower[rules[i].host], route.base, rules[i],
                          effectivePassHost(rules[i], default))
  BY <1>3, <1>4, Zenon DEF matchedRouteProxyKey
<1>7. \/ /\ found = {}
         /\ picked.target = target /\ picked.route = NoRoute
      \/ \E e \in found : picked.target = e[2] /\ picked.route = route
  <2>1. key = matchedRouteProxyKey(route, proxy.default.passHostHeader)
    BY <1>1, <1>2, <1>3, Zenon
  <2>2. Picked(route, found, proxy.default, picked)
    BY <1>3, <2>1, PickByMatch, Zenon
  <2>. QED
    BY <1>2, <1>5, <2>2, Zenon DEF Picked
<1>8. CASE found = {} /\ picked.target = target /\ picked.route = NoRoute
  <2>1. SUFFICES ASSUME Lower[rules[i].host] = rules[i].host PROVE FALSE
    BY <1>8, Zenon DEF PickedRule
  <2>2. key = routeRuleProxyKey(rules[i], effectivePassHost(rules[i], default))
    BY <1>4, <1>6, <2>1, Zenon DEF routeRuleProxyKey
  <2>3. Entry(rules[i], default)[1] = key
    BY <2>2 DEF Entry
  <2>. QED
    BY <1>2, <1>3, <1>8, <2>3, Zenon DEF Entries, KeyedBy
<1>9. ASSUME NEW e \in found, picked.target = e[2], picked.route = route
      PROVE  picked.target = routeTarget(rules[i], default)
  <2>1. PICK k \in DOMAIN rules : e = Entry(rules[k], default) /\ e[1] = key
    BY <1>2, <1>3, <1>9, Zenon DEF Entries, KeyedBy
  <2>2. PICK a, b : /\ a = routeRuleProxyKey(rules[k], effectivePassHost(rules[k], default))
                    /\ b = routeTarget(rules[k], default)
    OBVIOUS
  <2>3. e = <<a, b>>
    BY <2>1, <2>2, Zenon DEF Entry
  <2>4. e[1] = a /\ e[2] = b
    BY <2>3
  <2>5. key = routeRuleProxyKey(rules[k], effectivePassHost(rules[k], default))
    BY <2>1, <2>2, <2>4, Zenon
  <2>6. routeTarget(rules[k], default) = routeTarget(rules[i], default)
    <3>1. KeysMeet(rules[i], rules[k], Lower[rules[i].host], route.base, default)
      BY <1>6, <2>5, Zenon DEF KeysMeet
    <3>. QED
      BY <3>1, KeyDecidesTarget
  <2>. QED
    BY <1>9, <2>2, <2>4, <2>6, Zenon
<1>. QED
  BY <1>1, <1>7, <1>8, <1>9, Zenon DEF PickedRule

(* What the proxy does with a request that no rule matches.                *)
PickedNone(target, picked) == picked.target = target /\ picked.route = NoRoute

(* Without a match the tunnel's own proxy serves.                          *)
LEMMA NoRulePicked ==
  ASSUME NEW target, NEW rules, NEW proxy, IsBuilt(target, rules, proxy),
         NEW host, NEW path,
         proxy.routed => Match(proxy.router, host, path) = NoRoute,
         NEW picked, picked = pickRouteProxy(proxy, host, path)
  PROVE  PickedNone(target, picked)
<1>1. proxy.default = target
  BY ProxyHolds, Zenon DEF Holds
<1>2. picked = [target |-> proxy.default, route |-> NoRoute]
  BY Zenon DEF pickRouteProxy
<1>. QED
  BY <1>1, <1>2 DEF PickedNone

-----------------------------------------------------------------------------
(* The path that is sent                                                   *)

(* A part of a sequence.                                                   *)
IsPart(part, path, m, n) ==
  /\ part \in Seq(STRING) /\ Len(part) = n + 1 - m
  /\ \A i \in 1..n + 1 - m : part[i] = path[m + i - 1]

(* What SubSeq returns.                                                    *)
LEMMA PartOf ==
  ASSUME NEW path \in Seq(STRING), NEW m \in Nat, NEW n \in Nat,
         1 <= m, m <= n + 1, n <= Len(path), NEW part, part = SubSeq(path, m, n)
  PROVE  IsPart(part, path, m, n)
<1>1. m \in Int /\ n \in Int /\ \A i \in m..n : path[i] \in STRING
  OBVIOUS
<1>2. /\ SubSeq(path, m, n) \in Seq(STRING)
      /\ Len(SubSeq(path, m, n)) = IF m <= n THEN n - m + 1 ELSE 0
      /\ \A i \in 1..n - m + 1 : SubSeq(path, m, n)[i] = path[m + i - 1]
  BY <1>1, SubSeqProperties
<1>3. n - m + 1 = n + 1 - m /\ (~(m <= n) => n + 1 - m = 0)
  OBVIOUS
<1>. QED
  BY <1>2, <1>3 DEF IsPart

(* What is left of a path under a base.                                    *)
LEMMA RestOf ==
  ASSUME NEW base \in Seq(STRING), NEW path \in Seq(STRING), Len(base) <= Len(path),
         NEW rest, rest = SubSeq(path, Len(base) + 1, Len(path))
  PROVE  /\ rest \in Seq(STRING) /\ Len(rest) = Len(path) - Len(base)
         /\ \A i \in 1..Len(rest) : rest[i] = path[Len(base) + i]
<1>1. PICK m, n : m = Len(base) + 1 /\ n = Len(path)
  OBVIOUS
<1>2. m \in Nat /\ n \in Nat /\ 1 <= m /\ m <= n + 1 /\ n <= Len(path)
  BY <1>1
<1>3. IsPart(rest, path, m, n)
  <2>1. rest = SubSeq(path, m, n)
    BY <1>1, Zenon
  <2>. QED
    BY <1>2, <2>1, PartOf, Zenon
<1>4. PICK left : left = Len(rest)
  OBVIOUS
<1>5. left = Len(path) - Len(base)
  BY <1>1, <1>3, <1>4 DEF IsPart
<1>6. \A i \in 1..left : rest[i] = path[Len(base) + i]
  BY <1>1, <1>3, <1>5 DEF IsPart
<1>. QED
  BY <1>3, <1>4, <1>5, <1>6, Zenon DEF IsPart

(* A sequence with one more element.                                       *)
IsLonger(longer, path, last, S) ==
  /\ longer \in Seq(S) /\ Len(longer) = Len(path) + 1
  /\ \A i \in 1..Len(path) : longer[i] = path[i]
  /\ longer[Len(path) + 1] = last

(* A path with a slash more.                                               *)
LEMMA SlashMore ==
  ASSUME NEW S, NEW path \in Seq(S), NEW last \in S,
         NEW longer, longer = Append(path, last)
  PROVE  IsLonger(longer, path, last, S)
BY DEF IsLonger

(* Nothing is left of the one path, and a slash of the other.              *)
LEMMA OneSlashMore ==
  ASSUME NEW base \in Seq(STRING), NEW path \in Seq(STRING), NEW other \in Seq(STRING),
         Len(path) = Len(base), \A i \in 1..Len(base) : base[i] = path[i],
         \A i \in 1..Len(base) : base[i] = other[i],
         Len(other) = Len(base) + 1, other[Len(base) + 1] = Empty
  PROVE  other = Append(path, Empty)
<1>1. PICK last : last = other[Len(base) + 1]
  OBVIOUS
<1>2. last \in STRING
  BY <1>1
<1>3. PICK longer : longer = Append(path, last)
  OBVIOUS
<1>4. IsLonger(longer, path, last, STRING)
  BY <1>2, <1>3, SlashMore, Zenon
<1>5. \A i \in 1..Len(other) : other[i] = longer[i]
  BY <1>1, <1>4 DEF IsLonger
<1>6. Len(other) = Len(longer) /\ longer \in Seq(STRING)
  BY <1>4 DEF IsLonger
<1>7. other = longer
  BY <1>5, <1>6, SeqEqual
<1>. QED
  BY <1>1, <1>3, <1>7, Zenon

(* A route strips paths apart: two that fit it and are sent alike are the  *)
(* same but for a slash at the end.                                        *)
LEMMA StripsApart ==
  ASSUME NEW route, IsRoute(route), NEW path \in Seq(STRING), NEW other \in Seq(STRING),
         Fits(route, path), Fits(route, other),
         strippedPath(route, path) = strippedPath(route, other)
  PROVE  other \in {path, Append(path, Empty)} \/ path = Append(other, Empty)
<1>0. PICK base : base = route.base
  OBVIOUS
<1>1. base \in Seq(STRING) /\ route # NoRoute
  BY <1>0 DEF IsRoute, NoRoute
<1>2. CASE route.base = Root \/ ~route.rule.stripPathPrefix
  <2>1. strippedPath(route, path) = path /\ strippedPath(route, other) = other
    BY <1>2, Zenon DEF strippedPath
  <2>. QED
    BY <2>1, Zenon
<1>3. CASE route.kind = "exact"
  BY <1>3 DEF Fits
<1>4. CASE route.kind = "prefix" /\ route.base # Root /\ route.rule.stripPathPrefix
  <2>1. under(path, base) /\ under(other, base)
    BY <1>0, <1>4 DEF Fits, under
  <2>2. PICK r1, r2 : /\ r1 = SubSeq(path, Len(base) + 1, Len(path))
                      /\ r2 = SubSeq(other, Len(base) + 1, Len(other))
    OBVIOUS
  <2>3. (IF r1 = <<>> THEN Root ELSE r1) = IF r2 = <<>> THEN Root ELSE r2
    BY <1>0, <1>1, <1>4, <2>1, <2>2, Zenon DEF strippedPath
  <2>4. /\ Len(base) <= Len(path) /\ \A i \in 1..Len(base) : base[i] = path[i]
        /\ Len(base) <= Len(other) /\ \A i \in 1..Len(base) : base[i] = other[i]
    BY <1>1, <2>1, PrefixElements DEF under
  <2>5. /\ r1 \in Seq(STRING) /\ Len(r1) = Len(path) - Len(base)
        /\ \A i \in 1..Len(r1) : r1[i] = path[Len(base) + i]
    BY <1>1, <2>2, <2>4, RestOf
  <2>6. /\ r2 \in Seq(STRING) /\ Len(r2) = Len(other) - Len(base)
        /\ \A i \in 1..Len(r2) : r2[i] = other[Len(base) + i]
    BY <1>1, <2>2, <2>4, RestOf
  <2>7. CASE r1 = r2
    <3>1. Len(path) = Len(other)
      BY <1>1, <2>5, <2>6, <2>7
    <3>2. ASSUME NEW i \in 1..Len(path) PROVE path[i] = other[i]
      <4>1. CASE i <= Len(base)
        BY <1>1, <2>4, <4>1
      <4>2. CASE i > Len(base)
        <5>1. i - Len(base) \in 1..Len(r1) /\ Len(base) + (i - Len(base)) = i
          BY <1>1, <2>5, <4>2
        <5>. QED
          BY <2>5, <2>6, <2>7, <5>1
      <4>. QED
        BY <1>1, <4>1, <4>2
    <3>. QED
      BY <3>1, <3>2, SeqEqual
  <2>8. CASE r1 = <<>> /\ r2 = Root
    <3>0. Len(r1) = 0 /\ Len(r2) = 1
      BY <2>8 DEF Root
    <3>1. r2[1] = Empty
      BY <2>8 DEF Root
    <3>2. Len(path) = Len(base) /\ Len(other) = Len(base) + 1 /\ other[Len(base) + 1] = Empty
      <4>1. Len(path) = Len(base) /\ Len(other) = Len(base) + 1
        <5>1. /\ Len(base) \in Nat /\ Len(path) \in Nat /\ Len(other) \in Nat
              /\ Len(r1) = Len(path) - Len(base) /\ Len(r2) = Len(other) - Len(base)
          BY <1>1, <2>5, <2>6
        <5>2. PICK nb, np, no, n1, n2 : /\ nb = Len(base) /\ np = Len(path) /\ no = Len(other)
                                        /\ n1 = Len(r1) /\ n2 = Len(r2)
          OBVIOUS
        <5>3. /\ nb \in Nat /\ np \in Nat /\ no \in Nat /\ n1 = np - nb /\ n2 = no - nb
              /\ n1 = 0 /\ n2 = 1
          BY <3>0, <5>1, <5>2, Zenon
        <5>4. np = nb /\ no = nb + 1
          BY <5>3
        <5>. QED
          BY <5>2, <5>4, Zenon
      <4>2. 1 \in 1..Len(r2)
        BY <3>0
      <4>. QED
        BY <3>1, <2>6, <4>1, <4>2
    <3>. QED
      BY <1>1, <2>4, <3>2, OneSlashMore, Zenon
  <2>9. CASE r2 = <<>> /\ r1 = Root
    <3>0. Len(r2) = 0 /\ Len(r1) = 1
      BY <2>9 DEF Root
    <3>1. r1[1] = Empty
      BY <2>9 DEF Root
    <3>2. Len(other) = Len(base) /\ Len(path) = Len(base) + 1 /\ path[Len(base) + 1] = Empty
      <4>1. Len(other) = Len(base) /\ Len(path) = Len(base) + 1
        <5>1. /\ Len(base) \in Nat /\ Len(path) \in Nat /\ Len(other) \in Nat
              /\ Len(r1) = Len(path) - Len(base) /\ Len(r2) = Len(other) - Len(base)
          BY <1>1, <2>5, <2>6
        <5>2. PICK nb, np, no, n1, n2 : /\ nb = Len(base) /\ np = Len(path) /\ no = Len(other)
                                        /\ n1 = Len(r1) /\ n2 = Len(r2)
          OBVIOUS
        <5>3. /\ nb \in Nat /\ np \in Nat /\ no \in Nat /\ n1 = np - nb /\ n2 = no - nb
              /\ n2 = 0 /\ n1 = 1
          BY <3>0, <5>1, <5>2, Zenon
        <5>4. no = nb /\ np = nb + 1
          BY <5>3
        <5>. QED
          BY <5>2, <5>4, Zenon
      <4>2. 1 \in 1..Len(r1)
        BY <3>0
      <4>. QED
        BY <3>1, <2>5, <4>1, <4>2
    <3>. QED
      BY <1>1, <2>4, <3>2, OneSlashMore, Zenon
  <2>. QED
    BY <2>3, <2>7, <2>8, <2>9
<1>. QED
  BY <1>2, <1>3, <1>4 DEF IsRoute

-----------------------------------------------------------------------------
(* The validation and the router agree                                     *)

(* What was written without spaces around it is left as it is.             *)
LEMMA NothingToTrim ==
  /\ \A p : IsPath(p) /\ ~p.padded => TrimSpace(p) = p
  /\ \A t : IsTarget(t) /\ ~t.padded => TrimSpace(t) = t
<1>1. ASSUME NEW p, IsPath(p), ~p.padded PROVE TrimSpace(p) = p
  BY <1>1 DEF IsPath, TrimSpace
<1>2. ASSUME NEW t, IsTarget(t), ~t.padded PROVE TrimSpace(t) = t
  BY <1>2 DEF IsTarget, TrimSpace
<1>. QED
  BY <1>1, <1>2, Zenon

(* A rule whose texts are written without spaces around them.              *)
IsPlain(rule) ==
  /\ IsPath(rule.path) /\ ~rule.path.padded
  /\ IsTarget(rule.target) /\ ~rule.target.padded

(* A valid rule compiles, and the kind the validation gives it follows     *)
(* from the one the router does.                                           *)
ValidatedKey(r) == <<r.host, IF r.kind = "default" THEN "exact" ELSE r.kind, r.base>>

(* A rule that validateRouteRules accepts compiles, to the key under which *)
(* it was validated.                                                       *)
LEMMA ValidCompiles ==
  ASSUME NEW rule, IsPlain(rule), validRule(rule), NEW r, r = Compile(rule)
  PROVE  /\ r.kind # "error" /\ validateTarget(rule.target)
         /\ routeDuplicateKey(rule) = ValidatedKey(r)
<1>0. PICK path, v : path = rule.path /\ v = validateAndNormalizeRoutePath(path)
  OBVIOUS
<1>1. IsPath(path) /\ ~path.padded /\ TrimSpace(path) = path /\ TrimSpace(rule.target) = rule.target
  BY <1>0, NothingToTrim, Zenon DEF IsPlain
<1>2. v.kind # "error" /\ validateTarget(rule.target)
  BY <1>0, <1>1, Zenon DEF validRule
<1>3. routeDuplicateKey(rule) = <<Lower[rule.host], v.kind, v.base>>
  BY <1>0, <1>1, Zenon DEF routeDuplicateKey
<1>4. PICK p : p = classifyAndNormalizeRulePath(path)
  OBVIOUS
<1>5. r = [rule |-> rule, host |-> Lower[rule.host], kind |-> p.kind, base |-> p.base]
  BY <1>0, <1>4, Zenon DEF Compile
<1>6. r.host = Lower[rule.host] /\ r.kind = p.kind /\ r.base = p.base
  BY <1>5
<1>7. p = IF v.base = Root THEN [kind |-> "default", base |-> v.base] ELSE v
  BY <1>0, <1>1, <1>4, PathsAgree, Zenon
<1>8. /\ v.kind \in {"exact", "prefix"}
      /\ v.base = Root => v.kind = "exact"
  <2>1. \/ path.segs = Root /\ v.kind = "exact" /\ v.base = path.segs
        \/ IsPrefixRule(path.segs, v.kind, v.base)
        \/ IsExact(path.segs, v.kind, v.base)
    BY <1>0, <1>1, <1>2, ValidatedPath, Zenon
  <2>2. path.segs \in Seq(STRING)
    BY <1>1 DEF IsPath
  <2>3. CASE IsPrefixRule(path.segs, v.kind, v.base)
    <3>1. v.base # Root
      BY <2>2, <2>3, PrefixRuleBase, Zenon
    <3>. QED
      BY <2>3, <3>1, Zenon DEF IsPrefixRule
  <2>4. CASE IsExact(path.segs, v.kind, v.base)
    BY <2>4, Zenon DEF IsExact
  <2>. QED
    BY <2>1, <2>3, <2>4, Zenon
<1>9. /\ p.kind # "error" /\ p.base = v.base
      /\ v.kind = IF p.kind = "default" THEN "exact" ELSE p.kind
  BY <1>7, <1>8
<1>. QED
  BY <1>2, <1>3, <1>6, <1>9, Zenon DEF ValidatedKey

(* What validateRouteRules accepts, NewRouter builds.                      *)
LEMMA ValidRouter ==
  ASSUME NEW rules, \A i \in DOMAIN rules : IsPlain(rules[i]), validateRouteRules(rules)
  PROVE  NewRouter(rules).ok
<1> DEFINE routes == [i \in DOMAIN rules |-> Compile(rules[i])]
           Wrong  == \/ \E i \in DOMAIN routes : routes[i].kind = "error"
                     \/ \E i, j \in DOMAIN routes :
                          i # j /\ routeHostPathKey(routes[i]) = routeHostPathKey(routes[j])
           held   == { routes[i] : i \in DOMAIN routes }
<1>1. NewRouter(rules) = IF Wrong THEN Error ELSE [ok |-> TRUE, routes |-> held]
  BY Zenon DEF NewRouter
<1>2. DOMAIN routes = DOMAIN rules /\ \A i \in DOMAIN rules : routes[i] = Compile(rules[i])
  BY Zenon
<1> HIDE DEF routes
<1>3. \A i \in DOMAIN rules : validRule(rules[i])
  BY Zenon DEF validateRouteRules
<1>4. \A i \in DOMAIN rules : routes[i].kind # "error"
  BY <1>2, <1>3, ValidCompiles, Zenon
<1>5. ASSUME NEW i \in DOMAIN rules, NEW j \in DOMAIN rules,
             routeHostPathKey(routes[i]) = routeHostPathKey(routes[j])
      PROVE  i = j
  <2>0. PICK r, s : r = routes[i] /\ s = routes[j]
    OBVIOUS
  <2>1. <<r.host, r.kind, r.base>> = <<s.host, s.kind, s.base>>
    BY <1>5, <2>0, Zenon DEF routeHostPathKey
  <2>2. r.host = s.host /\ r.kind = s.kind /\ r.base = s.base
    BY <2>1
  <2>3. routeDuplicateKey(rules[i]) = ValidatedKey(r)
    BY <1>2, <1>3, <2>0, ValidCompiles, Zenon
  <2>4. routeDuplicateKey(rules[j]) = ValidatedKey(s)
    BY <1>2, <1>3, <2>0, ValidCompiles, Zenon
  <2>5. routeDuplicateKey(rules[i]) = routeDuplicateKey(rules[j])
    <3>1. ValidatedKey(r) = ValidatedKey(s)
      BY <2>2 DEF ValidatedKey
    <3>. QED
      BY <2>3, <2>4, <3>1, Zenon
  <2>. QED
    BY <2>5, Zenon DEF validateRouteRules
<1>6. ~Wrong
  BY <1>2, <1>4, <1>5, Zenon
<1> HIDE DEF Wrong, held
<1>7. NewRouter(rules) = [ok |-> TRUE, routes |-> held]
  BY <1>1, <1>6, Zenon
<1>. QED
  BY <1>7

(* And with a router and the targets, NewRoutedProxy builds the proxy.     *)
LEMMA ValidProxy ==
  ASSUME NEW target, NEW rules, \A i \in DOMAIN rules : IsPlain(rules[i]),
         validateRouteRules(rules)
  PROVE  NewRoutedProxy(target, rules).ok
<1>0. PICK default, router, byKey :
        /\ default = target.passHostHeader /\ router = NewRouter(rules)
        /\ byKey = { <<routeRuleProxyKey(rules[i], effectivePassHost(rules[i], default)),
                       routeTarget(rules[i], default)>> : i \in DOMAIN rules }
  OBVIOUS
<1>1. router.ok
  BY <1>0, ValidRouter, Zenon
<1>2. ASSUME NEW i \in DOMAIN rules PROVE routeTarget(rules[i], default).ok
  <2>1. validateTarget(rules[i].target)
    BY ValidCompiles, Zenon DEF validateRouteRules
  <2>2. PICK rule, name, insecure, pass :
          /\ rule = rules[i] /\ name = rule.originServerName
          /\ insecure = rule.insecureSkipVerify /\ pass = effectivePassHost(rule, default)
    OBVIOUS
  <2>3. PICK p : p = ParseTarget(rule.target, name, insecure, pass)
    OBVIOUS
  <2>4. IsParsed(p, rule.target, name, insecure, pass)
    BY <2>1, <2>2, <2>3, ValidParses, Zenon
  <2>. QED
    BY <2>2, <2>3, <2>4, Zenon DEF IsParsed, routeTarget
<1>3. \/ NewRoutedProxy(target, rules) = [ok |-> TRUE, routed |-> FALSE, default |-> target]
      \/ NewRoutedProxy(target, rules)
           = [ok |-> TRUE, routed |-> TRUE, default |-> target, router |-> router, byKey |-> byKey]
  BY <1>0, <1>1, <1>2, Zenon DEF NewRoutedProxy
<1>. QED
  BY <1>3
=============================================================================
