--------------------------- MODULE WildcardDomains ---------------------------
(***************************************************************************)
(* The domains of ProxyAuth rules: in what order they are tried and what   *)
(* they match (shared/url.ts, db/proxyAuth.ts).  A domain is the parts of  *)
(* its host name, its port and the parts of its path, each a sequence of   *)
(* characters, of which a star matches any text, dots and slashes too.     *)
(***************************************************************************)
EXTENDS Integers, FiniteSets, SequencesExt

CONSTANTS
  DomainInputs,        \* what administrators enter: [host, port, path]
  Collation,           \* the characters, in the order localeCompare has them
  ListBound            \* how many rules there may be

VARIABLE tried         \* the domains of the rules, in the order they are tried

Star == "*"

(* urlFromWildcardDomain, and formatWildcardDomain before a rule is saved: *)
(* a path that ends in a slash covers what is below it.                    *)
urlFromWildcardDomain(input) ==
  [input EXCEPT !.path = IF Last(@) = <<>> THEN ReplaceAt(@, Len(@), <<Star>>) ELSE @]

before(separator, parts) == FlattenSeq([i \in DOMAIN parts |-> <<separator>> \o parts[i]])

(* What is stored of a domain, and formatProxyAuthDomain of it.            *)
href(d) ==
  Tail(before(".", d.host)) \o (IF d.port = <<>> THEN <<>> ELSE <<":">> \o d.port)
    \o before("/", d.path)

formatProxyAuthDomain(d) ==
  href([d EXCEPT !.port = IF @ = <<>> THEN <<Star>> ELSE @])

(* isMatch: the places of the pattern that are reached, character by       *)
(* character of the text.                                                  *)
isMatch(text, pattern) ==
  LET beyondStars(places) ==
        {q \in 1..(Len(pattern) + 1) :
           \E p \in places : p <= q /\ \A i \in p..(q - 1) : pattern[i] = Star}
      step(places, c) ==
        beyondStars({p \in places : p <= Len(pattern) /\ pattern[p] = Star}
                      \cup {p + 1 : p \in {p \in places : p <= Len(pattern) /\ pattern[p] = c}})
  IN Len(pattern) + 1 \in FoldLeft(step, beyondStars({1}), text)

-----------------------------------------------------------------------------
(* Comparisons are negative where the first is to come first.              *)
firstDecision(results) ==
  LET i == SelectInSeq(results, LAMBDA r : r # 0) IN IF i = 0 THEN 0 ELSE results[i]

stars(part) == Cardinality({i \in DOMAIN part : part[i] = Star})
wildParts(parts) == Cardinality({i \in DOMAIN parts : stars(parts[i]) > 0})

(* Mistaken: of two parts with as many stars the shorter comes first.      *)
partByPartShortest(a, b) ==
  FlattenSeq([i \in DOMAIN a |->
                IF stars(a[i]) + stars(b[i]) = 0 THEN <<>>
                ELSE <<stars(b[i]) - stars(a[i]), Len(a[i]) - Len(b[i])>>])

(* The first part that has more stars, or is longer, comes first.          *)
partByPart(a, b) ==
  FlattenSeq([i \in DOMAIN a |->
                IF stars(a[i]) + stars(b[i]) = 0 THEN <<>>
                ELSE <<stars(b[i]) - stars(a[i]), Len(b[i]) - Len(a[i])>>])

sortWildcardParts(a, b) ==
  IF Len(a) # Len(b) THEN Len(b) - Len(a)
  ELSE firstDecision(<<wildParts(a) - wildParts(b)>> \o partByPart(a, b))

stringCompare(a, b) ==
  LET place(c) == SelectInSeq(Collation, LAMBDA x : x = c)
      shorter == IF Len(a) < Len(b) THEN Len(a) ELSE Len(b)
  IN firstDecision([i \in 1..shorter |-> place(a[i]) - place(b[i])] \o <<Len(a) - Len(b)>>)

sortWildcardDomains(a, b) ==
  LET nonEmpty(parts) == SelectSeq(parts, LAMBDA part : part # <<>>)
      ports(d) == <<IF d.port = <<>> THEN <<Star>> ELSE d.port>>
  IN firstDecision(
       <<sortWildcardParts(Reverse(nonEmpty(a.host)), Reverse(nonEmpty(b.host))),
         sortWildcardParts(ports(a), ports(b)),
         sortWildcardParts(nonEmpty(a.path), nonEmpty(b.path)),
         stringCompare(href(b), href(a))>>)

-----------------------------------------------------------------------------
DomainsInit == tried = <<>>

(* A rule is saved for a domain that has none yet, and takes its place in  *)
(* what getProxyAuths returns.                                             *)
DomainAdded(input) ==
  LET d == urlFromWildcardDomain(input)
  IN /\ Len(tried) < ListBound /\ d \notin ToSet(tried)
     /\ tried' = SortSeq(Append(tried, d), LAMBDA a, b : sortWildcardDomains(a, b) < 0)

DomainsNext == \E input \in DomainInputs : DomainAdded(input)

-----------------------------------------------------------------------------
(* Every URL the second covers, the first covers as well: a star of the    *)
(* second is matched by a star of the first only.                          *)
covers(a, b) == isMatch(formatProxyAuthDomain(b), formatProxyAuthDomain(a))

(***************************************************************************)
(* Rules are tried from the most specific to the least specific            *)
(* (docs/ProxyAuth-and-Trusted-Header-SSO-Setup.md:340): of two of which   *)
(* one covers all that the other does and more, the other is tried first,  *)
(* so that no rule is out of use (sortWildcardDomains).  For domains with  *)
(* one star in a part at most: a*b*.c is tried before a*bd.c.              *)
(***************************************************************************)
SpecificFirst ==
  \A i \in DOMAIN tried : \A j \in (i + 1)..Len(tried) :
    covers(tried[i], tried[j]) => covers(tried[j], tried[i])
=============================================================================
