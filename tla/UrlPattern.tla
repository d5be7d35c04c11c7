----------------------------- MODULE UrlPattern -----------------------------
(***************************************************************************)
(* MatchPattern::matches (matcher/url_pattern.rs): a URL against a pattern *)
(* <scheme>://<host><path>.  The path is walked from left to right, each   *)
(* part between two stars being looked for where the part before it ended. *)
(***************************************************************************)
EXTENDS Integers, Sequences

CONSTANTS Chars, Dot,    \* characters; Dot separates the labels of a host
          Lower,         \* to_ascii_lowercase, character by character
          Urls, NoHost

Schemes     == {"http", "https", "file", "ftp", "urn", "chrome-extension", "data"}
AllSchemes  == {"http", "https", "file", "ftp", "urn"}
StarSchemes == {"http", "https"}

UrlType == [scheme : Schemes, host : Seq(Chars) \cup {NoHost}, path : Seq(Chars)]

\* The path of a URL includes its query.  The parts of a pattern's path are what
\* its stars separate.  A pattern for files has no host.
PatternType ==
  [scheme : Schemes \cup {"*", "<all_urls>"},
   host   : [kind : {"none", "any", "subdomains", "literal"}, name : Seq(Chars)],
   parts  : Seq(Seq(Chars)) \ {<<>>}]

ASSUME PatternAssumption ==
  /\ Urls \subseteq UrlType
  /\ Dot \in Chars /\ NoHost \notin Seq(Chars)
  /\ Lower \in [Chars -> Chars] /\ Lower[Dot] = Dot
  /\ \A c \in Chars : Lower[Lower[c]] = Lower[c]

VARIABLES pattern, url, at, part, pos
vars == <<pattern, url, at, part, pos>>

\* p is found in s right after its first k characters.
OccursAt(p, s, k) ==
  /\ k \in 0..(Len(s) - Len(p)) /\ \A j \in 1..Len(p) : s[k + j] = p[j]

StartsWith(s, p) == OccursAt(p, s, 0)
EndsWith(s, p)   == OccursAt(p, s, Len(s) - Len(p))

SchemeMatches(m, actual) == IF m = "*" THEN actual \in StarSchemes ELSE actual = m

Lowered(s) == [k \in DOMAIN s |-> Lower[s[k]]]

\* url::Url lowers the hosts of web schemes only: chrome-extension://ABC/ keeps its
\* capitals until the comparison.
HostMatches(m, actual) ==
  CASE m.kind = "none" -> actual \in {NoHost, <<>>}
    [] m.kind = "any" -> actual # NoHost
    [] m.kind = "subdomains" ->
         /\ actual # NoHost
         /\ Lowered(actual) = m.name \/ EndsWith(Lowered(actual), <<Dot>> \o m.name)
    [] m.kind = "literal" -> actual # NoHost /\ Lowered(actual) = Lowered(m.name)

-----------------------------------------------------------------------------

Init ==
  /\ pattern \in PatternType /\ url \in Urls
  /\ at = "scheme" /\ part = 1 /\ pos = 0

Decide(b) == at' = (IF b THEN "yes" ELSE "no") /\ UNCHANGED <<pattern, url, part, pos>>
GoOn(b, l) == at' = (IF b THEN l ELSE "no") /\ UNCHANGED <<pattern, url, part, pos>>

Parts == pattern.parts

MatchAllUrls ==
  /\ at = "scheme" /\ pattern.scheme = "<all_urls>"
  /\ Decide(url.scheme \in AllSchemes)

MatchScheme ==
  /\ at = "scheme" /\ pattern.scheme # "<all_urls>"
  /\ GoOn(SchemeMatches(pattern.scheme, url.scheme), "host")

MatchHost == at = "host" /\ GoOn(HostMatches(pattern.host, url.host), "path")

\* Without a star the path must be the pattern's.
MatchExact ==
  /\ at = "path" /\ Len(Parts) = 1
  /\ Decide(Parts[1] = url.path)

MatchFirst ==
  /\ at = "path" /\ Len(Parts) > 1
  /\ IF StartsWith(url.path, Parts[1])
     THEN at' = "walk" /\ part' = 2 /\ pos' = Len(Parts[1])
     ELSE at' = "no" /\ UNCHANGED <<part, pos>>
  /\ UNCHANGED <<pattern, url>>

Finds(k) == k >= pos /\ OccursAt(Parts[part], url.path, k)

\* The leftmost place at or after pos; an empty part (two stars) is found at pos.
FindNext ==
  /\ at = "walk" /\ part < Len(Parts)
  /\ \/ \E k \in 0..Len(url.path) :
          /\ Finds(k) /\ \A j \in 0..(k - 1) : ~Finds(j)
          /\ pos' = k + Len(Parts[part]) /\ part' = part + 1 /\ UNCHANGED at
     \/ /\ \A k \in 0..Len(url.path) : ~Finds(k)
        /\ at' = "no" /\ UNCHANGED <<part, pos>>
  /\ UNCHANGED <<pattern, url>>

\* Mutant: the last part may overlap what was found before it.
LastAnywhere ==
  /\ at = "walk" /\ part = Len(Parts)
  /\ Decide(EndsWith(url.path, Parts[part]))

MatchLast ==
  /\ at = "walk" /\ part = Len(Parts)
  /\ Decide(EndsWith(SubSeq(url.path, pos + 1, Len(url.path)), Parts[part]))

Next ==
  MatchAllUrls \/ MatchScheme \/ MatchHost \/ MatchExact \/ MatchFirst \/ FindNext \/ MatchLast

Spec == Init /\ [][Next]_vars

-----------------------------------------------------------------------------
(* What a pattern means, without an order in which to look at it. *)

Places(n, s) == [1..n -> 0..Len(s)]

\* The parts lie in the path one behind the other, from its start to its end.
PathDenotes(parts, s) ==
  \E f \in Places(Len(parts), s) :
    /\ f[1] = 0 /\ f[Len(parts)] + Len(parts[Len(parts)]) = Len(s)
    /\ \A n \in DOMAIN parts : OccursAt(parts[n], s, f[n])
    /\ \A n \in 1..(Len(parts) - 1) : f[n] + Len(parts[n]) <= f[n + 1]

\* A host and the domains above it: the host itself, or what follows a dot in it.
UnderDomain(h, d) ==
  \E k \in 0..Len(h) : k + Len(d) = Len(h) /\ OccursAt(d, h, k) /\ (k = 0 \/ h[k] = Dot)

\* The same name, whatever the case of its letters.
SameName(g, h) == Len(g) = Len(h) /\ \A k \in 1..Len(g) : Lower[g[k]] = Lower[h[k]]

HostDenotes(m, h) ==
  CASE m.kind = "none" -> h = NoHost \/ h = <<>>
    [] m.kind = "any" -> h # NoHost
    [] m.kind = "subdomains" -> h # NoHost /\ UnderDomain(Lowered(h), m.name)
    [] m.kind = "literal" -> h # NoHost /\ SameName(h, m.name)

Denotes(p, u) ==
  IF p.scheme = "<all_urls>" THEN u.scheme \in AllSchemes
  ELSE /\ IF p.scheme = "*" THEN u.scheme \in StarSchemes ELSE u.scheme = p.scheme
       /\ HostDenotes(p.host, u.host) /\ PathDenotes(p.parts, u.path)

\* Every variable holds a value of its type, and the walk stays in the path.
TypeOK ==
  /\ pattern \in PatternType /\ url \in Urls
  /\ at \in {"scheme", "host", "path", "walk", "yes", "no"}
  /\ part \in 1..Len(Parts) /\ pos \in 0..Len(url.path)

\* Looking for each part at its leftmost place, and never looking back, decides
\* what the pattern means: no other choice of places could have matched.
Verdict == at \in {"yes", "no"} => (at = "yes" <=> Denotes(pattern, url))
=============================================================================
