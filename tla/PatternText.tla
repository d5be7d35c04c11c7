---------------------------- MODULE PatternText ----------------------------
(***************************************************************************)
(* MatchPattern::parse (matcher/url_pattern.rs): the text of a pattern is  *)
(* split at its first "://", at the first slash behind that, and its path  *)
(* at every star; the hosts a pattern may name are few.  UrlPattern takes  *)
(* the result to a URL.                                                    *)
(***************************************************************************)
EXTENDS UrlPattern, FiniteSets

CONSTANTS Texts, Slash, Star, Colon

\* What stands before the first "://" (if the text has one) and behind it.
TextType == [scheme : STRING, sep : BOOLEAN, rest : Seq(Chars)]

\* Nothing but a star is lowered to a star.
ASSUME TextAssumption ==
  /\ Texts \subseteq TextType
  /\ {Slash, Star, Colon} \subseteq Chars /\ Star # Dot
  /\ \A c \in Chars : Lower[c] = Star <=> c = Star

AllUrls == [scheme |-> "<all_urls>", sep |-> FALSE, rest |-> <<>>]

Host(k, name) == [kind |-> k, name |-> name]
NoName  == Host("none", <<>>)
BadHost == Host("malformed", <<>>)
Refused == [scheme |-> "malformed", host |-> BadHost, parts |-> <<<<>>>>]

In(c, s) == \E k \in DOMAIN s : s[k] = c
\* One scheme in capitals stands for all of them.
LowerWord(w) == IF w = "HTTP" THEN "http" ELSE w

SlashAt(s) == CHOOSE k \in DOMAIN s : s[k] = Slash /\ \A j \in 1..(k - 1) : s[j] # Slash
HostText(t) == SubSeq(t.rest, 1, SlashAt(t.rest) - 1)
PathText(t) == SubSeq(t.rest, SlashAt(t.rest), Len(t.rest))

SchemeAccepted(w) == LowerWord(w) \in Schemes \cup {"*"}

\* file, data and urn have no host; a star for it is let through.
EmptyHost(raw) == IF raw \in {<<>>, <<Star>>} THEN NoName ELSE BadHost

ParseHost(raw) ==
  LET suffix == SubSeq(raw, 3, Len(raw)) IN
  IF raw = <<>> \/ In(Colon, raw) THEN BadHost
  ELSE CASE raw = <<Star>> -> Host("any", <<>>)
         [] StartsWith(raw, <<Star, Dot>>) ->
              IF suffix = <<>> \/ In(Star, suffix) THEN BadHost
              ELSE Host("subdomains", Lowered(suffix))
         [] OTHER -> IF In(Star, raw) THEN BadHost ELSE Host("literal", Lowered(raw))

\* Mutant: split_once, as if a path had one star at most.
SplitOnce(raw) ==
  IF ~In(Star, raw) THEN <<raw>>
  ELSE LET k == CHOOSE k \in DOMAIN raw :
                  raw[k] = Star /\ \A j \in 1..(k - 1) : raw[j] # Star
       IN <<SubSeq(raw, 1, k - 1), SubSeq(raw, k + 1, Len(raw))>>

\* split('*'): what lies between each star and the next, one star being thought
\* in front of the text and one behind it.
StarsUpTo(raw, k) == Cardinality({j \in 1..k : raw[j] = Star})
StarAt(raw, n) ==
  IF n = 0 THEN 0
  ELSE IF n > StarsUpTo(raw, Len(raw)) THEN Len(raw) + 1
  ELSE CHOOSE k \in DOMAIN raw : raw[k] = Star /\ StarsUpTo(raw, k) = n
Piece(raw, n) == SubSeq(raw, StarAt(raw, n) + 1, StarAt(raw, n + 1) - 1)
ParsePath(raw) == [n \in 1..(StarsUpTo(raw, Len(raw)) + 1) |-> Piece(raw, n - 1)]

Parse(t) ==
  IF t = AllUrls
  THEN [scheme |-> "<all_urls>", host |-> NoName, parts |-> <<<<>>>>]
  ELSE IF ~t.sep \/ ~SchemeAccepted(t.scheme) \/ ~In(Slash, t.rest) THEN Refused
  ELSE LET scheme == LowerWord(t.scheme)
           host   == IF scheme \in {"file", "data", "urn"} THEN EmptyHost(HostText(t))
                     ELSE ParseHost(HostText(t))
       IN IF host = BadHost THEN Refused
          ELSE [scheme |-> scheme, host |-> host, parts |-> ParsePath(PathText(t))]

-----------------------------------------------------------------------------
(* What a text means to the extension's author: the documentation's grammar *)
(* read character by character, a star standing for any characters at all.  *)

\* The texts the grammar has: no port, and a star in a host only for the whole of
\* it or in front of a dot and a name.
WellFormed(t) ==
  \/ t = AllUrls
  \/ /\ t.sep /\ LowerWord(t.scheme) \in Schemes \cup {"*"} /\ In(Slash, t.rest)
     /\ LET h == HostText(t) IN
        IF LowerWord(t.scheme) \in {"file", "data", "urn"} THEN h = <<>> \/ h = <<Star>>
        ELSE /\ h # <<>> /\ ~In(Colon, h)
             /\ \A k \in 1..Len(h) :
                  h[k] = Star => k = 1 /\ (Len(h) = 1 \/ (Len(h) > 2 /\ h[2] = Dot))

\* For how many characters of s the first i of the pattern can stand.
Stands(p, s) ==
  LET stands[i \in 0..Len(p)] ==
        IF i = 0 THEN {0}
        ELSE {j \in 0..Len(s) : IF p[i] = Star THEN \E k \in stands[i - 1] : k <= j
                               ELSE j > 0 /\ s[j] = p[i] /\ j - 1 \in stands[i - 1]}
  IN stands
Glob(p, s) == Len(s) \in Stands(p, s)[Len(p)]

\* Letters in a host have no case, and a leading star and dot may also stand for
\* nothing at all.
HostGlob(p, h) ==
  \/ Glob(Lowered(p), h)
  \/ StartsWith(p, <<Star, Dot>>) /\ Glob(Lowered(SubSeq(p, 3, Len(p))), h)

Means(t, u) ==
  \/ t = AllUrls /\ u.scheme \in AllSchemes
  \/ /\ t # AllUrls
     /\ IF t.scheme = "*" THEN u.scheme \in StarSchemes ELSE u.scheme = LowerWord(t.scheme)
     /\ IF t.scheme \in {"file", "data", "urn"} THEN u.host \in {NoHost, <<>>}
        ELSE u.host # NoHost /\ HostGlob(HostText(t), Lowered(u.host))
     /\ Glob(PathText(t), u.path)

-----------------------------------------------------------------------------
(* UrlPattern, from the texts of its patterns.  A text that is refused leaves no *)
(* pattern to take to a URL.                                                     *)

VARIABLE text

TextInit ==
  /\ text \in Texts /\ pattern = Parse(text) /\ url \in Urls
  /\ at = (IF pattern = Refused THEN "refused" ELSE "scheme") /\ part = 1 /\ pos = 0

TextSpec == TextInit /\ [][Next /\ UNCHANGED text]_<<vars, text>>

\* The texts that are refused are those the grammar does not have, and the verdict
\* of every other one on a URL is what the text says, whatever it was split into:
\* no star is lost, no case and no piece of the path.
TextVerdict ==
  /\ at = "refused" <=> ~WellFormed(text)
  /\ at \in {"yes", "no"} => (at = "yes" <=> Means(text, url))
=============================================================================
