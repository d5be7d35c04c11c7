---------------------------- MODULE MCUrlPattern ----------------------------
(* Small instances of PatternText and UrlPattern for TLC. *)
EXTENDS PatternText
CONSTANTS a, b, A

Words(S, n) == UNION {[1..m -> S] : m \in 0..n}
Letters == {a, b}
Upper == [c \in Chars |-> IF c = A THEN a ELSE c]
Text(scheme, host, path) ==
  [scheme |-> scheme, sep |-> TRUE, rest |-> host \o <<Slash>> \o path]

\* Every path pattern, every host and every scheme, well formed or not.
SomeTexts ==
  {Text("*", <<Star>>, w) : w \in Words({a, b, Star}, 5)}
  \cup {Text(s, h, <<Star>>) : s \in {"https", "file", "chrome-extension"},
                                h \in Words({a, A, Star, Dot, Colon}, 3)}
  \cup {Text("*", <<Star, Dot>> \o h, <<Star>>) : h \in Words({a, Dot, b}, 3)}
  \cup {Text(s, <<Star>>, <<Star>>) : s \in {"HTTP", "file", "data", "gopher", ""}}
  \cup {AllUrls, [AllUrls EXCEPT !.scheme = "http"], [Text("http", <<>>, <<>>) EXCEPT !.rest = <<a>>]}

Path(w) == <<Slash>> \o w
SomeUrls ==
  {[scheme |-> "http", host |-> <<a>>, path |-> Path(w)] : w \in Words(Letters, 4)}
  \cup {[scheme |-> "https", host |-> h, path |-> Path(<<a>>)] :
     h \in (Words({a, b, Dot}, 3) \ {<<>>}) \cup {<<b, Dot, a, Dot, b>>, <<b, a, Dot, b>>}}
  \cup {[scheme |-> "chrome-extension", host |-> h, path |-> Path(<<>>)] :
     h \in Words({a, A, Dot}, 3)}
  \cup {[scheme |-> "file", host |-> h, path |-> Path(<<a>>)] : h \in {NoHost, <<a>>}}
  \cup {[scheme |-> "data", host |-> NoHost, path |-> <<a>>]}
=============================================================================
