----------------------------- MODULE MCCapture -----------------------------
(***************************************************************************)
(* A small instance of Capture: frames chosen for the edges of the parsers *)
(* and three expressions, of which one does not compile.                   *)
(***************************************************************************)
EXTENDS Capture, TLC

CONSTANTS q1, q2, good, better, bad

Frame(app, size) == [layers |-> {"TCP"}, src |-> 1024, dst |-> 8443, size |-> size, marks |-> {}, app |-> app]

Line(proper, padded, v) == [key |-> "host", proper |-> proper, padded |-> padded, val |-> v]
Host(v) == Line(TRUE, FALSE, v)
Http(verb, upper, url, lines) ==
  [kind |-> "http", verb |-> verb, upper |-> upper, url |-> url, lines |-> lines]

\* A host, one in the body too, one of another spelling before it, with blanks around the
\* key and one in the body; a URL with a host, a word in lower case, a response.
HttpFrames == {Frame(Http("get", TRUE, None, lines), 1) : lines \in {
  <<Host("a"), Blank, Host("b")>>, <<Line(FALSE, FALSE, "b"), Host("a")>>,
  <<Line(TRUE, TRUE, "a"), Blank, Host("b")>>}}
  \cup {Frame(Http("post", TRUE, "c", <<Host("a")>>), 2), Frame(Http("get", FALSE, None, <<Host("a")>>), 2),
         Frame(Http("http/", TRUE, None, <<Host("a")>>), 2)}

Hello(pre, name, n) == Frame([kind |-> "hello", pre |-> pre, name |-> name, rest |-> [i \in 1..n |-> 1]], 1)

\* "a.bcd" in a long ClientHello and in a short one, as near the end as it may be, and a
\* name whose length is printable, behind zeros further away and right before it.
Name  == <<97, 46, 98, 99, 100>>
Wide  == [i \in 1..32 |-> IF i = 3 THEN Dot ELSE 97]
Long  == <<22, 3, 1, 2, 9, 1, 1, 9>>
Short == <<22, 3, 1, 1, 9, 1, 0, 0, 9>>
HelloFrames == {Hello(pre, Name, 7) : pre \in {Long, Short}}
               \cup {Hello(pre, Wide, 0) : pre \in {Short, <<22, 3, 1, 1, 0>>}}

Card(digits) == [kind |-> "card", digits |-> digits]
\* Numbers of odd and of even length that pass the check, and do not.
CardFrames == {Frame(Card(<<4, 9, 0, 1, 2, 3, 4, 5, 6, 7, 8, 9, last>>), 1) : last \in {4, 5}}
  \cup {Frame(Card([i \in 1..16 |-> IF i = 1 THEN first ELSE 1]), 1) : first \in {4, 5}}

OtherFrames == {[layers |-> {"UDP", "DNS"}, src |-> 53, dst |-> 1024, size |-> 2, marks |-> {},
                 app |-> [kind |-> "dns", name |-> "a"]]}

AllFrames == HttpFrames \cup HelloFrames \cup CardFrames \cup OtherFrames
MCExprs == {good, better, bad}
MCValid == {good, better}
TwoRequests == {q1, q2}
AnyRequest  == Permutations(TwoRequests)
=============================================================================
