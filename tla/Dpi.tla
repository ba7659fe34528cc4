--------------------------------- MODULE Dpi ---------------------------------
(***************************************************************************)
(* What packages capture and dpi read out of a frame.  A frame is          *)
(*   [layers, src, dst, size, marks, app]                                  *)
(* with the layers found in it, its ports, its length, which of the        *)
(* strings looked for its payload contains, and the payload:               *)
(*   [kind |-> "http", verb, upper, url, lines]                            *)
(*                                        the first word in lower case and *)
(*                                        whether it was in capitals, the  *)
(*                                        host in an absolute URL, and the *)
(*                                        lines behind the first           *)
(*   [kind |-> "dns", name]               the first question               *)
(*   [kind |-> "hello", pre, name, rest]  a ClientHello, see below, on a   *)
(*                                        port gopacket does not decode    *)
(*   [kind |-> "card", digits]            a number like that of a card     *)
(*   [kind |-> "none"]                                                     *)
(* A line of HTTP is [key, proper, padded, val]: what is before its colon, *)
(* in lower case and without the blanks around it, whether it is spelled   *)
(* with its first letter alone a capital, whether there are blanks around  *)
(* it, and what is behind the colon.  The empty line is Blank.  None is    *)
(* what a field holds that is left empty.                                  *)
(***************************************************************************)
EXTENDS Integers, Sequences, FiniteSetsExt

None  == "none"
Blank == [key |-> "", proper |-> FALSE, padded |-> FALSE, val |-> ""]

-----------------------------------------------------------------------------
(* HTTP *)

\* What parseHTTP takes for HTTP, in capitals; the last one is a response.
Verbs == {"get", "post", "put", "delete", "http/"}

\* The lines before the first empty one.
Heading(lines) ==
  LET blanks == {i \in DOMAIN lines : lines[i] = Blank}
  IN  IF blanks = {} THEN lines ELSE SubSeq(lines, 1, Min(blanks) - 1)

\* The lines with a host, in any spelling.
HostLines(lines) == {i \in DOMAIN lines : lines[i].key = "host"}

\* HTTPHost: of the absolute URL of a request, else of the last line of the head whose
\* key, without blanks, is "Host".
HttpHost(p) ==
  LET head  == Heading(p.lines)
      hosts == {i \in HostLines(head) : head[i].proper}
  IN  IF ~p.upper \/ p.verb \notin Verbs THEN None
      ELSE IF p.verb # "http/" /\ p.url # None THEN p.url
      ELSE IF hosts = {} THEN None ELSE head[Max(hosts)].val

\* The lines that start with "host:", in any spelling, wherever they are.
HostPrefixed(p) == {i \in HostLines(p.lines) : ~p.lines[i].padded}

\* Variant: the search goes on behind the first such line.
DomainOfLast(p) ==
  IF p.verb \notin {"get", "post"} \/ HostPrefixed(p) = {} THEN None
  ELSE p.lines[Max(HostPrefixed(p))].val

\* Domain of the threat intel: of the first of them.
DomainOf(p) ==
  IF p.verb \notin {"get", "post"} \/ HostPrefixed(p) = {} THEN None
  ELSE p.lines[Min(HostPrefixed(p))].val

-----------------------------------------------------------------------------
(* TLS: payloads are sequences of byte values *)

\* External, RFC 8446 and 6066: the server name, of less than 250 bytes, between what
\* precedes its extension and what follows it.
ClientHello(p) ==
  LET n == Len(p.name)
  IN  p.pre \o <<0, 0, 0, n + 5, 0, n + 3, 0, 0, n>> \o p.name \o p.rest

Printable(b) == b \in 32..126
Dot == 46

\* The printable bytes from i on.
Word(b, i) ==
  LET stops == {j \in i..Len(b) : ~Printable(b[j])}
  IN  SubSeq(b, i, IF stops = {} THEN Len(b) ELSE Min(stops) - 1)

IsName(w) == Len(w) > 3 /\ Len(w) < 253 /\ \E i \in DOMAIN w : w[i] = Dot

ZeroPairs(b) == {i \in 1..Len(b) - 1 : b[i] = 0 /\ b[i + 1] = 0}

\* Variant: the search starts further behind.
StartsLate(b) == Min(ZeroPairs(b)) + 11 .. Len(b) - 10

\* Where parseTLS looks for a name: from some bytes behind the first pair of zeros, which
\* it takes for the type of the extension, to some before the end.
Starts(b) == Min(ZeroPairs(b)) + 10 .. Len(b) - 10

\* The payload starts with 0x16, the pair of zeros does not.
Sni(b) ==
  LET names == {i \in Starts(b) : IsName(Word(b, i))}
  IN  IF Len(b) < 5 \/ b[1] # 22 \/ ZeroPairs(b) = {} \/ names = {} THEN <<>>
      ELSE Word(b, Min(names))

-----------------------------------------------------------------------------
(* Numbers of cards: sequences of digits *)

\* Variant: every second one from the left is doubled.
WeightFromLeft(card, i) ==
  IF i % 2 = 0 THEN card[i]
  ELSE IF card[i] > 4 THEN 2 * card[i] - 9 ELSE 2 * card[i]

\* What isValidCC counts a digit for: every second one from the right is doubled.
Weight(card, i) ==
  IF (Len(card) - i) % 2 = 0 THEN card[i]
  ELSE IF card[i] > 4 THEN 2 * card[i] - 9 ELSE 2 * card[i]

Weights(card) == [i \in DOMAIN card |-> Weight(card, i)]

CheckSum(weights) == MapThenSumSet(LAMBDA i : weights[i], DOMAIN weights)

ValidCC(card) == Len(card) \in 13..19 /\ CheckSum(Weights(card)) % 10 = 0

\* The pattern finds a run of digits of these lengths, and no part of a longer one.
Found(card) == Len(card) \in 13..16

\* What is shown of a card.
Masked(card) == SubSeq(card, Len(card) - 3, Len(card))

-----------------------------------------------------------------------------
(* The packet made of a frame *)

NoDpi == [host |-> None, query |-> None, sni |-> <<>>, card |-> <<>>]

\* dpi.Inspect.  Without TCP nothing is taken for TLS.
Inspect(f) ==
  [host  |-> IF f.app.kind = "http" THEN HttpHost(f.app) ELSE None,
   query |-> IF f.app.kind = "dns" THEN f.app.name ELSE None,
   sni   |-> IF f.app.kind = "hello" /\ "TCP" \in f.layers THEN Sni(ClientHello(f.app)) ELSE <<>>,
   card  |-> IF f.app.kind = "card" /\ Found(f.app.digits) /\ ValidCC(f.app.digits)
             THEN Masked(f.app.digits) ELSE <<>>]

Proto(f) ==
  IF "TCP" \in f.layers /\ 80 \in {f.src, f.dst} THEN "HTTP"
  ELSE IF "DNS" \in f.layers THEN "DNS" ELSE IF "UDP" \in f.layers THEN "UDP"
  ELSE IF "ICMP" \in f.layers THEN "ICMP" ELSE "TCP"

\* calculateThreatSeverity
Severity(f) ==
  IF "injection" \in f.marks THEN "Critical"
  ELSE IF "TCP" \in f.layers /\ f.dst \in {21, 23, 139, 445} THEN "High"
  ELSE IF "scanner" \in f.marks THEN "High"
  ELSE IF f.app.kind = "http" /\ f.app.verb = "get" /\ "long" \in f.marks THEN "Medium"
  ELSE "Low"

NoIntel == [domain |-> None, severity |-> None]

Intel(f) == [domain   |-> IF f.app.kind = "http" THEN DomainOf(f.app)
                          ELSE IF f.app.kind = "dns" THEN f.app.name ELSE None,
             severity |-> Severity(f)]

\* parseAdvancedPacket: the flag is drawn, a flagged packet looked into, and the flag
\* drawn again.
Parse(f, drawn, again) ==
  [proto |-> Proto(f), flagged |-> again, dpi |-> Inspect(f),
   intel |-> IF drawn THEN Intel(f) ELSE NoIntel]
=============================================================================
