--------------------------- MODULE HTTPProxyProofs ---------------------------
(***************************************************************************)
(* Proofs about HTTPProxy, for every number of connections, however the     *)
(* reads and writes are cut and whatever the server answers.                *)
(***************************************************************************)
EXTENDS HTTPProxy, ListLemmas

Kinds == {"ptHTTP", "ptSOCKS5"}
Words == {"version", "one method", "no password", "connect", "host", "port", "request", "reply", "its end",
          "5", "granted", "refused", "expired", "0", "address"}
Statuses == {"csConnected", "csRequestReady", "csRequestSent", "csWaitReply", "csReplyOk", "csReplyError"}
Reasons == {"reused", "closed", "hangup", "full", "cut", "handshake", "error", "garbage", "timeout", "refused", "expired"}

Piece == [text : Words, tls : BOOLEAN]
ProxyRec == [kind : Kinds, type : Kinds, active : BOOLEAN, ssl : BOOLEAN, https : BOOLEAN]
TunnelRec == [open : BOOLEAN, status : Statuses, out : Seq(Words), read : Seq(Words), graceful : BOOLEAN,
              tls : BOOLEAN]
RelayRec == [open : BOOLEAN, stage : {"methods", "connect", "tunnel", "closed"}]
TrafficRec == [requests : Nat, heard : Seq(Piece), forwarded : Seq(Piece), replies : Nat, answers : Nat,
               why : SUBSET Reasons]

TypeOK ==
  /\ proxy \in ProxyRec /\ tunnel \in TunnelRec /\ tunnelPc \in {"wait", "write"}
  /\ downstream \in Seq(Words) /\ upstream \in Seq(Piece)
  /\ relay \in RelayRec /\ dials \in Nat /\ traffic \in TrafficRec

\* The part of s behind its first a elements and up to the b-th
Part(s, a, b) == [i \in 1 .. b - a |-> s[a + i]]

Dialogue == Marked(Methods \o ConnectTo, FALSE)
Led(why) == why \cap {"cut", "expired", "reused"} # {}

\* A request is made once, and not before the dialogue with a SOCKS5 server is over; TLS begins with it.
Once(p, c, t) ==
  /\ t.requests <= 1
  /\ p.type = "ptSOCKS5" => t.requests = 0 /\ ~c.tls
  /\ p.kind = "ptHTTP" => p.type = "ptHTTP" /\ ~c.tls

\* What has been passed on, whether or not the connection is still there
Kept(p, stage, t) ==
  /\ IsPrefix(t.forwarded, Marked(Request, p.kind = "ptSOCKS5" /\ p.https))
  /\ IsPrefix(t.heard, Dialogue)
  /\ t.answers <= t.replies
  /\ stage # "tunnel" /\ p.kind = "ptSOCKS5" => t.requests = 0

Granted == <<"5", "granted">>
Opened == <<"5", "granted", "0", "address">>
Denials == {<<"5", "refused">>, <<"5", "refused", "0", "address">>}

\* The dialogue with a SOCKS5 server: what the server has heard, what is on its way to it and what is still to be
\* written is, together, what has been said so far.
Talks(c, up, down, stage, t) ==
  /\ t.forwarded = <<>> /\ t.replies = 0 /\ t.answers = 0 /\ c.read = <<>> /\ c.status = "csConnected"
  /\ \/ /\ stage = "methods" /\ t.heard = <<>> /\ up = Part(Dialogue, 0, 3) /\ c.out = <<>> /\ down = <<>>
     \/ /\ stage = "connect" /\ t.heard = Part(Dialogue, 0, 3) /\ up = <<>> /\ c.out = <<>> /\ down = Granted
     \/ /\ stage = "connect" /\ t.heard = Part(Dialogue, 0, 3) /\ down = <<>>
        /\ \E b \in 3 .. 6 : up = Part(Dialogue, 3, b) /\ c.out = Part(Methods \o ConnectTo, b, 6)
     \/ /\ stage = "tunnel" /\ t.heard = Dialogue /\ up = <<>> /\ c.out = <<>> /\ down = Opened
     \/ /\ stage = "closed" /\ t.heard \in {Part(Dialogue, 0, 3), Dialogue} /\ up = <<>> /\ c.out = <<>>
        /\ down \in Denials \cup {<<>>} /\ "refused" \in t.why

\* The request, and the reply to it: both are passed on in parts.
Asks(c, up, down, t, tls) ==
  /\ t.requests = 1 /\ t.answers = 0 /\ c.tls = tls
  /\ \E a, b \in 0 .. 2 :
       /\ a <= b /\ t.forwarded = Part(Marked(Request, tls), 0, a)
       /\ up = Part(Marked(Request, tls), a, b) /\ c.out = Part(Request, b, 2)
       /\ \/ t.replies = 0 /\ c.read = <<>> /\ down = <<>>
          \/ /\ t.replies = 1 /\ a = 2
             /\ \E x \in 0 .. 1 : c.read = Part(Reply, 0, x) /\ down = Part(Reply, x, 2)

\* No request was made, as TLS could not be begun.
Fails(c, up, down, t) ==
  /\ t.requests = 0 /\ t.answers = 0 /\ t.replies = 0 /\ t.forwarded = <<>> /\ "handshake" \in t.why
  /\ up = <<>> /\ down = <<>> /\ c.out = <<>> /\ c.read = <<>> /\ c.status = "csConnected"

Goes(p, c, up, down, stage, t) ==
  IF p.type = "ptSOCKS5" THEN Talks(c, up, down, stage, t)
  ELSE /\ p.kind = "ptSOCKS5" => stage = "tunnel" /\ t.heard = Dialogue
       /\ p.kind = "ptHTTP" => stage = "methods" /\ t.heard = <<>>
       /\ \/ Asks(c, up, down, t, p.kind = "ptSOCKS5" /\ p.https)
          \/ p.kind = "ptSOCKS5" /\ Fails(c, up, down, t)

Fine(p, c, up, down, stage, t) ==
  /\ Once(p, c, t)
  /\ ~Led(t.why) => Kept(p, stage, t) /\ (c.open => Goes(p, c, up, down, stage, t))
  /\ ~c.open => up = <<>>
  /\ c.open => p.active

IndInv == TypeOK /\ Fine(proxy, tunnel, upstream, downstream, relay.stage, traffic)

-----------------------------------------------------------------------------
(* Parts of sequences *)

LEMMA PartIsSeq ==
  ASSUME NEW S, NEW s \in Seq(S), NEW a \in Nat, NEW b \in Nat, a <= b, b <= Len(s)
  PROVE  /\ Part(s, a, b) \in Seq(S) /\ Len(Part(s, a, b)) = b - a
         /\ \A i \in 1 .. b - a : Part(s, a, b)[i] = s[a + i]
<1>0. Len(s) \in Nat /\ b - a \in Nat OBVIOUS
<1>1. \A i \in 1 .. b - a : a + i \in 1 .. Len(s) BY <1>0
<1>2. \A i \in 1 .. b - a : s[a + i] \in S BY <1>1, ElementOfSeq
<1>3. Part(s, a, b) \in [1 .. b - a -> S] BY <1>2 DEF Part
<1> QED BY <1>0, <1>3 DEF Part

LEMMA PartsOfPart ==
  ASSUME NEW S, NEW s \in Seq(S), NEW a \in Nat, NEW b \in Nat, a <= b, b <= Len(s),
         NEW n \in Nat, n <= b - a
  PROVE  /\ SubSeq(Part(s, a, b), 1, n) = Part(s, a, a + n)
         /\ SubSeq(Part(s, a, b), n + 1, b - a) = Part(s, a + n, b)
<1> PICK p : p = Part(s, a, b) OBVIOUS
<1>1. p \in Seq(S) /\ Len(p) = b - a /\ \A i \in 1 .. b - a : p[i] = s[a + i] BY PartIsSeq
<1>2. SubSeq(p, 1, n) = Part(s, a, a + n)
  <2>1. /\ Part(s, a, a + n) \in Seq(S) /\ Len(Part(s, a, a + n)) = n
        /\ \A i \in 1 .. n : Part(s, a, a + n)[i] = s[a + i]
    <3>p. PICK m : m = a + n OBVIOUS
    <3>1. m \in Nat /\ a <= m /\ m <= Len(s) /\ m - a = n BY <3>p
    <3>2. /\ Part(s, a, m) \in Seq(S) /\ Len(Part(s, a, m)) = m - a
          /\ \A i \in 1 .. m - a : Part(s, a, m)[i] = s[a + i]
      BY <3>1, PartIsSeq
    <3> QED BY <3>p, <3>1, <3>2
  <2>2. /\ SubSeq(p, 1, n) \in Seq(S) /\ Len(SubSeq(p, 1, n)) = n
        /\ \A i \in 1 .. n : SubSeq(p, 1, n)[i] = p[i]
    BY <1>1
  <2>3. \A i \in 1 .. n : SubSeq(p, 1, n)[i] = Part(s, a, a + n)[i] BY <1>1, <2>1, <2>2
  <2> QED BY <2>1, <2>2, <2>3, SeqEqual
<1>3. SubSeq(p, n + 1, b - a) = Part(s, a + n, b)
  <2>1. /\ Part(s, a + n, b) \in Seq(S) /\ Len(Part(s, a + n, b)) = b - a - n
        /\ \A i \in 1 .. b - a - n : Part(s, a + n, b)[i] = s[a + n + i]
    <3>p. PICK m : m = a + n OBVIOUS
    <3>1. m \in Nat /\ m <= b /\ b - m = b - a - n BY <3>p
    <3>2. /\ Part(s, m, b) \in Seq(S) /\ Len(Part(s, m, b)) = b - m
          /\ \A i \in 1 .. b - m : Part(s, m, b)[i] = s[m + i]
      BY <3>1, PartIsSeq
    <3> QED BY <3>p, <3>1, <3>2
  <2>2. /\ SubSeq(p, n + 1, b - a) \in Seq(S) /\ Len(SubSeq(p, n + 1, b - a)) = b - a - n
        /\ \A i \in 1 .. b - a - n : SubSeq(p, n + 1, b - a)[i] = p[n + i]
    BY SMTT(30), <1>1
  <2>3. \A i \in 1 .. b - a - n : SubSeq(p, n + 1, b - a)[i] = Part(s, a + n, b)[i]
    <3> TAKE i \in 1 .. b - a - n
    <3>1. n + i \in 1 .. b - a /\ a + (n + i) = a + n + i OBVIOUS
    <3> QED BY <1>1, <2>1, <2>2, <3>1
  <2> QED BY <2>1, <2>2, <2>3, SeqEqual
<1> QED BY <1>2, <1>3

LEMMA PartsJoined ==
  ASSUME NEW S, NEW s \in Seq(S), NEW a \in Nat, NEW b \in Nat, NEW c \in Nat, a <= b, b <= c, c <= Len(s)
  PROVE  Part(s, a, b) \o Part(s, b, c) = Part(s, a, c)
<1> PICK p, q, r : p = Part(s, a, b) /\ q = Part(s, b, c) /\ r = Part(s, a, c) OBVIOUS
<1>0. Len(s) \in Nat /\ b <= Len(s) /\ a <= c OBVIOUS
<1>1. p \in Seq(S) /\ Len(p) = b - a /\ \A i \in 1 .. b - a : p[i] = s[a + i]
  BY <1>0, PartIsSeq
<1>2. q \in Seq(S) /\ Len(q) = c - b /\ \A i \in 1 .. c - b : q[i] = s[b + i] BY <1>0, PartIsSeq
<1>3. r \in Seq(S) /\ Len(r) = c - a /\ \A i \in 1 .. c - a : r[i] = s[a + i] BY <1>0, PartIsSeq
<1>4. /\ p \o q \in Seq(S) /\ Len(p \o q) = c - a
      /\ \A i \in 1 .. c - a : (p \o q)[i] = IF i <= b - a THEN p[i] ELSE q[i - (b - a)]
  <2>1. /\ p \o q \in Seq(S) /\ Len(p \o q) = Len(p) + Len(q)
        /\ \A i \in 1 .. Len(p) + Len(q) : (p \o q)[i] = IF i <= Len(p) THEN p[i] ELSE q[i - Len(p)]
    <3>1. p \in Seq(S) /\ q \in Seq(S) BY <1>1, <1>2
    <3> QED BY ONLY <3>1, ConcatProperties
  <2>2. Len(p) = b - a /\ Len(p) + Len(q) = c - a BY <1>1, <1>2
  <2> QED BY <2>1, <2>2
<1>5. \A i \in 1 .. c - a : (p \o q)[i] = r[i]
  <2> TAKE i \in 1 .. c - a
  <2>1. CASE i <= b - a BY <1>1, <1>3, <1>4, <2>1
  <2>2. CASE ~(i <= b - a)
    <3>1. i - (b - a) \in 1 .. c - b /\ b + (i - (b - a)) = a + i BY <2>2
    <3> QED BY <1>2, <1>3, <1>4, <2>2, <3>1
  <2> QED BY <2>1, <2>2
<1>6. p \o q = r BY <1>3, <1>4, <1>5, SeqEqual
<1> QED BY <1>6

LEMMA PartEnds ==
  ASSUME NEW S, NEW s \in Seq(S)
  PROVE  /\ Part(s, 0, Len(s)) = s
         /\ \A a \in 0 .. Len(s) : Part(s, a, a) = <<>>
         /\ \A a, b \in 0 .. Len(s) : a <= b /\ Part(s, a, b) = <<>> => a = b
         /\ \A a \in 0 .. Len(s) : IsPrefix(Part(s, 0, a), s)
<1>0. Len(s) \in Nat OBVIOUS
<1>1. Part(s, 0, Len(s)) = s
  <2>1. /\ Part(s, 0, Len(s)) \in Seq(S) /\ Len(Part(s, 0, Len(s))) = Len(s)
        /\ \A i \in 1 .. Len(s) : Part(s, 0, Len(s))[i] = s[i]
    <3>1. Len(s) - 0 = Len(s) /\ \A i \in 1 .. Len(s) : 0 + i = i BY <1>0
    <3>p. PICK z, n : z = 0 /\ n = Len(s) OBVIOUS
    <3>2. z \in Nat /\ n \in Nat /\ z <= n /\ n <= Len(s) BY <3>p, <1>0
    <3>3. /\ Part(s, z, n) \in Seq(S) /\ Len(Part(s, z, n)) = n - z
          /\ \A i \in 1 .. n - z : Part(s, z, n)[i] = s[z + i]
      BY <3>2, PartIsSeq
    <3> QED BY <3>p, <3>1, <3>3
  <2> QED BY <2>1, SeqEqual
<1>2. \A a, b \in 0 .. Len(s) : a <= b => Part(s, a, b) \in Seq(S) /\ Len(Part(s, a, b)) = b - a
  <2> SUFFICES ASSUME NEW a \in 0 .. Len(s), NEW b \in 0 .. Len(s), a <= b
               PROVE  Part(s, a, b) \in Seq(S) /\ Len(Part(s, a, b)) = b - a
    OBVIOUS
  <2>1. a \in Nat /\ b \in Nat /\ a <= b /\ b <= Len(s) BY <1>0
  <2>2. s \in Seq(S) OBVIOUS
  <2> QED BY ONLY <2>1, <2>2, PartIsSeq
<1>3. \A a \in 0 .. Len(s) : Part(s, a, a) = <<>>
  <2> TAKE a \in 0 .. Len(s)
  <2>1. Part(s, a, a) \in Seq(S) /\ Len(Part(s, a, a)) = 0 BY <1>0, <1>2
  <2> QED BY <2>1, EmptySeq
<1>4. \A a, b \in 0 .. Len(s) : a <= b /\ Part(s, a, b) = <<>> => a = b
  <2> TAKE a, b \in 0 .. Len(s)
  <2> SUFFICES ASSUME a <= b, Part(s, a, b) = <<>> PROVE a = b OBVIOUS
  <2>1. b - a = 0 BY <1>2, EmptySeq
  <2> QED BY <1>0, <2>1
<1>5. \A a \in 0 .. Len(s) : IsPrefix(Part(s, 0, a), s)
  <2> TAKE a \in 0 .. Len(s)
  <2> PICK p : p = Part(s, 0, a) OBVIOUS
  <2>1. p \in Seq(S) /\ Len(p) = a BY <1>0, <1>2
  <2>2. SubSeq(Part(s, 0, Len(s)), 1, a) = Part(s, 0, 0 + a)
    <3>p. PICK z, n : z = 0 /\ n = Len(s) OBVIOUS
    <3>1. z \in Nat /\ n \in Nat /\ z <= n /\ n <= Len(s) /\ a \in Nat /\ a <= n - z BY <3>p, <1>0
    <3>2. SubSeq(Part(s, z, n), 1, a) = Part(s, z, z + a) BY SMTT(30), <3>1, PartsOfPart
    <3> QED BY <3>p, <3>2
  <2>3. SubSeq(s, 1, a) = p BY <1>0, <1>1, <2>2
  <2>4. SubSeq(p, 1, Len(p)) = p
    <3>1. SubSeq(p, 1, Len(p)) \in Seq(S) /\ Len(SubSeq(p, 1, Len(p))) = Len(p)
          /\ \A i \in 1 .. Len(p) : SubSeq(p, 1, Len(p))[i] = p[i]
      BY <2>1
    <3> QED BY <2>1, <3>1, SeqEqual
  <2>5. IsPrefix(p, s) BY <1>0, <2>1, <2>3, <2>4 DEF IsPrefix
  <2> QED BY <2>5
<1> QED BY <1>1, <1>3, <1>4, <1>5

LEMMA PartHead ==
  ASSUME NEW S, NEW s \in Seq(S), NEW a \in Nat, NEW b \in Nat, a < b, b <= Len(s)
  PROVE  /\ Append(Part(s, 0, a), Head(Part(s, a, b))) = Part(s, 0, a + 1)
         /\ Tail(Part(s, a, b)) = Part(s, a + 1, b)
<1>t. SubSeq(Part(s, a, b), 2, b - a) = Part(s, a + 1, b)
  <2>p. PICK n : n = 1 OBVIOUS
  <2>1. a <= b /\ b <= Len(s) /\ n \in Nat /\ n <= b - a BY <2>p
  <2>2. /\ SubSeq(Part(s, a, b), 1, n) = Part(s, a, a + n)
        /\ SubSeq(Part(s, a, b), n + 1, b - a) = Part(s, a + n, b)
    BY <2>1, PartsOfPart
  <2> QED BY <2>p, <2>2
<1> PICK p, q, r : p = Part(s, 0, a) /\ q = Part(s, a, b) /\ r = Part(s, 0, a + 1) OBVIOUS
<1>0. Len(s) \in Nat OBVIOUS
<1>1. p \in Seq(S) /\ Len(p) = a /\ \A i \in 1 .. a : p[i] = s[i]
  <2>p. PICK z : z = 0 OBVIOUS
  <2>0. z \in Nat /\ z <= a /\ a <= Len(s) BY <2>p, <1>0
  <2>1. /\ Part(s, z, a) \in Seq(S) /\ Len(Part(s, z, a)) = a - z
        /\ \A i \in 1 .. a - z : Part(s, z, a)[i] = s[z + i]
    BY <2>0, PartIsSeq
  <2> QED BY <2>p, <2>1
<1>2. q \in Seq(S) /\ Len(q) = b - a /\ \A i \in 1 .. b - a : q[i] = s[a + i]
  <2>1. a <= b OBVIOUS
  <2> QED BY <2>1, PartIsSeq
<1>3. r \in Seq(S) /\ Len(r) = a + 1 /\ \A i \in 1 .. a + 1 : r[i] = s[i]
  <2>p. PICK z, m : z = 0 /\ m = a + 1 OBVIOUS
  <2>0. z \in Nat /\ m \in Nat /\ z <= m /\ m <= Len(s) BY <2>p, <1>0
  <2>1. /\ Part(s, z, m) \in Seq(S) /\ Len(Part(s, z, m)) = m - z
        /\ \A i \in 1 .. m - z : Part(s, z, m)[i] = s[z + i]
    BY <2>0, PartIsSeq
  <2> QED BY <2>p, <2>1
<1>4. Head(q) = s[a + 1] /\ Head(q) \in S
  <2>1. 1 \in 1 .. b - a OBVIOUS
  <2>2. q # <<>> /\ Head(q) = q[1] BY <1>2, <2>1
  <2> QED BY <1>2, <2>1, <2>2
<1>5. Append(p, Head(q)) = r
  <2>1. /\ Append(p, Head(q)) \in Seq(S) /\ Len(Append(p, Head(q))) = a + 1
        /\ \A i \in 1 .. a + 1 : Append(p, Head(q))[i] = IF i = a + 1 THEN Head(q) ELSE p[i]
    BY <1>1, <1>4
  <2>2. \A i \in 1 .. a + 1 : Append(p, Head(q))[i] = r[i] BY <1>1, <1>3, <1>4, <2>1
  <2> QED BY <1>3, <2>1, <2>2, SeqEqual
<1>6. Tail(q) = Part(s, a + 1, b)
  <2>1. 1 <= b - a OBVIOUS
  <2>2. SubSeq(q, 2, b - a) = Part(s, a + 1, b) BY <1>t
  <2>3. q # <<>> BY <1>2, <2>1
  <2>4. Tail(q) = SubSeq(q, 2, Len(q)) BY <1>2, <2>3, TailIsSubSeq
  <2> QED BY <1>2, <2>2, <2>4
<1> QED BY <1>5, <1>6

LEMMA MarkedIsSeq ==
  ASSUME NEW s \in Seq(Words), NEW tls \in BOOLEAN
  PROVE  /\ Marked(s, tls) \in Seq(Piece) /\ Len(Marked(s, tls)) = Len(s)
         /\ \A i \in 1 .. Len(s) : Marked(s, tls)[i] = [text |-> s[i], tls |-> tls]
<1>1. DOMAIN s = 1 .. Len(s) /\ Len(s) \in Nat /\ \A i \in 1 .. Len(s) : s[i] \in Words
  BY LenProperties, ElementOfSeq
<1>2. Marked(s, tls) \in [1 .. Len(s) -> Piece] BY <1>1 DEF Marked, Piece
<1> QED BY <1>1, <1>2 DEF Marked

LEMMA MarkedPart ==
  ASSUME NEW s \in Seq(Words), NEW tls \in BOOLEAN, NEW a \in Nat, NEW b \in Nat, a <= b, b <= Len(s)
  PROVE  Marked(Part(s, a, b), tls) = Part(Marked(s, tls), a, b)
<1> PICK p, m : p = Part(s, a, b) /\ m = Marked(s, tls) OBVIOUS
<1>0. Len(s) \in Nat OBVIOUS
<1>1. p \in Seq(Words) /\ Len(p) = b - a /\ \A i \in 1 .. b - a : p[i] = s[a + i] BY PartIsSeq
<1>2. m \in Seq(Piece) /\ Len(m) = Len(s) /\ \A i \in 1 .. Len(s) : m[i] = [text |-> s[i], tls |-> tls]
  BY MarkedIsSeq
<1>3. /\ Marked(p, tls) \in Seq(Piece) /\ Len(Marked(p, tls)) = b - a
      /\ \A i \in 1 .. b - a : Marked(p, tls)[i] = [text |-> p[i], tls |-> tls]
  BY <1>1, MarkedIsSeq
<1>4. /\ Part(m, a, b) \in Seq(Piece) /\ Len(Part(m, a, b)) = b - a
      /\ \A i \in 1 .. b - a : Part(m, a, b)[i] = m[a + i]
  BY <1>2, PartIsSeq
<1>5. \A i \in 1 .. b - a : a + i \in 1 .. Len(s) BY <1>0
<1>6. \A i \in 1 .. b - a : Marked(p, tls)[i] = Part(m, a, b)[i] BY <1>1, <1>2, <1>3, <1>4, <1>5
<1>7. Marked(p, tls) = Part(m, a, b) BY <1>3, <1>4, <1>6, SeqEqual
<1> QED BY <1>7

-----------------------------------------------------------------------------
(* What is said *)

LEMMA Scripts ==
  /\ Methods \o ConnectTo \in Seq(Words) /\ Len(Methods \o ConnectTo) = 6
  /\ Dialogue \in Seq(Piece) /\ Len(Dialogue) = 6
  /\ Methods \in Seq(Words) /\ ConnectTo \in Seq(Words) /\ Len(Methods) = 3 /\ Len(ConnectTo) = 3
  /\ Part(Dialogue, 0, 3) = Marked(Methods, FALSE) /\ Part(Dialogue, 0, 6) = Dialogue
  /\ Part(Methods \o ConnectTo, 3, 6) = ConnectTo
<1> PICK s : s = Methods \o ConnectTo OBVIOUS
<1>1. /\ Methods \in Seq(Words) /\ ConnectTo \in Seq(Words) /\ Len(Methods) = 3 /\ Len(ConnectTo) = 3
  <2>1. \A x, y, z \in Words : <<x, y, z>> \in Seq(Words) /\ Len(<<x, y, z>>) = 3 OBVIOUS
  <2>2. /\ "version" \in Words /\ "one method" \in Words /\ "no password" \in Words
        /\ "connect" \in Words /\ "host" \in Words /\ "port" \in Words
    BY DEF Words
  <2> QED BY <2>1, <2>2 DEF Methods, ConnectTo
<1>2. /\ s \in Seq(Words) /\ Len(s) = 6
      /\ \A i \in 1 .. 6 : s[i] = IF i <= 3 THEN Methods[i] ELSE ConnectTo[i - 3]
  <2>1. /\ s \in Seq(Words) /\ Len(s) = Len(Methods) + Len(ConnectTo)
        /\ \A i \in 1 .. Len(Methods) + Len(ConnectTo) :
             s[i] = IF i <= Len(Methods) THEN Methods[i] ELSE ConnectTo[i - Len(Methods)]
    BY <1>1, ConcatProperties
  <2> QED BY <1>1, <2>1
<1>3. Part(s, 0, 3) = Methods
  <2>0. 3 - 0 = 3 /\ \A i \in 1 .. 3 : 0 + i = i /\ i <= 3 /\ i \in 1 .. 6 OBVIOUS
  <2>1. /\ Part(s, 0, 3) \in Seq(Words) /\ Len(Part(s, 0, 3)) = 3
        /\ \A i \in 1 .. 3 : Part(s, 0, 3)[i] = s[i]
    <3>p. PICK z, n : z = 0 /\ n = 3 OBVIOUS
    <3>1. z \in Nat /\ n \in Nat /\ z <= n /\ n <= Len(s) BY <1>2, <3>p
    <3>2. /\ Part(s, z, n) \in Seq(Words) /\ Len(Part(s, z, n)) = n - z
          /\ \A i \in 1 .. n - z : Part(s, z, n)[i] = s[z + i]
      BY ZenonT(40), <1>2, <3>1, PartIsSeq
    <3> QED BY <2>0, <3>p, <3>2
  <2> QED BY <1>1, <1>2, <2>0, <2>1, SeqEqual
<1>4. Part(s, 3, 6) = ConnectTo
  <2>0. 6 - 3 = 3 /\ \A i \in 1 .. 3 : 3 + i \in 1 .. 6 /\ ~(3 + i <= 3) /\ 3 + i - 3 = i OBVIOUS
  <2>1. /\ Part(s, 3, 6) \in Seq(Words) /\ Len(Part(s, 3, 6)) = 3
        /\ \A i \in 1 .. 3 : Part(s, 3, 6)[i] = s[3 + i]
    <3>p. PICK z, n : z = 3 /\ n = 6 OBVIOUS
    <3>1. z \in Nat /\ n \in Nat /\ z <= n /\ n <= Len(s) BY <1>2, <3>p
    <3>2. /\ Part(s, z, n) \in Seq(Words) /\ Len(Part(s, z, n)) = n - z
          /\ \A i \in 1 .. n - z : Part(s, z, n)[i] = s[z + i]
      BY ZenonT(40), <1>2, <3>1, PartIsSeq
    <3> QED BY <2>0, <3>p, <3>2
  <2> QED BY <1>1, <1>2, <2>0, <2>1, SeqEqual
<1>5. Marked(s, FALSE) = Dialogue BY DEF Dialogue
<1>6. Dialogue \in Seq(Piece) /\ Len(Dialogue) = 6 BY <1>2, <1>5, MarkedIsSeq
<1>7. Part(Dialogue, 0, 3) = Marked(Methods, FALSE)
  <2>p. PICK z, n : z = 0 /\ n = 3 OBVIOUS
  <2>q. PICK t \in BOOLEAN : t = FALSE OBVIOUS
  <2>1. z \in Nat /\ n \in Nat /\ z <= n /\ n <= Len(s) BY <1>2, <2>p
  <2>2. Marked(Part(s, z, n), t) = Part(Marked(s, t), z, n) BY <1>2, <2>1, MarkedPart
  <2> QED BY <1>3, <1>5, <2>p, <2>q, <2>2
<1>8. Part(Dialogue, 0, 6) = Dialogue BY <1>6, PartEnds
<1> QED BY <1>1, <1>2, <1>4, <1>6, <1>7, <1>8

LEMMA RequestScript ==
  ASSUME NEW tls \in BOOLEAN
  PROVE  /\ Request \in Seq(Words) /\ Len(Request) = 2 /\ Part(Request, 0, 2) = Request
         /\ Marked(Request, tls) \in Seq(Piece) /\ Len(Marked(Request, tls)) = 2
<1>1. Request \in Seq(Words) /\ Len(Request) = 2
  <2>1. \A x, y \in Words : <<x, y>> \in Seq(Words) /\ Len(<<x, y>>) = 2 OBVIOUS
  <2>2. "request" \in Words /\ "its end" \in Words BY DEF Words
  <2> QED BY <2>1, <2>2 DEF Request
<1> QED BY <1>1, MarkedIsSeq, PartEnds

LEMMA ReplyScript ==
  Reply \in Seq(Words) /\ Len(Reply) = 2 /\ Part(Reply, 0, 2) = Reply
<1>1. Reply \in Seq(Words) /\ Len(Reply) = 2
  <2>1. \A x, y \in Words : <<x, y>> \in Seq(Words) /\ Len(<<x, y>>) = 2 OBVIOUS
  <2>2. "reply" \in Words /\ "its end" \in Words BY DEF Words
  <2> QED BY <2>1, <2>2 DEF Reply
<1> QED BY <1>1, PartEnds

LEMMA NothingIsPrefix ==
  ASSUME NEW S, NEW s \in Seq(S)
  PROVE  IsPrefix(<<>>, s)
<1>1. Part(s, 0, 0) = <<>> /\ IsPrefix(Part(s, 0, 0), s)
  <2>1. 0 \in 0 .. Len(s) OBVIOUS
  <2> QED BY <2>1, PartEnds
<1> QED BY <1>1

\* A write moves the border between what is on its way and what is still to be written.
LEMMA WriteShifts ==
  ASSUME NEW s \in Seq(Words), NEW tls \in BOOLEAN, NEW a \in Nat, NEW b \in Nat, NEW n \in Nat,
         a <= b, b <= Len(s), n <= Len(s) - b
  PROVE  /\ SubSeq(Part(s, b, Len(s)), n + 1, Len(Part(s, b, Len(s)))) = Part(s, b + n, Len(s))
         /\ Part(Marked(s, tls), a, b) \o Marked(SubSeq(Part(s, b, Len(s)), 1, n), tls) = Part(Marked(s, tls), a, b + n)
<1>p. PICK l, c : l = Len(s) /\ c = b + n OBVIOUS
<1>0. l \in Nat /\ c \in Nat /\ b <= l /\ l <= Len(s) /\ n <= l - b /\ b <= c /\ c <= Len(s) BY <1>p
<1>1. /\ SubSeq(Part(s, b, l), 1, n) = Part(s, b, b + n)
      /\ SubSeq(Part(s, b, l), n + 1, l - b) = Part(s, b + n, l)
  <2>1. s \in Seq(Words) /\ b \in Nat /\ l \in Nat /\ b <= l /\ l <= Len(s) /\ n \in Nat /\ n <= l - b BY <1>0
  <2> HIDE DEF Part
  <2> QED BY ONLY SMTT(30), <2>1, PartsOfPart
<1>2. Len(Part(s, b, l)) = l - b BY <1>0, PartIsSeq
<1>3. Marked(Part(s, b, c), tls) = Part(Marked(s, tls), b, c) BY <1>0, MarkedPart
<1>4. Marked(s, tls) \in Seq(Piece) /\ Len(Marked(s, tls)) = Len(s) BY MarkedIsSeq
<1>5. Part(Marked(s, tls), a, b) \o Part(Marked(s, tls), b, c) = Part(Marked(s, tls), a, c)
  <2>p. PICK m : m = Marked(s, tls) OBVIOUS
  <2>1. m \in Seq(Piece) /\ c <= Len(m) BY <1>0, <1>4, <2>p
  <2>2. Part(m, a, b) \o Part(m, b, c) = Part(m, a, c) BY <1>0, <2>1, PartsJoined
  <2> QED BY <2>p, <2>2
<1> QED BY <1>p, <1>1, <1>2, <1>3, <1>5

-----------------------------------------------------------------------------
(* What Fine does not depend on *)

DRec == [proxy : ProxyRec, c : TunnelRec, up : Seq(Piece), traffic : TrafficRec, threw : BOOLEAN]

\* The same traffic, but for more that has happened
Later(t, u) ==
  /\ u.requests = t.requests /\ u.heard = t.heard /\ u.forwarded = t.forwarded /\ u.replies = t.replies
  /\ u.answers = t.answers /\ t.why \subseteq u.why

LEMMA FineLater ==
  ASSUME NEW p, NEW c, NEW up, NEW down, NEW stage, NEW t, NEW u,
         Fine(p, c, up, down, stage, t), Later(t, u)
  PROVE  Fine(p, c, up, down, stage, u)
<1>1. Once(p, c, u) BY DEF Fine, Once, Later
<1>2. ASSUME ~Led(u.why) PROVE Kept(p, stage, u) /\ (c.open => Goes(p, c, up, down, stage, u))
  <2>1. ~Led(t.why) BY <1>2 DEF Led, Later
  <2>2. Kept(p, stage, t) /\ (c.open => Goes(p, c, up, down, stage, t)) BY <2>1 DEF Fine
  <2>3. Kept(p, stage, u) BY <2>2 DEF Kept, Later
  <2>4. Talks(c, up, down, stage, t) => Talks(c, up, down, stage, u) BY DEF Talks, Later
  <2>5. \A tls : Asks(c, up, down, t, tls) => Asks(c, up, down, u, tls) BY DEF Asks, Later
  <2>6. Fails(c, up, down, t) => Fails(c, up, down, u) BY DEF Fails, Later
  <2>7. Goes(p, c, up, down, stage, t) => Goes(p, c, up, down, stage, u)
    BY <2>4, <2>5, <2>6 DEF Goes, Later
  <2> QED BY <2>2, <2>3, <2>7
<1> QED BY <1>1, <1>2 DEF Fine

LEMMA FineDropped ==
  ASSUME NEW p, NEW c, NEW up, NEW down, NEW stage, NEW t, NEW after,
         Fine(p, c, up, down, stage, t)
  PROVE  Fine(p, NotConnected, <<>>, after, stage, t)
<1>1. NotConnected.open = FALSE /\ NotConnected.tls = FALSE BY DEF NotConnected
<1>2. Once(p, NotConnected, t) BY <1>1 DEF Fine, Once
<1> QED BY <1>1, <1>2 DEF Fine

\* The dialogue has been led astray: nothing is said of what is on its way.
LEMMA FineLed ==
  ASSUME NEW p, NEW c, NEW up, NEW down, NEW stage, NEW t,
         Led(t.why), Once(p, c, t), c.open, p.active
  PROVE  Fine(p, c, up, down, stage, t)
BY DEF Fine

\* The same connection, but for its status and what ends it
LEMMA FineLike ==
  ASSUME NEW p, NEW c, NEW e, NEW up, NEW down, NEW stage, NEW t,
         Fine(p, c, up, down, stage, t),
         e.open = c.open, e.out = c.out, e.read = c.read, e.tls = c.tls,
         e.status = c.status \/ (p.type = "ptHTTP" /\ (c.open /\ ~Led(t.why) => t.requests = 1))
  PROVE  Fine(p, e, up, down, stage, t)
<1>1. Once(p, e, t) BY DEF Fine, Once
<1>2. ASSUME ~Led(t.why), e.open PROVE Goes(p, e, up, down, stage, t)
  <2>1. Goes(p, c, up, down, stage, t) BY <1>2 DEF Fine
  <2>2. e.status = c.status /\ Talks(c, up, down, stage, t) => Talks(e, up, down, stage, t)
    BY DEF Talks
  <2>3. \A tls : Asks(c, up, down, t, tls) => Asks(e, up, down, t, tls) BY DEF Asks
  <2>4. e.status = c.status /\ Fails(c, up, down, t) => Fails(e, up, down, t) BY DEF Fails
  <2>5. Fails(c, up, down, t) => t.requests # 1 BY DEF Fails
  <2>6. CASE e.status = c.status BY <2>1, <2>2, <2>3, <2>4, <2>6 DEF Goes
  <2>7. CASE p.type = "ptHTTP" /\ t.requests = 1 BY <2>1, <2>3, <2>5, <2>7 DEF Goes
  <2> QED BY <1>2, <2>6, <2>7
<1> QED BY <1>1, <1>2 DEF Fine

-----------------------------------------------------------------------------
(* The operations on d, by fields *)

LEMMA NothingConnected == NotConnected \in TunnelRec /\ <<>> \in Seq(Piece) /\ NoTraffic \in TrafficRec
<1>1. \A S : <<>> \in Seq(S) OBVIOUS
<1>2. "csConnected" \in Statuses BY DEF Statuses
<1>3. NotConnected \in TunnelRec BY <1>1, <1>2 DEF NotConnected, TunnelRec
<1>4. {} \in SUBSET Reasons OBVIOUS
<1>5. NoTraffic \in TrafficRec BY <1>1, <1>4 DEF NoTraffic, TrafficRec
<1> QED BY <1>1, <1>3, <1>5

LEMMA HappenedFields ==
  ASSUME NEW d \in DRec, NEW w \in Reasons
  PROVE  /\ Happened(d, w) \in DRec /\ Threw(d, w) \in DRec
         /\ Happened(d, w).proxy = d.proxy /\ Happened(d, w).c = d.c /\ Happened(d, w).up = d.up
         /\ Happened(d, w).threw = d.threw /\ Later(d.traffic, Happened(d, w).traffic)
         /\ w \in Happened(d, w).traffic.why
         /\ Threw(d, w).proxy = d.proxy /\ Threw(d, w).c = d.c /\ Threw(d, w).up = d.up
         /\ Threw(d, w).threw = TRUE /\ Later(d.traffic, Threw(d, w).traffic)
         /\ w \in Threw(d, w).traffic.why
<1>p. PICK t : t = [d.traffic EXCEPT !.why = @ \cup {w}] OBVIOUS
<1>0. d.traffic \in TrafficRec BY DEF DRec
<1>1. /\ t \in TrafficRec /\ Later(d.traffic, t) /\ w \in t.why
  BY <1>p, <1>0 DEF TrafficRec, Later
<1>2. Happened(d, w) = [d EXCEPT !.traffic = t] BY <1>p, <1>0 DEF Happened, DRec
<1>3. /\ Happened(d, w) \in DRec /\ Happened(d, w).traffic = t
      /\ Happened(d, w).proxy = d.proxy /\ Happened(d, w).c = d.c /\ Happened(d, w).up = d.up
      /\ Happened(d, w).threw = d.threw
  BY <1>1, <1>2 DEF DRec
<1>4. Threw(d, w) = [Happened(d, w) EXCEPT !.threw = TRUE] BY DEF Threw
<1>5. /\ Threw(d, w) \in DRec /\ Threw(d, w).traffic = t
      /\ Threw(d, w).proxy = d.proxy /\ Threw(d, w).c = d.c /\ Threw(d, w).up = d.up
      /\ Threw(d, w).threw = TRUE
  <2> PICK e \in DRec : e = Happened(d, w) BY <1>3
  <2>1. Threw(d, w) = [e EXCEPT !.threw = TRUE] BY <1>4
  <2>2. e.traffic = t /\ e.proxy = d.proxy /\ e.c = d.c /\ e.up = d.up BY <1>3
  <2> QED BY <2>1, <2>2 DEF DRec
<1> QED BY <1>1, <1>3, <1>5

LEMMA DroppedFields ==
  ASSUME NEW d \in DRec
  PROVE  /\ Dropped(d) \in DRec /\ Dropped(d).proxy = d.proxy /\ Dropped(d).c = NotConnected
         /\ Dropped(d).up = <<>> /\ Dropped(d).traffic = d.traffic /\ Dropped(d).threw = d.threw
<1>1. NotConnected \in TunnelRec /\ <<>> \in Seq(Piece) BY NothingConnected
<1>2. Dropped(d) = [d EXCEPT !.c = NotConnected, !.up = <<>>] BY DEF Dropped
<1> HIDE DEF NotConnected
<1> QED BY <1>1, <1>2 DEF DRec

\* WriteAsync passes on a part of the output, finds the socket full, or finds the connection closed.
LEMMA WriteFields ==
  ASSUME NEW d \in DRec, NEW room \in Nat
  PROVE  LET e == WriteAsync(d, room)
         IN  /\ e \in DRec /\ e.proxy = d.proxy /\ e.threw = d.threw
             /\ \/ e.c = NotConnected /\ e.up = <<>> /\ Later(d.traffic, e.traffic)
                \/ /\ Later(d.traffic, e.traffic) /\ e.up = d.up
                   /\ e.c.open = d.c.open /\ e.c.status = d.c.status /\ e.c.read = d.c.read
                   /\ e.c.out = d.c.out /\ e.c.tls = d.c.tls
                \/ /\ e.traffic = d.traffic
                   /\ e.c.open = d.c.open /\ e.c.status = d.c.status /\ e.c.read = d.c.read
                   /\ e.c.graceful = d.c.graceful /\ e.c.tls = d.c.tls
                   /\ \E n \in 0 .. Len(d.c.out) :
                        /\ e.c.out = SubSeq(d.c.out, n + 1, Len(d.c.out))
                        /\ e.up = d.up \o Marked(SubSeq(d.c.out, 1, n), d.c.tls)
<1>0. d.c \in TunnelRec /\ d.up \in Seq(Piece) /\ d.traffic \in TrafficRec /\ d.proxy \in ProxyRec BY DEF DRec
<1>1. d.c.out \in Seq(Words) /\ d.c.tls \in BOOLEAN /\ Len(d.c.out) \in Nat
  <2>1. d.c.out \in Seq(Words) /\ d.c.tls \in BOOLEAN BY <1>0 DEF TunnelRec
  <2> QED BY <2>1
<1>p. PICK n : n = IF room > Len(d.c.out) THEN Len(d.c.out) ELSE room OBVIOUS
<1>q. PICK e : e = WriteAsync(d, room) OBVIOUS
<1>2. n \in 0 .. Len(d.c.out) BY <1>1, <1>p
<1>3. CASE d.c.out # <<>> /\ d.c.graceful
  <2>1. e = Dropped(Happened(d, "hangup")) BY <1>3, <1>q DEF WriteAsync
  <2>2. "hangup" \in Reasons BY DEF Reasons
  <2>3. PICK h \in DRec : /\ h = Happened(d, "hangup") /\ h.proxy = d.proxy /\ h.threw = d.threw
                          /\ Later(d.traffic, h.traffic)
    BY <2>2, HappenedFields
  <2>4. e = Dropped(h) BY <2>1, <2>3
  <2>5. /\ e \in DRec /\ e.proxy = h.proxy /\ e.c = NotConnected
        /\ e.up = <<>> /\ e.traffic = h.traffic /\ e.threw = h.threw
    BY <2>4, DroppedFields
  <2>6. /\ e \in DRec /\ e.proxy = d.proxy /\ e.threw = d.threw
        /\ e.c = NotConnected /\ e.up = <<>> /\ Later(d.traffic, e.traffic)
    BY <2>3, <2>5
  <2> QED BY <1>q, <2>6
<1>5. CASE d.c.out = <<>>
  <2>1. e = d BY <1>5, <1>q DEF WriteAsync
  <2>2. Later(d.traffic, e.traffic) BY <2>1 DEF Later
  <2> QED BY <1>q, <2>1, <2>2
<1>6. CASE d.c.out # <<>> /\ ~d.c.graceful /\ room = 0
  <2>f. PICK f : f = [d EXCEPT !.c.graceful = TRUE] OBVIOUS
  <2>c. PICK c : c = [d.c EXCEPT !.graceful = TRUE] OBVIOUS
  <2>1. e = Happened(f, "full") BY <1>6, <1>q, <2>f DEF WriteAsync
  <2>2. f = [d EXCEPT !.c = c] BY <2>f, <2>c DEF DRec
  <2>3. /\ c \in TunnelRec /\ c.open = d.c.open /\ c.status = d.c.status /\ c.read = d.c.read
        /\ c.out = d.c.out /\ c.tls = d.c.tls
    BY <1>0, <2>c DEF TunnelRec
  <2>4. f \in DRec /\ f.proxy = d.proxy /\ f.threw = d.threw /\ f.c = c /\ f.up = d.up /\ f.traffic = d.traffic
    BY <2>2, <2>3 DEF DRec
  <2>5. "full" \in Reasons BY DEF Reasons
  <2>6. /\ e \in DRec /\ e.proxy = f.proxy /\ e.threw = f.threw /\ e.c = f.c /\ e.up = f.up
        /\ Later(f.traffic, e.traffic)
    BY <2>1, <2>4, <2>5, HappenedFields
  <2>7. /\ e \in DRec /\ e.proxy = d.proxy /\ e.threw = d.threw /\ e.c = c /\ e.up = d.up
        /\ Later(d.traffic, e.traffic)
    BY <2>4, <2>6
  <2> QED BY <1>q, <2>3, <2>7
<1>4. CASE d.c.out # <<>> /\ ~d.c.graceful /\ room # 0
  <2>p. PICK o, u : o = SubSeq(d.c.out, n + 1, Len(d.c.out)) /\ u = d.up \o Marked(SubSeq(d.c.out, 1, n), d.c.tls)
    OBVIOUS
  <2>q. PICK c : c = [d.c EXCEPT !.out = o] OBVIOUS
  <2>1. e = [d EXCEPT !.c.out = SubSeq(@, n + 1, Len(@)), !.up = @ \o Marked(SubSeq(d.c.out, 1, n), d.c.tls)]
    BY <1>4, <1>p, <1>q DEF WriteAsync
  <2>2. e = [d EXCEPT !.c = c, !.up = u] BY <2>1, <2>p, <2>q DEF DRec
  <2>3. o \in Seq(Words) BY <1>1, <1>2, <2>p
  <2>4. u \in Seq(Piece)
    <3>1. SubSeq(d.c.out, 1, n) \in Seq(Words) BY <1>1, <1>2
    <3>2. Marked(SubSeq(d.c.out, 1, n), d.c.tls) \in Seq(Piece) BY <1>1, <3>1, MarkedIsSeq
    <3> QED BY <1>0, <2>p, <3>2, ConcatProperties
  <2>5. c \in TunnelRec BY <1>0, <2>q, <2>3 DEF TunnelRec
  <2>6. /\ c.open = d.c.open /\ c.status = d.c.status /\ c.read = d.c.read
        /\ c.graceful = d.c.graceful /\ c.tls = d.c.tls /\ c.out = o
    BY <1>0, <2>q DEF TunnelRec
  <2>7. /\ e \in DRec /\ e.proxy = d.proxy /\ e.threw = d.threw /\ e.c = c /\ e.up = u /\ e.traffic = d.traffic
    BY <2>2, <2>4, <2>5 DEF DRec
  <2> QED BY <1>2, <1>q, <2>p, <2>6, <2>7
<1>7. d.c.graceful \in BOOLEAN BY <1>0 DEF TunnelRec
<1> QED BY <1>3, <1>4, <1>5, <1>6, <1>7

-----------------------------------------------------------------------------
(* The operations keep Fine *)

\* n pieces go from the output to the server.
LEMMA ShiftedGoes ==
  ASSUME NEW p, NEW c, NEW e, NEW up \in Seq(Piece), NEW down, NEW stage, NEW t, NEW n \in 0 .. Len(c.out),
         c.out \in Seq(Words), c.tls \in BOOLEAN, Goes(p, c, up, down, stage, t), Once(p, c, t), p.https \in BOOLEAN,
         e.read = c.read, e.tls = c.tls, e.status = c.status,
         e.out = SubSeq(c.out, n + 1, Len(c.out))
  PROVE  Goes(p, e, up \o Marked(SubSeq(c.out, 1, n), c.tls), down, stage, t)
<1>p. PICK u : u = up \o Marked(SubSeq(c.out, 1, n), c.tls) OBVIOUS
<1>1. ASSUME c.out = <<>> PROVE e.out = <<>> /\ u = up
  <2>1. n = 0 BY <1>1
  <2>2. SubSeq(c.out, 1, n) = <<>> /\ e.out = <<>> BY <1>1, <2>1
  <2>3. Marked(<<>>, c.tls) = <<>>
    <3>1. DOMAIN Marked(<<>>, c.tls) = {} BY DEF Marked
    <3>2. Marked(<<>>, c.tls) = [i \in {} |-> [text |-> <<>>[i], tls |-> c.tls]] BY DEF Marked
    <3> QED BY <3>2
  <2>4. u = up \o <<>> BY <1>p, <2>2, <2>3
  <2> QED BY <2>2, <2>4, ConcatEmptySeq
<1>2. ASSUME c.out = <<>> PROVE Goes(p, e, u, down, stage, t)
  <2>1. e.out = c.out /\ u = up BY <1>1, <1>2
  <2> QED BY <2>1 DEF Goes, Talks, Asks, Fails
<1>3. ASSUME c.out # <<>>, p.type = "ptSOCKS5" PROVE Goes(p, e, u, down, stage, t)
  <2>p. PICK s \in Seq(Words) : s = Methods \o ConnectTo /\ Len(s) = 6 BY Scripts
  <2>q. PICK tls \in BOOLEAN : tls = c.tls OBVIOUS
  <2>1. ~tls BY <1>3, <2>q DEF Once
  <2>2. Marked(s, tls) = Dialogue
    <3>1. tls = FALSE BY <2>1
    <3> QED BY <2>p, <3>1 DEF Dialogue
  <2>3. Talks(c, up, down, stage, t) BY <1>3 DEF Goes
  <2>4. PICK b \in 3 .. 6 : /\ up = Part(Dialogue, 3, b) /\ c.out = Part(s, b, 6)
                            /\ stage = "connect" /\ t.heard = Part(Dialogue, 0, 3) /\ down = <<>>
    BY <1>3, <2>3, <2>p DEF Talks
  <2>l. PICK l, f : l = Len(s) /\ f = 3 OBVIOUS
  <2>m. l \in Nat /\ b \in Nat /\ f \in Nat /\ b <= l /\ l <= Len(s) /\ f <= b /\ b <= Len(s) BY <2>p, <2>l, <2>4
  <2>s. Len(Part(s, b, l)) = l - b BY <2>m, PartIsSeq
  <2>5. Len(Part(s, b, 6)) = 6 - b BY <2>p, <2>l, <2>s
  <2>6. b \in Nat /\ n \in Nat /\ n <= Len(s) - b BY <2>p, <2>4, <2>5
  <2>7. /\ SubSeq(Part(s, b, Len(s)), n + 1, Len(Part(s, b, Len(s)))) = Part(s, b + n, Len(s))
        /\ Part(Marked(s, tls), f, b) \o Marked(SubSeq(Part(s, b, Len(s)), 1, n), tls) = Part(Marked(s, tls), f, b + n)
    <3>1. /\ s \in Seq(Words) /\ tls \in BOOLEAN /\ f \in Nat /\ b \in Nat /\ n \in Nat
          /\ f <= b /\ b <= Len(s) /\ n <= Len(s) - b
      BY <2>m, <2>6
    <3> QED BY ONLY <3>1, WriteShifts
  <2>8. e.out = Part(s, b + n, 6) /\ u = Part(Dialogue, 3, b + n)
    BY <1>p, <2>p, <2>q, <2>l, <2>2, <2>4, <2>7
  <2>9. b + n \in 3 .. 6 BY <2>p, <2>6
  <2>10. Talks(e, u, down, stage, t)
    <3>1. \E k \in 3 .. 6 : u = Part(Dialogue, 3, k) /\ e.out = Part(Methods \o ConnectTo, k, 6)
      BY <2>p, <2>8, <2>9
    <3> QED BY <2>3, <2>4, <3>1 DEF Talks
  <2> QED BY <1>3, <2>10 DEF Goes
<1>4. ASSUME c.out # <<>>, p.type # "ptSOCKS5" PROVE Goes(p, e, u, down, stage, t)
  <2>p. PICK tls \in BOOLEAN : tls = (p.kind = "ptSOCKS5" /\ p.https)
    <3>1. (p.kind = "ptSOCKS5" /\ p.https) \in BOOLEAN OBVIOUS
    <3> QED BY <3>1
  <2>1. Asks(c, up, down, t, tls) BY <1>4, <2>p DEF Goes, Fails
  <2>r. PICK s \in Seq(Words) : s = Request /\ Len(s) = 2 BY RequestScript
  <2>2. PICK a, b \in 0 .. 2 :
          /\ a <= b /\ t.forwarded = Part(Marked(Request, tls), 0, a)
          /\ up = Part(Marked(Request, tls), a, b) /\ c.out = Part(Request, b, 2)
          /\ \/ t.replies = 0 /\ c.read = <<>> /\ down = <<>>
             \/ /\ t.replies = 1 /\ a = 2
                /\ \E x \in 0 .. 1 : c.read = Part(Reply, 0, x) /\ down = Part(Reply, x, 2)
    BY <2>1 DEF Asks
  <2>3. c.tls = tls BY <2>1 DEF Asks
  <2>l. PICK l : l = Len(s) OBVIOUS
  <2>m. l \in Nat /\ a \in Nat /\ b \in Nat /\ a <= b /\ b <= l /\ l <= Len(s) /\ b <= Len(s) BY <2>r, <2>l, <2>2
  <2>s. Len(Part(s, b, l)) = l - b BY <2>m, PartIsSeq
  <2>5. Len(Part(Request, b, 2)) = 2 - b BY <2>r, <2>l, <2>s
  <2>6. n \in Nat /\ n <= Len(s) - b BY <2>r, <2>2, <2>5
  <2>7. /\ SubSeq(Part(s, b, Len(s)), n + 1, Len(Part(s, b, Len(s)))) = Part(s, b + n, Len(s))
        /\ Part(Marked(s, tls), a, b) \o Marked(SubSeq(Part(s, b, Len(s)), 1, n), tls) = Part(Marked(s, tls), a, b + n)
    <3>1. /\ s \in Seq(Words) /\ tls \in BOOLEAN /\ a \in Nat /\ b \in Nat /\ n \in Nat
          /\ a <= b /\ b <= Len(s) /\ n <= Len(s) - b
      BY <2>m, <2>6
    <3> QED BY ONLY <3>1, WriteShifts
  <2>8. e.out = Part(Request, b + n, 2) /\ u = Part(Marked(Request, tls), a, b + n)
    BY <1>p, <2>r, <2>2, <2>3, <2>7
  <2>9. b + n \in 0 .. 2 /\ a <= b + n BY <2>r, <2>m, <2>6
  <2>10. Asks(e, u, down, t, tls)
    <3>1. \/ t.replies = 0 /\ e.read = <<>> /\ down = <<>>
          \/ /\ t.replies = 1 /\ a = 2
             /\ \E x \in 0 .. 1 : e.read = Part(Reply, 0, x) /\ down = Part(Reply, x, 2)
      BY <2>2
    <3>2. t.requests = 1 /\ t.answers = 0 /\ e.tls = tls BY <2>1 DEF Asks
    <3> QED BY <2>2, <2>8, <2>9, <3>1, <3>2 DEF Asks
  <2> QED BY <1>4, <2>1, <2>p, <2>10 DEF Goes
<1> QED BY <1>p, <1>2, <1>3, <1>4

LEMMA WriteKeeps ==
  ASSUME NEW d \in DRec, NEW room \in Nat, NEW down, NEW stage,
         Fine(d.proxy, d.c, d.up, down, stage, d.traffic), d.c.open
  PROVE  LET e == WriteAsync(d, room)
         IN  /\ e \in DRec /\ e.proxy = d.proxy /\ e.threw = d.threw
             /\ Fine(e.proxy, e.c, e.up, down, stage, e.traffic)
             /\ Later(d.traffic, e.traffic)
             /\ \/ e.c = NotConnected
                \/ /\ e.c.open = d.c.open /\ e.c.status = d.c.status
                   /\ d.c.out = <<>> => e.c.out = <<>>
<1>p. PICK e : e = WriteAsync(d, room) OBVIOUS
<1>1. /\ e \in DRec /\ e.proxy = d.proxy /\ e.threw = d.threw
      /\ \/ e.c = NotConnected /\ e.up = <<>> /\ Later(d.traffic, e.traffic)
         \/ /\ Later(d.traffic, e.traffic) /\ e.up = d.up
            /\ e.c.open = d.c.open /\ e.c.status = d.c.status /\ e.c.read = d.c.read
            /\ e.c.out = d.c.out /\ e.c.tls = d.c.tls
         \/ /\ e.traffic = d.traffic
            /\ e.c.open = d.c.open /\ e.c.status = d.c.status /\ e.c.read = d.c.read
            /\ e.c.graceful = d.c.graceful /\ e.c.tls = d.c.tls
            /\ \E n \in 0 .. Len(d.c.out) :
                 /\ e.c.out = SubSeq(d.c.out, n + 1, Len(d.c.out))
                 /\ e.up = d.up \o Marked(SubSeq(d.c.out, 1, n), d.c.tls)
  BY <1>p, WriteFields
<1>2. CASE e.c = NotConnected /\ e.up = <<>> /\ Later(d.traffic, e.traffic)
  <2>1. Fine(d.proxy, d.c, d.up, down, stage, e.traffic) BY <1>2, FineLater
  <2>2. Fine(d.proxy, NotConnected, <<>>, down, stage, e.traffic) BY <2>1, FineDropped
  <2>3. Fine(e.proxy, e.c, e.up, down, stage, e.traffic) BY <1>1, <1>2, <2>2
  <2> QED BY <1>p, <1>1, <1>2, <2>3
<1>3. CASE /\ e.traffic = d.traffic
           /\ e.c.open = d.c.open /\ e.c.status = d.c.status /\ e.c.read = d.c.read
           /\ e.c.graceful = d.c.graceful /\ e.c.tls = d.c.tls
           /\ \E n \in 0 .. Len(d.c.out) :
                /\ e.c.out = SubSeq(d.c.out, n + 1, Len(d.c.out))
                /\ e.up = d.up \o Marked(SubSeq(d.c.out, 1, n), d.c.tls)
  <2>n. PICK n \in 0 .. Len(d.c.out) :
             /\ e.c.out = SubSeq(d.c.out, n + 1, Len(d.c.out))
             /\ e.up = d.up \o Marked(SubSeq(d.c.out, 1, n), d.c.tls)
    BY <1>3
  <2>1. d.c \in TunnelRec /\ d.up \in Seq(Piece) /\ d.proxy \in ProxyRec BY DEF DRec
  <2>2. d.c.out \in Seq(Words) /\ d.c.tls \in BOOLEAN /\ d.proxy.https \in BOOLEAN /\ d.c.open \in BOOLEAN
    BY <2>1 DEF TunnelRec, ProxyRec
  <2>3. Once(d.proxy, d.c, d.traffic) BY DEF Fine
  <2>4. Goes(d.proxy, d.c, d.up, down, stage, d.traffic)
          => Goes(d.proxy, e.c, e.up, down, stage, d.traffic)
    BY ZenonT(40), <1>3, <2>n, <2>1, <2>2, <2>3, ShiftedGoes
  <2>5. Once(d.proxy, e.c, d.traffic) BY <1>3, <2>3 DEF Once
  <2>p. PICK f : f = e.c OBVIOUS
  <2>6. Fine(d.proxy, f, e.up, down, stage, d.traffic)
    BY <1>3, <2>p, <2>4, <2>5 DEF Fine
  <2>7. Fine(e.proxy, e.c, e.up, down, stage, e.traffic) BY <1>1, <1>3, <2>p, <2>6
  <2>8. Later(d.traffic, e.traffic) BY <1>3 DEF Later
  <2>9. d.c.out = <<>> => e.c.out = <<>>
    <3>1. ASSUME d.c.out = <<>> PROVE e.c.out = <<>>
      <4>1. n = 0 /\ Len(d.c.out) = 0 BY <3>1
      <4> QED BY <2>n, <4>1, <3>1
    <3> QED BY <3>1
  <2> QED BY <1>p, <1>1, <1>3, <2>7, <2>8, <2>9
<1>4. CASE /\ Later(d.traffic, e.traffic) /\ e.up = d.up
           /\ e.c.open = d.c.open /\ e.c.status = d.c.status /\ e.c.read = d.c.read
           /\ e.c.out = d.c.out /\ e.c.tls = d.c.tls
  <2>p. PICK f : f = e.c OBVIOUS
  <2>1. Fine(d.proxy, d.c, d.up, down, stage, e.traffic) BY <1>4, FineLater
  <2>2. Fine(d.proxy, f, d.up, down, stage, e.traffic) BY <1>4, <2>p, <2>1, FineLike
  <2>3. Fine(e.proxy, e.c, e.up, down, stage, e.traffic) BY <1>1, <1>4, <2>p, <2>2
  <2> QED BY <1>p, <1>1, <1>4, <2>3
<1> QED BY <1>1, <1>2, <1>3, <1>4

\* Nothing but the dialogue has been said, and it is over.
Untouched(d, down, stage) ==
  /\ down = <<>> /\ d.up = <<>> /\ d.c.out = <<>> /\ d.c.read = <<>>
  /\ d.traffic.forwarded = <<>> /\ d.traffic.replies = 0 /\ d.traffic.answers = 0
  /\ d.proxy.kind = "ptSOCKS5" => stage = "tunnel" /\ d.traffic.heard = Dialogue
  /\ d.proxy.kind = "ptHTTP" => stage = "methods" /\ d.traffic.heard = <<>>
  /\ d.c.tls = (d.proxy.kind = "ptSOCKS5" /\ d.proxy.https)

LEMMA DoRequestKeeps ==
  ASSUME NEW d \in DRec, NEW room \in Nat, NEW down, NEW stage,
         d.c.open, d.proxy.active, d.proxy.type = "ptHTTP", d.traffic.requests = 0,
         d.proxy.kind = "ptHTTP" => ~d.c.tls,
         Led(d.traffic.why) \/ Untouched(d, down, stage)
  PROVE  LET e == DoRequest(d, room)
         IN  e \in DRec /\ e.threw = d.threw /\ Fine(e.proxy, e.c, e.up, down, stage, e.traffic)
<1>0. d.c \in TunnelRec /\ d.up \in Seq(Piece) /\ d.proxy \in ProxyRec /\ d.traffic \in TrafficRec BY DEF DRec
<1>r. /\ Request \in Seq(Words) /\ Len(Request) = 2 /\ Part(Request, 0, 2) = Request
  <2>1. TRUE \in BOOLEAN OBVIOUS
  <2> QED BY <2>1, RequestScript
<1>s. "csRequestReady" \in Statuses /\ "csRequestSent" \in Statuses BY DEF Statuses
<1>p. PICK o : o = d.c.out \o Request OBVIOUS
<1>c. PICK c : c = [d.c EXCEPT !.out = o, !.status = "csRequestReady"] OBVIOUS
<1>t. PICK t : t = [d.traffic EXCEPT !.requests = 1] OBVIOUS
<1>e. PICK r : r = [d EXCEPT !.c = c, !.traffic = t] OBVIOUS
<1>1. o \in Seq(Words)
  <2>1. d.c.out \in Seq(Words) BY <1>0 DEF TunnelRec
  <2> QED BY <1>r, <1>p, <2>1, ConcatProperties
<1>2. c \in TunnelRec /\ c.open = d.c.open /\ c.tls = d.c.tls /\ c.read = d.c.read /\ c.out = o
  BY <1>0, <1>c, <1>1, <1>s DEF TunnelRec
<1>3. /\ t \in TrafficRec /\ t.requests = 1 /\ t.heard = d.traffic.heard /\ t.forwarded = d.traffic.forwarded
      /\ t.replies = d.traffic.replies /\ t.answers = d.traffic.answers /\ t.why = d.traffic.why
  BY <1>0, <1>t DEF TrafficRec
<1>4. r \in DRec /\ r.c = c /\ r.traffic = t /\ r.proxy = d.proxy /\ r.up = d.up /\ r.threw = d.threw
  BY <1>2, <1>3, <1>e DEF DRec
<1>5. r = [d EXCEPT !.c.out = @ \o Request, !.c.status = "csRequestReady", !.traffic.requests = @ + 1]
  <2>1. d.traffic.requests + 1 = 1 OBVIOUS
  <2>2. t = [d.traffic EXCEPT !.requests = @ + 1] BY <1>t, <2>1, <1>0 DEF TrafficRec
  <2>3. c = [d.c EXCEPT !.out = @ \o Request, !.status = "csRequestReady"] BY <1>p, <1>c, <1>0 DEF TunnelRec
  <2> QED BY <1>e, <2>2, <2>3 DEF DRec
<1>6. Fine(d.proxy, c, d.up, down, stage, t)
  <2>1. Once(d.proxy, c, t) BY <1>2, <1>3 DEF Once
  <2>2. c.open BY <1>2
  <2>3. CASE Led(d.traffic.why)
    <3>1. Led(t.why) BY <1>3, <2>3
    <3> QED BY <2>1, <2>2, <3>1, FineLed
  <2>4. CASE Untouched(d, down, stage)
    <3>p. PICK tls \in BOOLEAN : tls = (d.proxy.kind = "ptSOCKS5" /\ d.proxy.https)
      <4>1. (d.proxy.kind = "ptSOCKS5" /\ d.proxy.https) \in BOOLEAN OBVIOUS
      <4> QED BY <4>1
    <3>1. Marked(Request, tls) \in Seq(Piece) /\ Len(Marked(Request, tls)) = 2 BY RequestScript
    <3>2. Part(Marked(Request, tls), 0, 0) = <<>>
      <4>1. 0 \in 0 .. Len(Marked(Request, tls)) BY <3>1
      <4> QED BY <3>1, <4>1, PartEnds
    <3>3. c.out = Request
      <4>1. o = <<>> \o Request BY <1>p, <2>4 DEF Untouched
      <4> QED BY <1>2, <1>r, <4>1, ConcatEmptySeq
    <3>4. Asks(c, d.up, down, t, tls)
      <4>1. t.requests = 1 /\ t.answers = 0 /\ c.tls = tls BY <1>2, <1>3, <2>4, <3>p DEF Untouched
      <4>2. /\ t.forwarded = Part(Marked(Request, tls), 0, 0)
            /\ d.up = Part(Marked(Request, tls), 0, 0) /\ c.out = Part(Request, 0, 2)
            /\ t.replies = 0 /\ c.read = <<>> /\ down = <<>>
        BY <1>2, <1>3, <1>r, <2>4, <3>2, <3>3 DEF Untouched
      <4>3. 0 \in 0 .. 2 /\ 0 <= 0 OBVIOUS
      <4> QED BY <4>1, <4>2, <4>3 DEF Asks
    <3>5. d.proxy.kind \in {"ptHTTP", "ptSOCKS5"} BY <1>0 DEF ProxyRec, Kinds
    <3>6. /\ d.proxy.kind = "ptSOCKS5" => stage = "tunnel" /\ t.heard = Dialogue
          /\ d.proxy.kind = "ptHTTP" => stage = "methods" /\ t.heard = <<>>
      BY <1>3, <2>4 DEF Untouched
    <3>7. Goes(d.proxy, c, d.up, down, stage, t) BY <3>4, <3>6, <3>p DEF Goes
    <3>8. Kept(d.proxy, stage, t)
      <4>1. IsPrefix(t.forwarded, Marked(Request, tls))
        <5>1. t.forwarded = <<>> BY <1>3, <2>4 DEF Untouched
        <5> QED BY <5>1, <3>1, NothingIsPrefix
      <4>2. IsPrefix(t.heard, Dialogue)
        <5>1. Dialogue \in Seq(Piece) /\ Len(Dialogue) = 6 /\ Part(Dialogue, 0, 6) = Dialogue BY Scripts
        <5>2. IsPrefix(<<>>, Dialogue) BY <5>1, NothingIsPrefix
        <5>3. IsPrefix(Dialogue, Dialogue)
          <6>1. 6 \in 0 .. Len(Dialogue) BY <5>1
          <6>2. IsPrefix(Part(Dialogue, 0, 6), Dialogue) BY <5>1, <6>1, PartEnds
          <6> QED BY <5>1, <6>2
        <5> QED BY <3>5, <3>6, <5>2, <5>3
      <4>3. t.answers <= t.replies BY <1>3, <2>4 DEF Untouched
      <4> QED BY <3>6, <3>p, <4>1, <4>2, <4>3 DEF Kept
    <3> QED BY <2>1, <2>2, <3>7, <3>8 DEF Fine
  <2> QED BY <2>3, <2>4
<1>7. Fine(r.proxy, r.c, r.up, down, stage, r.traffic) BY <1>4, <1>6
<1>w. PICK s : s = WriteAsync(r, room) OBVIOUS
<1>8. /\ s \in DRec /\ s.proxy = r.proxy /\ s.threw = r.threw
      /\ Fine(s.proxy, s.c, s.up, down, stage, s.traffic) /\ Later(r.traffic, s.traffic)
  <2>1. r.c.open BY <1>2, <1>4
  <2>2. r \in DRec BY <1>4
  <2> QED BY <1>7, <1>w, <2>1, <2>2, WriteKeeps
<1>9. DoRequest(d, room) = IF s.c.out = <<>> THEN [s EXCEPT !.c.status = "csRequestSent"] ELSE s
  BY <1>5, <1>w DEF DoRequest
<1>10. CASE s.c.out # <<>> BY <1>4, <1>8, <1>9, <1>10
<1>11. CASE s.c.out = <<>>
  <2>p. PICK f : f = [s.c EXCEPT !.status = "csRequestSent"] OBVIOUS
  <2>q. PICK e : e = [s EXCEPT !.c = f] OBVIOUS
  <2>0. s.c \in TunnelRec BY <1>8 DEF DRec
  <2>1. f \in TunnelRec /\ f.open = s.c.open /\ f.tls = s.c.tls /\ f.read = s.c.read /\ f.out = s.c.out
    BY <2>p, <2>0, <1>s DEF TunnelRec
  <2>2. /\ e \in DRec /\ e.c = f /\ e.proxy = s.proxy /\ e.up = s.up /\ e.traffic = s.traffic /\ e.threw = s.threw
    BY <1>8, <2>q, <2>1 DEF DRec
  <2>3. DoRequest(d, room) = e BY <1>8, <1>9, <1>11, <2>p, <2>q DEF DRec
  <2>4. s.traffic.requests = 1 BY <1>3, <1>4, <1>8 DEF Later
  <2>5. s.proxy.type = "ptHTTP" BY <1>4, <1>8
  <2>6. Fine(s.proxy, s.c, s.up, down, stage, s.traffic) BY <1>8
  <2>7. Fine(s.proxy, f, s.up, down, stage, s.traffic) BY <2>1, <2>4, <2>5, <2>6, FineLike
  <2> QED BY <1>4, <1>8, <2>2, <2>3, <2>7
<1> QED BY <1>10, <1>11

\* What has not been read yet of what was there
Rest(c, down, n) == IF c.open THEN SubSeq(down, n + 1, Len(down)) ELSE <<>>

LEMMA WholeRead ==
  ASSUME NEW S, NEW s \in Seq(S)
  PROVE  SubSeq(s, 1, Len(s)) = s /\ SubSeq(s, Len(s) + 1, Len(s)) = <<>> /\ SubSeq(s, 1, 0) = <<>>
<1>0. Len(s) \in Nat OBVIOUS
<1>1. SubSeq(s, 1, Len(s)) \in Seq(S) /\ Len(SubSeq(s, 1, Len(s))) = Len(s)
      /\ \A i \in 1 .. Len(s) : SubSeq(s, 1, Len(s))[i] = s[i]
  BY <1>0
<1>2. SubSeq(s, 1, Len(s)) = s BY <1>1, SeqEqual
<1>3. SubSeq(s, Len(s) + 1, Len(s)) = <<>> /\ SubSeq(s, 1, 0) = <<>> BY <1>0
<1> QED BY <1>2, <1>3

LEMMA RestNone ==
  ASSUME NEW S, NEW s \in Seq(S), NEW c, NEW n, n = Len(s)
  PROVE  Rest(c, s, n) = <<>> /\ SubSeq(s, 1, n) = s
BY WholeRead DEF Rest

LEMMA Answers5 ==
  /\ Len(Granted) = 2 /\ Granted[1] = "5" /\ Granted[2] = "granted"
  /\ Len(Opened) = 4 /\ Opened[1] = "5" /\ Opened[2] = "granted"
  /\ \A r \in Denials : r[2] = "refused"
BY DEF Granted, Opened, Denials

\* What of a whole reply the client makes
LEMMA Replied5 ==
  ASSUME NEW c, NEW up, NEW down, NEW stage, NEW t, Talks(c, up, down, stage, t), down # <<>>
  PROVE  /\ up = <<>> /\ c.out = <<>> /\ c.read = <<>> /\ c.status = "csConnected"
         /\ t.forwarded = <<>> /\ t.replies = 0 /\ t.answers = 0
         /\ \/ down = Granted /\ stage = "connect" /\ t.heard = Part(Dialogue, 0, 3)
            \/ down = Opened /\ stage = "tunnel" /\ t.heard = Dialogue
            \/ /\ down \in Denials /\ stage = "closed" /\ "refused" \in t.why
               /\ t.heard \in {Part(Dialogue, 0, 3), Dialogue}
BY DEF Talks

LEMMA ReadSOCKS5Keeps ==
  ASSUME NEW d \in DRec, NEW down \in Seq(Words), NEW stage, NEW n \in 0 .. Len(down), NEW ended \in BOOLEAN,
         NEW room \in Nat, NEW shakes \in BOOLEAN,
         Fine(d.proxy, d.c, d.up, down, stage, d.traffic), d.c.open, d.proxy.type = "ptSOCKS5",
         n < Len(down) => Led(d.traffic.why)
  PROVE  LET e == ReadSOCKS5(d, SubSeq(down, 1, n), ended, room, shakes)
         IN  e \in DRec /\ Fine(e.proxy, e.c, e.up, Rest(e.c, down, n), stage, e.traffic)
<1>0. d.c \in TunnelRec /\ d.up \in Seq(Piece) /\ d.proxy \in ProxyRec /\ d.traffic \in TrafficRec BY DEF DRec
<1>p. PICK b : b = SubSeq(down, 1, n) OBVIOUS
<1>q. PICK e : e = ReadSOCKS5(d, b, ended, room, shakes) OBVIOUS
<1>1. b \in Seq(Words) /\ Len(b) = n /\ Len(down) \in Nat /\ n \in Nat BY <1>p
<1>2. /\ Once(d.proxy, d.c, d.traffic) /\ d.proxy.active /\ d.traffic.requests = 0 /\ d.c.tls = FALSE
      /\ d.proxy.kind = "ptSOCKS5"
  <2>1. Once(d.proxy, d.c, d.traffic) /\ d.proxy.active BY DEF Fine
  <2>2. d.c.tls \in BOOLEAN /\ d.proxy.kind \in Kinds BY <1>0 DEF TunnelRec, ProxyRec
  <2> QED BY <2>1, <2>2 DEF Once, Kinds
<1>3. ASSUME ~Led(d.traffic.why)
      PROVE  /\ Kept(d.proxy, stage, d.traffic) /\ Talks(d.c, d.up, down, stage, d.traffic)
             /\ n = Len(down) /\ b = down /\ \A c : Rest(c, down, n) = <<>>
  <2>1. n = Len(down) BY <1>1, <1>3
  <2>2. Kept(d.proxy, stage, d.traffic) /\ Goes(d.proxy, d.c, d.up, down, stage, d.traffic) BY <1>3 DEF Fine
  <2>3. \A c : Rest(c, down, n) = <<>> BY <2>1, RestNone
  <2>4. b = down BY <1>p, <2>1, WholeRead
  <2> QED BY <2>1, <2>2, <2>3, <2>4 DEF Goes
<1> DEFINE Fit(x) == x \in DRec /\ Fine(x.proxy, x.c, x.up, Rest(x.c, down, n), stage, x.traffic)
<1>4. CASE d.c.graceful
  <2>1. e = Threw(Dropped(d), "hangup") BY <1>4, <1>q DEF ReadSOCKS5
  <2>2. "hangup" \in Reasons BY DEF Reasons
  <2>3. PICK x \in DRec : /\ x = Dropped(d) /\ x.proxy = d.proxy /\ x.c = NotConnected /\ x.up = <<>>
                          /\ x.traffic = d.traffic
    BY DroppedFields
  <2>4. e = Threw(x, "hangup") BY <2>1, <2>3
  <2>5. /\ e \in DRec /\ e.proxy = x.proxy /\ e.c = x.c /\ e.up = x.up /\ Later(x.traffic, e.traffic)
    BY <2>2, <2>4, HappenedFields
  <2>6. Later(d.traffic, e.traffic) BY <2>3, <2>5
  <2>7. Fine(d.proxy, d.c, d.up, down, stage, e.traffic) BY <2>6, FineLater
  <2>8. Fine(d.proxy, NotConnected, <<>>, Rest(e.c, down, n), stage, e.traffic) BY <2>7, FineDropped
  <2>9. Fit(e) BY <2>3, <2>5, <2>8
  <2> QED BY <1>p, <1>q, <2>9
<1>5. CASE ~d.c.graceful /\ b = <<>>
  <2>p. PICK c : c = [d.c EXCEPT !.graceful = ended] OBVIOUS
  <2>1. e = [d EXCEPT !.c.graceful = ended] BY <1>5, <1>q DEF ReadSOCKS5
  <2>2. e = [d EXCEPT !.c = c] BY <2>1, <2>p DEF DRec
  <2>3. c \in TunnelRec /\ c.open = d.c.open /\ c.out = d.c.out /\ c.read = d.c.read /\ c.tls = d.c.tls
        /\ c.status = d.c.status
    BY <1>0, <2>p DEF TunnelRec
  <2>4. /\ e \in DRec /\ e.proxy = d.proxy /\ e.c = c /\ e.up = d.up /\ e.traffic = d.traffic
    BY <2>2, <2>3 DEF DRec
  <2>5. Fine(d.proxy, c, d.up, down, stage, d.traffic) BY <2>3, FineLike
  <2>6. n = 0 BY <1>1, <1>5
  <2>7. Rest(c, down, n) = down
    <3>1. SubSeq(down, 1, Len(down)) = down BY WholeRead
    <3>2. n + 1 = 1 BY <2>6
    <3> QED BY <2>3, <3>1, <3>2 DEF Rest
  <2>8. Fit(e) BY <2>4, <2>5, <2>7
  <2> QED BY <1>p, <1>q, <2>8
<1>6. CASE ~d.c.graceful /\ Len(b) = 1
  <2>1. e = Threw(d, "cut")
    <3>1. b # <<>>
      <4>1. n = 1 BY <1>1, <1>6
      <4>2. <<>> \in Seq(Words) /\ Len(<<>>) = 0 OBVIOUS
      <4> QED BY <1>1, <4>1, <4>2
    <3> QED BY <1>6, <1>q, <3>1 DEF ReadSOCKS5
  <2>2. "cut" \in Reasons BY DEF Reasons
  <2>3. /\ e \in DRec /\ e.proxy = d.proxy /\ e.c = d.c /\ e.up = d.up /\ Later(d.traffic, e.traffic)
        /\ "cut" \in e.traffic.why
    BY <2>1, <2>2, HappenedFields
  <2>4. Led(e.traffic.why) BY <2>3 DEF Led
  <2>5. Once(e.proxy, e.c, e.traffic) BY <1>2, <2>3 DEF Once, Later
  <2>6. e.c.open /\ e.proxy.active BY <1>2, <2>3
  <2>7. Fit(e) BY <2>3, <2>4, <2>5, <2>6, FineLed
  <2> QED BY <1>p, <1>q, <2>7
<1>7. CASE ~d.c.graceful /\ Len(b) > 1
  <2>0. b # <<>> /\ Len(b) # 1 /\ down # <<>> BY <1>1, <1>7
  <2>g. PICK good \in BOOLEAN : good = (b[1] = "5" /\ b[2] \in {"granted", "expired"})
    <3>1. (b[1] = "5" /\ b[2] \in {"granted", "expired"}) \in BOOLEAN OBVIOUS
    <3> QED BY <3>1
  <2>a. e = IF good
            THEN IF Len(b) > 2 /\ d.proxy.https /\ ~shakes
                 THEN Threw(SetUsedSSL([d EXCEPT !.proxy.type = "ptHTTP"]), "handshake")
                 ELSE TakesReply(d, b, room)
            ELSE Threw(d, "error")
    BY <1>7, <1>q, <2>0, <2>g DEF ReadSOCKS5
  <2>u. PICK u \in DRec :
          /\ u = SetUsedSSL([d EXCEPT !.proxy.type = "ptHTTP"])
          /\ u.proxy.type = "ptHTTP" /\ u.proxy.kind = d.proxy.kind /\ u.proxy.https = d.proxy.https
          /\ u.proxy.active = d.proxy.active /\ u.c.tls = d.proxy.https /\ u.c.open = d.c.open
          /\ u.c.out = d.c.out /\ u.c.read = d.c.read /\ u.c.status = d.c.status
          /\ u.up = d.up /\ u.traffic = d.traffic
    <3>p. PICK p : p = [d.proxy EXCEPT !.type = "ptHTTP", !.ssl = d.proxy.https] OBVIOUS
    <3>c. PICK c : c = [d.c EXCEPT !.tls = d.proxy.https] OBVIOUS
    <3>q. PICK q : q = [d.proxy EXCEPT !.type = "ptHTTP"] OBVIOUS
    <3>w. PICK w : w = [d EXCEPT !.proxy = q] OBVIOUS
    <3>x. PICK x : x = [d EXCEPT !.proxy = p, !.c = c] OBVIOUS
    <3>0. d.proxy.https \in BOOLEAN /\ "ptHTTP" \in Kinds BY <1>0 DEF ProxyRec, Kinds
    <3>1. /\ p \in ProxyRec /\ p.type = "ptHTTP" /\ p.kind = d.proxy.kind /\ p.https = d.proxy.https
          /\ p.active = d.proxy.active
      BY <1>0, <3>0, <3>p DEF ProxyRec
    <3>2. /\ c \in TunnelRec /\ c.tls = d.proxy.https /\ c.open = d.c.open /\ c.out = d.c.out
          /\ c.read = d.c.read /\ c.status = d.c.status
      BY <1>0, <3>0, <3>c DEF TunnelRec
    <3>3. q \in ProxyRec /\ q.https = d.proxy.https /\ p = [q EXCEPT !.ssl = d.proxy.https]
      BY <1>0, <3>0, <3>p, <3>q DEF ProxyRec
    <3>4. w \in DRec /\ w.proxy = q /\ w.c = d.c BY <3>3, <3>w DEF DRec
    <3>5. SetUsedSSL(w) = [w EXCEPT !.proxy = p, !.c = c]
      BY <3>3, <3>4, <3>c DEF SetUsedSSL, DRec
    <3>6. [w EXCEPT !.proxy = p, !.c = c] = x BY <3>w, <3>x DEF DRec
    <3>7. w = [d EXCEPT !.proxy.type = "ptHTTP"] BY <3>q, <3>w DEF DRec
    <3>8. x = SetUsedSSL([d EXCEPT !.proxy.type = "ptHTTP"]) BY <3>5, <3>6, <3>7
    <3>9. x \in DRec /\ x.proxy = p /\ x.c = c /\ x.up = d.up /\ x.traffic = d.traffic
      BY <3>1, <3>2, <3>x DEF DRec
    <3> QED BY <3>1, <3>2, <3>8, <3>9
  <2>b. d.proxy.https \in BOOLEAN BY <1>0 DEF ProxyRec
  <2>c. ~Led(d.traffic.why) => Talks(d.c, d.up, down, stage, d.traffic) /\ b = down BY <1>3
  <2>d. ASSUME ~Led(d.traffic.why), good, Len(b) > 2
        PROVE  /\ down = Opened /\ stage = "tunnel" /\ d.traffic.heard = Dialogue
    <3>1. \/ down = Granted
          \/ down = Opened /\ stage = "tunnel" /\ d.traffic.heard = Dialogue
          \/ down \in Denials
      BY <2>0, <2>c, <2>d, Replied5
    <3>2. down # Granted
      <4>1. Len(down) # 2 BY <1>1, <2>c, <2>d
      <4>2. Len(Granted) = 2 BY Answers5
      <4> QED BY <4>1, <4>2
    <3>3. down \notin Denials
      <4>1. b[2] # "refused" BY <2>d, <2>g
      <4> QED BY <2>c, <2>d, <4>1, Answers5
    <3> QED BY <3>1, <3>2, <3>3
  <2>1. CASE good /\ Len(b) > 2 /\ d.proxy.https /\ ~shakes
    <3>1. e = Threw(u, "handshake") BY <2>a, <2>u, <2>1
    <3>2. "handshake" \in Reasons BY DEF Reasons
    <3>3. /\ e \in DRec /\ e.proxy = u.proxy /\ e.c = u.c /\ e.up = u.up /\ Later(u.traffic, e.traffic)
          /\ "handshake" \in e.traffic.why
      BY <3>1, <3>2, HappenedFields
    <3>4. Once(e.proxy, e.c, e.traffic)
      <4>1. e.traffic.requests = 0 BY <1>2, <2>u, <3>3 DEF Later
      <4> QED BY <1>2, <2>u, <3>3, <4>1 DEF Once
    <3>5. e.c.open /\ e.proxy.active BY <1>2, <2>u, <3>3
    <3>6. CASE Led(e.traffic.why)
      <4>1. Fine(e.proxy, e.c, e.up, Rest(e.c, down, n), stage, e.traffic) BY <3>4, <3>5, <3>6, FineLed
      <4> QED BY <1>p, <1>q, <3>3, <4>1
    <3>7. CASE ~Led(e.traffic.why)
      <4>1. ~Led(d.traffic.why) BY <2>u, <3>3, <3>7 DEF Led, Later
      <4>2. stage = "tunnel" /\ d.traffic.heard = Dialogue BY <2>d, <2>1, <4>1
      <4>3. /\ d.up = <<>> /\ d.c.out = <<>> /\ d.c.read = <<>> /\ d.c.status = "csConnected"
            /\ d.traffic.forwarded = <<>> /\ d.traffic.replies = 0 /\ d.traffic.answers = 0
        BY <2>0, <2>c, <4>1, Replied5
      <4>4. Rest(e.c, down, n) = <<>> /\ Kept(d.proxy, stage, d.traffic) BY <1>3, <4>1
      <4>5. /\ e.traffic.requests = 0 /\ e.traffic.answers = 0 /\ e.traffic.replies = 0
            /\ e.traffic.forwarded = <<>> /\ e.traffic.heard = d.traffic.heard
        BY <1>2, <2>u, <3>3, <4>3 DEF Later
      <4>6. Fails(e.c, e.up, <<>>, e.traffic) BY <2>u, <3>3, <4>3, <4>5 DEF Fails
      <4>7. Goes(e.proxy, e.c, e.up, <<>>, stage, e.traffic)
        BY <1>2, <2>u, <3>3, <4>2, <4>5, <4>6 DEF Goes
      <4>8. Kept(e.proxy, stage, e.traffic)
        BY <1>2, <2>u, <3>3, <4>3, <4>4, <4>5 DEF Kept
      <4>9. Fine(e.proxy, e.c, e.up, <<>>, stage, e.traffic)
        BY <3>4, <3>5, <4>7, <4>8 DEF Fine
      <4> QED BY <1>p, <1>q, <3>3, <4>4, <4>9
    <3> QED BY <3>6, <3>7
  <2>2. CASE good /\ ~(Len(b) > 2 /\ d.proxy.https /\ ~shakes) /\ Len(b) = 2
    <3>1. e = SOCKS5(d) BY <2>a, <2>2 DEF TakesReply
    <3>p. PICK o : o = d.c.out \o ConnectTo OBVIOUS
    <3>c. PICK c : c = [d.c EXCEPT !.out = o] OBVIOUS
    <3>2. e = [d EXCEPT !.c = c] BY <3>1, <3>p, <3>c DEF SOCKS5, DRec
    <3>3. o \in Seq(Words)
      <4>1. d.c.out \in Seq(Words) BY <1>0 DEF TunnelRec
      <4> QED BY <3>p, <4>1, Scripts, ConcatProperties
    <3>4. /\ c \in TunnelRec /\ c.open = d.c.open /\ c.out = o /\ c.read = d.c.read /\ c.tls = d.c.tls
          /\ c.status = d.c.status
      BY <1>0, <3>3, <3>c DEF TunnelRec
    <3>5. /\ e \in DRec /\ e.proxy = d.proxy /\ e.c = c /\ e.up = d.up /\ e.traffic = d.traffic
      BY <3>2, <3>4 DEF DRec
    <3>6. Once(d.proxy, c, d.traffic) BY <1>2, <3>4 DEF Once
    <3>7. CASE Led(d.traffic.why)
      <4>1. Fine(d.proxy, c, d.up, Rest(c, down, n), stage, d.traffic) BY <1>2, <3>4, <3>6, <3>7, FineLed
      <4> QED BY <1>p, <1>q, <3>5, <4>1
    <3>8. CASE ~Led(d.traffic.why)
      <4>1. /\ d.up = <<>> /\ d.c.out = <<>> /\ d.c.read = <<>> /\ d.c.status = "csConnected"
            /\ d.traffic.forwarded = <<>> /\ d.traffic.replies = 0 /\ d.traffic.answers = 0
            /\ \/ down = Granted /\ stage = "connect" /\ d.traffic.heard = Part(Dialogue, 0, 3)
               \/ down = Opened
               \/ down \in Denials
        BY <2>0, <2>c, <3>8, Replied5
      <4>2. down # Opened
        <5>1. Len(down) = 2 BY <2>2, <2>c, <3>8
        <5>2. Len(Opened) # 2 BY Answers5
        <5> QED BY <5>1, <5>2
      <4>3. down \notin Denials
        <5>1. b[2] # "refused" BY <2>2, <2>g
        <5> QED BY <2>c, <3>8, <5>1, Answers5
      <4>4. stage = "connect" /\ d.traffic.heard = Part(Dialogue, 0, 3) BY <4>1, <4>2, <4>3
      <4>5. o = ConnectTo BY <3>p, <4>1, Scripts, ConcatEmptySeq
      <4>6. Part(Dialogue, 3, 3) = <<>>
        <5>1. Dialogue \in Seq(Piece) /\ 3 \in 0 .. Len(Dialogue) BY Scripts
        <5> QED BY <5>1, PartEnds
      <4>7. \E k \in 3 .. 6 : d.up = Part(Dialogue, 3, k) /\ c.out = Part(Methods \o ConnectTo, k, 6)
        <5>1. d.up = Part(Dialogue, 3, 3) /\ c.out = Part(Methods \o ConnectTo, 3, 6)
          BY <3>4, <4>1, <4>5, <4>6, Scripts
        <5>2. 3 \in 3 .. 6 OBVIOUS
        <5> QED BY <5>1, <5>2
      <4>8. Talks(c, d.up, <<>>, stage, d.traffic) BY <3>4, <4>1, <4>4, <4>7 DEF Talks
      <4>9. Rest(c, down, n) = <<>> /\ Kept(d.proxy, stage, d.traffic) BY <1>3, <3>8
      <4>10. Goes(d.proxy, c, d.up, <<>>, stage, d.traffic) BY <4>8 DEF Goes
      <4>11. Fine(d.proxy, c, d.up, <<>>, stage, d.traffic)
        BY <1>2, <3>4, <3>6, <4>9, <4>10 DEF Fine
      <4> QED BY <1>p, <1>q, <3>5, <4>9, <4>11
    <3> QED BY <3>7, <3>8
  <2>3. CASE good /\ ~(Len(b) > 2 /\ d.proxy.https /\ ~shakes) /\ Len(b) # 2
    <3>1. e = DoRequest(u, room) BY <2>a, <2>u, <2>3 DEF TakesReply
    <3>2. Len(b) > 2 BY <1>1, <1>7, <2>3
    <3>p. PICK rest : rest = Rest(e.c, down, n) OBVIOUS
    <3>3. u.c.open /\ u.proxy.active /\ u.traffic.requests = 0 /\ u.proxy.kind = "ptSOCKS5" BY <1>2, <2>u
    <3>4. Led(u.traffic.why) \/ Untouched(u, rest, stage)
      <4> SUFFICES ASSUME ~Led(d.traffic.why) PROVE Untouched(u, rest, stage) BY <2>u
      <4>1. /\ d.up = <<>> /\ d.c.out = <<>> /\ d.c.read = <<>>
            /\ d.traffic.forwarded = <<>> /\ d.traffic.replies = 0 /\ d.traffic.answers = 0
        BY <2>0, <2>c, Replied5
      <4>2. stage = "tunnel" /\ d.traffic.heard = Dialogue BY <2>d, <2>3, <3>2
      <4>3. rest = <<>> BY <1>3, <3>p
      <4>4. u.c.tls = (u.proxy.kind = "ptSOCKS5" /\ u.proxy.https)
        <5>1. u.c.tls = d.proxy.https /\ u.proxy.https = d.proxy.https BY <2>u
        <5> QED BY <2>b, <3>3, <5>1
      <4> QED BY <2>u, <3>3, <4>1, <4>2, <4>3, <4>4 DEF Untouched
    <3>5. u.proxy.kind = "ptHTTP" => ~u.c.tls BY <3>3
    <3>6. u \in DRec /\ u.proxy.type = "ptHTTP" BY <2>u
    <3>7. e \in DRec /\ Fine(e.proxy, e.c, e.up, rest, stage, e.traffic)
      BY <3>1, <3>3, <3>4, <3>5, <3>6, DoRequestKeeps
    <3> QED BY <1>p, <1>q, <3>p, <3>7
  <2>4. CASE ~good
    <3>1. e = Threw(d, "error") BY <2>a, <2>4
    <3>2. "error" \in Reasons BY DEF Reasons
    <3>3. /\ e \in DRec /\ e.proxy = d.proxy /\ e.c = d.c /\ e.up = d.up /\ Later(d.traffic, e.traffic)
      BY <3>1, <3>2, HappenedFields
    <3>4. Fine(d.proxy, d.c, d.up, Rest(d.c, down, n), stage, d.traffic)
      <4>1. CASE Led(d.traffic.why) BY <1>2, <4>1, FineLed
      <4>2. CASE ~Led(d.traffic.why)
        <5>1. /\ d.up = <<>> /\ d.c.out = <<>> /\ d.c.read = <<>> /\ d.c.status = "csConnected"
              /\ d.traffic.forwarded = <<>> /\ d.traffic.replies = 0 /\ d.traffic.answers = 0
              /\ \/ down = Granted
                 \/ down = Opened
                 \/ /\ down \in Denials /\ stage = "closed" /\ "refused" \in d.traffic.why
                    /\ d.traffic.heard \in {Part(Dialogue, 0, 3), Dialogue}
          BY <2>0, <2>c, <4>2, Replied5
        <5>2. down # Granted /\ down # Opened
          <6>1. ~(b[1] = "5" /\ b[2] \in {"granted", "expired"}) BY <2>4, <2>g
          <6> QED BY <2>c, <4>2, <6>1, Answers5
        <5>3. Talks(d.c, d.up, <<>>, stage, d.traffic) BY <5>1, <5>2 DEF Talks
        <5>4. Rest(d.c, down, n) = <<>> /\ Kept(d.proxy, stage, d.traffic) BY <1>3, <4>2
        <5>5. Goes(d.proxy, d.c, d.up, <<>>, stage, d.traffic) BY <5>3 DEF Goes
        <5> QED BY <1>2, <5>4, <5>5 DEF Fine
      <4> QED BY <4>1, <4>2
    <3>5. Fine(d.proxy, d.c, d.up, Rest(d.c, down, n), stage, e.traffic) BY <3>3, <3>4, FineLater
    <3> QED BY <1>p, <1>q, <3>3, <3>5
  <2> QED BY <2>1, <2>2, <2>3, <2>4
<1>8. b = <<>> \/ Len(b) = 1 \/ Len(b) > 1 BY <1>1
<1>9. d.c.graceful \in BOOLEAN BY <1>0 DEF TunnelRec
<1> QED BY <1>4, <1>5, <1>6, <1>7, <1>8, <1>9

LEMMA ReplyCut ==
  \A x \in 0 .. 2 : \A n \in 0 .. 2 - x :
    /\ SubSeq(Part(Reply, x, 2), 1, n) = Part(Reply, x, x + n)
    /\ SubSeq(Part(Reply, x, 2), n + 1, 2 - x) = Part(Reply, x + n, 2)
<1>0. ASSUME NEW s \in Seq(Words), NEW a \in Nat, NEW b \in Nat, NEW k \in Nat,
             a <= b, b <= Len(s), k <= b - a
      PROVE  /\ SubSeq(Part(s, a, b), 1, k) = Part(s, a, a + k)
             /\ SubSeq(Part(s, a, b), k + 1, b - a) = Part(s, a + k, b)
  BY SMTT(30), <1>0, PartsOfPart
<1> SUFFICES ASSUME NEW x \in 0 .. 2, NEW n \in 0 .. 2 - x
             PROVE  /\ SubSeq(Part(Reply, x, 2), 1, n) = Part(Reply, x, x + n)
                    /\ SubSeq(Part(Reply, x, 2), n + 1, 2 - x) = Part(Reply, x + n, 2)
  OBVIOUS
<1>p. PICK s \in Seq(Words) : s = Reply /\ Len(s) = 2 BY ReplyScript
<1>q. PICK a, b, k \in Nat : a = x /\ b = 2 /\ k = n OBVIOUS
<1>1. a <= b /\ b <= Len(s) /\ k <= b - a BY <1>p, <1>q
<1>2. /\ SubSeq(Part(s, a, b), 1, k) = Part(s, a, a + k)
      /\ SubSeq(Part(s, a, b), k + 1, b - a) = Part(s, a + k, b)
  BY <1>0, <1>1, Zenon
<1> QED BY <1>p, <1>q, <1>2

\* What is read of the reply to the request
HalfRead(c, up, down, t, tls, n) ==
  \E a, b \in 0 .. 2 :
    /\ a <= b /\ t.forwarded = Part(Marked(Request, tls), 0, a)
    /\ up = Part(Marked(Request, tls), a, b) /\ c.out = Part(Request, b, 2) /\ a = 2
    /\ \E y \in 1 .. 2 :
         /\ c.read \o SubSeq(down, 1, n) = Part(Reply, 0, y)
         /\ SubSeq(down, n + 1, Len(down)) = Part(Reply, y, 2)

LEMMA ReplyRead ==
  ASSUME NEW p, NEW c, NEW up, NEW down \in Seq(Words), NEW t, NEW tls, NEW n \in 1 .. Len(down),
         Asks(c, up, down, t, tls)
  PROVE  /\ t.replies = 1 /\ t.answers = 0
         /\ HalfRead(c, up, down, t, tls, n)
<1>1. PICK a, b \in 0 .. 2 :
          /\ a <= b /\ t.forwarded = Part(Marked(Request, tls), 0, a)
          /\ up = Part(Marked(Request, tls), a, b) /\ c.out = Part(Request, b, 2)
          /\ \/ t.replies = 0 /\ c.read = <<>> /\ down = <<>>
             \/ /\ t.replies = 1 /\ a = 2
                /\ \E x \in 0 .. 1 : c.read = Part(Reply, 0, x) /\ down = Part(Reply, x, 2)
  BY DEF Asks
<1>2. down # <<>>
  <2>1. Len(down) \in Nat /\ Len(down) >= 1 OBVIOUS
  <2>2. Len(<<>>) = 0 OBVIOUS
  <2> QED BY <2>1, <2>2
<1>3. PICK x \in 0 .. 1 : c.read = Part(Reply, 0, x) /\ down = Part(Reply, x, 2) BY <1>1, <1>2
<1>p. PICK s \in Seq(Words) : s = Reply /\ Len(s) = 2 BY ReplyScript
<1>q. PICK z, l, y : z = 0 /\ l = 2 /\ y = x + n OBVIOUS
<1>4. z \in Nat /\ l \in Nat /\ x \in Nat /\ n \in Nat /\ z <= x /\ x <= l /\ l <= Len(s) /\ x <= Len(s)
  BY <1>p, <1>q
<1>5. Len(Part(s, x, l)) = l - x BY ONLY s \in Seq(Words), <1>4, PartIsSeq
<1>6. n <= l - x BY <1>p, <1>q, <1>3, <1>5
<1>7. y \in 1 .. 2 /\ y \in Nat /\ x <= y /\ y <= Len(s) BY <1>p, <1>q, <1>4, <1>6
<1>8. /\ SubSeq(Part(s, x, l), 1, n) = Part(s, x, x + n)
      /\ SubSeq(Part(s, x, l), n + 1, l - x) = Part(s, x + n, l)
  <2>1. x \in 0 .. l /\ n \in 0 .. l - x BY <1>4, <1>6
  <2> QED BY <1>p, <1>q, <2>1, ReplyCut
<1>9. Part(s, z, x) \o Part(s, x, y) = Part(s, z, y) BY ONLY s \in Seq(Words), <1>4, <1>7, PartsJoined
<1>10. /\ c.read \o SubSeq(down, 1, n) = Part(Reply, 0, y)
       /\ SubSeq(down, n + 1, Len(down)) = Part(Reply, y, 2)
  BY <1>p, <1>q, <1>3, <1>5, <1>8, <1>9
<1>11. t.replies = 1 /\ a = 2 /\ t.answers = 0 BY <1>1, <1>2 DEF Asks
<1> QED BY <1>1, <1>7, <1>10, <1>11 DEF HalfRead

LEMMA ReadHTTPKeeps ==
  ASSUME NEW d \in DRec, NEW down \in Seq(Words), NEW stage, NEW n \in 0 .. Len(down), NEW ended \in BOOLEAN,
         Fine(d.proxy, d.c, d.up, down, stage, d.traffic), d.c.open, d.proxy.type = "ptHTTP"
  PROVE  LET e == ReadHTTP(d, SubSeq(down, 1, n), ended)
         IN  e \in DRec /\ Fine(e.proxy, e.c, e.up, Rest(e.c, down, n), stage, e.traffic)
<1>0. d.c \in TunnelRec /\ d.up \in Seq(Piece) /\ d.proxy \in ProxyRec /\ d.traffic \in TrafficRec BY DEF DRec
<1>p. PICK b : b = SubSeq(down, 1, n) OBVIOUS
<1>q. PICK e : e = ReadHTTP(d, b, ended) OBVIOUS
<1>t. PICK text : text = d.c.read \o b OBVIOUS
<1>1. b \in Seq(Words) /\ Len(b) = n /\ Len(down) \in Nat /\ n \in Nat BY <1>p
<1>2. Once(d.proxy, d.c, d.traffic) /\ d.proxy.active BY DEF Fine
<1>r. text \in Seq(Words)
  <2>1. d.c.read \in Seq(Words) BY <1>0 DEF TunnelRec
  <2> QED BY <1>1, <1>t, <2>1, ConcatProperties
<1>g. PICK tls : tls = (d.proxy.kind = "ptSOCKS5" /\ d.proxy.https) OBVIOUS
<1>3. ASSUME ~Led(d.traffic.why), b # <<>>
      PROVE  /\ Kept(d.proxy, stage, d.traffic) /\ Goes(d.proxy, d.c, d.up, down, stage, d.traffic)
             /\ Asks(d.c, d.up, down, d.traffic, tls)
             /\ d.traffic.replies = 1 /\ d.traffic.answers = 0
             /\ \E k, m \in 0 .. 2 :
                  /\ k <= m /\ d.traffic.forwarded = Part(Marked(Request, tls), 0, k)
                  /\ d.up = Part(Marked(Request, tls), k, m) /\ d.c.out = Part(Request, m, 2) /\ k = 2
                  /\ \E y \in 1 .. 2 :
                       text = Part(Reply, 0, y) /\ SubSeq(down, n + 1, Len(down)) = Part(Reply, y, 2)
  <2>1. n \in 1 .. Len(down)
    <3>1. n # 0
      <4> SUFFICES ASSUME n = 0 PROVE FALSE OBVIOUS
      <4>1. b = <<>> BY <1>p
      <4> QED BY <1>3, <4>1
    <3> QED BY <1>1, <3>1
  <2>2. Kept(d.proxy, stage, d.traffic) /\ Goes(d.proxy, d.c, d.up, down, stage, d.traffic) BY <1>3 DEF Fine
  <2>3. down # <<>>
    <3>1. Len(down) # 0 /\ Len(<<>>) = 0 BY <1>1, <2>1
    <3> QED BY <3>1
  <2>4. Asks(d.c, d.up, down, d.traffic, tls) BY <1>g, <2>2, <2>3 DEF Goes, Fails
  <2>5. /\ d.traffic.replies = 1 /\ d.traffic.answers = 0
        /\ HalfRead(d.c, d.up, down, d.traffic, tls, n)
    <3>1. down \in Seq(Words) OBVIOUS
    <3> QED BY ONLY <3>1, <2>1, <2>4, ReplyRead
  <2>6. d.c.read \o SubSeq(down, 1, n) = text BY <1>p, <1>t
  <2> QED BY <2>2, <2>4, <2>5, <2>6 DEF HalfRead
<1>4. CASE d.c.graceful
  <2>1. e = Dropped(Happened(d, "hangup")) BY <1>4, <1>q DEF ReadHTTP
  <2>2. "hangup" \in Reasons BY DEF Reasons
  <2>3. PICK x \in DRec : x = Happened(d, "hangup") /\ x.proxy = d.proxy /\ Later(d.traffic, x.traffic)
    BY <2>2, HappenedFields
  <2>4. e = Dropped(x) BY <2>1, <2>3
  <2>5. /\ e \in DRec /\ e.proxy = x.proxy /\ e.c = NotConnected /\ e.up = <<>> /\ e.traffic = x.traffic
    BY <2>4, DroppedFields
  <2>6. Later(d.traffic, e.traffic) BY <2>3, <2>5
  <2>7. Fine(d.proxy, d.c, d.up, down, stage, e.traffic) BY <2>6, FineLater
  <2>8. Fine(d.proxy, NotConnected, <<>>, Rest(e.c, down, n), stage, e.traffic) BY <2>7, FineDropped
  <2> QED BY <1>p, <1>q, <2>3, <2>5, <2>8
<1>5. CASE ~d.c.graceful /\ b = <<>>
  <2>p. PICK c : c = [d.c EXCEPT !.graceful = ended] OBVIOUS
  <2>1. e = [d EXCEPT !.c.graceful = ended] BY <1>5, <1>q DEF ReadHTTP
  <2>2. e = [d EXCEPT !.c = c] BY <2>1, <2>p DEF DRec
  <2>3. c \in TunnelRec /\ c.open = d.c.open /\ c.out = d.c.out /\ c.read = d.c.read /\ c.tls = d.c.tls
        /\ c.status = d.c.status
    BY <1>0, <2>p DEF TunnelRec
  <2>4. /\ e \in DRec /\ e.proxy = d.proxy /\ e.c = c /\ e.up = d.up /\ e.traffic = d.traffic
    BY <2>2, <2>3 DEF DRec
  <2>5. Fine(d.proxy, c, d.up, down, stage, d.traffic) BY <2>3, FineLike
  <2>6. n = 0 BY <1>1, <1>5
  <2>7. Rest(c, down, n) = down
    <3>1. SubSeq(down, 1, Len(down)) = down BY WholeRead
    <3>2. n + 1 = 1 BY <2>6
    <3> QED BY <2>3, <3>1, <3>2 DEF Rest
  <2> QED BY <1>p, <1>q, <2>4, <2>5, <2>7
<1>6. CASE ~d.c.graceful /\ b # <<>> /\ text = Reply
  <2>s. "csReplyOk" \in Statuses BY DEF Statuses
  <2>c. PICK c : c = [d.c EXCEPT !.status = "csReplyOk"] OBVIOUS
  <2>t. PICK t : t = [d.traffic EXCEPT !.answers = @ + 1] OBVIOUS
  <2>x. PICK x : x = [d EXCEPT !.c = c, !.traffic = t] OBVIOUS
  <2>1. e = Dropped([d EXCEPT !.c.status = "csReplyOk", !.traffic.answers = @ + 1])
    BY <1>6, <1>q, <1>t DEF ReadHTTP
  <2>2. x = [d EXCEPT !.c.status = "csReplyOk", !.traffic.answers = @ + 1] BY <2>c, <2>t, <2>x DEF DRec
  <2>3. c \in TunnelRec BY <1>0, <2>s, <2>c DEF TunnelRec
  <2>4. /\ t \in TrafficRec /\ t.requests = d.traffic.requests /\ t.heard = d.traffic.heard
        /\ t.forwarded = d.traffic.forwarded /\ t.replies = d.traffic.replies
        /\ t.answers = d.traffic.answers + 1 /\ t.why = d.traffic.why
    <3>1. d.traffic.answers \in Nat BY <1>0 DEF TrafficRec
    <3>2. d.traffic.answers + 1 \in Nat BY <3>1
    <3> QED BY <1>0, <2>t, <3>2 DEF TrafficRec
  <2>5. x \in DRec /\ x.proxy = d.proxy /\ x.traffic = t BY <2>3, <2>4, <2>x DEF DRec
  <2>6. e = Dropped(x) BY <2>1, <2>2
  <2>7. /\ e \in DRec /\ e.proxy = d.proxy /\ e.c = NotConnected /\ e.up = <<>> /\ e.traffic = t
    BY <2>5, <2>6, DroppedFields
  <2>8. NotConnected.open = FALSE /\ NotConnected.tls = FALSE BY DEF NotConnected
  <2>9. Once(d.proxy, NotConnected, t) BY <1>2, <2>4, <2>8 DEF Once
  <2>10. ~Led(t.why) => Kept(d.proxy, stage, t)
    <3> SUFFICES ASSUME ~Led(d.traffic.why) PROVE Kept(d.proxy, stage, t) BY <2>4
    <3>1. d.traffic.replies = 1 /\ d.traffic.answers = 0 /\ Kept(d.proxy, stage, d.traffic) BY <1>3, <1>6
    <3>2. t.answers <= t.replies BY <2>4, <3>1
    <3> QED BY <2>4, <3>1, <3>2 DEF Kept
  <2>11. Fine(d.proxy, NotConnected, <<>>, Rest(e.c, down, n), stage, t) BY <2>8, <2>9, <2>10 DEF Fine
  <2> QED BY <1>p, <1>q, <2>7, <2>11
<1>7. CASE ~d.c.graceful /\ b # <<>> /\ text # Reply /\ IsPrefix(text, Reply)
  <2>s. "csWaitReply" \in Statuses BY DEF Statuses
  <2>c. PICK c : c = [d.c EXCEPT !.read = text, !.status = "csWaitReply"] OBVIOUS
  <2>1. e = [d EXCEPT !.c.read = text, !.c.status = "csWaitReply"] BY <1>7, <1>q, <1>t DEF ReadHTTP
  <2>2. e = [d EXCEPT !.c = c] BY <2>1, <2>c DEF DRec
  <2>3. c \in TunnelRec /\ c.open = d.c.open /\ c.out = d.c.out /\ c.read = text /\ c.tls = d.c.tls
    BY <1>0, <1>r, <2>s, <2>c DEF TunnelRec
  <2>4. /\ e \in DRec /\ e.proxy = d.proxy /\ e.c = c /\ e.up = d.up /\ e.traffic = d.traffic
    BY <2>2, <2>3 DEF DRec
  <2>5. Once(d.proxy, c, d.traffic) BY <1>2, <2>3 DEF Once
  <2>6. CASE Led(d.traffic.why)
    <3>1. Fine(d.proxy, c, d.up, Rest(c, down, n), stage, d.traffic) BY <1>2, <2>3, <2>5, <2>6, FineLed
    <3> QED BY <1>p, <1>q, <2>4, <3>1
  <2>7. CASE ~Led(d.traffic.why)
    <3>p. PICK rest : rest = Rest(c, down, n) OBVIOUS
    <3>1. PICK k, m \in 0 .. 2 :
                  /\ k <= m /\ d.traffic.forwarded = Part(Marked(Request, tls), 0, k)
                  /\ d.up = Part(Marked(Request, tls), k, m) /\ d.c.out = Part(Request, m, 2) /\ k = 2
                  /\ \E y \in 1 .. 2 :
                       text = Part(Reply, 0, y) /\ SubSeq(down, n + 1, Len(down)) = Part(Reply, y, 2)
      BY <1>3, <1>7, <2>7
    <3>2. PICK y \in 1 .. 2 : text = Part(Reply, 0, y) /\ SubSeq(down, n + 1, Len(down)) = Part(Reply, y, 2)
      BY <3>1
    <3>3. y \in 0 .. 1
      <4>1. y # 2 BY <1>7, <3>2, ReplyScript
      <4> QED BY <4>1
    <3>4. rest = Part(Reply, y, 2) BY <2>3, <3>p, <3>2 DEF Rest
    <3>5. /\ Kept(d.proxy, stage, d.traffic) /\ Goes(d.proxy, d.c, d.up, down, stage, d.traffic)
          /\ Asks(d.c, d.up, down, d.traffic, tls) /\ d.traffic.replies = 1
      BY <1>3, <1>7, <2>7
    <3>6. Asks(c, d.up, rest, d.traffic, tls)
      <4>1. d.traffic.requests = 1 /\ d.traffic.answers = 0 /\ c.tls = tls BY <2>3, <3>5 DEF Asks
      <4>2. \E x \in 0 .. 1 : c.read = Part(Reply, 0, x) /\ rest = Part(Reply, x, 2)
        BY <2>3, <3>2, <3>3, <3>4
      <4>3. c.out = Part(Request, m, 2) BY <2>3, <3>1
      <4> QED BY <3>1, <3>5, <4>1, <4>2, <4>3 DEF Asks
    <3>7. Goes(d.proxy, c, d.up, rest, stage, d.traffic) BY <1>g, <3>5, <3>6 DEF Goes
    <3>8. Fine(d.proxy, c, d.up, rest, stage, d.traffic) BY <1>2, <2>3, <2>5, <3>5, <3>7 DEF Fine
    <3> QED BY <1>p, <1>q, <2>4, <3>p, <3>8
  <2> QED BY <2>6, <2>7
<1>8. CASE ~d.c.graceful /\ b # <<>> /\ text # Reply /\ ~IsPrefix(text, Reply)
  <2>s. "csReplyError" \in Statuses /\ "garbage" \in Reasons /\ <<>> \in Seq(Words) BY DEF Statuses, Reasons
  <2>c. PICK c : c = [d.c EXCEPT !.read = <<>>, !.status = "csReplyError"] OBVIOUS
  <2>x. PICK x : x = [d EXCEPT !.c = c] OBVIOUS
  <2>1. e = Happened([d EXCEPT !.c.read = <<>>, !.c.status = "csReplyError"], "garbage")
    BY <1>8, <1>q, <1>t DEF ReadHTTP
  <2>2. x = [d EXCEPT !.c.read = <<>>, !.c.status = "csReplyError"] BY <2>c, <2>x DEF DRec
  <2>3. c \in TunnelRec /\ c.open = d.c.open /\ c.tls = d.c.tls BY <1>0, <2>s, <2>c DEF TunnelRec
  <2>4. /\ x \in DRec /\ x.proxy = d.proxy /\ x.c = c /\ x.up = d.up /\ x.traffic = d.traffic
    BY <2>3, <2>x DEF DRec
  <2>5. e = Happened(x, "garbage") BY <2>1, <2>2
  <2>6. /\ e \in DRec /\ e.proxy = x.proxy /\ e.c = x.c /\ e.up = x.up /\ Later(x.traffic, e.traffic)
    BY <2>s, <2>4, <2>5, HappenedFields
  <2>7. Led(d.traffic.why)
    <3> SUFFICES ASSUME ~Led(d.traffic.why) PROVE FALSE OBVIOUS
    <3>1. PICK y \in 1 .. 2 : text = Part(Reply, 0, y) BY <1>3, <1>8
    <3>2. y \in 0 .. Len(Reply) /\ Reply \in Seq(Words) BY ReplyScript
    <3>3. IsPrefix(text, Reply) BY <3>1, <3>2, PartEnds
    <3> QED BY <1>8, <3>3
  <2>8. Led(e.traffic.why) BY <2>4, <2>6, <2>7 DEF Led, Later
  <2>9. Once(e.proxy, e.c, e.traffic) BY <1>2, <2>3, <2>4, <2>6 DEF Once, Later
  <2>10. e.c.open /\ e.proxy.active BY <1>2, <2>3, <2>4, <2>6
  <2>11. Fine(e.proxy, e.c, e.up, Rest(e.c, down, n), stage, e.traffic) BY <2>8, <2>9, <2>10, FineLed
  <2> QED BY <1>p, <1>q, <2>6, <2>11
<1>9. d.c.graceful \in BOOLEAN BY <1>0 DEF TunnelRec
<1> QED BY <1>4, <1>5, <1>6, <1>7, <1>8, <1>9

LEMMA DoReadKeeps ==
  ASSUME NEW d \in DRec, NEW down \in Seq(Words), NEW stage, NEW n \in 0 .. Len(down), NEW ended \in BOOLEAN,
         NEW room \in Nat, NEW shakes \in BOOLEAN,
         Fine(d.proxy, d.c, d.up, down, stage, d.traffic), d.c.open,
         d.proxy.type = "ptSOCKS5" /\ n < Len(down) => Led(d.traffic.why)
  PROVE  LET e == DoRead(d, SubSeq(down, 1, n), ended, room, shakes)
         IN  e \in DRec /\ Fine(e.proxy, e.c, e.up, Rest(e.c, down, n), stage, e.traffic)
<1>p. PICK b : b = SubSeq(down, 1, n) OBVIOUS
<1>q. PICK e : e = DoRead(d, b, ended, room, shakes) OBVIOUS
<1>1. d.proxy.type \in Kinds
  <2>1. d.proxy \in ProxyRec BY DEF DRec
  <2> QED BY <2>1 DEF ProxyRec
<1>2. CASE d.proxy.type = "ptHTTP"
  <2>1. e = ReadHTTP(d, b, ended) BY <1>2, <1>q DEF DoRead
  <2>2. e \in DRec /\ Fine(e.proxy, e.c, e.up, Rest(e.c, down, n), stage, e.traffic)
    BY <1>2, <1>p, <2>1, ReadHTTPKeeps
  <2> QED BY <1>p, <1>q, <2>2
<1>3. CASE d.proxy.type = "ptSOCKS5"
  <2>1. e = ReadSOCKS5(d, b, ended, room, shakes) BY <1>3, <1>q DEF DoRead
  <2>2. e \in DRec /\ Fine(e.proxy, e.c, e.up, Rest(e.c, down, n), stage, e.traffic)
    BY <1>3, <1>p, <2>1, ReadSOCKS5Keeps
  <2> QED BY <1>p, <1>q, <2>2
<1> QED BY <1>1, <1>2, <1>3 DEF Kinds

-----------------------------------------------------------------------------
(* The steps of the client *)

LEMMA NowFields ==
  ASSUME IndInv
  PROVE  /\ Now \in DRec /\ Now.proxy = proxy /\ Now.c = tunnel /\ Now.up = upstream /\ Now.traffic = traffic
         /\ Now.threw = FALSE
         /\ Fine(proxy, tunnel, upstream, downstream, relay.stage, traffic)
<1>1. proxy \in ProxyRec /\ tunnel \in TunnelRec /\ upstream \in Seq(Piece) /\ traffic \in TrafficRec
  BY DEF IndInv, TypeOK
<1>2. FALSE \in BOOLEAN OBVIOUS
<1> QED BY <1>1, <1>2 DEF Now, DRec, IndInv

LEMMA TunnelTypes ==
  ASSUME IndInv
  PROVE  /\ downstream \in Seq(Words) /\ upstream \in Seq(Piece) /\ relay \in RelayRec /\ dials \in Nat
         /\ tunnelPc \in {"wait", "write"} /\ proxy \in ProxyRec /\ tunnel \in TunnelRec /\ traffic \in TrafficRec
         /\ tunnel.open \in BOOLEAN /\ tunnel.out \in Seq(Words) /\ proxy.type \in Kinds /\ proxy.kind \in Kinds
         /\ tunnel.tls \in BOOLEAN
<1>1. /\ downstream \in Seq(Words) /\ upstream \in Seq(Piece) /\ relay \in RelayRec /\ dials \in Nat
      /\ tunnelPc \in {"wait", "write"} /\ proxy \in ProxyRec /\ tunnel \in TunnelRec /\ traffic \in TrafficRec
  BY DEF IndInv, TypeOK
<1>2. tunnel.open \in BOOLEAN /\ tunnel.out \in Seq(Words) /\ tunnel.tls \in BOOLEAN BY <1>1 DEF TunnelRec
<1>3. proxy.type \in Kinds /\ proxy.kind \in Kinds BY <1>1 DEF ProxyRec
<1> QED BY <1>1, <1>2, <1>3

\* A step that puts e for the client, and s and pc for the rest
LEMMA Taken ==
  ASSUME NEW e \in DRec, NEW s \in Seq(Words), NEW pc \in {"wait", "write"}, NEW r \in RelayRec, NEW k \in Nat,
         Fine(e.proxy, e.c, e.up, s, r.stage, e.traffic),
         proxy' = e.proxy, tunnel' = e.c, upstream' = e.up, traffic' = e.traffic,
         downstream' = s, tunnelPc' = pc, relay' = r, dials' = k
  PROVE  IndInv'
<1>1. e.proxy \in ProxyRec /\ e.c \in TunnelRec /\ e.up \in Seq(Piece) /\ e.traffic \in TrafficRec BY DEF DRec
<1>2. TypeOK' BY <1>1 DEF TypeOK
<1>3. Fine(proxy, tunnel, upstream, downstream, relay.stage, traffic)'
  <2> PICK p, c, u, t : p = e.proxy /\ c = e.c /\ u = e.up /\ t = e.traffic OBVIOUS
  <2>1. Fine(p, c, u, s, r.stage, t) OBVIOUS
  <2> QED BY <2>1 DEF Fine, Once, Kept, Goes, Talks, Asks, Fails, Led
<1> QED BY <1>2, <1>3 DEF IndInv

LEMMA InitHolds == ProxyInit => IndInv
<1> SUFFICES ASSUME ProxyInit PROVE IndInv OBVIOUS
<1>1. PICK k \in {"ptHTTP", "ptSOCKS5"}, h \in BOOLEAN :
        proxy = [kind |-> k, type |-> k, active |-> FALSE, ssl |-> FALSE, https |-> h]
  BY DEF ProxyInit
<1>2. /\ tunnel = NotConnected /\ tunnelPc = "wait" /\ downstream = <<>> /\ upstream = <<>>
      /\ relay = NoRelay /\ dials = 0 /\ traffic = NoTraffic
  BY DEF ProxyInit
<1>3. proxy \in ProxyRec /\ proxy.kind = k /\ proxy.type = k /\ proxy.active = FALSE /\ proxy.https \in BOOLEAN
  BY <1>1 DEF ProxyRec, Kinds
<1>4. relay \in RelayRec /\ relay.stage = "methods" BY <1>2 DEF NoRelay, RelayRec
<1>5. \A S : <<>> \in Seq(S) OBVIOUS
<1>6. TypeOK
  <2>1. tunnel \in TunnelRec /\ traffic \in TrafficRec BY <1>2, NothingConnected
  <2>2. tunnelPc \in {"wait", "write"} /\ dials \in Nat /\ downstream \in Seq(Words) /\ upstream \in Seq(Piece)
    BY <1>2, <1>5
  <2> QED BY <1>3, <1>4, <2>1, <2>2 DEF TypeOK
<1>7. /\ traffic.requests = 0 /\ traffic.heard = <<>> /\ traffic.forwarded = <<>> /\ traffic.replies = 0
      /\ traffic.answers = 0 /\ tunnel.open = FALSE /\ tunnel.tls = FALSE
  BY <1>2 DEF NoTraffic, NotConnected
<1>8. Once(proxy, tunnel, traffic) BY <1>1, <1>3, <1>7 DEF Once
<1>9. Kept(proxy, relay.stage, traffic)
  <2>1. (proxy.kind = "ptSOCKS5" /\ proxy.https) \in BOOLEAN OBVIOUS
  <2>2. IsPrefix(traffic.forwarded, Marked(Request, proxy.kind = "ptSOCKS5" /\ proxy.https))
    BY <1>7, <2>1, RequestScript, NothingIsPrefix
  <2>3. IsPrefix(traffic.heard, Dialogue) BY <1>7, Scripts, NothingIsPrefix
  <2> QED BY <1>7, <2>2, <2>3 DEF Kept
<1>10. Fine(proxy, tunnel, upstream, downstream, relay.stage, traffic) BY <1>2, <1>7, <1>8, <1>9 DEF Fine
<1> QED BY <1>6, <1>10 DEF IndInv

LEMMA DialsKeeps ==
  ASSUME IndInv, NEW connects \in BOOLEAN, NEW room \in 0 .. 2, ProxyDials(connects, room)
  PROVE  IndInv'
<1>0. /\ Now \in DRec /\ Now.proxy = proxy /\ Now.c = tunnel /\ Now.up = upstream /\ Now.traffic = traffic
      /\ Now.threw = FALSE /\ Fine(proxy, tunnel, upstream, downstream, relay.stage, traffic)
  BY NowFields
<1>i. /\ ~proxy.active /\ relay' = [NoRelay EXCEPT !.open = connects] /\ dials' = dials + 1
      /\ tunnelPc' = "wait" /\ downstream' = <<>>
  BY DEF ProxyDials
<1>1. upstream = <<>> BY <1>0, <1>i DEF Fine
<1>p. PICK p : p = [proxy EXCEPT !.active = TRUE] OBVIOUS
<1>c. PICK c : c = [NotConnected EXCEPT !.open = TRUE] OBVIOUS
<1>f. PICK f : f = [Now EXCEPT !.proxy.active = TRUE, !.c = [NotConnected EXCEPT !.open = TRUE], !.traffic = NoTraffic]
  OBVIOUS
<1>2. /\ p \in ProxyRec /\ p.active = TRUE /\ p.type = proxy.type /\ p.kind = proxy.kind /\ p.https = proxy.https
      /\ p.https \in BOOLEAN
  BY <1>p, TunnelTypes DEF ProxyRec
<1>3. /\ c \in TunnelRec /\ c.open = TRUE /\ c.out = <<>> /\ c.read = <<>> /\ c.tls = FALSE
      /\ c.status = "csConnected"
  <2>1. NotConnected \in TunnelRec BY NothingConnected
  <2>2. /\ c \in TunnelRec /\ c.open = TRUE /\ c.out = NotConnected.out /\ c.read = NotConnected.read
        /\ c.tls = NotConnected.tls /\ c.status = NotConnected.status
    BY <1>c, <2>1 DEF TunnelRec
  <2> QED BY <2>2 DEF NotConnected
<1>4. /\ f \in DRec /\ f.proxy = p /\ f.c = c /\ f.up = <<>> /\ f.traffic = NoTraffic /\ f.threw = FALSE
  <2>1. f = [Now EXCEPT !.proxy = p, !.c = c, !.traffic = NoTraffic] BY <1>0, <1>f, <1>p, <1>c DEF DRec
  <2>2. NoTraffic \in TrafficRec BY NothingConnected
  <2> HIDE DEF NoTraffic, Now
  <2> QED BY <1>0, <1>1, <1>2, <1>3, <2>1, <2>2 DEF DRec
<1>5. /\ NoTraffic.requests = 0 /\ NoTraffic.heard = <<>> /\ NoTraffic.forwarded = <<>> /\ NoTraffic.replies = 0
      /\ NoTraffic.answers = 0
  BY DEF NoTraffic
<1>6. Once(p, c, NoTraffic)
  <2>1. proxy.kind = "ptHTTP" => proxy.type = "ptHTTP" BY <1>0 DEF Fine, Once
  <2> QED BY <1>2, <1>3, <1>5, <2>1 DEF Once
<1>7. Kept(p, "methods", NoTraffic)
  <2>p. PICK tls \in BOOLEAN : tls = (p.kind = "ptSOCKS5" /\ p.https)
    <3>1. (p.kind = "ptSOCKS5" /\ p.https) \in BOOLEAN OBVIOUS
    <3> QED BY <3>1
  <2>1. IsPrefix(<<>>, Marked(Request, tls)) BY RequestScript, NothingIsPrefix
  <2>2. IsPrefix(<<>>, Dialogue) BY Scripts, NothingIsPrefix
  <2> QED BY <1>5, <2>p, <2>1, <2>2 DEF Kept
<1>r. PICK r : r = [NoRelay EXCEPT !.open = connects] OBVIOUS
<1>8. r \in RelayRec /\ r.stage = "methods" /\ relay' = r BY <1>i, <1>r DEF NoRelay, RelayRec
<1>9. dials' \in Nat /\ <<>> \in Seq(Words) BY <1>i, TunnelTypes
<1>u. PICK used : used = IF proxy.type # proxy.kind THEN Happened(f, "reused") ELSE f OBVIOUS
<1>d. PICK d : d = IF connects THEN DoHandshake(used, room) ELSE Dropped(f) OBVIOUS
<1>10. proxy' = d.proxy /\ tunnel' = d.c /\ upstream' = d.up /\ traffic' = d.traffic
  BY <1>f, <1>u, <1>d DEF ProxyDials
<1>11. d \in DRec /\ Fine(d.proxy, d.c, d.up, <<>>, "methods", d.traffic)
  <2>1. CASE ~connects
    <3>1. /\ d \in DRec /\ d.proxy = p /\ d.c = NotConnected /\ d.up = <<>> /\ d.traffic = NoTraffic
      BY <1>4, <1>d, <2>1, DroppedFields
    <3>2. NotConnected.open = FALSE /\ NotConnected.tls = FALSE BY DEF NotConnected
    <3>3. Once(p, NotConnected, NoTraffic) BY <1>3, <1>6, <3>2 DEF Once
    <3>4. Fine(p, NotConnected, <<>>, <<>>, "methods", NoTraffic) BY <1>7, <3>2, <3>3 DEF Fine
    <3> QED BY <3>1, <3>4
  <2>2. CASE connects /\ proxy.type = "ptSOCKS5"
    <3>1. proxy.kind = "ptSOCKS5"
      <4>1. proxy.kind # "ptHTTP" BY <1>0, <2>2 DEF Fine, Once
      <4> QED BY <4>1, TunnelTypes DEF Kinds
    <3>2. used = f BY <1>u, <2>2, <3>1
    <3>u. PICK u : u = Marked(Methods, FALSE) OBVIOUS
    <3>3. d = [f EXCEPT !.up = u]
      <4>1. f.proxy.type = "ptSOCKS5" BY <1>2, <1>4, <2>2
      <4> QED BY <1>d, <2>2, <3>2, <3>u, <4>1 DEF DoHandshake
    <3>4. u = Part(Dialogue, 0, 3) /\ u \in Seq(Piece)
      <4>1. u = Part(Dialogue, 0, 3) /\ Methods \in Seq(Words) BY <3>u, Scripts
      <4>2. FALSE \in BOOLEAN OBVIOUS
      <4> QED BY <3>u, <4>1, <4>2, MarkedIsSeq
    <3>5. /\ d \in DRec /\ d.proxy = p /\ d.c = c /\ d.up = u /\ d.traffic = NoTraffic
      BY <1>4, <3>3, <3>4 DEF DRec
    <3>6. Talks(c, u, <<>>, "methods", NoTraffic) BY <1>3, <1>5, <3>4 DEF Talks
    <3>7. Goes(p, c, u, <<>>, "methods", NoTraffic) BY <1>2, <2>2, <3>6 DEF Goes
    <3>8. Fine(p, c, u, <<>>, "methods", NoTraffic) BY <1>2, <1>3, <1>6, <1>7, <3>7 DEF Fine
    <3> QED BY <3>5, <3>8
  <2>3. CASE connects /\ proxy.type = "ptHTTP"
    <3>1. "reused" \in Reasons BY DEF Reasons
    <3>2. /\ Happened(f, "reused") \in DRec /\ Happened(f, "reused").proxy = f.proxy
          /\ Happened(f, "reused").c = f.c /\ Later(f.traffic, Happened(f, "reused").traffic)
          /\ "reused" \in Happened(f, "reused").traffic.why
      BY <1>4, <3>1, HappenedFields
    <3>3. Later(f.traffic, f.traffic) BY DEF Later
    <3>4. used \in DRec /\ used.proxy = p /\ used.c = c /\ Later(NoTraffic, used.traffic)
      BY <1>4, <1>u, <3>2, <3>3
    <3>5. used.traffic.requests = 0 BY <1>5, <3>4 DEF Later
    <3>6. Led(used.traffic.why) \/ Untouched(used, <<>>, "methods")
      <4>1. CASE proxy.kind = "ptSOCKS5" BY <1>u, <2>3, <3>2, <4>1 DEF Led
      <4>2. CASE proxy.kind = "ptHTTP"
        <5>1. used = f BY <1>u, <2>3, <4>2
        <5> QED BY <1>2, <1>3, <1>4, <1>5, <4>2, <5>1 DEF Untouched
      <4> QED BY <4>1, <4>2, TunnelTypes DEF Kinds
    <3>7. used.c.open /\ used.proxy.active /\ used.proxy.type = "ptHTTP" /\ ~used.c.tls
      BY <1>2, <1>3, <2>3, <3>4
    <3>8. d = DoRequest(used, room) BY <1>d, <2>3, <3>7 DEF DoHandshake
    <3>9. room \in Nat OBVIOUS
    <3> QED BY <3>4, <3>5, <3>6, <3>7, <3>8, <3>9, DoRequestKeeps
  <2> QED BY <2>1, <2>2, <2>3, TunnelTypes DEF Kinds
<1>12. Fine(d.proxy, d.c, d.up, <<>>, r.stage, d.traffic) BY <1>8, <1>11
<1> QED BY <1>i, <1>8, <1>9, <1>10, <1>11, <1>12, Taken

LEMMA DeactivatesKeeps ==
  ASSUME IndInv, ProxyDeactivates
  PROVE  IndInv'
<1>0. /\ Now \in DRec /\ Now.proxy = proxy /\ Now.traffic = traffic
      /\ Fine(proxy, tunnel, upstream, downstream, relay.stage, traffic)
  BY NowFields
<1>p. PICK p : p = [proxy EXCEPT !.active = FALSE] OBVIOUS
<1>h. PICK h : h = Happened(Now, "closed") OBVIOUS
<1>e. PICK e : e = [Dropped(h) EXCEPT !.proxy = p] OBVIOUS
<1>1. /\ p \in ProxyRec /\ p.kind = proxy.kind /\ p.type = proxy.type /\ p.https = proxy.https
  BY <1>p, TunnelTypes DEF ProxyRec
<1>2. h \in DRec /\ h.proxy = proxy /\ Later(traffic, h.traffic)
  <2>1. "closed" \in Reasons BY DEF Reasons
  <2> QED BY <1>0, <1>h, <2>1, HappenedFields
<1>3. h.traffic = [traffic EXCEPT !.why = @ \cup {"closed"}]
  <2>1. Now.traffic = traffic /\ Now.traffic \in TrafficRec BY <1>0 DEF DRec
  <2>2. h = [Now EXCEPT !.traffic.why = @ \cup {"closed"}] BY <1>h DEF Happened
  <2> HIDE DEF Now
  <2> QED BY <1>0, <2>1, <2>2 DEF DRec
<1>4. /\ e \in DRec /\ e.proxy = p /\ e.c = NotConnected /\ e.up = <<>> /\ e.traffic = h.traffic
  <2>1. PICK g \in DRec : g = Dropped(h) /\ g.c = NotConnected /\ g.up = <<>> /\ g.traffic = h.traffic
    BY <1>2, DroppedFields
  <2>2. e = [g EXCEPT !.proxy = p] BY <1>e, <2>1
  <2> QED BY <1>1, <2>1, <2>2 DEF DRec
<1>5. Fine(proxy, tunnel, upstream, downstream, relay.stage, h.traffic) BY <1>0, <1>2, FineLater
<1>6. Fine(proxy, NotConnected, <<>>, <<>>, relay.stage, h.traffic) BY <1>5, FineDropped
<1>7. Fine(p, NotConnected, <<>>, <<>>, relay.stage, h.traffic)
  <2>1. NotConnected.open = FALSE BY DEF NotConnected
  <2>2. Once(p, NotConnected, h.traffic) BY <1>1, <1>6 DEF Fine, Once
  <2>3. Kept(proxy, relay.stage, h.traffic) => Kept(p, relay.stage, h.traffic) BY <1>1 DEF Kept
  <2> QED BY <1>6, <2>1, <2>2, <2>3 DEF Fine
<1>8. Fine(e.proxy, e.c, e.up, <<>>, relay.stage, e.traffic) BY <1>4, <1>7
<1>9. /\ proxy' = e.proxy /\ tunnel' = e.c /\ upstream' = e.up /\ traffic' = e.traffic
      /\ downstream' = <<>> /\ tunnelPc' = tunnelPc /\ relay' = relay /\ dials' = dials
  BY <1>p, <1>3, <1>4 DEF ProxyDeactivates
<1>10. <<>> \in Seq(Words) /\ tunnelPc \in {"wait", "write"} /\ relay \in RelayRec /\ dials \in Nat BY TunnelTypes
<1> QED BY <1>4, <1>8, <1>9, <1>10, Taken

\* A read of a part of a reply may lead the dialogue astray.
LEMMA ReadNoted ==
  ASSUME NEW d \in DRec, NEW n \in 0 .. Len(downstream), NEW stage,
         Fine(d.proxy, d.c, d.up, downstream, stage, d.traffic)
  PROVE  LET r == Read(d, n)
         IN  /\ r \in DRec /\ r.proxy = d.proxy /\ r.c = d.c /\ r.up = d.up
             /\ Fine(r.proxy, r.c, r.up, downstream, stage, r.traffic)
             /\ r.proxy.type = "ptSOCKS5" /\ n < Len(downstream) => Led(r.traffic.why)
<1>r. PICK r : r = Read(d, n) OBVIOUS
<1>1. CASE d.proxy.type = "ptSOCKS5" /\ n < Len(downstream)
  <2>1. r = Happened(d, "cut") BY <1>1, <1>r DEF Read
  <2>2. "cut" \in Reasons BY DEF Reasons
  <2>3. /\ r \in DRec /\ r.proxy = d.proxy /\ r.c = d.c /\ r.up = d.up /\ Later(d.traffic, r.traffic)
        /\ "cut" \in r.traffic.why
    BY <2>1, <2>2, HappenedFields
  <2>4. Fine(d.proxy, d.c, d.up, downstream, stage, r.traffic) BY <2>3, FineLater
  <2>5. Led(r.traffic.why) BY <2>3 DEF Led
  <2> QED BY <1>r, <2>3, <2>4, <2>5
<1>2. CASE ~(d.proxy.type = "ptSOCKS5" /\ n < Len(downstream))
  <2>1. r = d BY <1>2, <1>r DEF Read
  <2> QED BY <1>r, <1>2, <2>1
<1> QED BY <1>1, <1>2

LEMMA ReadsKeeps ==
  ASSUME IndInv, NEW n \in 0 .. Len(downstream), NEW room \in 0 .. 2, NEW shakes \in BOOLEAN,
         NEW writable \in BOOLEAN, ProxyReads(n, room, shakes, writable)
  PROVE  IndInv'
<1>0. /\ Now \in DRec /\ Now.proxy = proxy /\ Now.c = tunnel /\ Now.up = upstream /\ Now.traffic = traffic
      /\ Fine(proxy, tunnel, upstream, downstream, relay.stage, traffic)
  BY NowFields
<1>r. PICK r : r = Read(Now, n) OBVIOUS
<1>g. PICK gone \in BOOLEAN : gone = RelayGone(n)
  <2>1. RelayGone(n) \in BOOLEAN BY DEF RelayGone
  <2> QED BY <2>1
<1>d. PICK d : d = DoRead(r, SubSeq(downstream, 1, n), gone, room, shakes) OBVIOUS
<1>1. /\ r \in DRec /\ r.c = tunnel
      /\ Fine(r.proxy, r.c, r.up, downstream, relay.stage, r.traffic)
      /\ r.proxy.type = "ptSOCKS5" /\ n < Len(downstream) => Led(r.traffic.why)
  BY <1>0, <1>r, ReadNoted
<1>2. /\ tunnel.open /\ Takes(d) /\ Left(d.c, n)
      /\ tunnelPc' = IF d.threw \/ ~d.c.open \/ ~writable THEN "wait" ELSE "write"
      /\ relay' = relay /\ dials' = dials
  BY <1>r, <1>g, <1>d DEF ProxyReads
<1>3. downstream \in Seq(Words) /\ relay \in RelayRec /\ dials \in Nat BY TunnelTypes
<1>4. room \in Nat OBVIOUS
<1>s. PICK s : s = Rest(d.c, downstream, n) OBVIOUS
<1>5. d \in DRec /\ Fine(d.proxy, d.c, d.up, s, relay.stage, d.traffic)
  BY <1>1, <1>2, <1>3, <1>4, <1>d, <1>s, DoReadKeeps
<1>6. s \in Seq(Words)
  <2>1. <<>> \in Seq(Words) OBVIOUS
  <2>2. SubSeq(downstream, n + 1, Len(downstream)) \in Seq(Words) BY <1>3
  <2> QED BY <1>s, <2>1, <2>2 DEF Rest
<1>7. downstream' = s BY <1>2, <1>s DEF Left, Rest
<1>8. proxy' = d.proxy /\ tunnel' = d.c /\ upstream' = d.up /\ traffic' = d.traffic BY <1>2 DEF Takes
<1>9. PICK pc \in {"wait", "write"} : tunnelPc' = pc BY <1>2
<1> QED BY <1>2, <1>3, <1>5, <1>6, <1>7, <1>8, <1>9, Taken

LEMMA WritesKeeps ==
  ASSUME IndInv, NEW room \in 0 .. 3, ProxyWrites(room)
  PROVE  IndInv'
<1>0. /\ Now \in DRec /\ Now.proxy = proxy /\ Now.c = tunnel /\ Now.up = upstream /\ Now.traffic = traffic
      /\ Fine(proxy, tunnel, upstream, downstream, relay.stage, traffic)
  BY NowFields
<1>d. PICK d : d = IF tunnel.status = "csRequestReady" THEN WriteAsync(Now, room) ELSE Now OBVIOUS
<1>s. PICK sent : sent = IF d.c.open /\ tunnel.status = "csRequestReady" /\ d.c.out = <<>>
                         THEN [d EXCEPT !.c.status = "csRequestSent"] ELSE d
  OBVIOUS
<1>e. PICK e : e = IF tunnel.graceful \/ sent.c.graceful THEN Dropped(Happened(sent, "hangup")) ELSE sent OBVIOUS
<1>1. /\ tunnel.open /\ proxy.type = "ptHTTP" /\ Takes(e) /\ Left(tunnel', 0)
      /\ tunnelPc' = "wait" /\ relay' = relay /\ dials' = dials
  BY <1>d, <1>s, <1>e DEF ProxyWrites
<1>2. downstream \in Seq(Words) /\ relay \in RelayRec /\ dials \in Nat BY TunnelTypes
<1>3. room \in Nat OBVIOUS
<1>4. /\ d \in DRec /\ d.proxy = proxy /\ Fine(d.proxy, d.c, d.up, downstream, relay.stage, d.traffic)
      /\ d.c.open => d.traffic.requests = traffic.requests /\ traffic.why \subseteq d.traffic.why
                     /\ d.c.status = tunnel.status
  <2>1. CASE tunnel.status = "csRequestReady"
    <3>1. /\ d \in DRec /\ d.proxy = Now.proxy
          /\ Fine(d.proxy, d.c, d.up, downstream, relay.stage, d.traffic)
          /\ Later(Now.traffic, d.traffic)
          /\ d.c = NotConnected \/ d.c.status = Now.c.status
      BY <1>0, <1>1, <1>3, <1>d, <2>1, WriteKeeps
    <3>2. NotConnected.open = FALSE BY DEF NotConnected
    <3> QED BY <1>0, <3>1, <3>2 DEF Later
  <2>2. CASE tunnel.status # "csRequestReady" BY <1>0, <1>d, <2>2
  <2> QED BY <2>1, <2>2
<1>5. sent \in DRec /\ sent.proxy = proxy /\ Fine(sent.proxy, sent.c, sent.up, downstream, relay.stage, sent.traffic)
  <2>1. CASE ~(d.c.open /\ tunnel.status = "csRequestReady" /\ d.c.out = <<>>) BY <1>4, <1>s, <2>1
  <2>2. CASE d.c.open /\ tunnel.status = "csRequestReady" /\ d.c.out = <<>>
    <3>c. PICK c : c = [d.c EXCEPT !.status = "csRequestSent"] OBVIOUS
    <3>0. d.c \in TunnelRec /\ "csRequestSent" \in Statuses BY <1>4 DEF DRec, Statuses
    <3>1. /\ c \in TunnelRec /\ c.open = d.c.open /\ c.out = d.c.out /\ c.read = d.c.read /\ c.tls = d.c.tls
      BY <3>0, <3>c DEF TunnelRec
    <3>2. sent = [d EXCEPT !.c = c] BY <1>4, <1>s, <2>2, <3>c DEF DRec
    <3>3. /\ sent \in DRec /\ sent.proxy = d.proxy /\ sent.c = c /\ sent.up = d.up /\ sent.traffic = d.traffic
      BY <1>4, <3>1, <3>2 DEF DRec
    <3>4. ~Led(d.traffic.why) => d.traffic.requests = 1
      <4> SUFFICES ASSUME ~Led(d.traffic.why) PROVE d.traffic.requests = 1 OBVIOUS
      <4>1. Goes(d.proxy, d.c, d.up, downstream, relay.stage, d.traffic) BY <1>4, <2>2 DEF Fine
      <4>2. d.c.status = "csRequestReady" /\ d.proxy.type = "ptHTTP" BY <1>1, <1>4, <2>2
      <4>3. ~Fails(d.c, d.up, downstream, d.traffic) BY <4>2 DEF Fails
      <4>4. \E tls : Asks(d.c, d.up, downstream, d.traffic, tls) BY <4>1, <4>2, <4>3 DEF Goes
      <4> QED BY <4>4 DEF Asks
    <3>5. d.proxy.type = "ptHTTP" BY <1>1, <1>4
    <3>6. Fine(d.proxy, d.c, d.up, downstream, relay.stage, d.traffic) BY <1>4
    <3>7. Fine(d.proxy, c, d.up, downstream, relay.stage, d.traffic) BY <3>1, <3>4, <3>5, <3>6, FineLike
    <3> QED BY <1>4, <3>3, <3>7
  <2> QED BY <2>1, <2>2
<1>p. PICK s : s = IF e.c.open THEN downstream ELSE <<>> OBVIOUS
<1>6. e \in DRec /\ Fine(e.proxy, e.c, e.up, s, relay.stage, e.traffic)
  <2>1. CASE tunnel.graceful \/ sent.c.graceful
    <3>1. "hangup" \in Reasons BY DEF Reasons
    <3>2. PICK h \in DRec : h = Happened(sent, "hangup") /\ h.proxy = sent.proxy /\ Later(sent.traffic, h.traffic)
      BY <1>5, <3>1, HappenedFields
    <3>3. e = Dropped(h) BY <1>e, <2>1, <3>2
    <3>4. /\ e \in DRec /\ e.proxy = h.proxy /\ e.c = NotConnected /\ e.up = <<>> /\ e.traffic = h.traffic
      BY <3>3, DroppedFields
    <3>5. Later(sent.traffic, e.traffic) BY <3>2, <3>4
    <3>6. Fine(sent.proxy, sent.c, sent.up, downstream, relay.stage, e.traffic) BY <1>5, <3>5, FineLater
    <3>7. Fine(sent.proxy, NotConnected, <<>>, s, relay.stage, e.traffic) BY <3>6, FineDropped
    <3> QED BY <3>2, <3>4, <3>7
  <2>2. CASE ~(tunnel.graceful \/ sent.c.graceful)
    <3>1. e = sent BY <1>e, <2>2
    <3>2. CASE e.c.open
      <4>1. s = downstream BY <1>p, <3>2
      <4> QED BY <1>5, <3>1, <4>1
    <3>3. CASE ~e.c.open
      <4>1. Fine(e.proxy, e.c, e.up, downstream, relay.stage, e.traffic) BY <1>5, <3>1
      <4>2. Fine(e.proxy, e.c, e.up, s, relay.stage, e.traffic) BY <3>3, <4>1 DEF Fine
      <4> QED BY <1>5, <3>1, <4>2
    <3> QED BY <3>2, <3>3
  <2> QED BY <2>1, <2>2
<1>7. proxy' = e.proxy /\ tunnel' = e.c /\ upstream' = e.up /\ traffic' = e.traffic BY <1>1 DEF Takes
<1>8. downstream' = s
  <2>1. 0 + 1 = 1 /\ SubSeq(downstream, 1, Len(downstream)) = downstream BY <1>2, WholeRead
  <2> QED BY <1>1, <1>7, <1>p, <2>1 DEF Left
<1>9. s \in Seq(Words)
  <2>1. <<>> \in Seq(Words) OBVIOUS
  <2> QED BY <1>2, <1>p, <2>1
<1>10. "wait" \in {"wait", "write"} OBVIOUS
<1> QED BY <1>1, <1>2, <1>6, <1>7, <1>8, <1>9, <1>10, Taken

LEMMA WritesSOCKS5Keeps ==
  ASSUME IndInv, NEW room \in 0 .. 3, NEW n \in 0 .. Len(downstream), NEW more \in 0 .. 2, NEW shakes \in BOOLEAN,
         ProxyWritesSOCKS5(room, n, more, shakes)
  PROVE  IndInv'
<1>0. /\ Now \in DRec /\ Now.proxy = proxy /\ Now.c = tunnel /\ Now.up = upstream /\ Now.traffic = traffic
      /\ Fine(proxy, tunnel, upstream, downstream, relay.stage, traffic)
  BY NowFields
<1>w. PICK w : w = WriteAsync(Now, room) OBVIOUS
<1>r. PICK r : r = Read(w, n) OBVIOUS
<1>g. PICK gone \in BOOLEAN : gone = RelayGone(n)
  <2>1. RelayGone(n) \in BOOLEAN BY DEF RelayGone
  <2> QED BY <2>1
<1>d. PICK d : d = IF w.c.open /\ w.c.out = <<>>
                   THEN DoRead(r, SubSeq(downstream, 1, n), gone, more, shakes) ELSE w
  OBVIOUS
<1>e. PICK e : e = IF d.threw THEN Dropped(d) ELSE d OBVIOUS
<1>1. /\ tunnel.open /\ (w.c.out # <<>> => n = 0) /\ Takes(e) /\ Left(tunnel', n)
      /\ tunnelPc' = "wait" /\ relay' = relay /\ dials' = dials
  BY <1>w, <1>r, <1>g, <1>d, <1>e DEF ProxyWritesSOCKS5
<1>2. downstream \in Seq(Words) /\ relay \in RelayRec /\ dials \in Nat BY TunnelTypes
<1>3. room \in Nat /\ more \in Nat OBVIOUS
<1>4. w \in DRec /\ Fine(w.proxy, w.c, w.up, downstream, relay.stage, w.traffic)
  BY <1>0, <1>1, <1>3, <1>w, WriteKeeps
<1>p. PICK s : s = Rest(d.c, downstream, n) OBVIOUS
<1>5. d \in DRec /\ Fine(d.proxy, d.c, d.up, s, relay.stage, d.traffic)
  <2>1. CASE w.c.open /\ w.c.out = <<>>
    <3>1. /\ r \in DRec /\ r.c = w.c
          /\ Fine(r.proxy, r.c, r.up, downstream, relay.stage, r.traffic)
          /\ r.proxy.type = "ptSOCKS5" /\ n < Len(downstream) => Led(r.traffic.why)
      BY <1>4, <1>r, ReadNoted
    <3>2. d = DoRead(r, SubSeq(downstream, 1, n), gone, more, shakes) BY <1>d, <2>1
    <3>3. r.c.open BY <2>1, <3>1
    <3> QED BY <1>2, <1>3, <1>p, <3>1, <3>2, <3>3, DoReadKeeps
  <2>2. CASE ~w.c.open
    <3>1. d = w BY <1>d, <2>2
    <3>2. Fine(w.proxy, w.c, w.up, s, relay.stage, w.traffic) BY <1>4, <2>2 DEF Fine
    <3> QED BY <1>4, <3>1, <3>2
  <2>3. CASE w.c.open /\ w.c.out # <<>>
    <3>1. d = w /\ n = 0 BY <1>1, <1>d, <2>3
    <3>2. s = downstream
      <4>1. n + 1 = 1 /\ SubSeq(downstream, 1, Len(downstream)) = downstream BY <1>2, <3>1, WholeRead
      <4> QED BY <1>p, <2>3, <3>1, <4>1 DEF Rest
    <3> QED BY <1>4, <3>1, <3>2
  <2> QED BY <2>1, <2>2, <2>3
<1>q. PICK z : z = Rest(e.c, downstream, n) OBVIOUS
<1>6. e \in DRec /\ Fine(e.proxy, e.c, e.up, z, relay.stage, e.traffic)
  <2>1. CASE d.threw
    <3>1. e = Dropped(d) BY <1>e, <2>1
    <3>2. /\ e \in DRec /\ e.proxy = d.proxy /\ e.c = NotConnected /\ e.up = <<>> /\ e.traffic = d.traffic
      BY <1>5, <3>1, DroppedFields
    <3>3. Fine(d.proxy, NotConnected, <<>>, z, relay.stage, d.traffic) BY <1>5, FineDropped
    <3> QED BY <3>2, <3>3
  <2>2. CASE ~d.threw
    <3>1. e = d /\ z = s BY <1>e, <1>p, <1>q, <2>2
    <3> QED BY <1>5, <3>1
  <2> QED BY <2>1, <2>2
<1>7. proxy' = e.proxy /\ tunnel' = e.c /\ upstream' = e.up /\ traffic' = e.traffic BY <1>1 DEF Takes
<1>8. downstream' = z BY <1>1, <1>7, <1>q DEF Left, Rest
<1>9. z \in Seq(Words)
  <2>1. <<>> \in Seq(Words) OBVIOUS
  <2>2. SubSeq(downstream, n + 1, Len(downstream)) \in Seq(Words) BY <1>2
  <2> QED BY <1>q, <2>1, <2>2 DEF Rest
<1>10. "wait" \in {"wait", "write"} OBVIOUS
<1> QED BY <1>1, <1>2, <1>6, <1>7, <1>8, <1>9, <1>10, Taken

LEMMA TimesOutKeeps ==
  ASSUME IndInv, ProxyTimesOut
  PROVE  IndInv'
<1>0. /\ Now \in DRec /\ Now.proxy = proxy /\ Now.traffic = traffic
      /\ Fine(proxy, tunnel, upstream, downstream, relay.stage, traffic)
  BY NowFields
<1>h. PICK h : h = Happened(Now, "timeout") OBVIOUS
<1>1. h \in DRec /\ h.proxy = proxy /\ Later(traffic, h.traffic)
  <2>1. "timeout" \in Reasons BY DEF Reasons
  <2> QED BY <1>0, <1>h, <2>1, HappenedFields
<1>e. PICK e : e = Dropped(h) OBVIOUS
<1>2. /\ e \in DRec /\ e.proxy = proxy /\ e.c = NotConnected /\ e.up = <<>> /\ e.traffic = h.traffic
  BY <1>1, <1>e, DroppedFields
<1>3. Fine(proxy, tunnel, upstream, downstream, relay.stage, h.traffic) BY <1>0, <1>1, FineLater
<1>4. Fine(proxy, NotConnected, <<>>, <<>>, relay.stage, h.traffic) BY <1>3, FineDropped
<1>5. Fine(e.proxy, e.c, e.up, <<>>, relay.stage, e.traffic) BY <1>2, <1>4
<1>6. /\ Takes(e) /\ downstream' = <<>> /\ tunnelPc' = tunnelPc /\ relay' = relay /\ dials' = dials
  BY <1>h, <1>e DEF ProxyTimesOut
<1>7. proxy' = e.proxy /\ tunnel' = e.c /\ upstream' = e.up /\ traffic' = e.traffic BY <1>6 DEF Takes
<1>8. <<>> \in Seq(Words) /\ tunnelPc \in {"wait", "write"} /\ relay \in RelayRec /\ dials \in Nat BY TunnelTypes
<1> QED BY <1>2, <1>5, <1>6, <1>7, <1>8, Taken

-----------------------------------------------------------------------------
(* The steps of the server *)

\* A step that leaves the client alone
LEMMA Relayed ==
  ASSUME IndInv, NEW u \in Seq(Piece), NEW s \in Seq(Words), NEW r \in RelayRec, NEW t \in TrafficRec,
         Fine(proxy, tunnel, u, s, r.stage, t),
         proxy' = proxy, tunnel' = tunnel, upstream' = u, traffic' = t,
         downstream' = s, tunnelPc' = tunnelPc, relay' = r, dials' = dials
  PROVE  IndInv'
<1>p. PICK e : e = [proxy |-> proxy, c |-> tunnel, up |-> u, traffic |-> t, threw |-> FALSE] OBVIOUS
<1>1. /\ proxy \in ProxyRec /\ tunnel \in TunnelRec /\ tunnelPc \in {"wait", "write"} /\ dials \in Nat
  BY TunnelTypes
<1>2. /\ e \in DRec /\ e.proxy = proxy /\ e.c = tunnel /\ e.up = u /\ e.traffic = t
  <2>1. FALSE \in BOOLEAN OBVIOUS
  <2> QED BY <1>1, <1>p, <2>1 DEF DRec
<1>3. Fine(e.proxy, e.c, e.up, s, r.stage, e.traffic) BY <1>2
<1>4. proxy' = e.proxy /\ tunnel' = e.c /\ upstream' = e.up /\ traffic' = e.traffic BY <1>2
<1> QED BY <1>1, <1>2, <1>3, <1>4, Taken

LEMMA TextsIsSeq ==
  ASSUME upstream \in Seq(Piece)
  PROVE  Texts \in Seq(Words) /\ Len(Texts) = Len(upstream)
<1>1. DOMAIN upstream = 1 .. Len(upstream) /\ Len(upstream) \in Nat
      /\ \A i \in 1 .. Len(upstream) : upstream[i] \in Piece
  BY LenProperties, ElementOfSeq
<1>2. \A i \in 1 .. Len(upstream) : upstream[i].text \in Words BY <1>1 DEF Piece
<1>3. Texts \in [1 .. Len(upstream) -> Words] BY <1>1, <1>2 DEF Texts
<1> QED BY <1>1, <1>3

\* The two messages of the client, and what the server makes of them
Turn(stage, message) ==
  \/ stage = "methods" /\ message = Methods
  \/ stage = "connect" /\ message = ConnectTo

Outcome(stage, next, answer, why) ==
  \/ stage = "methods" /\ next = "connect" /\ answer = Granted
  \/ stage = "connect" /\ next = "tunnel" /\ answer = Opened
  \/ next = "closed" /\ "refused" \in why /\ answer \in Denials
  \/ "expired" \in why

AllHeard(stage, message) ==
  /\ proxy.type = "ptSOCKS5" /\ Kept(proxy, relay.stage, traffic)
  /\ traffic.forwarded = <<>> /\ traffic.replies = 0 /\ traffic.answers = 0 /\ tunnel.read = <<>>
  /\ tunnel.status = "csConnected" /\ tunnel.out = <<>> /\ downstream = <<>>
  /\ SubSeq(upstream, Len(message) + 1, Len(upstream)) = <<>>
  /\ traffic.heard \o SubSeq(upstream, 1, Len(message)) = IF stage = "methods" THEN Part(Dialogue, 0, 3) ELSE Dialogue

\* The whole dialogue is heard, in two messages, unless it has been led astray.
LEMMA MessageHeard ==
  ASSUME IndInv, NEW stage, NEW message, tunnel.open, ~Led(traffic.why), proxy.kind = "ptSOCKS5",
         relay.stage = stage, Turn(stage, message), IsPrefix(message, Texts)
  PROVE  AllHeard(stage, message)
<1>h. PICK heard : heard = traffic.heard \o SubSeq(upstream, 1, Len(message)) OBVIOUS
<1>0. /\ Fine(proxy, tunnel, upstream, downstream, relay.stage, traffic) BY DEF IndInv
<1>1. Kept(proxy, relay.stage, traffic) /\ Goes(proxy, tunnel, upstream, downstream, relay.stage, traffic)
  BY <1>0 DEF Fine
<1>2. proxy.type = "ptSOCKS5"
  <2>1. relay.stage # "tunnel" BY DEF Turn
  <2> QED BY <1>1, <2>1 DEF Goes
<1>3. Talks(tunnel, upstream, downstream, stage, traffic) BY <1>1, <1>2 DEF Goes
<1>4. Len(message) = 3
  <2>1. message \in {Methods, ConnectTo} BY DEF Turn
  <2> QED BY <2>1, Scripts
<1>5. upstream \in Seq(Piece) BY TunnelTypes
<1>6. Len(upstream) >= 3
  <2>1. Texts \in Seq(Words) /\ Len(Texts) = Len(upstream) BY <1>5, TextsIsSeq
  <2>2. Len(message) <= Len(Texts) BY DEF IsPrefix
  <2> QED BY <1>4, <2>1, <2>2
<1>7. upstream # <<>>
  <2>1. Len(<<>>) = 0 OBVIOUS
  <2> QED BY <1>6, <2>1
<1>8. ASSUME Len(upstream) = 3 PROVE SubSeq(upstream, 1, 3) = upstream /\ SubSeq(upstream, 3 + 1, Len(upstream)) = <<>>
  BY <1>5, <1>8, WholeRead
<1>d. Dialogue \in Seq(Piece) /\ Len(Dialogue) = 6 /\ Part(Dialogue, 0, 6) = Dialogue BY Scripts
<1>9. CASE stage = "methods"
  <2>1. traffic.heard = <<>> /\ upstream = Part(Dialogue, 0, 3) /\ tunnel.out = <<>> /\ downstream = <<>>
    BY <1>3, <1>7, <1>9 DEF Talks
  <2>2. Len(upstream) = 3 BY <2>1, <1>d, Scripts, MarkedIsSeq
  <2>3. heard = upstream
    <3>1. heard = <<>> \o upstream BY <1>h, <1>4, <1>8, <2>1, <2>2
    <3> QED BY <1>5, <3>1, ConcatEmptySeq
  <2> QED BY <1>h, <1>1, <1>2, <1>3, <1>4, <1>8, <1>9, <2>1, <2>2, <2>3 DEF Talks, AllHeard
<1>10. CASE stage = "connect"
  <2>1. PICK b \in 3 .. 6 :
          /\ traffic.heard = Part(Dialogue, 0, 3) /\ downstream = <<>>
          /\ upstream = Part(Dialogue, 3, b) /\ tunnel.out = Part(Methods \o ConnectTo, b, 6)
    BY <1>3, <1>7, <1>10 DEF Talks
  <2>p. PICK z, f, g \in Nat : z = 0 /\ f = 3 /\ g = 6 OBVIOUS
  <2>2. Len(upstream) = b - 3
    <3>1. f <= b /\ b <= Len(Dialogue) /\ b \in Nat BY <1>d, <2>p
    <3>2. Len(Part(Dialogue, f, b)) = b - f BY <1>d, <3>1, PartIsSeq
    <3> QED BY <2>1, <2>p, <3>2
  <2>3. b = 6 /\ Len(upstream) = 3 BY <1>6, <2>2
  <2>4. tunnel.out = <<>>
    <3>1. Methods \o ConnectTo \in Seq(Words) /\ 6 \in 0 .. Len(Methods \o ConnectTo) BY Scripts
    <3>2. \A k \in 0 .. Len(Methods \o ConnectTo) : Part(Methods \o ConnectTo, k, k) = <<>> BY <3>1, PartEnds
    <3>3. Part(Methods \o ConnectTo, g, g) = <<>> BY <2>p, <3>1, <3>2
    <3> QED BY <2>1, <2>p, <2>3, <3>3
  <2>5. heard = Dialogue
    <3>1. z <= f /\ f <= g /\ g <= Len(Dialogue) BY <1>d, <2>p
    <3>2. Part(Dialogue, z, f) \o Part(Dialogue, f, g) = Part(Dialogue, z, g) BY <1>d, <3>1, PartsJoined
    <3>3. heard = Part(Dialogue, 0, 3) \o Part(Dialogue, 3, 6) BY <1>h, <1>4, <1>8, <2>1, <2>3
    <3> QED BY <1>d, <2>p, <3>2, <3>3
  <2> QED BY <1>h, <1>1, <1>2, <1>3, <1>4, <1>8, <1>10, <2>1, <2>3, <2>4, <2>5 DEF Talks, AllHeard
<1> QED BY <1>9, <1>10 DEF Turn

LEMMA AnswersKeep ==
  ASSUME IndInv, NEW stage, NEW message, NEW answer \in Seq(Words), NEW next, NEW why,
         RelayAnswers(stage, message, answer, next, why),
         Turn(stage, message),
         next \in {"methods", "connect", "tunnel", "closed"}, why \subseteq Reasons,
         Outcome(stage, next, answer, why)
  PROVE  IndInv'
<1>0. /\ Fine(proxy, tunnel, upstream, downstream, relay.stage, traffic) BY DEF IndInv
<1>1. /\ tunnel.open /\ proxy.kind = "ptSOCKS5" /\ relay.stage = stage /\ IsPrefix(message, Texts)
      /\ upstream' = SubSeq(upstream, Len(message) + 1, Len(upstream))
      /\ downstream' = downstream \o answer /\ relay' = [relay EXCEPT !.stage = next]
      /\ traffic' = [traffic EXCEPT !.heard = @ \o SubSeq(upstream, 1, Len(message)), !.why = @ \cup why]
      /\ proxy' = proxy /\ tunnel' = tunnel /\ tunnelPc' = tunnelPc /\ dials' = dials
  BY DEF RelayAnswers, Serving
<1>2. /\ downstream \in Seq(Words) /\ upstream \in Seq(Piece) /\ relay \in RelayRec /\ traffic \in TrafficRec
  BY TunnelTypes
<1>3. Len(message) = 3
  <2>1. message \in {Methods, ConnectTo} BY DEF Turn
  <2> QED BY <2>1, Scripts
<1>u. PICK u : u = SubSeq(upstream, Len(message) + 1, Len(upstream)) OBVIOUS
<1>s. PICK s : s = downstream \o answer OBVIOUS
<1>r. PICK r : r = [relay EXCEPT !.stage = next] OBVIOUS
<1>h. PICK heard : heard = traffic.heard \o SubSeq(upstream, 1, Len(message)) OBVIOUS
<1>t. PICK t : t = [traffic EXCEPT !.heard = heard, !.why = @ \cup why] OBVIOUS
<1>4. Len(upstream) >= 3
  <2>1. Texts \in Seq(Words) /\ Len(Texts) = Len(upstream) BY <1>2, TextsIsSeq
  <2>2. Len(message) <= Len(Texts) BY <1>1 DEF IsPrefix
  <2> QED BY <1>3, <2>1, <2>2
<1>5. u \in Seq(Piece) /\ SubSeq(upstream, 1, 3) \in Seq(Piece) BY <1>2, <1>3, <1>4, <1>u
<1>6. heard \in Seq(Piece)
  <2>1. traffic.heard \in Seq(Piece) BY <1>2 DEF TrafficRec
  <2> QED BY <1>3, <1>5, <1>h, <2>1, ConcatProperties
<1>7. s \in Seq(Words) BY <1>2, <1>s, ConcatProperties
<1>8. r \in RelayRec /\ r.stage = next BY <1>2, <1>r DEF RelayRec
<1>9. /\ t \in TrafficRec /\ t.requests = traffic.requests /\ t.heard = heard /\ t.forwarded = traffic.forwarded
      /\ t.replies = traffic.replies /\ t.answers = traffic.answers /\ t.why = traffic.why \cup why
  BY <1>2, <1>6, <1>t DEF TrafficRec
<1>10. Fine(proxy, tunnel, u, s, r.stage, t)
  <2>1. Once(proxy, tunnel, t) /\ proxy.active BY <1>0, <1>1, <1>9 DEF Fine, Once
  <2>2. CASE Led(t.why) BY <1>1, <2>1, <2>2, FineLed
  <2>3. CASE ~Led(t.why)
    <3>1. ~Led(traffic.why) /\ "expired" \notin why BY <1>9, <2>3 DEF Led
    <3>2. /\ proxy.type = "ptSOCKS5" /\ Kept(proxy, relay.stage, traffic)
          /\ traffic.forwarded = <<>> /\ traffic.replies = 0 /\ traffic.answers = 0 /\ tunnel.read = <<>>
          /\ tunnel.status = "csConnected" /\ tunnel.out = <<>> /\ downstream = <<>>
          /\ SubSeq(upstream, Len(message) + 1, Len(upstream)) = <<>>
          /\ heard = IF stage = "methods" THEN Part(Dialogue, 0, 3) ELSE Dialogue
      <4>1. AllHeard(stage, message)
        <5>1. /\ tunnel.open /\ ~Led(traffic.why) /\ proxy.kind = "ptSOCKS5" /\ relay.stage = stage
              /\ IsPrefix(message, Texts) /\ Turn(stage, message)
          BY <1>1, <3>1
        <5> QED BY ONLY IndInv, <5>1, MessageHeard
      <4> QED BY <1>h, <4>1 DEF AllHeard
    <3>3. u = <<>> BY <1>u, <3>2
    <3>4. s = answer
      <4>1. s = <<>> \o answer BY <1>s, <3>2
      <4> QED BY <4>1, ConcatEmptySeq
    <3>5. \/ stage = "methods" /\ next = "connect" /\ answer = Granted
          \/ stage = "connect" /\ next = "tunnel" /\ answer = Opened
          \/ next = "closed" /\ "refused" \in why /\ answer \in Denials
      BY <3>1 DEF Outcome
    <3>6. Talks(tunnel, u, s, next, t)
      <4>1. /\ t.forwarded = <<>> /\ t.replies = 0 /\ t.answers = 0 /\ tunnel.read = <<>>
            /\ tunnel.status = "csConnected" /\ tunnel.out = <<>>
        BY <1>9, <3>2
      <4>2. CASE stage = "methods" /\ next = "connect" /\ answer = Granted
        <5>1. t.heard = Part(Dialogue, 0, 3) /\ s = Granted BY <1>9, <3>2, <3>4, <4>2
        <5> QED BY <3>3, <4>1, <4>2, <5>1 DEF Talks
      <4>3. CASE stage = "connect" /\ next = "tunnel" /\ answer = Opened
        <5>1. t.heard = Dialogue /\ s = Opened BY <1>9, <3>2, <3>4, <4>3
        <5> QED BY <3>3, <4>1, <4>3, <5>1 DEF Talks
      <4>4. CASE next = "closed" /\ "refused" \in why /\ answer \in Denials
        <5>1. t.heard \in {Part(Dialogue, 0, 3), Dialogue} BY <1>9, <3>2
        <5>2. s \in Denials \cup {<<>>} /\ "refused" \in t.why BY <1>9, <3>4, <4>4
        <5> QED BY <3>3, <4>1, <4>4, <5>1, <5>2 DEF Talks
      <4> QED BY <3>5, <4>2, <4>3, <4>4
    <3>7. Goes(proxy, tunnel, u, s, next, t) BY <3>2, <3>6 DEF Goes
    <3>8. Kept(proxy, next, t)
      <4>1. t.requests = 0 BY <2>1, <3>2 DEF Once
      <4>2. IsPrefix(heard, Dialogue)
        <5>1. Dialogue \in Seq(Piece) /\ 3 \in 0 .. Len(Dialogue) /\ 6 \in 0 .. Len(Dialogue)
              /\ Part(Dialogue, 0, 6) = Dialogue
          BY Scripts
        <5>2. IsPrefix(Part(Dialogue, 0, 3), Dialogue) /\ IsPrefix(Part(Dialogue, 0, 6), Dialogue) BY <5>1, PartEnds
        <5> QED BY <3>2, <5>1, <5>2
      <4>3. t.answers <= t.replies BY <1>9, <3>2 DEF Kept
      <4>4. IsPrefix(t.forwarded, Marked(Request, proxy.kind = "ptSOCKS5" /\ proxy.https)) BY <1>9, <3>2 DEF Kept
      <4> QED BY <1>9, <4>1, <4>2, <4>3, <4>4 DEF Kept
    <3> QED BY <1>1, <1>8, <2>1, <3>7, <3>8 DEF Fine
  <2> QED BY <2>2, <2>3
<1>11. upstream' = u /\ downstream' = s /\ relay' = r /\ traffic' = t
  BY <1>1, <1>u, <1>s, <1>r, <1>h, <1>t
<1> QED BY <1>1, <1>5, <1>7, <1>8, <1>9, <1>10, <1>11, Relayed

LEMMA NegotiatesKeeps ==
  ASSUME IndInv, RelayNegotiates
  PROVE  IndInv'
<1>1. \A x, y \in Words : <<x, y>> \in Seq(Words) OBVIOUS
<1>2. \A x, y, z, w \in Words : <<x, y, z, w>> \in Seq(Words) OBVIOUS
<1>3. "5" \in Words /\ "granted" \in Words /\ "refused" \in Words /\ "expired" \in Words /\ "0" \in Words
      /\ "address" \in Words
  BY DEF Words
<1>4. /\ <<"5", "granted">> \in Seq(Words) /\ <<"5", "refused">> \in Seq(Words)
      /\ <<"5", "granted", "0", "address">> \in Seq(Words) /\ <<"5", "refused", "0", "address">> \in Seq(Words)
      /\ <<"5", "expired", "0", "address">> \in Seq(Words)
  BY <1>1, <1>2, <1>3
<1>5. Turn("methods", Methods) /\ Turn("connect", ConnectTo) BY DEF Turn
<1>6. {} \subseteq Reasons /\ {"refused"} \subseteq Reasons /\ {"expired"} \subseteq Reasons BY DEF Reasons
<1>p. PICK none, a1, a2, a3, a4, a5 :
        /\ none = {} /\ a1 = <<"5", "granted">> /\ a2 = <<"5", "refused">>
        /\ a3 = <<"5", "granted", "0", "address">> /\ a4 = <<"5", "refused", "0", "address">>
        /\ a5 = <<"5", "expired", "0", "address">>
  OBVIOUS
<1>7. /\ a1 \in Seq(Words) /\ a2 \in Seq(Words) /\ a3 \in Seq(Words) /\ a4 \in Seq(Words) /\ a5 \in Seq(Words)
      /\ none \subseteq Reasons
  BY <1>4, <1>6, <1>p
<1>8. /\ Outcome("methods", "connect", a1, none) /\ Outcome("methods", "closed", a2, {"refused"})
      /\ Outcome("connect", "tunnel", a3, none) /\ Outcome("connect", "closed", a4, {"refused"})
      /\ Outcome("connect", "closed", a5, {"expired"})
  BY <1>p DEF Outcome, Granted, Opened, Denials
<1>9. CASE RelayAnswers("methods", Methods, a1, "connect", none)
  BY ONLY IndInv, <1>5, <1>7, <1>8, <1>9, AnswersKeep
<1>10. CASE RelayAnswers("methods", Methods, a2, "closed", {"refused"})
  BY ONLY IndInv, <1>5, <1>6, <1>7, <1>8, <1>10, AnswersKeep
<1>11. CASE RelayAnswers("connect", ConnectTo, a3, "tunnel", none)
  BY ONLY IndInv, <1>5, <1>7, <1>8, <1>11, AnswersKeep
<1>12. CASE RelayAnswers("connect", ConnectTo, a4, "closed", {"refused"})
  BY ONLY IndInv, <1>5, <1>6, <1>7, <1>8, <1>12, AnswersKeep
<1>13. CASE RelayAnswers("connect", ConnectTo, a5, "closed", {"expired"})
  BY ONLY IndInv, <1>5, <1>6, <1>7, <1>8, <1>13, AnswersKeep
<1> QED BY <1>p, <1>9, <1>10, <1>11, <1>12, <1>13 DEF RelayNegotiates

LEMMA ForwardsKeeps ==
  ASSUME IndInv, RelayForwards
  PROVE  IndInv'
<1>0. /\ Fine(proxy, tunnel, upstream, downstream, relay.stage, traffic) BY DEF IndInv
<1>1. /\ tunnel.open /\ Open /\ upstream # <<>>
      /\ traffic' = [traffic EXCEPT !.forwarded = Append(@, Head(upstream))] /\ upstream' = Tail(upstream)
      /\ proxy' = proxy /\ tunnel' = tunnel /\ tunnelPc' = tunnelPc /\ downstream' = downstream
      /\ relay' = relay /\ dials' = dials
  BY DEF RelayForwards, Serving
<1>2. /\ downstream \in Seq(Words) /\ upstream \in Seq(Piece) /\ relay \in RelayRec /\ traffic \in TrafficRec
  BY TunnelTypes
<1>u. PICK u : u = Tail(upstream) OBVIOUS
<1>f. PICK f : f = Append(traffic.forwarded, Head(upstream)) OBVIOUS
<1>t. PICK t : t = [traffic EXCEPT !.forwarded = f] OBVIOUS
<1>3. u \in Seq(Piece) /\ Head(upstream) \in Piece BY <1>1, <1>2, <1>u
<1>4. f \in Seq(Piece)
  <2>1. traffic.forwarded \in Seq(Piece) BY <1>2 DEF TrafficRec
  <2> QED BY <1>f, <1>3, <2>1
<1>5. /\ t \in TrafficRec /\ t.requests = traffic.requests /\ t.heard = traffic.heard /\ t.forwarded = f
      /\ t.replies = traffic.replies /\ t.answers = traffic.answers /\ t.why = traffic.why
  BY <1>2, <1>4, <1>t DEF TrafficRec
<1>6. Fine(proxy, tunnel, u, downstream, relay.stage, t)
  <2>1. Once(proxy, tunnel, t) /\ proxy.active BY <1>0, <1>1, <1>5 DEF Fine, Once
  <2>2. CASE Led(t.why) BY <1>1, <2>1, <2>2, FineLed
  <2>3. CASE ~Led(t.why)
    <3>1. Kept(proxy, relay.stage, traffic) /\ Goes(proxy, tunnel, upstream, downstream, relay.stage, traffic)
      BY <1>0, <1>1, <1>5, <2>3 DEF Fine
    <3>2. proxy.type # "ptSOCKS5"
      <4> SUFFICES ASSUME proxy.type = "ptSOCKS5" PROVE FALSE OBVIOUS
      <4>1. Talks(tunnel, upstream, downstream, relay.stage, traffic) BY <3>1 DEF Goes
      <4>2. relay.stage = "tunnel" BY <1>1, <2>1 DEF Open, Once
      <4> QED BY <1>1, <4>1, <4>2 DEF Talks
    <3>p. PICK tls \in BOOLEAN : tls = (proxy.kind = "ptSOCKS5" /\ proxy.https)
      <4>1. (proxy.kind = "ptSOCKS5" /\ proxy.https) \in BOOLEAN OBVIOUS
      <4> QED BY <4>1
    <3>3. Asks(tunnel, upstream, downstream, traffic, tls) BY <1>1, <3>1, <3>2, <3>p DEF Goes, Fails
    <3>m. PICK m \in Seq(Piece) : m = Marked(Request, tls) /\ Len(m) = 2 BY RequestScript
    <3>4. PICK a, b \in 0 .. 2 :
            /\ a <= b /\ traffic.forwarded = Part(m, 0, a)
            /\ upstream = Part(m, a, b) /\ tunnel.out = Part(Request, b, 2)
            /\ \/ traffic.replies = 0 /\ tunnel.read = <<>> /\ downstream = <<>>
               \/ /\ traffic.replies = 1 /\ a = 2
                  /\ \E x \in 0 .. 1 : tunnel.read = Part(Reply, 0, x) /\ downstream = Part(Reply, x, 2)
      BY <3>3, <3>m DEF Asks
    <3>5. a < b
      <4>1. a # b
        <5>1. a \in 0 .. Len(m) BY <3>m
        <5> QED BY <1>1, <3>4, <5>1, PartEnds
      <4> QED BY <3>4, <4>1
    <3>6. f = Part(m, 0, a + 1) /\ u = Part(m, a + 1, b)
      <4>1. a \in Nat /\ b \in Nat /\ b <= Len(m) BY <3>m
      <4>2. Append(Part(m, 0, a), Head(Part(m, a, b))) = Part(m, 0, a + 1) /\ Tail(Part(m, a, b)) = Part(m, a + 1, b)
        BY <3>5, <4>1, PartHead
      <4> QED BY <1>f, <1>u, <3>4, <4>2
    <3>7. a + 1 \in 0 .. 2 /\ a + 1 <= b /\ a # 2 BY <3>5
    <3>8. Asks(tunnel, u, downstream, t, tls)
      <4>1. t.requests = 1 /\ t.answers = 0 /\ tunnel.tls = tls BY <1>5, <3>3 DEF Asks
      <4>2. t.replies = 0 /\ tunnel.read = <<>> /\ downstream = <<>> BY <1>5, <3>4, <3>7
      <4>p. PICK k \in 0 .. 2 : k = a + 1 BY <3>7
      <4>3. /\ k <= b /\ t.forwarded = Part(Marked(Request, tls), 0, k)
            /\ u = Part(Marked(Request, tls), k, b) /\ tunnel.out = Part(Request, b, 2)
        BY <1>5, <3>m, <3>4, <3>6, <3>7, <4>p
      <4> QED BY <4>1, <4>2, <4>3 DEF Asks
    <3>9. Goes(proxy, tunnel, u, downstream, relay.stage, t) BY <1>5, <3>1, <3>2, <3>p, <3>8 DEF Goes
    <3>10. Kept(proxy, relay.stage, t)
      <4>1. IsPrefix(t.forwarded, Marked(Request, tls))
        <5>1. a + 1 \in 0 .. Len(m) BY <3>m, <3>7
        <5>2. IsPrefix(Part(m, 0, a + 1), m) BY <5>1, PartEnds
        <5> QED BY <1>5, <3>m, <3>6, <5>2
      <4> QED BY <1>5, <3>1, <3>p, <4>1 DEF Kept
    <3> QED BY <1>1, <2>1, <3>9, <3>10 DEF Fine
  <2> QED BY <2>2, <2>3
<1>7. upstream' = u /\ traffic' = t BY <1>1, <1>u, <1>f, <1>t
<1> QED BY <1>1, <1>2, <1>3, <1>5, <1>6, <1>7, Relayed

\* The request ends with its second piece.
LEMMA AskedCounts ==
  ASSUME NEW tls \in BOOLEAN, NEW a \in 0 .. 2, traffic.forwarded = Part(Marked(Request, tls), 0, a)
  PROVE  Asked = IF a = 2 THEN 1 ELSE 0
<1>m. PICK m \in Seq(Piece) : m = Marked(Request, tls) /\ Len(m) = 2 BY RequestScript
<1>f. PICK f : f = traffic.forwarded OBVIOUS
<1>1. m[1].text = "request" /\ m[2].text = "its end"
  <2>0. Request[1] = "request" /\ Request[2] = "its end" BY DEF Request
  <2>1. 1 \in DOMAIN Request /\ 2 \in DOMAIN Request
    <3>1. Request \in Seq(Words) /\ Len(Request) = 2 BY RequestScript
    <3> QED BY <3>1
  <2> QED BY <1>m, <2>0, <2>1 DEF Marked
<1>2. DOMAIN f = 1 .. a /\ \A i \in 1 .. a : f[i] = m[i]
  <2>1. a - 0 = a /\ \A i \in 1 .. a : 0 + i = i OBVIOUS
  <2>2. f = [i \in 1 .. a - 0 |-> m[0 + i]] BY <1>m, <1>f DEF Part
  <2> QED BY <2>1, <2>2
<1>p. PICK S : S = {i \in DOMAIN f : f[i].text = "its end"} OBVIOUS
<1>3. Asked = Cardinality(S) BY <1>f, <1>p DEF Asked
<1>4. CASE a = 2
  <2>1. S = {2}
    <3>1. 1 .. a = {1, 2} BY <1>4
    <3> QED BY <1>1, <1>2, <1>p, <3>1
  <2> QED BY <1>3, <1>4, <2>1, FS_Singleton
<1>5. CASE a # 2
  <2>1. S = {}
    <3>1. \A i \in 1 .. a : i = 1 BY <1>5
    <3> QED BY <1>1, <1>2, <1>p, <3>1
  <2> QED BY <1>3, <1>5, <2>1, FS_EmptySet
<1> QED BY <1>4, <1>5

LEMMA RepliesKeeps ==
  ASSUME IndInv, TargetReplies
  PROVE  IndInv'
<1>0. /\ Fine(proxy, tunnel, upstream, downstream, relay.stage, traffic) BY DEF IndInv
<1>1. /\ tunnel.open /\ Open /\ traffic.replies < Asked
      /\ downstream' = downstream \o Reply /\ traffic' = [traffic EXCEPT !.replies = @ + 1]
      /\ proxy' = proxy /\ tunnel' = tunnel /\ tunnelPc' = tunnelPc /\ upstream' = upstream
      /\ relay' = relay /\ dials' = dials
  BY DEF TargetReplies, Serving
<1>2. /\ downstream \in Seq(Words) /\ upstream \in Seq(Piece) /\ relay \in RelayRec /\ traffic \in TrafficRec
  BY TunnelTypes
<1>s. PICK s : s = downstream \o Reply OBVIOUS
<1>t. PICK t : t = [traffic EXCEPT !.replies = @ + 1] OBVIOUS
<1>3. s \in Seq(Words) BY <1>2, <1>s, ReplyScript, ConcatProperties
<1>4. traffic.replies \in Nat BY <1>2 DEF TrafficRec
<1>5. /\ t \in TrafficRec /\ t.requests = traffic.requests /\ t.heard = traffic.heard
      /\ t.forwarded = traffic.forwarded /\ t.replies = traffic.replies + 1 /\ t.answers = traffic.answers
      /\ t.why = traffic.why
  <2>1. traffic.replies + 1 \in Nat BY <1>4
  <2> QED BY <1>2, <1>t, <2>1 DEF TrafficRec
<1>6. Fine(proxy, tunnel, upstream, s, relay.stage, t)
  <2>1. Once(proxy, tunnel, t) /\ proxy.active BY <1>0, <1>1, <1>5 DEF Fine, Once
  <2>2. CASE Led(t.why) BY <1>1, <2>1, <2>2, FineLed
  <2>3. CASE ~Led(t.why)
    <3>1. Kept(proxy, relay.stage, traffic) /\ Goes(proxy, tunnel, upstream, downstream, relay.stage, traffic)
      BY <1>0, <1>1, <1>5, <2>3 DEF Fine
    <3>2. traffic.forwarded # <<>>
      <4> SUFFICES ASSUME traffic.forwarded = <<>> PROVE FALSE OBVIOUS
      <4>1. {i \in DOMAIN <<>> : <<>>[i].text = "its end"} = {} OBVIOUS
      <4>2. Asked = Cardinality({}) BY <4>1 DEF Asked
      <4>3. Asked = 0 BY <4>2, FS_EmptySet
      <4> QED BY <1>1, <1>4, <4>3
    <3>3. proxy.type # "ptSOCKS5" BY <3>1, <3>2 DEF Goes, Talks
    <3>p. PICK tls \in BOOLEAN : tls = (proxy.kind = "ptSOCKS5" /\ proxy.https)
      <4>1. (proxy.kind = "ptSOCKS5" /\ proxy.https) \in BOOLEAN OBVIOUS
      <4> QED BY <4>1
    <3>4. Asks(tunnel, upstream, downstream, traffic, tls) BY <3>1, <3>2, <3>3, <3>p DEF Goes, Fails
    <3>5. PICK a, b \in 0 .. 2 :
            /\ a <= b /\ traffic.forwarded = Part(Marked(Request, tls), 0, a)
            /\ upstream = Part(Marked(Request, tls), a, b) /\ tunnel.out = Part(Request, b, 2)
            /\ \/ traffic.replies = 0 /\ tunnel.read = <<>> /\ downstream = <<>>
               \/ traffic.replies = 1 /\ a = 2
      BY <3>4 DEF Asks
    <3>6. Asked = IF a = 2 THEN 1 ELSE 0 BY <3>5, AskedCounts
    <3>7. a = 2 /\ traffic.replies = 0 BY <1>1, <1>4, <3>5, <3>6
    <3>8. tunnel.read = <<>> /\ downstream = <<>> BY <3>5, <3>7
    <3>9. s = Part(Reply, 0, 2) /\ tunnel.read = Part(Reply, 0, 0)
      <4>1. s = <<>> \o Reply BY <1>s, <3>8
      <4>2. s = Reply BY <4>1, ReplyScript, ConcatEmptySeq
      <4>3. Reply \in Seq(Words) /\ 0 \in 0 .. Len(Reply) BY ReplyScript
      <4>4. Part(Reply, 0, 0) = <<>> BY <4>3, PartEnds
      <4> QED BY <3>8, <4>2, <4>4, ReplyScript
    <3>10. Asks(tunnel, upstream, s, t, tls)
      <4>1. t.requests = 1 /\ t.answers = 0 /\ tunnel.tls = tls BY <1>5, <3>4 DEF Asks
      <4>2. t.replies = 1 BY <1>5, <3>7
      <4>3. \E x \in 0 .. 1 : tunnel.read = Part(Reply, 0, x) /\ s = Part(Reply, x, 2)
        <5>1. 0 \in 0 .. 1 OBVIOUS
        <5> QED BY <3>9, <5>1
      <4> QED BY <1>5, <3>5, <3>7, <4>1, <4>2, <4>3 DEF Asks
    <3>11. Goes(proxy, tunnel, upstream, s, relay.stage, t) BY <1>5, <3>1, <3>3, <3>p, <3>10 DEF Goes
    <3>12. Kept(proxy, relay.stage, t)
      <4>1. t.answers <= t.replies
        <5>1. traffic.answers = 0 BY <3>4 DEF Asks
        <5> QED BY <1>5, <3>7, <5>1
      <4> QED BY <1>5, <3>1, <4>1 DEF Kept
    <3> QED BY <1>1, <2>1, <3>11, <3>12 DEF Fine
  <2> QED BY <2>2, <2>3
<1>7. downstream' = s /\ traffic' = t BY <1>1, <1>s, <1>t
<1> QED BY <1>1, <1>2, <1>3, <1>5, <1>6, <1>7, Relayed

LEMMA HangsUpKeeps ==
  ASSUME IndInv, RelayHangsUp
  PROVE  IndInv'
<1>0. /\ Fine(proxy, tunnel, upstream, downstream, relay.stage, traffic) BY DEF IndInv
<1>1. /\ relay' = [relay EXCEPT !.open = FALSE] /\ traffic' = [traffic EXCEPT !.why = @ \cup {"hangup"}]
      /\ proxy' = proxy /\ tunnel' = tunnel /\ tunnelPc' = tunnelPc /\ downstream' = downstream
      /\ upstream' = upstream /\ dials' = dials
  BY DEF RelayHangsUp
<1>2. /\ downstream \in Seq(Words) /\ upstream \in Seq(Piece) /\ relay \in RelayRec /\ traffic \in TrafficRec
  BY TunnelTypes
<1>r. PICK r : r = [relay EXCEPT !.open = FALSE] OBVIOUS
<1>t. PICK t : t = [traffic EXCEPT !.why = @ \cup {"hangup"}] OBVIOUS
<1>3. r \in RelayRec /\ r.stage = relay.stage BY <1>2, <1>r DEF RelayRec
<1>4. t \in TrafficRec /\ Later(traffic, t) BY <1>2, <1>t DEF TrafficRec, Later, Reasons
<1>5. Fine(proxy, tunnel, upstream, downstream, r.stage, t) BY <1>0, <1>3, <1>4, FineLater
<1>6. relay' = r /\ traffic' = t BY <1>1, <1>r, <1>t
<1> QED BY <1>1, <1>2, <1>3, <1>4, <1>5, <1>6, Relayed

-----------------------------------------------------------------------------
(* The theorems *)

LEMMA StepHolds == IndInv /\ [ProxyNext]_proxyVars => IndInv'
<1> SUFFICES ASSUME IndInv, [ProxyNext]_proxyVars PROVE IndInv' OBVIOUS
<1>1. ASSUME NEW connects \in BOOLEAN, NEW room \in 0 .. 2, ProxyDials(connects, room) PROVE IndInv'
  BY <1>1, DialsKeeps
<1>2. CASE ProxyDeactivates BY <1>2, DeactivatesKeeps
<1>3. ASSUME NEW n \in 0 .. Len(downstream), NEW room \in 0 .. 2, NEW shakes \in BOOLEAN,
             NEW writable \in BOOLEAN, ProxyReads(n, room, shakes, writable)
      PROVE  IndInv'
  BY <1>3, ReadsKeeps
<1>4. ASSUME NEW room \in 0 .. 3, ProxyWrites(room) PROVE IndInv' BY <1>4, WritesKeeps
<1>5. ASSUME NEW room \in 0 .. 3, NEW n \in 0 .. Len(downstream), NEW more \in 0 .. 2, NEW shakes \in BOOLEAN,
             ProxyWritesSOCKS5(room, n, more, shakes)
      PROVE  IndInv'
  BY <1>5, WritesSOCKS5Keeps
<1>6. CASE ProxyTimesOut BY <1>6, TimesOutKeeps
<1>7. CASE RelayNegotiates BY <1>7, NegotiatesKeeps
<1>8. CASE RelayForwards BY <1>8, ForwardsKeeps
<1>9. CASE TargetReplies BY <1>9, RepliesKeeps
<1>10. CASE RelayHangsUp BY <1>10, HangsUpKeeps
<1>11. CASE UNCHANGED proxyVars
  <2>1. /\ proxy' = proxy /\ tunnel' = tunnel /\ tunnelPc' = tunnelPc /\ downstream' = downstream
        /\ upstream' = upstream /\ relay' = relay /\ dials' = dials /\ traffic' = traffic
    BY <1>11 DEF proxyVars
  <2>2. Fine(proxy, tunnel, upstream, downstream, relay.stage, traffic) BY DEF IndInv
  <2> QED BY <2>1, <2>2, TunnelTypes, Relayed
<1> QED BY <1>1, <1>2, <1>3, <1>4, <1>5, <1>6, <1>7, <1>8, <1>9, <1>10, <1>11 DEF ProxyNext

LEMMA NeverIdle ==
  ASSUME IndInv, traffic.why = {}
  PROVE  ~ProxyIdles
<1> SUFFICES ASSUME ProxyIdles PROVE FALSE OBVIOUS
<1>1. /\ tunnel.open /\ tunnel.out = <<>> /\ downstream = <<>> /\ upstream = <<>>
      /\ Open => traffic.replies = Asked
  BY DEF ProxyIdles, HasOutput
<1>2. Goes(proxy, tunnel, upstream, downstream, relay.stage, traffic) BY <1>1 DEF IndInv, Fine, Led
<1>3. CASE proxy.type = "ptSOCKS5"
  <2>1. Talks(tunnel, upstream, downstream, relay.stage, traffic) BY <1>2, <1>3 DEF Goes
  <2>2. Granted # <<>> /\ Opened # <<>> BY DEF Granted, Opened
  <2>3. Dialogue \in Seq(Piece) /\ Len(Dialogue) = 6 /\ 0 \in 0 .. 6 /\ 3 \in 0 .. 6 /\ 0 <= 3 BY Scripts
  <2>4. Part(Dialogue, 0, 3) # <<>>
    <3>1. \A a, b \in 0 .. Len(Dialogue) : a <= b /\ Part(Dialogue, a, b) = <<>> => a = b BY <2>3, PartEnds
    <3> QED BY <2>3, <3>1
  <2>5. \E b \in 3 .. 6 : Part(Dialogue, 3, b) = <<>> /\ Part(Methods \o ConnectTo, b, 6) = <<>>
    BY <1>1, <2>1, <2>2, <2>4 DEF Talks
  <2>6. PICK b \in 3 .. 6 : Part(Dialogue, 3, b) = <<>> /\ Part(Methods \o ConnectTo, b, 6) = <<>> BY <2>5
  <2>7. b = 3
    <3>1. \A k, m \in 0 .. Len(Dialogue) : k <= m /\ Part(Dialogue, k, m) = <<>> => k = m BY <2>3, PartEnds
    <3>2. b \in 0 .. Len(Dialogue) /\ 3 <= b BY <2>3
    <3> QED BY <2>3, <2>6, <3>1, <3>2
  <2>8. Part(Methods \o ConnectTo, 3, 6) = ConnectTo /\ Len(ConnectTo) = 3 BY Scripts
  <2>9. Len(<<>>) = 0 OBVIOUS
  <2> QED BY <2>6, <2>7, <2>8, <2>9
<1>4. CASE proxy.type # "ptSOCKS5"
  <2>p. PICK tls \in BOOLEAN : tls = (proxy.kind = "ptSOCKS5" /\ proxy.https)
    <3>1. (proxy.kind = "ptSOCKS5" /\ proxy.https) \in BOOLEAN OBVIOUS
    <3> QED BY <3>1
  <2>1. Asks(tunnel, upstream, downstream, traffic, tls) BY <1>2, <1>4, <2>p DEF Goes, Fails
  <2>2. Open BY <1>2, <1>4, TunnelTypes DEF Goes, Open, Kinds
  <2>3. PICK a, b \in 0 .. 2 :
          /\ a <= b /\ traffic.forwarded = Part(Marked(Request, tls), 0, a)
          /\ upstream = Part(Marked(Request, tls), a, b) /\ tunnel.out = Part(Request, b, 2)
          /\ \/ traffic.replies = 0
             \/ \E x \in 0 .. 1 : downstream = Part(Reply, x, 2)
    BY <2>1 DEF Asks
  <2>m. PICK m \in Seq(Piece) : m = Marked(Request, tls) /\ Len(m) = 2 BY RequestScript
  <2>4. a = b
    <3>1. \A j, k \in 0 .. Len(m) : j <= k /\ Part(m, j, k) = <<>> => j = k BY PartEnds
    <3> QED BY <1>1, <2>3, <2>m, <3>1
  <2>5. b = 2
    <3>1. Request \in Seq(Words) /\ Len(Request) = 2 BY <2>p, RequestScript
    <3>2. \A j, k \in 0 .. Len(Request) : j <= k /\ Part(Request, j, k) = <<>> => j = k BY <3>1, PartEnds
    <3>3. b \in 0 .. Len(Request) /\ 2 \in 0 .. Len(Request) /\ b <= 2 BY <3>1
    <3> QED BY <1>1, <2>3, <3>2, <3>3
  <2>6. Asked = 1 BY <2>3, <2>4, <2>5, AskedCounts
  <2>7. traffic.replies = 1 BY <1>1, <2>2, <2>6
  <2>8. PICK x \in 0 .. 1 : downstream = Part(Reply, x, 2) BY <2>3, <2>7
  <2>9. x = 2
    <3>1. Reply \in Seq(Words) /\ Len(Reply) = 2 BY ReplyScript
    <3>2. \A j, k \in 0 .. Len(Reply) : j <= k /\ Part(Reply, j, k) = <<>> => j = k BY <3>1, PartEnds
    <3>3. x \in 0 .. Len(Reply) /\ 2 \in 0 .. Len(Reply) /\ x <= 2 BY <3>1
    <3> QED BY <1>1, <2>8, <3>2, <3>3
  <2> QED BY <2>9
<1> QED BY <1>3, <1>4

LEMMA IndInvImplies == IndInv => TunnelExact
<1> SUFFICES ASSUME IndInv PROVE TunnelExact OBVIOUS
<1>1. Fine(proxy, tunnel, upstream, downstream, relay.stage, traffic) BY DEF IndInv
<1>2. traffic.requests <= 1 BY <1>1 DEF Fine, Once
<1>3. traffic.why \cap {"cut", "expired", "reused"} = {} => Kept(proxy, relay.stage, traffic) BY <1>1 DEF Fine, Led
<1>4. traffic.why = {} => ~ProxyIdles BY NeverIdle
<1>5. Dialogue = Marked(Methods \o ConnectTo, FALSE) BY DEF Dialogue
<1> QED BY <1>2, <1>3, <1>4, <1>5 DEF TunnelExact, Kept

\* The inductive invariant: what has been said, what is on its way and what is still to be written make up, in this
\* order, the part of the dialogue that is due, and so do the reply, what is read of it and what is to be read
\* (CHTTPProxy::DoRead, DoWrite, SOCKS5, DoRequest), unless the dialogue has been led astray.
THEOREM ProxyInvariant == ProxySpec => []IndInv
BY InitHolds, StepHolds, PTL DEF ProxySpec

\* Through a proxy or a SOCKS5 tunnel, however reads and writes are cut and whenever the server refuses or hangs up,
\* a connection makes one request at most, and the target gets it and nothing else, as TunnelExact says.
THEOREM TunnelAlwaysExact == ProxySpec => []TunnelExact
BY ProxyInvariant, IndInvImplies, PTL
=============================================================================
