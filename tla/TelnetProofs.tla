----------------------------- MODULE TelnetProofs -----------------------------
(***************************************************************************)
(* The telnet interface for any number of clients, sockets and lines.      *)
(***************************************************************************)
EXTENDS TelnetProperties, SequenceTheorems, FiniteSetTheorems, TLAPS

(* Sequences.                                                              *)

LEMMA Concat ==
  ASSUME NEW B, NEW a \in Seq(B), NEW b \in Seq(B)
  PROVE  /\ a \o b \in Seq(B) /\ Len(a \o b) = Len(a) + Len(b)
         /\ Len(a) \in Nat /\ Len(b) \in Nat
         /\ \A i \in 1 .. Len(a) : (a \o b)[i] = a[i]
         /\ \A i \in 1 .. Len(b) : (a \o b)[Len(a) + i] = b[i]
         /\ \A i \in 1 .. Len(a) + Len(b) :
              (a \o b)[i] = IF i <= Len(a) THEN a[i] ELSE b[i - Len(a)]
OBVIOUS

LEMMA Joined ==
  ASSUME NEW a \in Seq(Byte), NEW b \in Seq(Byte), NEW c, c = a \o b
  PROVE  /\ c \in Seq(Byte) /\ Len(c) = Len(a) + Len(b)
         /\ \A i \in 1 .. Len(a) : c[i] = a[i]
         /\ \A i \in 1 .. Len(b) : c[Len(a) + i] = b[i]
OBVIOUS

LEMMA Associative ==
  ASSUME NEW a \in Seq(Byte), NEW b \in Seq(Byte), NEW c \in Seq(Byte)
  PROVE  (a \o b) \o c = a \o (b \o c)
OBVIOUS

LEMMA AppendBehind ==
  ASSUME NEW a \in Seq(Byte), NEW b \in Seq(Byte), NEW c \in Seq(Byte), NEW x \in Byte
  PROVE  a \o (b \o Append(c, x)) = Append(a \o (b \o c), x)
<1>1. b \o Append(c, x) = Append(b \o c, x) /\ b \o c \in Seq(Byte)
  OBVIOUS
<1>2. ASSUME NEW d \in Seq(Byte) PROVE a \o Append(d, x) = Append(a \o d, x)
  OBVIOUS
<1> QED BY <1>1, <1>2, Zenon

LEMMA Cut ==
  ASSUME NEW a \in Seq(Byte), NEW n \in 1 .. Len(a)
  PROVE  /\ SubSeq(a, 1, n) \in Seq(Byte) /\ SubSeq(a, n + 1, Len(a)) \in Seq(Byte)
         /\ SubSeq(a, 1, n) \o SubSeq(a, n + 1, Len(a)) = a
OBVIOUS

\* A byte goes from the head of one sequence to the end of another.
LEMMA Moved ==
  ASSUME NEW a \in Seq(Byte), NEW b \in Seq(Byte), NEW c \in Seq(Byte), b # << >>
  PROVE  Append(a, Head(b)) \o (Tail(b) \o c) = a \o (b \o c)
OBVIOUS

-----------------------------------------------------------------------------
(* Streams.                                                                *)

\* A line is its end, with its text before it if it has one.
LEMMA LineBytes ==
  ASSUME NEW n \in Sessions, NEW l \in Nat, NEW k \in Kinds,
         NEW d, d = Bytes(n, l, k)
  PROVE  /\ d \in Seq(Byte)
         /\ IF k = "blank"
            THEN d = <<[session |-> n, line |-> l, kind |-> k, part |-> "end"]>>
            ELSE d = <<[session |-> n, line |-> l, kind |-> k, part |-> "text"],
                       [session |-> n, line |-> l, kind |-> k, part |-> "end"]>>
<1> DEFINE x == [session |-> n, line |-> l, kind |-> k, part |-> "text"]
           y == [session |-> n, line |-> l, kind |-> k, part |-> "end"]
<1>1. x \in Byte /\ y \in Byte
  BY DEF Byte
<1>2. CASE k = "blank"
  <2>1. d = [i \in 1 .. 1 |-> [session |-> n, line |-> l, kind |-> k,
                               part |-> <<"end">>[i]]]
    BY <1>2 DEF Bytes
  <2>2. \A i \in 1 .. 1 : <<"end">>[i] = "end"
    OBVIOUS
  <2>3. d = [i \in 1 .. 1 |-> y]
    BY <2>1, <2>2
  <2>4. d = <<y>>
    <3> HIDE DEF y
    <3> QED BY <2>3
  <2>5. <<y>> \in Seq(Byte)
    <3> HIDE DEF y
    <3> QED BY <1>1
  <2> QED BY <1>2, <2>4, <2>5
<1>3. CASE k # "blank"
  <2>1. d = [i \in 1 .. 2 |-> [session |-> n, line |-> l, kind |-> k,
                               part |-> <<"text", "end">>[i]]]
    BY <1>3 DEF Bytes
  <2>2. <<"text", "end">>[1] = "text" /\ <<"text", "end">>[2] = "end"
    OBVIOUS
  <2>3. d = <<x, y>>
    <3>1. \A i \in 1 .. 2 : d[i] = IF i = 1 THEN x ELSE y
      BY <2>1, <2>2
    <3>2. d = [i \in 1 .. 2 |-> d[i]]
      BY <2>1, Zenon
    <3> HIDE DEF x, y
    <3> QED BY <3>1, <3>2
  <2>5. <<x, y>> \in Seq(Byte)
    <3> HIDE DEF x, y
    <3> QED BY <1>1
  <2> QED BY <1>3, <2>3, <2>5
<1> QED BY <1>2, <1>3

LEMMA Fields ==
  ASSUME NEW x \in Byte
  PROVE  x = [session |-> x.session, line |-> x.line, kind |-> x.kind,
              part |-> x.part]
BY DEF Byte

LEMMA Appended ==
  ASSUME NEW B, NEW p \in Seq(B), NEW z \in B, NEW q, q = Append(p, z)
  PROVE  /\ q \in Seq(B) /\ q # << >>
         /\ Len(p) \in Nat /\ Len(q) = Len(p) + 1
         /\ q[Len(p) + 1] = z /\ q[Len(q)] = z
         /\ \A i \in 1 .. Len(p) : q[i] = p[i]
OBVIOUS

LEMMA Two ==
  ASSUME NEW p \in Seq(Byte), NEW x \in Byte, NEW y \in Byte, Len(p) = 1, p[1] = x
  PROVE  Append(p, y) = <<x, y>>
<1>1. PICK q : q = Append(p, y)
  OBVIOUS
<1>2. q \in Seq(Byte) /\ Len(q) = 2 /\ q[1] = x /\ q[2] = y
  <2>1. /\ q \in Seq(Byte) /\ Len(q) = Len(p) + 1 /\ q[Len(p) + 1] = y
        /\ \A i \in 1 .. Len(p) : q[i] = p[i]
    BY <1>1, Appended
  <2> QED BY <2>1
<1>3. \A i \in 1 .. 2 : q[i] = <<x, y>>[i]
  BY <1>2
<1>4. q = [i \in 1 .. 2 |-> q[i]]
  BY <1>2
<1>5. q = <<x, y>>
  BY <1>3, <1>4
<1> QED BY <1>1, <1>5

LEMMA AppendedTo ==
  ASSUME NEW B, NEW p \in Seq(B), NEW x \in B, NEW y \in B
  PROVE  p \o <<x>> = Append(p, x) /\ p \o <<x, y>> = Append(Append(p, x), y)
OBVIOUS

\* A byte that goes on where the stream ends.
LEMMA StreamAppended ==
  ASSUME NEW n, NEW h, NEW s, NEW p \in Seq(Byte), NEW z \in Byte,
         Stream(p, n, h, s, FALSE),
         z.session = n, z.part = "text" => z.kind # "blank",
         \/ z.line \in 1 .. Len(s) /\ z.kind = s[z.line]
         \/ z.line = Len(s) + 1 /\ z.part = "text",
         p = << >> => Starts(z, h + 1),
         p # << >> => IF p[Len(p)].part = "end" THEN Starts(z, p[Len(p)].line + 1)
                      ELSE z.line = p[Len(p)].line /\ z.part = "end",
         NEW q, q = Append(p, z)
  PROVE  Stream(q, n, h, s, FALSE)
<1>1. PICK a : a = Len(p)
  OBVIOUS
<1>2. /\ a \in Nat /\ Len(q) = a + 1 /\ q # << >> /\ q[a + 1] = z
      /\ \A i \in 1 .. a : q[i] = p[i]
  BY <1>1, Appended
<1>3. p = << >> <=> a = 0
  BY <1>1
<1>4. ASSUME NEW i \in 1 .. a + 1
      PROVE  /\ q[i].session = n
             /\ q[i].part = "text" => q[i].kind # "blank"
             /\ \/ q[i].line \in 1 .. Len(s) /\ q[i].kind = s[q[i].line]
                \/ q[i].line = Len(s) + 1 /\ q[i].part = "text"
  <2>1. CASE i = a + 1
    BY <1>2, <2>1
  <2>2. CASE i \in 1 .. a
    <3>1. q[i] = p[i]
      BY <1>2, <2>2
    <3> QED BY <1>1, <2>2, <3>1 DEF Stream
  <2> QED BY <1>2, <2>1, <2>2
<1>5. ASSUME NEW i \in 1 .. a
      PROVE  IF q[i].part = "end" THEN Starts(q[i + 1], q[i].line + 1)
             ELSE q[i + 1].line = q[i].line /\ q[i + 1].part = "end"
  <2>1. CASE i = a
    <3>1. q[i] = p[a] /\ q[i + 1] = z /\ p # << >>
      BY <1>2, <1>3, <2>1
    <3> QED BY <1>1, <3>1
  <2>2. CASE i \in 1 .. a - 1
    <3>1. q[i] = p[i] /\ q[i + 1] = p[i + 1]
      BY <1>2, <2>2
    <3> QED BY <1>1, <2>2, <3>1 DEF Stream
  <2> QED BY <1>2, <2>1, <2>2
<1>6. Starts(q[1], h + 1)
  <2>1. CASE a = 0
    BY <1>2, <1>3, <2>1
  <2>2. CASE a # 0
    <3>1. q[1] = p[1] /\ p # << >>
      BY <1>2, <1>3, <2>2
    <3> QED BY <3>1 DEF Stream
  <2> QED BY <2>1, <2>2
<1>7. 1 .. Len(q) = 1 .. a + 1 /\ 1 .. Len(q) - 1 = 1 .. a
  BY <1>2
<1> QED BY <1>4, <1>5, <1>6, <1>7, Zenon DEF Stream

\* Whole lines only.
Whole(p, s) == \A i \in 1 .. Len(p) :
  p[i].line \in 1 .. Len(s) /\ p[i].kind = s[p[i].line]

LEMMA WholeAppended ==
  ASSUME NEW s, NEW p \in Seq(Byte), NEW z \in Byte, Whole(p, s),
         z.line \in 1 .. Len(s), z.kind = s[z.line], NEW q, q = Append(p, z)
  PROVE  Whole(q, s)
<1>1. ASSUME NEW i \in 1 .. Len(q)
      PROVE  q[i].line \in 1 .. Len(s) /\ q[i].kind = s[q[i].line]
  <2>1. \/ i \in 1 .. Len(p) /\ q[i] = p[i]
        \/ q[i] = z
    BY Appended
  <2> QED BY <2>1, Zenon DEF Whole
<1> QED BY <1>1 DEF Whole

LEMMA StreamStays ==
  ASSUME NEW n, NEW h, NEW s, NEW p, Stream(p, n, h, s, FALSE), Whole(p, s),
         UpToLast(p, h, s)
  PROVE  Stream(p, n, h, s, TRUE)
BY DEF Stream, Whole

LEMMA StreamLeft ==
  ASSUME NEW n, NEW h, NEW s, NEW p, Stream(p, n, h, s, TRUE)
  PROVE  Stream(p, n, h, s, FALSE) /\ Whole(p, s) /\ UpToLast(p, h, s)
BY DEF Stream, Whole

\* A client that sends a line sends its bytes behind those of the others.
LEMMA LineSent ==
  ASSUME NEW n \in Sessions, NEW h \in Nat, NEW s \in Seq(Kinds), NEW k \in Kinds,
         NEW p \in Seq(Byte), Stream(p, n, h, s, TRUE)
  PROVE  Stream(p \o Bytes(n, Len(s) + 1, k), n, h, Append(s, k), TRUE)
<1>1. PICK l : l = Len(s) + 1
  OBVIOUS
<1>2. PICK s2 : s2 = Append(s, k)
  OBVIOUS
<1>3. /\ Len(s) \in Nat /\ l \in Nat /\ Len(s2) = l /\ s2[l] = k
      /\ \A i \in 1 .. Len(s) : i \in 1 .. Len(s2) /\ s2[i] = s[i]
  BY <1>1, <1>2
<1>4. Stream(p, n, h, s, FALSE) /\ Whole(p, s) /\ UpToLast(p, h, s)
  BY StreamLeft, Zenon
<1>5. Whole(p, s2)
  BY <1>3, <1>4 DEF Whole
<1>6. Stream(p, n, h, s2, FALSE)
  <2>1. \A i \in 1 .. Len(p) :
          /\ p[i].session = n
          /\ p[i].part = "text" => p[i].kind # "blank"
          /\ p[i].line \in 1 .. Len(s2) /\ p[i].kind = s2[p[i].line]
    BY <1>4, <1>5, Zenon DEF Stream, Whole
  <2> QED BY <1>4, <2>1, Zenon DEF Stream
<1>7. PICK x : x = [session |-> n, line |-> l, kind |-> k, part |-> "text"]
  OBVIOUS
<1>8. PICK y : y = [session |-> n, line |-> l, kind |-> k, part |-> "end"]
  OBVIOUS
<1>9. /\ x \in Byte /\ y \in Byte /\ x.session = n /\ y.session = n
      /\ x.kind = k /\ y.kind = k /\ x.line = l /\ y.line = l
      /\ x.part = "text" /\ y.part = "end"
  BY <1>3, <1>7, <1>8 DEF Byte
<1>10. l \in 1 .. Len(s2) /\ x.kind = s2[x.line] /\ y.kind = s2[y.line]
  <2>1. l \in 1 .. Len(s2)
    BY <1>1, <1>3
  <2>2. s2[l] = k
    BY <1>3
  <2>3. \A z : z.line = l /\ z.kind = k => z.kind = s2[z.line]
    BY <2>2, Zenon
  <2> QED BY <1>9, <2>1, <2>3
<1>11. ASSUME NEW z, z = x \/ z = y, Starts(z, l)
       PROVE  /\ p = << >> => Starts(z, h + 1)
              /\ p # << >> => IF p[Len(p)].part = "end"
                              THEN Starts(z, p[Len(p)].line + 1)
                              ELSE z.line = p[Len(p)].line /\ z.part = "end"
  <2>1. CASE p = << >>
    <3>1. l = h + 1
      BY <1>1, <1>4, <2>1 DEF UpToLast
    <3> QED BY <1>11, <2>1, <3>1, Zenon
  <2>2. CASE p # << >>
    <3>1. p[Len(p)].line + 1 = l /\ p[Len(p)].part = "end"
      BY <1>1, <1>4, <2>2 DEF UpToLast
    <3> QED BY <1>11, <2>2, <3>1, Zenon
  <2> QED BY <2>1, <2>2
<1>12. PICK d : d = Bytes(n, l, k)
  OBVIOUS
<1>13. Stream(p \o d, n, h, s2, TRUE)
  <2>1. CASE k = "blank"
    <3>1. PICK q : q = Append(p, y)
      OBVIOUS
    <3>2. p \o d = q
      <4>1. d = <<y>>
        BY <1>3, <1>8, <1>12, <2>1, LineBytes
      <4> QED BY <1>9, <3>1, <4>1, AppendedTo
    <3>3. Starts(y, l)
      BY <1>9, <2>1 DEF Starts
    <3>4. Stream(q, n, h, s2, FALSE)
      BY <1>6, <1>9, <1>10, <1>11, <3>1, <3>3, StreamAppended
    <3>5. Whole(q, s2)
      BY <1>5, <1>9, <1>10, <3>1, WholeAppended
    <3>6. q # << >> /\ q[Len(q)] = y
      BY <1>9, <3>1, Appended
    <3> QED BY <1>3, <1>9, <3>2, <3>4, <3>5, <3>6, StreamStays DEF UpToLast
  <2>2. CASE k # "blank"
    <3>1. PICK r : r = Append(p, x)
      OBVIOUS
    <3>2. PICK q : q = Append(r, y)
      OBVIOUS
    <3>3. p \o d = q
      <4>1. d = <<x, y>>
        BY <1>3, <1>7, <1>8, <1>12, <2>2, LineBytes
      <4> QED BY <1>9, <3>1, <3>2, <4>1, AppendedTo
    <3>4. Starts(x, l)
      BY <1>9, <2>2 DEF Starts
    <3>5. Stream(r, n, h, s2, FALSE)
      BY <1>6, <1>9, <1>10, <1>11, <2>2, <3>1, <3>4, StreamAppended
    <3>6. r \in Seq(Byte) /\ r # << >> /\ r[Len(r)] = x
      BY <1>9, <3>1, Appended
    <3>7. Stream(q, n, h, s2, FALSE)
      BY <1>9, <1>10, <3>2, <3>5, <3>6, StreamAppended
    <3>8. Whole(r, s2)
      BY <1>5, <1>9, <1>10, <3>1, WholeAppended
    <3>9. Whole(q, s2)
      BY <1>9, <1>10, <3>2, <3>6, <3>8, WholeAppended
    <3>10. q # << >> /\ q[Len(q)] = y
      BY <1>9, <3>2, <3>6, Appended
    <3> QED BY <1>3, <1>9, <3>3, <3>7, <3>9, <3>10, StreamStays DEF UpToLast
  <2> QED BY <2>1, <2>2
<1> QED BY <1>1, <1>2, <1>12, <1>13

\* A client may go in the middle of a line.
LEMMA PartSent ==
  ASSUME NEW n \in Sessions, NEW h, NEW s \in Seq(Kinds),
         NEW p \in Seq(Byte), Stream(p, n, h, s, TRUE), NEW x,
         x = [session |-> n, line |-> Len(s) + 1, kind |-> "good", part |-> "text"]
  PROVE  Stream(Append(p, x), n, h, s, FALSE)
<1>1. /\ x \in Byte /\ x.session = n /\ x.part = "text" /\ x.kind = "good"
      /\ x.line = Len(s) + 1
  BY DEF Byte
<1>2. Stream(p, n, h, s, FALSE) /\ UpToLast(p, h, s)
  BY StreamLeft, Zenon
<1>3. Starts(x, Len(s) + 1)
  BY <1>1 DEF Starts
<1> QED BY <1>1, <1>2, <1>3, StreamAppended DEF UpToLast

\* A client that has just come has sent nothing.
LEMMA StreamBegins == ASSUME NEW n PROVE Stream(<< >>, n, 0, << >>, TRUE)
BY DEF Stream, UpToLast

LEMMA TextOnly ==
  ASSUME NEW b \in Seq(Text)
  PROVE  b \in Seq(Byte) /\ \A i \in 1 .. Len(b) : b[i].part = "text"
<1>1. \A x \in Text : x \in Byte /\ x.part = "text"
  BY DEF Text
<1>2. Len(b) \in Nat /\ DOMAIN b = 1 .. Len(b) /\ \A i \in 1 .. Len(b) : b[i] \in Text
  OBVIOUS
<1>3. b \in [1 .. Len(b) -> Byte]
  BY <1>1, <1>2
<1> QED BY <1>1, <1>2, <1>3

LEMMA Halves ==
  ASSUME NEW b \in Seq(Byte), NEW c \in Seq(Byte), NEW w \in Seq(Byte),
         b # << >>, c # << >>
  PROVE  /\ Len(b) \in Nat \ {0}
         /\ Head(c) \in Byte /\ Tail(c) \in Seq(Byte) /\ Tail(c) \o w \in Seq(Byte)
         /\ b \o (c \o w) \in Seq(Byte)
         /\ Len(b \o (c \o w)) = Len(b) + 1 + Len(Tail(c) \o w)
         /\ \A i \in 1 .. Len(b) : (b \o (c \o w))[i] = b[i]
         /\ (b \o (c \o w))[Len(b) + 1] = Head(c)
         /\ \A i \in 1 .. Len(Tail(c) \o w) :
              (b \o (c \o w))[Len(b) + 1 + i] = (Tail(c) \o w)[i]
<1>1. Head(c) \in Byte /\ Tail(c) \in Seq(Byte) /\ c = <<Head(c)>> \o Tail(c)
  OBVIOUS
<1>2. PICK x \in Byte : x = Head(c)
  BY <1>1
<1>3. PICK t \in Seq(Byte) : t = Tail(c)
  BY <1>1
<1>4. PICK a : a = <<x>>
  OBVIOUS
<1> a \in Seq(Byte)
  BY <1>4
<1>5. PICK v : v = t \o w
  OBVIOUS
<1>6. PICK u : u = a \o v
  OBVIOUS
<1>7. PICK p : p = b \o u
  OBVIOUS
<1>8. v \in Seq(Byte) /\ Len(v) \in Nat
  BY <1>5, Concat
<1>9. /\ u \in Seq(Byte) /\ Len(u) = Len(v) + 1 /\ u[1] = x
      /\ \A i \in 1 .. Len(v) : u[i + 1] = v[i]
  BY <1>4, <1>6, <1>8
<1>10. /\ p \in Seq(Byte) /\ Len(b) \in Nat \ {0} /\ Len(p) = Len(b) + Len(u)
       /\ \A i \in 1 .. Len(b) : p[i] = b[i]
       /\ \A i \in 1 .. Len(u) : p[Len(b) + i] = u[i]
  <2>1. Len(b) \in Nat \ {0}
    OBVIOUS
  <2>2. /\ p \in Seq(Byte) /\ Len(p) = Len(b) + Len(u)
        /\ \A i \in 1 .. Len(b) : p[i] = b[i]
        /\ \A i \in 1 .. Len(u) : p[Len(b) + i] = u[i]
    <3>1. u \in Seq(Byte)
      BY <1>9
    <3> QED BY <1>7, <3>1, Joined
  <2> QED BY <2>1, <2>2
<1>11. Len(p) = Len(b) + 1 + Len(v) /\ p[Len(b) + 1] = x
  <2>1. 1 \in 1 .. Len(u)
    BY <1>8, <1>9
  <2> QED BY <1>8, <1>9, <1>10, <2>1
<1>12. ASSUME NEW i \in 1 .. Len(v) PROVE p[Len(b) + 1 + i] = v[i]
  <2>1. i + 1 \in 1 .. Len(u) /\ Len(b) + (i + 1) = Len(b) + 1 + i
    BY <1>8, <1>9, <1>10
  <2>2. p[Len(b) + (i + 1)] = u[i + 1] /\ u[i + 1] = v[i]
    BY <1>9, <1>10, <2>1
  <2> QED BY <2>1, <2>2
<1>13. c \o w = u
  BY <1>1, <1>2, <1>3, <1>4, <1>5, <1>6, Associative
<1>14. p = b \o (c \o w)
  BY <1>7, <1>13
<1>15. v = Tail(c) \o w
  BY <1>3, <1>5
<1> QED BY <1>1, <1>2, <1>8, <1>10, <1>11, <1>12, <1>14, <1>15, Zenon

\* What the buffer holds at an end of line is the first line of the stream.
LEMMA LineTaken ==
  ASSUME NEW n \in Sessions, NEW h \in Nat, NEW s \in Seq(Kinds), NEW stays \in BOOLEAN,
         NEW b \in Seq(Text), NEW c \in Seq(Byte), NEW w \in Seq(Byte),
         Stream(b \o (c \o w), n, h, s, stays),
         b # << >>, c # << >>, Head(c).part = "end"
  PROVE  /\ h + 1 \in 1 .. Len(s) /\ Append(b, Head(c)) = Bytes(n, h + 1, s[h + 1])
         /\ Append(b, Head(c))[1].session = n
         /\ Stream(Tail(c) \o w, n, h + 1, s, stays)
         /\ s[h + 1] # "blank"
<1>1. b \in Seq(Byte) /\ \A i \in 1 .. Len(b) : b[i].part = "text"
  BY TextOnly
<1>2. PICK p : p = b \o (c \o w)
  OBVIOUS
<1>3. PICK q : q = Tail(c) \o w
  OBVIOUS
<1>4. PICK x : x = b[1] /\ x \in Byte
  BY <1>1
<1>5. PICK y : y = Head(c) /\ y \in Byte
  OBVIOUS
<1>6. /\ p \in Seq(Byte) /\ q \in Seq(Byte)
      /\ Len(b) \in Nat \ {0} /\ Len(q) \in Nat /\ Len(p) = Len(b) + 1 + Len(q)
      /\ \A i \in 1 .. Len(b) : p[i] = b[i]
      /\ p[Len(b) + 1] = y
      /\ \A i \in 1 .. Len(q) : p[Len(b) + 1 + i] = q[i]
  BY SMTT(30), <1>1, <1>2, <1>3, <1>5, Halves
<1>7. Stream(p, n, h, s, stays) /\ y.part = "end"
  BY <1>2, <1>5
<1>8. p # << >> /\ p[1] = x /\ x.part = "text" /\ 1 \in 1 .. Len(p) - 1
  BY <1>1, <1>4, <1>6
<1>9. p[2].line = x.line /\ p[2].part = "end"
  BY <1>7, <1>8 DEF Stream
<1>10. Len(b) = 1
  <2>1. PICK m : m = Len(b)
    OBVIOUS
  <2>2. m \in Nat \ {0}
    BY <1>6, <2>1
  <2>3. CASE m # 1
    <3>1. 2 \in 1 .. m
      BY <2>2, <2>3
    <3>2. p[2] = b[2] /\ b[2].part = "text"
      BY <1>1, <1>6, <2>1, <3>1
    <3> QED BY <1>9, <3>2
  <2> QED BY <2>1, <2>3
<1>11. p[2] = y /\ Len(p) = Len(q) + 2 /\ \A i \in 1 .. Len(q) : p[i + 2] = q[i]
  BY <1>6, <1>10
<1>12. /\ x.line = h + 1 /\ x.session = n /\ y.session = n /\ x.kind # "blank"
       /\ y.line = h + 1 /\ y.line \in 1 .. Len(s) /\ y.kind = s[y.line]
  <2>1. 1 \in 1 .. Len(p) /\ 2 \in 1 .. Len(p)
    BY <1>6, <1>11
  <2> QED BY <1>7, <1>8, <1>9, <1>11, <2>1 DEF Stream, Starts
<1>13. x.kind = y.kind
  <2>1. 1 \in 1 .. Len(p)
    BY <1>6, <1>11
  <2>2. \/ x.kind = s[x.line]
        \/ x.line = Len(s) + 1
    BY <1>7, <1>8, <2>1, Zenon DEF Stream
  <2>3. x.line = y.line /\ y.line \in 1 .. Len(s) /\ y.kind = s[y.line]
    BY <1>12
  <2>4. x.line # Len(s) + 1
    BY <2>3
  <2> QED BY <2>2, <2>3, <2>4, Zenon
<1>14. h + 1 \in 1 .. Len(s) /\ s[h + 1] \in Kinds
  BY <1>12
<1>15. Append(b, y) = Bytes(n, h + 1, s[h + 1])
  <2>1. PICK d : d = Bytes(n, h + 1, s[h + 1])
    OBVIOUS
  <2>3. Append(b, y) = <<x, y>>
    <3>1. b \in Seq(Byte) /\ Len(b) = 1 /\ b[1] = x
      BY <1>1, <1>4, <1>10
    <3> QED BY <1>4, <1>5, <3>1, Two, Zenon
  <2>4. s[h + 1] # "blank"
    BY <1>12, <1>13
  <2>5. /\ x = [session |-> n, line |-> h + 1, kind |-> s[h + 1], part |-> "text"]
        /\ y = [session |-> n, line |-> h + 1, kind |-> s[h + 1], part |-> "end"]
    <3>1. x.kind = s[h + 1] /\ y.kind = s[h + 1]
      BY <1>12, <1>13
    <3>2. x \in Byte /\ x.session = n /\ x.line = h + 1 /\ x.part = "text"
      BY <1>4, <1>8, <1>12
    <3>3. y \in Byte /\ y.session = n /\ y.line = h + 1 /\ y.part = "end"
      BY <1>5, <1>7, <1>12
    <3>4. /\ x = [session |-> x.session, line |-> x.line, kind |-> x.kind,
                   part |-> x.part]
          /\ y = [session |-> y.session, line |-> y.line, kind |-> y.kind,
                   part |-> y.part]
      BY <3>2, <3>3, Fields
    <3> QED BY <3>1, <3>2, <3>3, <3>4, Zenon
  <2>6. d = <<x, y>>
    <3>1. h + 1 \in Nat
      OBVIOUS
    <3>2. d = <<[session |-> n, line |-> h + 1, kind |-> s[h + 1], part |-> "text"],
                [session |-> n, line |-> h + 1, kind |-> s[h + 1], part |-> "end"]>>
      BY <1>14, <2>1, <2>4, <3>1, LineBytes, Zenon
    <3> QED BY <2>5, <3>2, Zenon
  <2> QED BY <2>1, <2>3, <2>6
<1>16. Append(b, y)[1].session = n
  BY <1>1, <1>4, <1>5, <1>10, <1>12, Appended
<1>17. Stream(q, n, h + 1, s, stays)
  <2>1. PICK m : m = Len(q)
    OBVIOUS
  <2>2. /\ m \in Nat /\ Len(p) = m + 2 /\ p[2] = y
        /\ \A i \in 1 .. m : q[i] = p[i + 2]
    BY <1>6, <1>11, <2>1
  <2>3. ASSUME NEW i \in 1 .. m
        PROVE  /\ q[i].session = n
               /\ q[i].part = "text" => q[i].kind # "blank"
               /\ \/ q[i].line \in 1 .. Len(s) /\ q[i].kind = s[q[i].line]
                  \/ ~ stays /\ q[i].line = Len(s) + 1 /\ q[i].part = "text"
    <3>1. PICK j : j = i + 2
      OBVIOUS
    <3>2. j \in 1 .. Len(p) /\ q[i] = p[j]
      BY <2>2, <3>1
    <3>3. /\ p[j].session = n
          /\ p[j].part = "text" => p[j].kind # "blank"
          /\ \/ p[j].line \in 1 .. Len(s) /\ p[j].kind = s[p[j].line]
             \/ ~ stays /\ p[j].line = Len(s) + 1 /\ p[j].part = "text"
      BY <1>7, <3>2, Zenon DEF Stream
    <3> QED BY <3>2, <3>3, Zenon
  <2>4. ASSUME NEW i \in 1 .. m - 1
        PROVE  IF q[i].part = "end" THEN Starts(q[i + 1], q[i].line + 1)
               ELSE q[i + 1].line = q[i].line /\ q[i + 1].part = "end"
    <3>1. i + 2 \in 1 .. Len(p) - 1 /\ q[i] = p[i + 2] /\ q[i + 1] = p[i + 2 + 1]
      BY SMTT(30), <2>2
    <3> QED BY SMTT(30), <1>7, <3>1 DEF Stream
  <2>5. q = << >> <=> m = 0
    BY <1>6, <2>1
  <2>6. ASSUME q # << >> PROVE Starts(q[1], h + 1 + 1)
    <3>1. 2 \in 1 .. Len(p) - 1 /\ q[1] = p[2 + 1]
      BY <2>2, <2>5, <2>6
    <3> QED BY <1>7, <1>12, <2>2, <3>1 DEF Stream
  <2>7. ASSUME stays PROVE UpToLast(q, h + 1, s)
    <3>1. p[Len(p)].part = "end" /\ p[Len(p)].line = Len(s)
      BY <1>7, <1>8, <2>7 DEF Stream, UpToLast
    <3>2. CASE m = 0
      <4>1. h + 1 = Len(s)
        BY <1>12, <2>2, <3>1, <3>2
      <4> QED BY <2>5, <3>2, <4>1 DEF UpToLast
    <3>3. CASE m # 0
      <4>1. q[Len(q)] = p[Len(p)]
        BY <2>1, <2>2, <3>3
      <4> QED BY <2>5, <3>1, <3>3, <4>1 DEF UpToLast
    <3> QED BY <3>2, <3>3
  <2>8. 1 .. Len(q) = 1 .. m /\ 1 .. Len(q) - 1 = 1 .. m - 1
    BY <2>1
  <2> QED BY <2>3, <2>4, <2>6, <2>7, <2>8, Zenon DEF Stream
<1>18. s[h + 1] # "blank"
  BY <1>12, <1>13
<1> QED BY <1>3, <1>5, <1>14, <1>15, <1>16, <1>17, <1>18

-----------------------------------------------------------------------------
(* Steps.                                                                  *)

LEMMA Domains ==
  ASSUME TypeInv
  PROVE  /\ DOMAIN sent = Sessions /\ DOMAIN client = Sessions
         /\ DOMAIN wire = Sessions /\ DOMAIN socket = Sessions
         /\ \A n \in Sessions : /\ sent[n] \in Seq(Kinds) /\ wire[n] \in Seq(Byte)
                               /\ socket[n] \in Sockets \cup {0}
         /\ \A s \in DOMAIN buffers : buffers[s] \in Seq(Text)
         /\ \A n \in Open : n \in Sessions /\ socket[n] \in Taken
BY DEF TypeInv, Open, Taken

\* What is in a buffer, what is being read and what is on the wire.
LEMMA Parts ==
  ASSUME TypeInv, SocketInv, NEW n \in Open
  PROVE  /\ buffers[socket[n]] \in Seq(Text) /\ buffers[socket[n]] \in Seq(Byte)
         /\ Received(n) \in Seq(Byte) /\ wire[n] \in Seq(Byte)
         /\ Pending(n) \in Seq(Byte)
<1>1. buffers[socket[n]] \in Seq(Text)
  BY Domains DEF SocketInv
<1>2. buffers[socket[n]] \in Seq(Byte)
  BY <1>1, TextOnly
<1>3. Received(n) \in Seq(Byte) /\ wire[n] \in Seq(Byte)
  BY Domains DEF TypeInv, Received
<1>4. Received(n) \o wire[n] \in Seq(Byte)
  BY <1>3
<1> QED BY <1>1, <1>2, <1>3, <1>4 DEF Pending

LEMMA At ==
  ASSUME SocketInv
  PROVE  /\ \A s \in Taken : SessionAt(s) \in Open /\ socket[SessionAt(s)] = s
         /\ \A n \in Open : SessionAt(socket[n]) = n
<1>1. ASSUME NEW s \in Taken
      PROVE  SessionAt(s) \in Open /\ socket[SessionAt(s)] = s
  <2>1. \E n \in Open : socket[n] = s
    BY DEF Taken
  <2> QED BY <2>1 DEF SessionAt
<1>2. ASSUME NEW n \in Open PROVE SessionAt(socket[n]) = n
  BY DEF SessionAt, SocketInv
<1> QED BY <1>1, <1>2

\* A step that does not touch the sockets, nor the handled lines.
LEMMA SocketsStay ==
  ASSUME SocketInv, UNCHANGED <<socket, handled>>, DOMAIN buffers' = DOMAIN buffers,
         \A n \in Sessions : client'[n] \in {"none", "connecting"} =>
           /\ client[n] \in {"none", "connecting"}
           /\ sent'[n] = sent[n] /\ wire'[n] = wire[n],
         tpc' = "stopped" => tpc = "stopped",
         current' = 0 <=> tpc' \in {"select", "scan", "stopped"},
         current' = 0 => buf' = << >>,
         current' # 0 => current' \in Taken
  PROVE  SocketInv'
<1>1. Open' = Open /\ Taken' = Taken
  BY DEF Open, Taken
<1> QED BY <1>1 DEF SocketInv

\* A step of a client.
LEMMA ClientsOnly ==
  ASSUME SocketInv, UNCHANGED <<socketVars, loopVars, handled>>,
         \A n \in Sessions : client'[n] \in {"none", "connecting"} =>
           /\ client[n] \in {"none", "connecting"}
           /\ sent'[n] = sent[n] /\ wire'[n] = wire[n]
  PROVE  SocketInv'
<1>1. UNCHANGED <<socket, buffers, handled, tpc, current, buf>>
  BY DEF socketVars, loopVars
<1>2. /\ current = 0 <=> tpc \in {"select", "scan", "stopped"}
      /\ current = 0 => buf = << >>
      /\ current # 0 => current \in Taken
  BY DEF SocketInv
<1> QED BY <1>1, <1>2, SocketsStay

\* A step after which session n has the same stream.
LEMMA StreamFramed ==
  ASSUME NEW n, StreamOf(n), Pending(n)' = Pending(n),
         handled'[n] = handled[n], sent'[n] = sent[n], client'[n] = client[n]
  PROVE  StreamOf(n)'
BY DEF StreamOf

LEMMA PendingFramed ==
  ASSUME NEW n, buffers'[socket'[n]] = buffers[socket[n]],
         Received(n)' = Received(n), wire'[n] = wire[n]
  PROVE  Pending(n)' = Pending(n)
BY DEF Pending

LEMMA HandledStays ==
  ASSUME HandledInv, LinesArriveWhole, handled' = handled,
         \/ sent' = sent
         \/ \E n \in Sessions, k \in Kinds : sent' = [sent EXCEPT ![n] = Append(@, k)],
         TypeInv
  PROVE  HandledInv' /\ LinesArriveWhole'
<1>1. HandledInv'
  BY DEF HandledInv
<1>2. CASE sent' = sent
  BY <1>1, <1>2 DEF LinesArriveWhole
<1>3. ASSUME NEW n \in Sessions, NEW k \in Kinds,
             sent' = [sent EXCEPT ![n] = Append(@, k)]
      PROVE  LinesArriveWhole'
  <2>1. ASSUME NEW m \in Sessions, NEW i \in 1 .. Len(handled[m])
        PROVE  i <= Len(sent'[m]) /\ handled[m][i].line = Bytes(m, i, sent'[m][i])
    <3>1. i <= Len(sent[m]) /\ handled[m][i].line = Bytes(m, i, sent[m][i])
      BY DEF LinesArriveWhole
    <3>2. CASE m # n
      BY <1>3, <3>1, <3>2, Domains
    <3>3. CASE m = n
      <4>1. PICK s : s = sent[n]
        OBVIOUS
      <4>2. s \in Seq(Kinds) /\ sent'[n] = Append(s, k)
        BY <1>3, <4>1, Domains
      <4>3. i \in 1 .. Len(s)
        <5>1. i \in Nat /\ i >= 1
          BY DEF HandledInv
        <5> QED BY <3>1, <3>3, <4>1, <4>2, <5>1
      <4>4. i <= Len(Append(s, k)) /\ Append(s, k)[i] = s[i]
        BY <4>2, <4>3
      <4> QED BY <3>1, <3>3, <4>1, <4>2, <4>4
    <3> QED BY <3>2, <3>3
  <2> QED BY <2>1 DEF LinesArriveWhole
<1> QED BY <1>1, <1>2, <1>3

LEMMA ConnectStep ==
  ASSUME IInv, NEW n \in Sessions, Connect(n)
  PROVE  IInv'
<1> USE DEF Connect, socketVars, loopVars
<1>1. TypeInv'
  BY DEF IInv, TypeInv
<1>2. SocketInv'
  <2>1. \A m \in Sessions : client'[m] \in {"none", "connecting"} =>
          client[m] \in {"none", "connecting"}
    BY Domains DEF IInv
  <2> QED BY <2>1, ClientsOnly DEF IInv
<1>3. HandledInv' /\ LinesArriveWhole'
  BY HandledStays DEF IInv
<1>4. StreamInv'
  <2>1. ASSUME NEW m \in Open' PROVE StreamOf(m)'
    <3>1. m \in Open
      BY DEF Open
    <3>2. client'[m] = client[m]
      BY <3>1, Domains DEF IInv, SocketInv, Open
    <3>3. Pending(m)' = Pending(m)
      BY PendingFramed DEF Received
    <3> QED BY <3>1, <3>2, <3>3, StreamFramed DEF IInv, StreamInv
  <2> QED BY <2>1 DEF StreamInv
<1> QED BY <1>1, <1>2, <1>3, <1>4 DEF IInv

LEMMA SendLineStep ==
  ASSUME IInv, NEW n \in Sessions, NEW k \in Kinds, SendLine(n, k)
  PROVE  IInv'
<1> USE DEF SendLine, socketVars, loopVars
<1>1. PICK d : d = Bytes(n, Len(sent[n]) + 1, k)
  OBVIOUS
<1>2. /\ sent[n] \in Seq(Kinds) /\ wire[n] \in Seq(Byte) /\ d \in Seq(Byte)
      /\ DOMAIN wire = Sessions /\ DOMAIN sent = Sessions /\ DOMAIN client = Sessions
  <2>1. /\ sent[n] \in Seq(Kinds) /\ wire[n] \in Seq(Byte)
        /\ DOMAIN wire = Sessions /\ DOMAIN sent = Sessions /\ DOMAIN client = Sessions
    BY Domains DEF IInv
  <2>2. Len(sent[n]) + 1 \in Nat
    BY <2>1
  <2>3. d \in Seq(Byte)
    BY <1>1, <2>2, LineBytes, Zenon
  <2> QED BY <2>1, <2>3
<1>3. wire' = [wire EXCEPT ![n] = @ \o d]
  BY <1>1
<1>4. TypeInv'
  <2>1. sent' \in [Sessions -> Seq(Kinds)]
    BY <1>2 DEF IInv, TypeInv
  <2>2. wire' \in [Sessions -> Seq(Byte)]
    <3>1. wire[n] \o d \in Seq(Byte)
      BY <1>2
    <3> QED BY <1>3, <3>1 DEF IInv, TypeInv
  <2> QED BY <2>1, <2>2 DEF IInv, TypeInv
<1>5. SocketInv'
  <2>1. \A m \in Sessions : client[m] \in {"none", "connecting"} =>
          sent'[m] = sent[m] /\ wire'[m] = wire[m]
    BY <1>2
  <2> QED BY <2>1, ClientsOnly DEF IInv
<1>6. HandledInv' /\ LinesArriveWhole'
  BY HandledStays DEF IInv
<1>7. StreamInv'
  <2>1. ASSUME NEW m \in Open' PROVE StreamOf(m)'
    <3>1. m \in Open
      BY DEF Open
    <3>2. CASE m # n
      <4>1. wire'[m] = wire[m] /\ sent'[m] = sent[m]
        BY <1>2, <3>2
      <4>2. Pending(m)' = Pending(m)
        BY <4>1, PendingFramed DEF Received
      <4> QED BY <3>1, <4>1, <4>2, StreamFramed DEF IInv, StreamInv
    <3>3. CASE m = n
      <4>1. wire'[n] = wire[n] \o d /\ sent'[n] = Append(sent[n], k)
        BY <1>2, <1>3
      <4>2. Pending(n)' = Pending(n) \o d
        <5>1. PICK a : a = buffers[socket[n]]
          OBVIOUS
        <5>2. PICK r : r = Received(n)
          OBVIOUS
        <5>3. PICK w : w = wire[n]
          OBVIOUS
        <5>4. a \in Seq(Byte) /\ r \in Seq(Byte) /\ w \in Seq(Byte)
          BY <3>1, <3>3, <5>1, <5>2, <5>3, Parts DEF IInv
        <5>5. a \o (r \o (w \o d)) = (a \o (r \o w)) \o d
          <6>1. r \o (w \o d) = (r \o w) \o d
            BY <1>2, <5>4, Associative
          <6>2. r \o w \in Seq(Byte)
            BY <5>4
          <6>3. (a \o (r \o w)) \o d = a \o ((r \o w) \o d)
            BY SMTT(30), <1>2, <5>4, <6>2, Associative
          <6> QED BY <6>1, <6>3, Zenon
        <5>6. Received(n)' = r /\ buffers' = buffers /\ socket' = socket
          BY <5>2 DEF Received
        <5>7. Pending(n)' = a \o (r \o (w \o d))
          BY <4>1, <5>1, <5>3, <5>6, Zenon DEF Pending
        <5>8. Pending(n) = a \o (r \o w)
          BY <5>1, <5>2, <5>3, Zenon DEF Pending
        <5> QED BY <5>5, <5>7, <5>8, Zenon
      <4>3. Stream(Pending(n), n, Len(handled[n]), sent[n], TRUE)
        <5>1. client[n] # "gone"
          OBVIOUS
        <5>2. StreamOf(n)
          BY <3>1, <3>3 DEF IInv, StreamInv
        <5> QED BY <5>1, <5>2 DEF StreamOf
      <4>4. Len(handled[n]) \in Nat /\ Pending(n) \in Seq(Byte)
        BY <3>1, <3>3, Parts DEF IInv, HandledInv
      <4>5. Stream(Pending(n) \o d, n, Len(handled[n]), Append(sent[n], k), TRUE)
        BY <1>1, <1>2, <4>3, <4>4, LineSent
      <4>6. client'[n] # "gone" /\ handled' = handled
        OBVIOUS
      <4> QED BY <3>3, <4>1, <4>2, <4>5, <4>6 DEF StreamOf
    <3> QED BY <3>2, <3>3
  <2> QED BY <2>1 DEF StreamInv
<1> QED BY <1>4, <1>5, <1>6, <1>7 DEF IInv

LEMMA HangUpStep ==
  ASSUME IInv, NEW n \in Sessions, HangUp(n)
  PROVE  IInv'
<1> USE DEF HangUp, socketVars, loopVars
<1>1. PICK x : x = [session |-> n, line |-> Len(sent[n]) + 1, kind |-> "good",
                    part |-> "text"]
  OBVIOUS
<1>2. PICK w : w = wire[n]
  OBVIOUS
<1>3. /\ sent[n] \in Seq(Kinds) /\ w \in Seq(Byte)
      /\ DOMAIN wire = Sessions /\ DOMAIN client = Sessions
  BY <1>2, Domains DEF IInv
<1>4. x \in Byte
  BY <1>1, <1>3 DEF Byte
<1>5. wire' = wire \/ wire' = [wire EXCEPT ![n] = Append(w, x)]
  <2>1. Bytes(n, Len(sent[n]) + 1, "good")[1] = x
    BY <1>1 DEF Bytes
  <2> QED BY <1>2, <1>3, <2>1
<1>6. wire'[n] \in {w, Append(w, x)} /\ \A m \in Sessions \ {n} : wire'[m] = wire[m]
  BY <1>2, <1>3, <1>5
<1>7. TypeInv'
  <2>1. wire' \in [Sessions -> Seq(Byte)]
    <3>1. Append(w, x) \in Seq(Byte)
      BY <1>3, <1>4
    <3>2. wire \in [Sessions -> Seq(Byte)]
      BY DEF IInv, TypeInv
    <3>3. \A v \in Seq(Byte) : [wire EXCEPT ![n] = v] \in [Sessions -> Seq(Byte)]
      BY <3>2
    <3> QED BY <1>5, <3>1, <3>2, <3>3
  <2> QED BY <2>1 DEF IInv, TypeInv
<1>8. SocketInv'
  <2>1. \A m \in Sessions : client'[m] \in {"none", "connecting"} =>
          client[m] \in {"none", "connecting"} /\ wire'[m] = wire[m]
    BY <1>3, <1>6
  <2> QED BY <2>1, ClientsOnly DEF IInv
<1>9. HandledInv' /\ LinesArriveWhole'
  BY HandledStays DEF IInv
<1>10. StreamInv'
  <2>1. ASSUME NEW m \in Open' PROVE StreamOf(m)'
    <3>1. m \in Open /\ m \in Sessions
      BY DEF Open
    <3>2. CASE m # n
      <4>1. wire'[m] = wire[m] /\ client'[m] = client[m]
        BY <1>3, <1>6, <3>1, <3>2
      <4>2. Pending(m)' = Pending(m)
        BY <4>1, PendingFramed DEF Received
      <4> QED BY <3>1, <4>1, <4>2, StreamFramed DEF IInv, StreamInv
    <3>3. CASE m = n
      <4>1. PICK p : p = Pending(n)
        OBVIOUS
      <4>2. PICK a : a = buffers[socket[n]]
        OBVIOUS
      <4>3. PICK r : r = Received(n)
        OBVIOUS
      <4>4. a \in Seq(Byte) /\ r \in Seq(Byte) /\ p \in Seq(Byte)
        BY <3>1, <3>3, <4>1, <4>2, <4>3, Parts DEF IInv
      <4>5. p = a \o (r \o w)
        BY <1>2, <4>1, <4>2, <4>3, Zenon DEF Pending
      <4>6. Received(n)' = r /\ buffers' = buffers /\ socket' = socket
        BY <4>3 DEF Received
      <4>7. Pending(n)' = a \o (r \o wire'[n])
        BY <4>2, <4>6, Zenon DEF Pending
      <4>8. Pending(n)' \in {p, Append(p, x)}
        <5>1. a \o (r \o Append(w, x)) = Append(a \o (r \o w), x)
          BY <1>3, <1>4, <4>4, AppendBehind
        <5> QED BY <1>6, <4>5, <4>7, <5>1
      <4>9. Stream(p, n, Len(handled[n]), sent[n], TRUE)
        <5>1. client[n] # "gone"
          OBVIOUS
        <5>2. StreamOf(n)
          BY <3>1, <3>3 DEF IInv, StreamInv
        <5> QED BY <4>1, <5>1, <5>2 DEF StreamOf
      <4>10. /\ Stream(p, n, Len(handled[n]), sent[n], FALSE)
             /\ Stream(Append(p, x), n, Len(handled[n]), sent[n], FALSE)
        BY <1>1, <1>3, <4>4, <4>9, StreamLeft, PartSent
      <4>11. Stream(Pending(n)', n, Len(handled[n]), sent[n], FALSE)
        BY <4>8, <4>10, Zenon
      <4>12. client'[n] = "gone" /\ handled' = handled /\ sent' = sent
        BY <1>3
      <4> QED BY <3>3, <4>11, <4>12 DEF StreamOf
    <3> QED BY <3>2, <3>3
  <2> QED BY <2>1 DEF StreamInv
<1> QED BY <1>7, <1>8, <1>9, <1>10 DEF IInv

\* A step that does not touch a connection nor a buffer.
LEMMA LoopOnly ==
  ASSUME IInv, UNCHANGED <<clientVars, socketVars, handled>>,
         tpc' \in {"select", "scan", "line", "send", "terminated"},
         ready' \subseteq Sockets \cup {Listener},
         current' \in {0, current}, buf' = buf,
         current' = 0 <=> tpc' \in {"select", "scan"},
         current' = 0 => buf = << >>
  PROVE  IInv'
<1> USE DEF clientVars, socketVars
<1>1. TypeInv'
  BY DEF IInv, TypeInv
<1>2. SocketInv'
  <2>1. current' # 0 => current' \in Taken
    BY DEF IInv, SocketInv
  <2>2. \A n \in Sessions : client'[n] \in {"none", "connecting"} =>
           /\ client[n] \in {"none", "connecting"}
           /\ sent'[n] = sent[n] /\ wire'[n] = wire[n]
    OBVIOUS
  <2>3. current' = 0 <=> tpc' \in {"select", "scan", "stopped"}
    OBVIOUS
  <2>4. tpc' = "stopped" => tpc = "stopped"
    OBVIOUS
  <2> QED BY <2>1, <2>2, <2>3, <2>4, SocketsStay DEF IInv
<1>3. HandledInv' /\ LinesArriveWhole'
  BY HandledStays DEF IInv
<1>4. StreamInv'
  <2>1. ASSUME NEW n \in Open' PROVE StreamOf(n)'
    <3>1. n \in Open /\ socket[n] # 0
      BY DEF Open
    <3>2. Received(n)' = Received(n)
      BY <3>1 DEF Received
    <3>3. Pending(n)' = Pending(n)
      BY <3>2, PendingFramed
    <3> QED BY <3>1, <3>3, StreamFramed DEF IInv, StreamInv
  <2> QED BY <2>1 DEF StreamInv
<1> QED BY <1>1, <1>2, <1>3, <1>4 DEF IInv

LEMMA LoopSteps ==
  ASSUME IInv,
         \/ Select \/ AcceptFails \/ EndScan \/ SendReturns \/ HandleBlankLine
         \/ EndReceive
  PROVE  IInv'
<1> USE DEF IInv, TypeInv, SocketInv
<1>1. CASE Select
  <2>1. ready' \subseteq Sockets \cup {Listener} /\ current' = current
    BY <1>1 DEF Select
  <2> QED BY <1>1, <2>1, LoopOnly DEF Select
<1>2. CASE AcceptFails
  BY <1>2, LoopOnly DEF AcceptFails, Visiting
<1>3. CASE EndScan
  BY <1>3, LoopOnly DEF EndScan
<1>4. CASE SendReturns
  BY <1>4, LoopOnly DEF SendReturns
<1>5. CASE HandleBlankLine
  BY <1>5, LoopOnly DEF HandleBlankLine, AtEndOfLine
<1>6. CASE EndReceive
  BY <1>6, LoopOnly DEF EndReceive
<1> QED BY <1>1, <1>2, <1>3, <1>4, <1>5, <1>6

\* The size of m_Master, when a socket is put into it and when one is taken
\* out.
LEMMA MasterSize ==
  ASSUME TypeInv, NEW s \in Sockets
  PROVE  /\ Cardinality(master) < FdSetSize => Cardinality(master \cup {s}) <= FdSetSize
         /\ Cardinality(master \ {s}) <= FdSetSize
<1>1. IsFiniteSet(Sockets \cup {Listener})
  BY TelnetAssumption, FS_AddElement
<1>2. IsFiniteSet(master)
  <2>1. master \in SUBSET (Sockets \cup {Listener})
    BY DEF TypeInv
  <2> QED BY <1>1, <2>1, FS_Subset
<1>3. PICK c : c = Cardinality(master)
  OBVIOUS
<1>4. c \in Nat /\ FdSetSize \in Nat /\ c <= FdSetSize
  BY <1>2, <1>3, FS_CardinalityType, TelnetAssumption DEF TypeInv
<1>5. Cardinality(master \cup {s}) \in {c, c + 1}
  BY <1>2, <1>3, FS_AddElement
<1>6. Cardinality(master \ {s}) \in {c, c - 1}
  BY <1>2, <1>3, FS_RemoveElement
<1> QED BY <1>3, <1>4, <1>5, <1>6

LEMMA AcceptStep ==
  ASSUME IInv, NEW n \in Sessions, NEW s \in Sockets, Accept(n, s)
  PROVE  IInv'
<1> USE DEF Accept
<1>1. tpc = "scan" /\ n \in Waiting /\ s \notin Taken /\ s # 0
  BY TelnetAssumption DEF Visiting
<1>2. current = 0 /\ buf = << >>
  BY <1>1 DEF IInv, SocketInv
<1>3. /\ client[n] = "connecting" /\ socket[n] = 0
      /\ sent[n] = << >> /\ wire[n] = << >> /\ handled[n] = << >>
  BY <1>1 DEF IInv, SocketInv, Waiting
<1>4. /\ socket'[n] = s /\ client'[n] = "connected"
      /\ \A m \in Sessions \ {n} : socket'[m] = socket[m] /\ client'[m] = client[m]
  BY Domains DEF IInv
<1>5. n \notin Open /\ Open' = Open \cup {n}
  BY <1>1, <1>3, <1>4 DEF Open
<1>6. Taken' = Taken \cup {s}
  <2>1. \A m \in Open : socket'[m] = socket[m]
    BY <1>4, <1>5 DEF Open
  <2>2. Taken' = {socket'[m] : m \in Open \cup {n}}
    BY <1>5, Zenon DEF Taken
  <2> QED BY <1>4, <2>1, <2>2 DEF Taken
<1>7. DOMAIN buffers = Taken
  BY DEF IInv, SocketInv
<1>8. buffers' = [r \in Taken \cup {s} |-> IF r \in Taken THEN buffers[r] ELSE << >>]
  BY <1>7
<1>9. /\ DOMAIN buffers' = Taken \cup {s} /\ buffers'[s] = << >>
      /\ \A r \in Taken : buffers'[r] = buffers[r]
  BY <1>1, <1>8
<1>10. TypeInv'
  <2>1. client' \in [Sessions -> {"none", "connecting", "connected", "gone"}]
    BY DEF IInv, TypeInv
  <2>2. socket' \in [Sessions -> Sockets \cup {0}]
    BY DEF IInv, TypeInv
  <2>3. master' \subseteq Sockets \cup {Listener}
    BY DEF IInv, TypeInv
  <2>4. Cardinality(master') <= FdSetSize
    <3>1. CASE Cardinality(master) < FdSetSize
      BY <3>1, MasterSize DEF IInv
    <3>2. CASE ~ (Cardinality(master) < FdSetSize)
      BY <3>2 DEF IInv, TypeInv
    <3> QED BY <3>1, <3>2
  <2>5. buffers' \in [DOMAIN buffers' -> Seq(Text)]
    <3>1. \A r \in Taken : buffers[r] \in Seq(Text)
      BY <1>7, Domains DEF IInv
    <3>2. << >> \in Seq(Text)
      OBVIOUS
    <3>3. \A r \in Taken \cup {s} : buffers'[r] \in Seq(Text)
      BY <1>9, <3>1, <3>2
    <3>4. buffers' = [r \in DOMAIN buffers' |-> buffers'[r]]
      OBVIOUS
    <3> QED BY <1>9, <3>3, <3>4
  <2>6. ready' \subseteq Sockets \cup {Listener}
    BY DEF IInv, TypeInv
  <2> QED BY <2>1, <2>2, <2>3, <2>4, <2>5, <2>6 DEF IInv, TypeInv
<1>11. SocketInv'
  <2>1. DOMAIN buffers' = Taken'
    BY <1>6, <1>9
  <2>2. ASSUME NEW i \in Open', NEW j \in Open', socket'[i] = socket'[j]
        PROVE  i = j
    <3>1. \A m \in Open : socket'[m] = socket[m] /\ socket[m] \in Taken
      BY <1>4, <1>5 DEF Open, Taken
    <3>2. i \in Open \cup {n} /\ j \in Open \cup {n}
      BY <1>5
    <3> QED BY <1>1, <1>4, <2>2, <3>1, <3>2 DEF IInv, SocketInv
  <2>3. ASSUME NEW m \in Sessions, client'[m] \in {"none", "connecting"}
        PROVE  /\ socket'[m] = 0
               /\ sent'[m] = << >> /\ wire'[m] = << >> /\ handled'[m] = << >>
    <3>1. m # n
      BY <1>4, <2>3
    <3> QED BY <1>4, <2>3, <3>1 DEF IInv, SocketInv
  <2>4. tpc' = "scan" /\ current' = 0 /\ buf' = << >>
    BY <1>1, <1>2
  <2> QED BY <2>1, <2>2, <2>3, <2>4 DEF SocketInv
<1>12. HandledInv' /\ LinesArriveWhole'
  BY HandledStays DEF IInv
<1>13. StreamInv'
  <2>1. ASSUME NEW m \in Open' PROVE StreamOf(m)'
    <3>1. CASE m \in Open
      <4>1. m # n /\ socket'[m] = socket[m] /\ client'[m] = client[m]
        BY <1>4, <1>5, <3>1 DEF Open
      <4>2. buffers'[socket[m]] = buffers[socket[m]]
        BY <1>9, <3>1 DEF Taken
      <4>3. Received(m)' = Received(m)
        BY <4>1 DEF Received
      <4>4. Pending(m)' = Pending(m)
        BY <4>1, <4>2, <4>3, PendingFramed
      <4> QED BY <3>1, <4>1, <4>4, StreamFramed DEF IInv, StreamInv
    <3>2. CASE m = n
      <4>1. Received(n)' = << >>
        BY <1>1, <1>2, <1>4 DEF Received
      <4>2. Pending(n)' = << >> \o (<< >> \o << >>)
        BY <1>3, <1>4, <1>9, <4>1, Zenon DEF Pending
      <4>3. Pending(n)' = << >>
        BY <4>2
      <4>4. Len(handled'[n]) = 0 /\ sent'[n] = << >> /\ client'[n] # "gone"
        BY <1>3, <1>4
      <4> QED BY <3>2, <4>3, <4>4, StreamBegins DEF StreamOf
    <3> QED BY <1>5, <3>1, <3>2
  <2> QED BY <2>1 DEF StreamInv
<1> QED BY <1>10, <1>11, <1>12, <1>13 DEF IInv

LEMMA CloseStep ==
  ASSUME IInv, NEW s \in Sockets, Close(s)
  PROVE  IInv'
<1> USE DEF Close
<1>1. PICK n : n = SessionAt(s)
  OBVIOUS
<1>2. tpc = "scan" /\ s \in Taken /\ current = 0 /\ buf = << >>
  BY DEF Visiting, IInv, SocketInv
<1>3. n \in Open /\ socket[n] = s /\ n \in Sessions /\ client[n] = "gone"
  BY <1>1, <1>2, At, Domains DEF IInv
<1>4. wire' = [wire EXCEPT ![n] = << >>] /\ socket' = [socket EXCEPT ![n] = 0]
  BY <1>1
<1>5. /\ socket'[n] = 0
      /\ \A m \in Sessions \ {n} : socket'[m] = socket[m] /\ wire'[m] = wire[m]
  BY <1>3, <1>4, Domains DEF IInv
<1>6. Open' = Open \ {n}
  BY <1>5 DEF Open
<1>7. \A m \in Open' : socket'[m] = socket[m] /\ socket[m] # s /\ m \in Open
  BY <1>3, <1>5, <1>6 DEF IInv, SocketInv, Open
<1>8. Taken' = Taken \ {s}
  BY <1>3, <1>6, <1>7 DEF Taken
<1>9. DOMAIN buffers = Taken
  BY DEF IInv, SocketInv
<1>10. buffers' = [r \in Taken \ {s} |-> buffers[r]]
  BY <1>9
<1>11. TypeInv'
  <2>1. wire' \in [Sessions -> Seq(Byte)]
    <3>1. << >> \in Seq(Byte)
      OBVIOUS
    <3> QED BY <1>4, <3>1 DEF IInv, TypeInv
  <2>2. socket' \in [Sessions -> Sockets \cup {0}]
    BY <1>4 DEF IInv, TypeInv
  <2>3. master' \subseteq Sockets \cup {Listener} /\ ready' \subseteq Sockets \cup {Listener}
    BY DEF IInv, TypeInv
  <2>4. Cardinality(master') <= FdSetSize
    BY MasterSize DEF IInv
  <2>5. buffers' \in [DOMAIN buffers' -> Seq(Text)]
    <3>1. \A r \in Taken : buffers[r] \in Seq(Text)
      BY <1>9, Domains DEF IInv
    <3> QED BY <1>10, <3>1
  <2> QED BY <2>1, <2>2, <2>3, <2>4, <2>5 DEF IInv, TypeInv
<1>12. SocketInv'
  <2>1. DOMAIN buffers' = Taken'
    BY <1>8, <1>10
  <2>2. ASSUME NEW i \in Open', NEW j \in Open', socket'[i] = socket'[j]
        PROVE  i = j
    BY <1>7, <2>2 DEF IInv, SocketInv
  <2>3. ASSUME NEW m \in Sessions, client'[m] \in {"none", "connecting"}
        PROVE  /\ socket'[m] = 0
               /\ sent'[m] = << >> /\ wire'[m] = << >> /\ handled'[m] = << >>
    <3>1. m # n
      BY <1>3, <2>3
    <3> QED BY <1>5, <2>3, <3>1 DEF IInv, SocketInv
  <2>4. tpc' = "scan" /\ current' = 0 /\ buf' = << >>
    BY <1>2
  <2> QED BY <2>1, <2>2, <2>3, <2>4 DEF SocketInv
<1>13. HandledInv' /\ LinesArriveWhole'
  BY HandledStays DEF IInv
<1>14. StreamInv'
  <2>1. ASSUME NEW m \in Open' PROVE StreamOf(m)'
    <3>1. m # n /\ m \in Open /\ socket'[m] = socket[m] /\ socket[m] # s
      BY <1>6, <1>7
    <3>2. wire'[m] = wire[m]
      BY <1>5, <3>1 DEF Open
    <3>3. buffers'[socket[m]] = buffers[socket[m]]
      BY <1>10, <3>1 DEF Taken
    <3>4. Received(m)' = Received(m)
      BY <3>1 DEF Received
    <3>5. Pending(m)' = Pending(m)
      BY <3>1, <3>2, <3>3, <3>4, PendingFramed
    <3> QED BY <3>1, <3>5, StreamFramed DEF IInv, StreamInv
  <2> QED BY <2>1 DEF StreamInv
<1> QED BY <1>11, <1>12, <1>13, <1>14 DEF IInv

LEMMA ReceiveStep ==
  ASSUME IInv, NEW s \in Sockets, Receive(s)
  PROVE  IInv'
<1> USE DEF Receive, socketVars
<1>1. PICK n : n = SessionAt(s)
  OBVIOUS
<1>2. PICK w : w = wire[n]
  OBVIOUS
<1>3. PICK len \in 1 .. Len(w) : /\ buf' = SubSeq(w, 1, len)
                                 /\ wire' = [wire EXCEPT ![n] = SubSeq(w, len + 1, Len(w))]
  BY <1>1, <1>2
<1>4. s \in Taken /\ s # 0 /\ current = 0 /\ tpc' = "line" /\ current' = s
  BY TelnetAssumption DEF Visiting, IInv, SocketInv
<1>5. n \in Open /\ socket[n] = s /\ n \in Sessions /\ w \in Seq(Byte)
  BY <1>1, <1>2, <1>4, At, Domains DEF IInv
<1>6. /\ buf' \in Seq(Byte) /\ SubSeq(w, len + 1, Len(w)) \in Seq(Byte)
      /\ buf' \o SubSeq(w, len + 1, Len(w)) = w
  BY <1>3, <1>5, Cut
<1>7. /\ wire'[n] = SubSeq(w, len + 1, Len(w))
      /\ \A m \in Sessions \ {n} : wire'[m] = wire[m]
  BY <1>3, <1>5, Domains DEF IInv
<1>8. TypeInv'
  <2>1. wire' \in [Sessions -> Seq(Byte)]
    BY <1>3, <1>6 DEF IInv, TypeInv
  <2>2. ready' \subseteq Sockets \cup {Listener} /\ current' \in Sockets \cup {0}
    BY <1>4 DEF IInv, TypeInv
  <2> QED BY <1>4, <1>6, <2>1, <2>2 DEF IInv, TypeInv
<1>9. SocketInv'
  <2>1. ASSUME NEW m \in Sessions, client'[m] \in {"none", "connecting"}
        PROVE  client[m] \in {"none", "connecting"} /\ wire'[m] = wire[m]
    <3>1. client[m] \in {"none", "connecting"} /\ socket[m] = 0
      BY <2>1 DEF IInv, SocketInv
    <3> QED BY <1>4, <1>5, <1>7, <3>1
  <2> QED BY <1>4, <2>1, SocketsStay DEF IInv
<1>10. HandledInv' /\ LinesArriveWhole'
  BY HandledStays DEF IInv
<1>11. StreamInv'
  <2>1. ASSUME NEW m \in Open' PROVE StreamOf(m)'
    <3>1. m \in Open /\ m \in Sessions /\ socket[m] # 0
      BY DEF Open
    <3>2. Received(m) = << >>
      BY <1>4, <3>1 DEF Received
    <3>3. Pending(m)' = Pending(m)
      <4>1. CASE m # n
        <5>1. socket[m] # s
          BY <1>5, <3>1, <4>1 DEF IInv, SocketInv
        <5>2. Received(m)' = Received(m)
          BY <1>4, <3>2, <5>1 DEF Received
        <5> QED BY <1>7, <3>1, <4>1, <5>2, PendingFramed
      <4>2. CASE m = n
        <5>1. Pending(n)' = buffers[s] \o (buf' \o wire'[n])
          BY <1>4, <1>5 DEF Pending, Received
        <5>2. Pending(n) = buffers[s] \o (<< >> \o w)
          BY <1>2, <1>5, <3>2, <4>2, Zenon DEF Pending
        <5>3. << >> \o w = w
          BY <1>5
        <5> QED BY <1>6, <1>7, <4>2, <5>1, <5>2, <5>3, Zenon
      <4> QED BY <4>1, <4>2
    <3> QED BY <3>1, <3>3, StreamFramed DEF IInv, StreamInv
  <2> QED BY <2>1 DEF StreamInv
<1> QED BY <1>8, <1>9, <1>10, <1>11 DEF IInv

LEMMA AppendToLineStep ==
  ASSUME IInv, AppendToLine
  PROVE  IInv'
<1> USE DEF AppendToLine
<1>1. PICK n : n = SessionAt(current)
  OBVIOUS
<1>2. current # 0 /\ current \in Taken
  BY DEF IInv, SocketInv
<1>3. n \in Open /\ socket[n] = current /\ n \in Sessions
  BY <1>1, <1>2, At, Domains DEF IInv
<1>4. PICK b : b = buffers[current]
  OBVIOUS
<1>5. PICK c : c = buf
  OBVIOUS
<1>6. PICK x : x = Head(c)
  OBVIOUS
<1>7. PICK w : w = wire[n]
  OBVIOUS
<1>8. /\ b \in Seq(Text) /\ b \in Seq(Byte) /\ w \in Seq(Byte)
      /\ c \in Seq(Byte) /\ c # << >>
  <2>1. buf \in Seq(Byte) /\ buf # << >>
    BY DEF IInv, TypeInv
  <2> QED BY <1>3, <1>4, <1>5, <1>7, <2>1, Parts DEF IInv
<1>9. x \in Byte /\ Tail(c) \in Seq(Byte)
  BY <1>6, <1>8
<1>10. x \in Text
  BY <1>5, <1>6, <1>9 DEF Text, Byte
<1>11. Append(b, x) \in Seq(Text)
  BY <1>8, <1>10
<1>12. /\ buffers' = [buffers EXCEPT ![current] = Append(b, x)] /\ buf' = Tail(c)
       /\ DOMAIN buffers = Taken
  BY <1>4, <1>5, <1>6 DEF IInv, SocketInv
<1>13. /\ DOMAIN buffers' = DOMAIN buffers /\ buffers'[current] = Append(b, x)
       /\ \A r \in Taken \ {current} : buffers'[r] = buffers[r]
  BY <1>2, <1>12
<1>14. TypeInv'
  <2>1. buffers' \in [DOMAIN buffers' -> Seq(Text)]
    BY <1>11, <1>12 DEF IInv, TypeInv
  <2>2. buf' \in Seq(Byte)
    BY <1>9, <1>12
  <2> QED BY <2>1, <2>2 DEF IInv, TypeInv, clientVars
<1>15. SocketInv'
  <2>1. tpc' = "line" /\ current' = current
    OBVIOUS
  <2> QED BY <1>2, <1>13, <2>1, SocketsStay DEF IInv, clientVars
<1>16. HandledInv' /\ LinesArriveWhole'
  BY HandledStays DEF IInv, clientVars
<1>17. StreamInv'
  <2>1. ASSUME NEW m \in Open' PROVE StreamOf(m)'
    <3>1. m \in Open
      BY DEF Open
    <3>2. Pending(m)' = Pending(m)
      <4>1. CASE m # n
        <5>1. socket[m] # current /\ socket[m] \in Taken
          BY <1>3, <3>1, <4>1 DEF IInv, SocketInv, Taken
        <5>2. Received(m)' = Received(m)
          BY <5>1 DEF Received
        <5> QED BY <1>13, <5>1, <5>2, PendingFramed DEF clientVars
      <4>2. CASE m = n
        <5>1. Pending(n)' = Append(b, x) \o (Tail(c) \o w)
          BY <1>3, <1>7, <1>12, <1>13 DEF Pending, Received, clientVars
        <5>2. Pending(n) = b \o (c \o w)
          BY <1>3, <1>4, <1>5, <1>7, Zenon DEF Pending, Received
        <5>3. Append(b, x) \o (Tail(c) \o w) = b \o (c \o w)
          BY <1>6, <1>8, Moved
        <5> QED BY <4>2, <5>1, <5>2, <5>3, Zenon
      <4> QED BY <4>1, <4>2
    <3> QED BY <3>1, <3>2, StreamFramed DEF IInv, StreamInv, clientVars
  <2> QED BY <2>1 DEF StreamInv
<1> QED BY <1>14, <1>15, <1>16, <1>17 DEF IInv

LEMMA StopStep ==
  ASSUME IInv, Stop
  PROVE  IInv'
<1> USE DEF Stop, clientVars
<1>1. \A n \in Sessions : socket'[n] = 0
  <2>1. ASSUME NEW n \in Sessions PROVE socket'[n] = 0
    <3>1. socket'[n] = IF socket[n] \in DOMAIN buffers THEN 0 ELSE socket[n]
      OBVIOUS
    <3>2. socket[n] # 0 => socket[n] \in DOMAIN buffers
      BY DEF IInv, SocketInv, Open, Taken
    <3> QED BY <3>1, <3>2
  <2> QED BY <2>1
<1>2. Open' = {} /\ Taken' = {}
  BY <1>1 DEF Open, Taken
<1>3. current = 0 /\ buf = << >> /\ DOMAIN buffers' = {}
  BY DEF IInv, SocketInv
<1>4. TypeInv'
  <2>1. socket' \in [Sessions -> Sockets \cup {0}]
    BY DEF IInv, TypeInv
  <2>2. buffers' \in [DOMAIN buffers' -> Seq(Text)]
    OBVIOUS
  <2> QED BY <2>1, <2>2 DEF IInv, TypeInv
<1>5. SocketInv'
  <2>1. \A n \in Sessions : client'[n] \in {"none", "connecting"} =>
          /\ socket'[n] = 0
          /\ sent'[n] = << >> /\ wire'[n] = << >> /\ handled'[n] = << >>
    BY <1>1 DEF IInv, SocketInv
  <2> QED BY <1>2, <1>3, <2>1 DEF SocketInv
<1>6. HandledInv' /\ LinesArriveWhole'
  BY HandledStays DEF IInv
<1>7. StreamInv'
  BY <1>2 DEF StreamInv
<1> QED BY <1>4, <1>5, <1>6, <1>7 DEF IInv

LEMMA Outcomes ==
  ASSUME NEW line
  PROVE  Outcome(line) \in {"queued", "error", "ignored"} /\ Answered(line) \subseteq {"line", "send"}
BY DEF Outcome, Answered

\* The bytes of a line that was sent whole.
LEMMA LineTyped ==
  ASSUME NEW n \in Sessions, NEW l \in Nat, NEW k \in Kinds, k # "blank"
  PROVE  Bytes(n, l, k) \in
           Seq([session : Sessions, line : Nat, kind : Kinds, part : {"text", "end"}])
<1>1. PICK S : S = [session : Sessions, line : Nat, kind : Kinds, part : {"text", "end"}]
  OBVIOUS
<1>2. PICK x : x = [session |-> n, line |-> l, kind |-> k, part |-> "text"]
  OBVIOUS
<1>3. PICK y : y = [session |-> n, line |-> l, kind |-> k, part |-> "end"]
  OBVIOUS
<1>4. x \in S /\ y \in S
  BY <1>1, <1>2, <1>3
<1>5. Bytes(n, l, k) = <<[session |-> n, line |-> l, kind |-> k, part |-> "text"],
                         [session |-> n, line |-> l, kind |-> k, part |-> "end"]>>
  BY LineBytes
<1>6. Bytes(n, l, k) = <<x, y>>
  BY <1>2, <1>3, <1>5, Zenon
<1>7. <<x, y>> \in Seq(S)
  BY <1>4
<1> QED BY <1>1, <1>6, <1>7, Zenon

LEMMA HandleLineStep ==
  ASSUME IInv, HandleLine
  PROVE  IInv'
<1> USE DEF HandleLine, AtEndOfLine
<1>1. PICK n : n = SessionAt(current)
  OBVIOUS
<1>2. current # 0 /\ current \in Taken
  BY DEF IInv, SocketInv
<1>3. n \in Open /\ socket[n] = current /\ n \in Sessions
  BY <1>1, <1>2, At, Domains DEF IInv
<1>4. PICK b : b = buffers[current]
  OBVIOUS
<1>5. PICK c : c = buf
  OBVIOUS
<1>6. PICK w : w = wire[n]
  OBVIOUS
<1>7. PICK h : h = Len(handled[n])
  OBVIOUS
<1>8. PICK s : s = sent[n]
  OBVIOUS
<1>9. PICK stays \in BOOLEAN : stays = (client[n] # "gone")
  OBVIOUS
<1>10. PICK line : line = Append(b, Head(c))
  OBVIOUS
<1>11. PICK q : q = Tail(c) \o w
  OBVIOUS
<1>12. /\ b \in Seq(Text) /\ b # << >> /\ w \in Seq(Byte)
       /\ c \in Seq(Byte) /\ c # << >> /\ Head(c).part = "end"
       /\ h \in Nat /\ s \in Seq(Kinds) /\ handled[n] \in Seq(HandledLines)
  <2>1. buf \in Seq(Byte) /\ buf # << >>
    BY DEF IInv, TypeInv
  <2>2. handled[n] \in Seq(HandledLines)
    BY <1>3 DEF IInv, HandledInv
  <2>3. b \in Seq(Text) /\ w \in Seq(Byte)
    BY <1>3, <1>4, <1>6, Parts DEF IInv
  <2>4. s \in Seq(Kinds)
    BY <1>3, <1>8, Domains DEF IInv
  <2> QED BY <1>4, <1>5, <1>7, <2>1, <2>2, <2>3, <2>4
<1>13. Stream(b \o (c \o w), n, h, s, stays)
  <2>1. StreamOf(n)
    BY <1>3 DEF IInv, StreamInv
  <2>2. Pending(n) = b \o (c \o w)
    BY <1>3, <1>4, <1>5, <1>6, Zenon DEF Pending, Received
  <2> QED BY <1>7, <1>8, <1>9, <2>1, <2>2, Zenon DEF StreamOf
<1>14. /\ h + 1 \in 1 .. Len(s) /\ line = Bytes(n, h + 1, s[h + 1])
       /\ line[1].session = n /\ Stream(q, n, h + 1, s, stays)
       /\ s[h + 1] # "blank"
  <2>1. /\ h + 1 \in 1 .. Len(s) /\ Append(b, Head(c)) = Bytes(n, h + 1, s[h + 1])
        /\ Append(b, Head(c))[1].session = n
        /\ Stream(Tail(c) \o w, n, h + 1, s, stays)
        /\ s[h + 1] # "blank"
    BY <1>3, <1>12, <1>13, LineTaken
  <2> QED BY <1>10, <1>11, <2>1, Zenon
<1>15. PICK e : e = [line |-> line, outcome |-> Outcome(line)]
  OBVIOUS
<1>16. /\ handled' = [handled EXCEPT ![n] = Append(@, e)]
       /\ tpc' \in {"line", "send"} /\ buf' = Tail(c)
       /\ buffers' = [buffers EXCEPT ![current] = << >>]
  <2>1. /\ handled' = [handled EXCEPT ![line[1].session] = Append(@, e)]
        /\ tpc' \in Answered(line)
    BY <1>4, <1>5, <1>10, <1>15, Zenon
  <2> QED BY <1>5, <1>14, <2>1, Outcomes
<1>17. /\ DOMAIN buffers' = DOMAIN buffers /\ buffers'[current] = << >>
       /\ \A r \in Taken \ {current} : buffers'[r] = buffers[r]
  BY <1>2, <1>16 DEF IInv, SocketInv
<1>18. /\ DOMAIN handled' = Sessions /\ handled'[n] = Append(handled[n], e)
       /\ \A m \in Sessions \ {n} : handled'[m] = handled[m]
  BY <1>3, <1>16 DEF IInv, HandledInv
<1>19. e \in HandledLines /\ e.line = line
  <2>1. s[h + 1] \in Kinds /\ h + 1 \in Nat
    BY <1>12, <1>14
  <2>2. line \in Seq([session : Sessions, line : Nat, kind : Kinds, part : {"text", "end"}])
    BY <1>3, <1>14, <2>1, LineTyped, Zenon
  <2> QED BY <1>15, <2>2, Outcomes DEF HandledLines
<1>20. TypeInv'
  <2>1. buffers' \in [DOMAIN buffers' -> Seq(Text)]
    <3>1. << >> \in Seq(Text)
      OBVIOUS
    <3> QED BY <1>16, <3>1 DEF IInv, TypeInv
  <2>2. buf' \in Seq(Byte)
    <3>1. \A d \in Seq(Byte) : d # << >> => Tail(d) \in Seq(Byte)
      OBVIOUS
    <3> QED BY <1>12, <1>16, <3>1, Zenon
  <2> QED BY <1>16, <2>1, <2>2 DEF IInv, TypeInv, clientVars
<1>21. SocketInv'
  <2>1. current' = current /\ Open' = Open /\ Taken' = Taken
    BY DEF Open, Taken
  <2>2. \A m \in Sessions : client[m] \in {"none", "connecting"} =>
          handled'[m] = handled[m]
    BY <1>3, <1>18 DEF IInv, SocketInv, Open
  <2> QED BY <1>2, <1>16, <1>17, <2>1, <2>2 DEF IInv, SocketInv, clientVars
<1>22. HandledInv'
  <2>1. Append(handled[n], e) \in Seq(HandledLines)
    BY <1>12, <1>19
  <2> QED BY <1>18, <2>1 DEF IInv, HandledInv
<1>23. LinesArriveWhole'
  <2>1. ASSUME NEW m \in Sessions, NEW i \in 1 .. Len(handled'[m])
        PROVE  i <= Len(sent[m]) /\ handled'[m][i].line = Bytes(m, i, sent[m][i])
    <3>1. CASE m # n
      <4>1. handled'[m] = handled[m]
        BY <1>18, <3>1
      <4>2. i \in 1 .. Len(handled[m])
        BY <2>1, <4>1
      <4>3. LinesArriveWhole
        BY DEF IInv
      <4> QED BY <4>1, <4>2, <4>3, Zenon DEF LinesArriveWhole
    <3>2. CASE m = n
      <4>1. PICK a : a = handled[n]
        OBVIOUS
      <4>2. /\ a \in Seq(HandledLines) /\ Len(a) = h
            /\ handled'[n] = Append(a, e)
        BY <1>7, <1>12, <1>18, <4>1
      <4>3. \/ i \in 1 .. h /\ Append(a, e)[i] = a[i]
            \/ i = h + 1 /\ Append(a, e)[i] = e
        BY SMTT(30), <1>19, <2>1, <3>2, <4>2
      <4>4. CASE i \in 1 .. h /\ Append(a, e)[i] = a[i]
        <5>1. i <= Len(sent[n]) /\ a[i].line = Bytes(n, i, sent[n][i])
          BY <1>3, <1>7, <4>1, <4>4 DEF IInv, LinesArriveWhole
        <5> QED BY <3>2, <4>2, <4>4, <5>1
      <4>5. CASE i = h + 1 /\ Append(a, e)[i] = e
        <5>1. i <= Len(s) /\ e.line = Bytes(n, i, s[i])
          BY <1>14, <1>19, <4>5
        <5> QED BY <1>8, <3>2, <4>2, <4>5, <5>1
      <4> QED BY <4>3, <4>4, <4>5
    <3> QED BY <3>1, <3>2
  <2> QED BY <2>1 DEF LinesArriveWhole, clientVars
<1>24. StreamInv'
  <2>1. ASSUME NEW m \in Open' PROVE StreamOf(m)'
    <3>1. m \in Open /\ m \in Sessions
      BY DEF Open
    <3>2. CASE m # n
      <4>1. socket[m] # current /\ socket[m] \in Taken
        BY <1>3, <3>1, <3>2 DEF IInv, SocketInv, Taken
      <4>2. Received(m)' = Received(m)
        BY <4>1 DEF Received
      <4>3. Pending(m)' = Pending(m)
        BY <1>17, <4>1, <4>2, PendingFramed DEF clientVars
      <4> QED BY <1>18, <3>1, <3>2, <4>3, StreamFramed DEF IInv, StreamInv, clientVars
    <3>3. CASE m = n
      <4>1. Pending(n)' = << >> \o (Tail(c) \o w)
        BY <1>3, <1>6, <1>16, <1>17 DEF Pending, Received, clientVars
      <4>2. Pending(n)' = q
        <5>1. q \in Seq(Byte)
          BY <1>11, <1>12
        <5>2. << >> \o q = q
          BY <5>1
        <5> QED BY <1>11, <4>1, <5>2, Zenon
      <4>3. Len(handled'[n]) = h + 1
        <5>1. \A a \in Seq(HandledLines) : Len(Append(a, e)) = Len(a) + 1
          OBVIOUS
        <5> QED BY <1>7, <1>12, <1>18, <5>1, Zenon
      <4>4. client' = client /\ sent' = sent
        BY DEF clientVars
      <4> QED BY <1>8, <1>9, <1>14, <3>3, <4>2, <4>3, <4>4, Zenon DEF StreamOf
    <3> QED BY <3>2, <3>3
  <2> QED BY <2>1 DEF StreamInv
<1> QED BY <1>20, <1>21, <1>22, <1>23, <1>24 DEF IInv

-----------------------------------------------------------------------------
LEMMA Initially == Init => IInv
<1> SUFFICES ASSUME Init PROVE IInv
  OBVIOUS
<1> USE DEF Init
<1>1. Open = {} /\ Taken = {}
  BY DEF Open, Taken
<1>2. TypeInv
  <2>1. sent \in [Sessions -> Seq(Kinds)] /\ wire \in [Sessions -> Seq(Byte)]
    <3>1. << >> \in Seq(Kinds) /\ << >> \in Seq(Byte)
      OBVIOUS
    <3> QED BY <3>1
  <2>2. Cardinality(master) <= FdSetSize
    <3>1. Cardinality({Listener}) = 1
      BY FS_Singleton
    <3> QED BY <3>1, TelnetAssumption
  <2>3. buffers \in [DOMAIN buffers -> Seq(Text)] /\ buf \in Seq(Byte)
    OBVIOUS
  <2> QED BY <2>1, <2>2, <2>3 DEF TypeInv
<1>3. SocketInv
  BY <1>1 DEF SocketInv
<1>4. HandledInv /\ LinesArriveWhole
  <2>1. \A n \in Sessions : handled[n] = << >>
    OBVIOUS
  <2>2. HandledInv
    BY <2>1 DEF HandledInv
  <2>3. \A n \in Sessions : 1 .. Len(handled[n]) = {}
    BY <2>1
  <2> QED BY <2>2, <2>3, Zenon DEF LinesArriveWhole
<1>5. StreamInv
  BY <1>1 DEF StreamInv
<1> QED BY <1>2, <1>3, <1>4, <1>5 DEF IInv

LEMMA Stutters ==
  ASSUME IInv, UNCHANGED vars
  PROVE  IInv'
<1>1. UNCHANGED <<sent, client, wire, socket, master, buffers, tpc, ready, current,
                  buf, handled>>
  BY DEF vars, clientVars, socketVars, loopVars
<1> QED BY <1>1 DEF IInv, TypeInv, SocketInv, HandledInv, LinesArriveWhole,
                    StreamInv, StreamOf, Pending, Received, Open, Taken

\* Bytes keep their client and their order on the way from a client's send
\* through recv into the buffer of its socket, whatever a step of a client or
\* of the telnet thread does (the byte loop of network.cpp).
THEOREM Invariance == Spec => []IInv
<1>1. ASSUME IInv, [Next]_vars PROVE IInv'
  <2>1. CASE Process
    BY <1>1, <2>1, AcceptStep, ReceiveStep, CloseStep, LoopSteps, AppendToLineStep,
       HandleLineStep DEF Process
  <2>2. CASE Clients
    BY <1>1, <2>2, ConnectStep, HangUpStep, SendLineStep DEF Clients
  <2>3. CASE Stop
    BY <1>1, <2>3, StopStep
  <2>4. CASE UNCHANGED vars
    BY <1>1, <2>4, Stutters
  <2> QED BY <1>1, <2>1, <2>2, <2>3, <2>4 DEF Next
<1> QED BY <1>1, Initially, PTL DEF Spec

\* The variables keep their types, and m_Master never holds more sockets than
\* an fd_set has room for.
THEOREM TypeCorrect == Spec => []TypeOK
<1>1. IInv => TypeOK
  BY Domains DEF IInv, TypeInv, SocketInv, HandledInv, TypeOK, Taken, Open
<1> QED BY <1>1, Invariance, PTL

\* Whatever recv cuts off and however many clients send, the lines taken from
\* the buffers are the first lines each client sent, whole and in their order.
THEOREM WholeLines == Spec => []LinesArriveWhole
<1>1. IInv => LinesArriveWhole
  BY DEF IInv
<1> QED BY <1>1, Invariance, PTL

LEMMA OwnBytes == ASSUME IInv PROVE BuffersAreOfTheirSocket
<1>1. ASSUME NEW n \in Open, NEW i \in 1 .. Len(buffers[socket[n]])
      PROVE  buffers[socket[n]][i].session = n
  <2>1. PICK b : b = buffers[socket[n]]
    OBVIOUS
  <2>2. PICK r : r = Received(n) \o wire[n]
    OBVIOUS
  <2>3. PICK p : p = b \o r
    OBVIOUS
  <2>4. b \in Seq(Byte) /\ r \in Seq(Byte)
    BY <2>1, <2>2, Parts DEF IInv
  <2>5. Len(p) = Len(b) + Len(r) /\ \A j \in 1 .. Len(b) : p[j] = b[j]
    BY <2>3, <2>4, Joined
  <2>6. i \in 1 .. Len(p) /\ p[i] = b[i]
    BY <1>1, <2>1, <2>4, <2>5
  <2>7. p = Pending(n)
    BY <2>1, <2>2, <2>3, Zenon DEF Pending
  <2>8. StreamOf(n)
    BY DEF IInv, StreamInv
  <2>9. p[i].session = n
    BY <2>6, <2>7, <2>8 DEF StreamOf, Stream
  <2> QED BY <2>1, <2>6, <2>9
<1>2. DOMAIN buffers = Taken
  BY DEF IInv, SocketInv
<1> QED BY <1>1, <1>2, Zenon DEF BuffersAreOfTheirSocket

\* A buffer of m_ClientBuffers holds bytes of the connection its socket has
\* now, and of no earlier one.
THEOREM OwnBuffers == Spec => []BuffersAreOfTheirSocket
BY OwnBytes, Invariance, PTL

\* Stop closes every socket, those that m_Master had no room for included:
\* each one has a buffer, and Stop closes what has a buffer.
THEOREM NoneLeft == Spec => []NoSocketLeft
<1>1. IInv => NoSocketLeft
  BY DEF IInv, SocketInv, NoSocketLeft
<1> QED BY <1>1, Invariance, PTL
===============================================================================
