----------------------------- MODULE QueryProofs -----------------------------
(***************************************************************************)
(* The query path for every set of workers, metrics, lines and requests.   *)
(***************************************************************************)
EXTENDS TimeSeriesProofs, SequenceTheorems

(* Sequences of anything.                                                  *)

LEMMA SeqFacts ==
  ASSUME NEW s, IsSeq(s)
  PROVE  /\ Len(s) \in Nat /\ DOMAIN s = 1 .. Len(s)
         /\ s = << >> <=> Len(s) = 0
BY DEF IsSeq

LEMMA EmptyIsSeq == IsSeq(<< >>) /\ Len(<< >>) = 0
BY DEF IsSeq

LEMMA Elements ==
  ASSUME NEW S, NEW s \in Seq(S)
  PROVE  IsSeq(s)
<1>1. s \in [1 .. Len(s) -> S] /\ Len(s) \in Nat
  OBVIOUS
<1>2. s \in [1 .. Len(s) -> Range(s)]
  BY <1>1 DEF Range
<1> QED BY <1>1, <1>2, SeqDef DEF IsSeq

LEMMA AppendSeq ==
  ASSUME NEW s, NEW x, IsSeq(s)
  PROVE  /\ IsSeq(Append(s, x)) /\ Len(Append(s, x)) = Len(s) + 1
         /\ \A i \in 1 .. Len(s) : Append(s, x)[i] = s[i]
         /\ Append(s, x)[Len(s) + 1] = x
<1> DEFINE S == Range(s) \cup {x}
<1>1. s \in Seq(S) /\ x \in S
  BY SeqMonotonic DEF IsSeq
<1> HIDE DEF S
<1>2. Append(s, x) \in Seq(S)
  BY <1>1
<1>3. /\ Len(Append(s, x)) = Len(s) + 1
      /\ \A i \in 1 .. Len(s) : Append(s, x)[i] = s[i]
      /\ Append(s, x)[Len(s) + 1] = x
  BY <1>1, AppendProperties
<1> QED BY <1>2, <1>3, Elements

LEMMA PrefixOfAppend ==
  ASSUME NEW s, NEW x, IsSeq(s), NEW n \in Nat, n <= Len(s)
  PROVE  SubSeq(Append(s, x), 1, n) = SubSeq(s, 1, n)
<1>1. \A i \in 1 .. n : Append(s, x)[i] = s[i]
  BY AppendSeq, SeqFacts
<1>2. \A i \in 1 .. n : s[i] \in Range(s)
  BY SeqFacts DEF Range
<1>3. /\ SubSeq(Append(s, x), 1, n) \in Seq(Range(s))
      /\ Len(SubSeq(Append(s, x), 1, n)) = n
      /\ \A i \in 1 .. n : SubSeq(Append(s, x), 1, n)[i] = Append(s, x)[i]
  BY <1>1, <1>2, SubSeqProperties
<1>4. /\ SubSeq(s, 1, n) \in Seq(Range(s))
      /\ Len(SubSeq(s, 1, n)) = n
      /\ \A i \in 1 .. n : SubSeq(s, 1, n)[i] = s[i]
  BY <1>2, SubSeqProperties
<1> QED BY <1>1, <1>3, <1>4, SeqEqual

LEMMA TailSeq ==
  ASSUME NEW s, IsSeq(s), s # << >>
  PROVE  /\ IsSeq(Tail(s)) /\ Len(Tail(s)) = Len(s) - 1 /\ Len(s) >= 1
         /\ \A i \in 1 .. Len(s) - 1 : Tail(s)[i] = s[i + 1]
         /\ Head(s) = s[1]
<1>1. s \in Seq(Range(s))
  BY DEF IsSeq
<1>2. /\ Tail(s) \in Seq(Range(s)) /\ Len(Tail(s)) = Len(s) - 1
      /\ \A i \in 1 .. Len(Tail(s)) : Tail(s)[i] = s[i + 1]
      /\ Len(s) \in Nat \ {0}
  BY <1>1, HeadTailProperties, EmptySeq
<1>3. Head(s) = s[1]
  BY <1>1
<1>4. \A i \in 1 .. Len(s) - 1 : Tail(s)[i] = s[i + 1]
  BY <1>2
<1>5. Len(Tail(s)) = Len(s) - 1 /\ Len(s) >= 1
  BY <1>2
<1>6. IsSeq(Tail(s))
  BY <1>2, Elements
<1> QED BY <1>3, <1>4, <1>5, <1>6

LEMMA HalfFacts == Half \in Nat \ {0} /\ TimeMod = 2 * Half /\ TimeMod \in Nat
BY TimeSeriesAssumption DEF TimeMod

LEMMA SignedMinus ==
  ASSUME NEW now \in 0 .. Half - 1, NEW past \in 0 .. Half - 1
  PROVE  Minus(now, past) \in 0 .. TimeMod - 1 /\ Signed(Minus(now, past)) = now - past
BY HalfFacts DEF Minus, Signed
(* The range of a request.                                                 *)

\* The last part of a name is the next one or the same as before.
LEMMA LastPartNext ==
  ASSUME NEW parts, NEW name, NEW n \in Nat
  PROVE  LastPart(parts, name, n + 1) =
           IF parts[n + 1].name = name THEN n + 1 ELSE LastPart(parts, name, n)
<1> DEFINE Before == \A i \in 1 .. n : parts[i].name # name
           Now == \A i \in 1 .. n + 1 : parts[i].name # name
<1>1. CASE parts[n + 1].name = name
  <2>1. n + 1 \in 1 .. n + 1 /\ ~ Now
    BY <1>1
  <2>2. IsLast(parts, name, n + 1, n + 1)
    BY <1>1 DEF IsLast
  <2>3. \A i \in 1 .. n + 1 : IsLast(parts, name, n + 1, i) => i = n + 1
    BY <1>1 DEF IsLast
  <2>4. (CHOOSE i \in 1 .. n + 1 : IsLast(parts, name, n + 1, i)) = n + 1
    BY <2>1, <2>2, <2>3
  <2> QED BY <1>1, <2>1, <2>4 DEF LastPart
<1>2. CASE parts[n + 1].name # name
  <2>1. Now <=> Before
    BY <1>2
  <2>2. \A i : i \in 1 .. n + 1 /\ IsLast(parts, name, n + 1, i)
               <=> i \in 1 .. n /\ IsLast(parts, name, n, i)
    BY <1>2 DEF IsLast
  <2>3. (CHOOSE i \in 1 .. n + 1 : IsLast(parts, name, n + 1, i)) =
        (CHOOSE i \in 1 .. n : IsLast(parts, name, n, i))
    BY <2>2, Zenon
  <2>4. LastPart(parts, name, n + 1) =
          IF Now THEN 0 ELSE CHOOSE i \in 1 .. n + 1 : IsLast(parts, name, n + 1, i)
    BY DEF LastPart
  <2>5. LastPart(parts, name, n) =
          IF Before THEN 0 ELSE CHOOSE i \in 1 .. n : IsLast(parts, name, n, i)
    BY DEF LastPart
  <2>6. LastPart(parts, name, n + 1) = LastPart(parts, name, n)
    <3> HIDE DEF Before, Now
    <3>1. CASE Before
      BY <2>1, <2>4, <2>5, <3>1
    <3>2. CASE ~ Before
      BY <2>1, <2>3, <2>4, <2>5, <3>2
    <3> QED BY <3>1, <3>2
  <2> QED BY <1>2, <2>6
<1> QED BY <1>1, <1>2

LEMMA LastPartNone ==
  ASSUME NEW parts, NEW name
  PROVE  LastPart(parts, name, 0) = 0
BY DEF LastPart

\* A relative time is neither wrapped nor refused by ParseTime.
LEMMA RelativeTime ==
  ASSUME NEW t, t.size \in Nat, Relative(t)
  PROVE  ParseTime(t) = Seconds(t) /\ Seconds(t) \in 0 .. Half - 1
<1>1. UnitSeconds(t.unit) \in Nat
  BY DEF UnitSeconds
<1>2. Seconds(t) \in Nat
  BY <1>1 DEF Seconds
<1>3. Seconds(t) < Half /\ t.ago
  BY DEF Relative
<1>4. Scaled(t) = Seconds(t) % TimeMod
  <2>1. t.size <= Seconds(t)
    BY <1>1 DEF Seconds, UnitSeconds
  <2>2. Unsigned(t.size) = t.size
    BY <1>2, <1>3, <2>1, HalfFacts DEF Unsigned
  <2> QED BY <2>2 DEF Scaled, Seconds
<1> HIDE DEF Seconds
<1>5. \A x \in Nat, m \in Nat : x < m => x % m = x
  OBVIOUS
<1>6. Seconds(t) < TimeMod
  BY <1>2, <1>3, HalfFacts
<1>7. Scaled(t) = Seconds(t)
  BY <1>2, <1>4, <1>5, <1>6, HalfFacts
<1>8. ParseTime(t) = Scaled(t)
  BY <1>3 DEF ParseTime
<1>9. Seconds(t) \in 0 .. Half - 1
  BY <1>2, <1>3, HalfFacts
<1> QED BY <1>7, <1>8, <1>9

LEMMA ScaledInRange ==
  ASSUME NEW t, t.size \in Nat
  PROVE  Scaled(t) \in 0 .. TimeMod - 1
<1>1. UnitSeconds(t.unit) \in Nat /\ Unsigned(t.size) \in Nat
  BY HalfFacts DEF UnitSeconds, Unsigned
<1>2. Unsigned(t.size) * UnitSeconds(t.unit) \in Nat
  BY <1>1
<1>3. \A x \in Nat, m \in Nat \ {0} : x % m \in 0 .. m - 1
  OBVIOUS
<1> QED BY <1>2, <1>3, HalfFacts DEF Scaled

LEMMA AgoInRange ==
  ASSUME NEW now \in 0 .. Half - 1, NEW t, t.size \in Nat
  PROVE  Minus(now, ParseTime(t)) \in 0 .. TimeMod - 1
<1>1. Scaled(t) \in 0 .. TimeMod - 1
  BY ScaledInRange
<1>2. ParseTime(t) = Scaled(t) \/ ParseTime(t) = 0
  BY DEF ParseTime
<1>3. ParseTime(t) \in 0 .. TimeMod - 1
  BY <1>1, <1>2, HalfFacts
<1> QED BY <1>3, HalfFacts DEF Minus

-----------------------------------------------------------------------------
(* What each step of a worker does to its job.                             *)

LEMMA Difference ==
  ASSUME NEW a \in Nat, NEW b \in Nat, b <= a, NEW c, c = a - b
  PROVE  c \in Nat /\ (b = 0 <=> c = a)
OBVIOUS

LEMMA Counts ==
  ASSUME NEW j, JobType(j)
  PROVE  /\ Len(j.asked) \in Nat /\ Len(j.parts) \in Nat /\ Done(j) \in Nat
         /\ j.parts = << >> <=> Done(j) = Len(j.asked)
<1>1. IsSeq(j.asked) /\ IsSeq(j.parts) /\ Len(j.parts) <= Len(j.asked)
  BY DEF JobType
<1>2. /\ Len(j.asked) \in Nat /\ Len(j.parts) \in Nat
      /\ j.parts = << >> <=> Len(j.parts) = 0
  BY <1>1, SeqFacts
<1>3. Done(j) \in Nat /\ (Len(j.parts) = 0 <=> Done(j) = Len(j.asked))
  BY <1>1, <1>2, Difference, ZenonT(30) DEF Done
<1> QED BY <1>2, <1>3, Zenon

\* The next part of the request is the one at the head of parts.
PartRead(j, k) ==
  /\ Done(k) = Done(j) + 1 /\ j.asked[Done(j) + 1] = Head(j.parts)
  /\ Done(j) + 1 \in 1 .. Len(j.asked)
  /\ IsSeq(k.parts) /\ Len(k.parts) <= Len(k.asked)
  /\ \A i \in 1 .. Len(k.parts) : k.parts[i] = k.asked[Done(k) + i]

LEMMA PartDone ==
  ASSUME NEW j, JobType(j), j.parts # << >>,
         NEW k, k.asked = j.asked, k.parts = Tail(j.parts)
  PROVE  PartRead(j, k)
<1>1. /\ IsSeq(j.asked) /\ IsSeq(j.parts) /\ Len(j.parts) <= Len(j.asked)
      /\ \A i \in 1 .. Len(j.parts) : j.parts[i] = j.asked[Done(j) + i]
  BY DEF JobType
<1>2. /\ IsSeq(k.parts) /\ Len(k.parts) = Len(j.parts) - 1 /\ Len(j.parts) >= 1
      /\ \A i \in 1 .. Len(j.parts) - 1 : k.parts[i] = j.parts[i + 1]
      /\ Head(j.parts) = j.parts[1]
  BY <1>1, TailSeq
<1>3. Len(j.asked) \in Nat /\ Len(j.parts) \in Nat /\ Done(j) \in Nat
  BY Counts
<1> DEFINE a == Len(j.asked)
           b == Len(j.parts)
           c == Len(k.parts)
<1>a. /\ a \in Nat /\ b \in Nat /\ b <= a /\ b >= 1 /\ c = b - 1
      /\ Done(j) = a - b /\ Done(k) = a - c /\ Len(k.asked) = a
  BY <1>1, <1>2, <1>3, Zenon DEF Done
<1>4. Done(k) = Done(j) + 1 /\ Done(j) + 1 \in 1 .. a /\ c <= Len(k.asked)
  <2> HIDE DEF a, b, c
  <2> QED BY <1>a
<1>5. j.asked[Done(j) + 1] = Head(j.parts)
  BY <1>1, <1>2, <1>3
<1>6. \A i \in 1 .. Len(k.parts) : k.parts[i] = k.asked[Done(k) + i]
  <2> SUFFICES ASSUME NEW i \in 1 .. Len(j.parts) - 1
               PROVE  k.parts[i] = j.asked[Done(j) + 1 + i]
    BY <1>2, <1>4
  <2>1. k.parts[i] = j.parts[i + 1] /\ i + 1 \in 1 .. Len(j.parts)
    BY <1>2, <1>3
  <2>2. j.parts[i + 1] = j.asked[Done(j) + (i + 1)]
    BY <1>1, <2>1
  <2> QED BY <2>1, <2>2, <1>3
<1> QED BY <1>2, <1>4, <1>5, <1>6 DEF PartRead

\* A part that is a limit of the range sets it.
LimitSet(j, k) ==
  LET part == Head(j.parts)
  IN  /\ k.start = IF part.name = "start" THEN Minus(j.now, ParseTime(part.time))
                                          ELSE j.start
      /\ k.end = IF part.name = "end" THEN Minus(j.now, ParseTime(part.time))
                                      ELSE j.end

LEMMA RangeGoesOn ==
  ASSUME NEW j, JobType(j), RangeInv(j), j.parts # << >>,
         NEW k, k.asked = j.asked, k.now = j.now, k.parts = Tail(j.parts),
         LimitSet(j, k)
  PROVE  RangeInv(k)
<1> DEFINE part == Head(j.parts)
           d == Done(j)
<1> SUFFICES ASSUME RelativeOnly(j)
             PROVE  /\ Signed(k.start) = Limit(k, "start", Done(k), 0)
                    /\ Signed(k.end) = Limit(k, "end", Done(k), k.now)
  BY DEF RangeInv, RelativeOnly
<1>1. /\ d \in Nat /\ Done(k) = d + 1 /\ j.asked[d + 1] = part
      /\ d + 1 \in 1 .. Len(j.asked)
  BY Counts, PartDone DEF PartRead
<1>2. /\ Signed(j.start) = Limit(j, "start", d, 0)
      /\ Signed(j.end) = Limit(j, "end", d, j.now)
  BY DEF RangeInv
<1>3. j.now \in 0 .. Half - 1
  BY DEF JobType
<1>4. ASSUME part.name \in {"start", "end"}
      PROVE  Signed(Minus(j.now, ParseTime(part.time))) = j.now - Seconds(part.time)
  <2>1. d + 1 \in DOMAIN j.asked
    BY <1>1, SeqFacts DEF JobType
  <2>2. Relative(part.time)
    BY <1>1, <1>4, <2>1 DEF RelativeOnly
  <2>3. part.time.size \in Nat
    BY <1>1, <1>4 DEF JobType
  <2>4. ParseTime(part.time) = Seconds(part.time) /\ Seconds(part.time) \in 0 .. Half - 1
    BY <2>2, <2>3, RelativeTime
  <2> QED BY <1>3, <2>4, SignedMinus
<1>5. ASSUME NEW name, NEW default
      PROVE  Limit(k, name, d + 1, default) =
               IF part.name = name THEN j.now - Seconds(part.time)
                                   ELSE Limit(j, name, d, default)
  <2>1. LastPart(k.asked, name, d + 1) =
          IF part.name = name THEN d + 1 ELSE LastPart(j.asked, name, d)
    <3>1. k.asked[d + 1] = part /\ d \in Nat
      BY <1>1
    <3> HIDE DEF d, part
    <3>2. LastPart(k.asked, name, d + 1) =
            IF k.asked[d + 1].name = name THEN d + 1 ELSE LastPart(k.asked, name, d)
      BY ZenonT(40), <3>1, LastPartNext
    <3> QED BY <3>1, <3>2
  <2>2. d + 1 # 0
    BY <1>1
  <2> HIDE DEF d, part
  <2>3. CASE part.name = name
    BY <1>1, <2>1, <2>2, <2>3 DEF Limit
  <2>4. CASE part.name # name
    BY <2>1, <2>4 DEF Limit
  <2> QED BY <2>3, <2>4
<1> HIDE DEF d, part
<1>6. k.start = (IF part.name = "start" THEN Minus(j.now, ParseTime(part.time)) ELSE j.start)
      /\ k.end = (IF part.name = "end" THEN Minus(j.now, ParseTime(part.time)) ELSE j.end)
  BY DEF part, LimitSet
<1>7. Signed(k.start) = Limit(k, "start", Done(k), 0)
  <2>1. CASE part.name = "start"
    BY <1>1, <1>4, <1>5, <1>6, <2>1
  <2>2. CASE part.name # "start"
    BY <1>1, <1>2, <1>5, <1>6, <2>2
  <2> QED BY <2>1, <2>2
<1>8. Signed(k.end) = Limit(k, "end", Done(k), k.now)
  <2>1. CASE part.name = "end"
    BY <1>1, <1>4, <1>5, <1>6, <2>1
  <2>2. CASE part.name # "end"
    BY <1>1, <1>2, <1>5, <1>6, <2>2
  <2> QED BY <2>1, <2>2
<1> QED BY <1>7, <1>8

\* Nothing a request remembers of its beginning changes.
SameRequest(j, k) ==
  /\ DOMAIN k = JobFields
  /\ k.asked = j.asked /\ k.now = j.now /\ k.known = j.known /\ k.rows = j.rows

LEMMA AnsweredUnchanged ==
  ASSUME NEW j, NEW k, NEW tables, AnsweredFrom(j, tables), SameRequest(j, k),
         k.response = j.response
  PROVE  AnsweredFrom(k, tables)
BY ZenonT(30) DEF AnsweredFrom, SameRequest, RelativeOnly, Limit

LEMMA GrowthUnchanged ==
  ASSUME NEW j, NEW k, NEW metrics, NEW tables, GrowthInv(j, metrics, tables),
         SameRequest(j, k)
  PROVE  GrowthInv(k, metrics, tables)
BY Zenon DEF GrowthInv, SameRequest

LEMMA AppendedMetrics ==
  ASSUME NEW s, NEW q, IsSeq(s), q.metric \in Names,
         \A i \in DOMAIN s : s[i].metric \in Names
  PROVE  \A i \in DOMAIN Append(s, q) : Append(s, q)[i].metric \in Names
<1>1. Len(s) \in Nat /\ DOMAIN s = 1 .. Len(s)
      /\ DOMAIN Append(s, q) = 1 .. Len(s) + 1
  BY SeqFacts, AppendSeq
<1> SUFFICES ASSUME NEW i \in 1 .. Len(s) + 1
             PROVE  Append(s, q)[i].metric \in Names
  BY <1>1
<1>2. i \in 1 .. Len(s) \/ i = Len(s) + 1
  BY <1>1
<1> QED BY <1>1, <1>2, AppendSeq

\* Where a request asks for what was answered and for what is prepared.
LEMMA Places ==
  ASSUME NEW j, NEW f \in [DOMAIN j.response -> 1 .. Done(j)],
         NEW g \in [DOMAIN j.subqueries -> 1 .. Done(j)]
  PROVE  /\ AskedAt(Answered(j), j.asked, f) <=>
              /\ \A i \in DOMAIN j.response :
                   /\ j.asked[f[i]].name = "m"
                   /\ j.response[i].query = Query(j.asked[f[i]].text)
              /\ \A i, l \in DOMAIN j.response : i < l => f[i] < f[l]
         /\ AskedAt(j.subqueries, j.asked, g) <=>
              /\ \A i \in DOMAIN j.subqueries :
                   /\ j.asked[g[i]].name = "m"
                   /\ j.subqueries[i] = Query(j.asked[g[i]].text)
              /\ \A i, l \in DOMAIN j.subqueries : i < l => g[i] < g[l]
<1>1. /\ DOMAIN Answered(j) = DOMAIN j.response
      /\ \A i \in DOMAIN j.response : Answered(j)[i] = j.response[i].query
  BY DEF Answered
<1> QED BY <1>1, Zenon DEF AskedAt

\* The order is kept where nothing is prepared or answered.
LEMMA OrderKept ==
  ASSUME NEW j, OrderInv(j), NEW k, k.asked = j.asked,
         k.response = j.response, k.subqueries = j.subqueries,
         Done(j) \in Nat, Done(k) \in Nat, Done(j) <= Done(k)
  PROVE  OrderInv(k)
<1>1. PICK f \in [DOMAIN j.response -> 1 .. Done(j)],
           g \in [DOMAIN j.subqueries -> 1 .. Done(j)] :
        /\ AskedAt(Answered(j), j.asked, f) /\ AskedAt(j.subqueries, j.asked, g)
        /\ \A i \in DOMAIN j.response, l \in DOMAIN j.subqueries : f[i] < g[l]
  BY Zenon DEF OrderInv
<1>2. 1 .. Done(j) \subseteq 1 .. Done(k)
  OBVIOUS
<1>3. /\ f \in [DOMAIN k.response -> 1 .. Done(k)]
      /\ g \in [DOMAIN k.subqueries -> 1 .. Done(k)]
  BY <1>2
<1>4. Answered(k) = Answered(j)
  BY Zenon DEF Answered
<1> QED BY <1>1, <1>3, <1>4, Zenon DEF OrderInv

\* What is prepared was asked for last.
LEMMA OrderPrepared ==
  ASSUME NEW j, OrderInv(j), IsSeq(j.subqueries), NEW k, k.asked = j.asked,
         k.response = j.response, Done(j) \in Nat, Done(k) = Done(j) + 1,
         NEW q, k.subqueries = Append(j.subqueries, q),
         j.asked[Done(k)].name = "m", q = Query(j.asked[Done(k)].text)
  PROVE  OrderInv(k)
<1>1. PICK f \in [DOMAIN j.response -> 1 .. Done(j)],
           g \in [DOMAIN j.subqueries -> 1 .. Done(j)] :
        /\ AskedAt(Answered(j), j.asked, f) /\ AskedAt(j.subqueries, j.asked, g)
        /\ \A i \in DOMAIN j.response, l \in DOMAIN j.subqueries : f[i] < g[l]
  BY Zenon DEF OrderInv
<1>2. PICK n, d : n = Len(j.subqueries) /\ d = Done(j)
  OBVIOUS
<1>3. /\ n \in Nat /\ d \in Nat /\ Done(k) = d + 1
      /\ DOMAIN j.subqueries = 1 .. n /\ DOMAIN k.subqueries = 1 .. n + 1
      /\ \A i \in 1 .. n : k.subqueries[i] = j.subqueries[i]
      /\ k.subqueries[n + 1] = q
  BY <1>2, AppendSeq, SeqFacts
<1> DEFINE h == [i \in DOMAIN k.subqueries |-> IF i \in 1 .. n THEN g[i] ELSE d + 1]
<1>4. /\ \A i \in 1 .. n : h[i] = g[i] /\ g[i] \in 1 .. d
      /\ h[n + 1] = d + 1
      /\ \A i \in DOMAIN j.response : f[i] \in 1 .. d
  <2>1. \A i \in 1 .. n : i \in DOMAIN k.subqueries /\ g[i] \in 1 .. d
    <3>1. g \in [1 .. n -> 1 .. d]
      BY <1>1, <1>2, <1>3, Zenon
    <3>2. \A i \in 1 .. n : i \in DOMAIN k.subqueries
      BY <1>3
    <3> HIDE DEF h
    <3> QED BY <3>1, <3>2
  <2>2. n + 1 \in DOMAIN k.subqueries /\ n + 1 \notin 1 .. n
    BY <1>3
  <2>3. \A i \in DOMAIN j.response : f[i] \in 1 .. d
    BY <1>1, <1>2
  <2> QED BY <2>1, <2>2, <2>3, Zenon
<1>5. /\ f \in [DOMAIN k.response -> 1 .. Done(k)]
      /\ h \in [DOMAIN k.subqueries -> 1 .. Done(k)]
  <2>1. 1 .. d \subseteq 1 .. d + 1 /\ d + 1 \in 1 .. d + 1
    BY <1>3
  <2>2. \A i \in DOMAIN k.subqueries : i \in 1 .. n \/ i = n + 1
    BY <1>3
  <2>3. \A i \in DOMAIN k.subqueries : h[i] \in 1 .. d + 1
    <3> HIDE DEF h
    <3> QED BY <1>4, <2>1, <2>2
  <2>4. f \in [DOMAIN j.response -> 1 .. d + 1]
    BY <1>2, <2>1
  <2> QED BY <1>3, <2>3, <2>4
<1> HIDE DEF h
<1>6. AskedAt(Answered(k), k.asked, f)
  <2>1. Answered(k) = Answered(j)
    BY Zenon DEF Answered
  <2> QED BY <1>1, <2>1, Zenon
<1>7. AskedAt(k.subqueries, k.asked, h)
  <2>1. /\ \A i \in DOMAIN j.subqueries :
             /\ j.asked[g[i]].name = "m"
             /\ j.subqueries[i] = Query(j.asked[g[i]].text)
        /\ \A i, l \in DOMAIN j.subqueries : i < l => g[i] < g[l]
    BY <1>1, Zenon DEF AskedAt
  <2>2. ASSUME NEW i \in DOMAIN k.subqueries
        PROVE  /\ k.asked[h[i]].name = "m"
               /\ k.subqueries[i] = Query(k.asked[h[i]].text)
    <3>1. CASE i \in 1 .. n
      BY <1>3, <1>4, <2>1, <3>1
    <3>2. CASE i = n + 1
      BY <1>3, <1>4, <3>2
    <3> QED BY <1>3, <3>1, <3>2
  <2>3. ASSUME NEW i \in DOMAIN k.subqueries, NEW l \in DOMAIN k.subqueries, i < l
        PROVE  h[i] < h[l]
    <3>1. i \in 1 .. n /\ h[i] = g[i] /\ g[i] \in 1 .. d
      BY <1>3, <1>4, <2>3
    <3>2. CASE l \in 1 .. n
      BY <1>3, <1>4, <2>1, <2>3, <3>1, <3>2
    <3>3. CASE l = n + 1
      BY <1>3, <1>4, <3>1, <3>3
    <3> QED BY <1>3, <3>2, <3>3
  <2> QED BY <2>2, <2>3, Zenon DEF AskedAt
<1>8. ASSUME NEW i \in DOMAIN k.response, NEW l \in DOMAIN k.subqueries
      PROVE  f[i] < h[l]
  <2>1. i \in DOMAIN j.response /\ f[i] \in 1 .. d
    BY <1>4
  <2>2. CASE l \in 1 .. n
    BY <1>1, <1>3, <1>4, <2>1, <2>2
  <2>3. CASE l = n + 1
    BY <1>3, <1>4, <2>1, <2>3
  <2> QED BY <1>3, <2>2, <2>3
<1> QED BY <1>5, <1>6, <1>7, <1>8, Zenon DEF OrderInv

\* What is run or dropped was asked for first of what is prepared.
LEMMA OrderAnswered ==
  ASSUME NEW j, OrderInv(j), IsSeq(j.subqueries), j.subqueries # << >>,
         IsSeq(j.response), NEW k, k.asked = j.asked, Done(k) = Done(j),
         k.subqueries = Tail(j.subqueries),
         \/ k.response = j.response
         \/ \E a : /\ k.response = Append(j.response, a)
                  /\ a.query = Head(j.subqueries)
  PROVE  OrderInv(k)
<1>1. PICK f \in [DOMAIN j.response -> 1 .. Done(j)],
           g \in [DOMAIN j.subqueries -> 1 .. Done(j)] :
        /\ AskedAt(Answered(j), j.asked, f) /\ AskedAt(j.subqueries, j.asked, g)
        /\ \A i \in DOMAIN j.response, l \in DOMAIN j.subqueries : f[i] < g[l]
  BY Zenon DEF OrderInv
<1>2. PICK n, m, d : n = Len(j.subqueries) /\ m = Len(j.response) /\ d = Done(j)
  OBVIOUS
<1>3. /\ n \in Nat /\ n >= 1 /\ m \in Nat
      /\ DOMAIN j.subqueries = 1 .. n /\ DOMAIN j.response = 1 .. m
      /\ DOMAIN k.subqueries = 1 .. n - 1
      /\ \A i \in 1 .. n - 1 : k.subqueries[i] = j.subqueries[i + 1]
      /\ Head(j.subqueries) = j.subqueries[1]
  BY <1>2, TailSeq, SeqFacts
<1>4. /\ \A i \in 1 .. n :
           /\ g[i] \in 1 .. d
           /\ j.asked[g[i]].name = "m"
           /\ j.subqueries[i] = Query(j.asked[g[i]].text)
      /\ \A i, l \in 1 .. n : i < l => g[i] < g[l]
  BY <1>1, <1>2, <1>3, Zenon DEF AskedAt
<1>5. /\ \A i \in 1 .. m :
           /\ f[i] \in 1 .. d
           /\ j.asked[f[i]].name = "m"
           /\ j.response[i].query = Query(j.asked[f[i]].text)
      /\ \A i, l \in 1 .. m : i < l => f[i] < f[l]
      /\ \A i \in 1 .. m, l \in 1 .. n : f[i] < g[l]
  <2>1. \A i \in 1 .. m : f[i] \in 1 .. d
    BY <1>1, <1>2, <1>3
  <2>2. /\ \A i \in DOMAIN j.response :
             /\ j.asked[f[i]].name = "m"
             /\ j.response[i].query = Query(j.asked[f[i]].text)
        /\ \A i, l \in DOMAIN j.response : i < l => f[i] < f[l]
    BY <1>1, Places, ZenonT(40)
  <2>3. \A i \in DOMAIN j.response, l \in DOMAIN j.subqueries : f[i] < g[l]
    BY <1>1
  <2> QED BY <1>3, <2>1, <2>2, <2>3, Zenon
<1> DEFINE h == [i \in 1 .. n - 1 |-> g[i + 1]]
<1>6. h \in [1 .. n - 1 -> 1 .. d] /\ \A i \in 1 .. n - 1 : i + 1 \in 1 .. n /\ h[i] = g[i + 1]
  BY <1>3, <1>4
<1> HIDE DEF h
<1>7. AskedAt(k.subqueries, k.asked, h)
  <2>1. ASSUME NEW i \in DOMAIN k.subqueries
        PROVE  /\ k.asked[h[i]].name = "m"
               /\ k.subqueries[i] = Query(k.asked[h[i]].text)
    <3>1. i \in 1 .. n - 1 /\ i + 1 \in 1 .. n /\ h[i] = g[i + 1]
      BY <1>3, <1>6, Zenon
    <3> QED BY <1>3, <1>4, <3>1, Zenon
  <2>2. ASSUME NEW i \in DOMAIN k.subqueries, NEW l \in DOMAIN k.subqueries, i < l
        PROVE  h[i] < h[l]
    <3>1. /\ i \in 1 .. n - 1 /\ i + 1 \in 1 .. n /\ h[i] = g[i + 1]
          /\ l \in 1 .. n - 1 /\ l + 1 \in 1 .. n /\ h[l] = g[l + 1]
      BY <1>3, <1>6, Zenon
    <3>2. i + 1 < l + 1
      BY <1>3, <2>2, <3>1
    <3> QED BY <1>4, <3>1, <3>2, Zenon
  <2> QED BY <2>1, <2>2, Zenon DEF AskedAt
<1>8. CASE k.response = j.response
  <2>1. f \in [DOMAIN k.response -> 1 .. Done(k)] /\ h \in [DOMAIN k.subqueries -> 1 .. Done(k)]
    BY <1>2, <1>3, <1>6, <1>8
  <2>2. Answered(k) = Answered(j)
    BY <1>8, Zenon DEF Answered
  <2>3. \A i \in DOMAIN k.response, l \in DOMAIN k.subqueries : f[i] < h[l]
    BY <1>3, <1>5, <1>6, <1>8
  <2> QED BY <1>1, <1>7, <2>1, <2>2, <2>3, Zenon DEF OrderInv
<1>9. ASSUME NEW a, k.response = Append(j.response, a), a.query = Head(j.subqueries)
      PROVE  OrderInv(k)
  <2>1. /\ DOMAIN k.response = 1 .. m + 1 /\ k.response[m + 1] = a
        /\ \A i \in 1 .. m : k.response[i] = j.response[i]
    BY <1>2, <1>9, AppendSeq, SeqFacts
  <2> DEFINE e == [i \in 1 .. m + 1 |-> IF i \in 1 .. m THEN f[i] ELSE g[1]]
  <2>2. /\ \A i \in 1 .. m : e[i] = f[i]
        /\ e[m + 1] = g[1] /\ 1 \in 1 .. n
        /\ \A i \in 1 .. m + 1 : i \in 1 .. m \/ i = m + 1
    BY <1>3
  <2>3. e \in [1 .. m + 1 -> 1 .. d]
    BY <1>4, <1>5, <2>2
  <2> HIDE DEF e
  <2>4. AskedAt(Answered(k), k.asked, e)
    <3>1. ASSUME NEW i \in DOMAIN k.response
          PROVE  /\ k.asked[e[i]].name = "m"
                 /\ k.response[i].query = Query(k.asked[e[i]].text)
      <4>1. CASE i \in 1 .. m
        BY <1>5, <2>1, <2>2, <4>1
      <4>2. CASE i = m + 1
        BY <1>3, <1>4, <1>9, <2>1, <2>2, <4>2
      <4> QED BY <2>1, <2>2, <4>1, <4>2
    <3>2. ASSUME NEW i \in DOMAIN k.response, NEW l \in DOMAIN k.response, i < l
          PROVE  e[i] < e[l]
      <4>1. i \in 1 .. m
        BY <1>3, <2>1, <3>2
      <4>2. CASE l \in 1 .. m
        BY <1>5, <2>2, <3>2, <4>1, <4>2
      <4>3. CASE l = m + 1
        BY <1>5, <2>2, <4>1, <4>3
      <4> QED BY <2>1, <2>2, <4>2, <4>3
    <3>3. /\ e \in [DOMAIN k.response -> 1 .. Done(k)]
          /\ h \in [DOMAIN k.subqueries -> 1 .. Done(k)]
      BY <1>2, <1>3, <1>6, <2>1, <2>3
    <3> QED BY <3>1, <3>2, <3>3, Places, Zenon
  <2>5. ASSUME NEW i \in DOMAIN k.response, NEW l \in DOMAIN k.subqueries
        PROVE  e[i] < h[l]
    <3>1. l + 1 \in 1 .. n /\ h[l] = g[l + 1] /\ 1 < l + 1
      <4>1. l \in 1 .. n - 1
        BY <1>3
      <4>2. l + 1 \in 1 .. n /\ h[l] = g[l + 1]
        BY <1>6, <4>1, Zenon
      <4>3. 1 < l + 1
        BY <1>3, <4>1
      <4> QED BY <4>2, <4>3
    <3>2. CASE i \in 1 .. m
      BY <1>5, <2>2, <3>1, <3>2
    <3>3. CASE i = m + 1
      BY <1>4, <2>2, <3>1, <3>3
    <3> QED BY <2>1, <2>2, <3>2, <3>3
  <2>6. e \in [DOMAIN k.response -> 1 .. Done(k)] /\ h \in [DOMAIN k.subqueries -> 1 .. Done(k)]
    BY <1>2, <1>3, <1>6, <2>1, <2>3
  <2> QED BY <1>7, <2>4, <2>5, <2>6, Zenon DEF OrderInv
<1> QED BY <1>8, <1>9

\* A part that is a subquery is prepared.
PartPrepared(j, k) ==
  LET q == Query(Head(j.parts).text)
  IN  /\ Head(j.parts).name = "m" /\ q.metric \in Names
      /\ k.subqueries = Append(j.subqueries, q)

\* A part that can be answered is not lost.
PartKept(j, k) ==
  LET part == Head(j.parts)
  IN  part.name = "m" /\ Answerable(part.text) /\ part.text.metric \in j.known =>
        \/ \E i \in DOMAIN k.subqueries : k.subqueries[i] = Query(part.text)
        \/ k.missed

\* A part has been dealt with: a limit was set, a subquery prepared, or
\* neither.
LEMMA PartInv ==
  ASSUME NEW metrics, NEW tables, NEW j, JobInv(j, metrics, tables),
         j.pc \in {"parts", "find"}, j.parts # << >>,
         NEW k, SameRequest(j, k), k.pc = "parts", k.parts = Tail(j.parts),
         LimitSet(j, k), k.response = j.response,
         k.subqueries = j.subqueries \/ PartPrepared(j, k),
         j.missed => k.missed, PartKept(j, k)
  PROVE  JobInv(k, metrics, tables)
<1> DEFINE part == Head(j.parts)
           d == Done(j)
<1>1. JobType(j) /\ RangeInv(j) /\ GrowthInv(j, metrics, tables)
      /\ AnsweredFrom(j, tables) /\ KeptInv(j) /\ OrderInv(j)
  BY DEF JobInv
<1>2. /\ Done(k) = d + 1 /\ j.asked[d + 1] = part /\ d \in Nat
      /\ d + 1 \in 1 .. Len(j.asked)
      /\ IsSeq(k.parts) /\ Len(k.parts) <= Len(k.asked)
      /\ \A i \in 1 .. Len(k.parts) : k.parts[i] = k.asked[Done(k) + i]
  <2>1. k.asked = j.asked /\ k.parts = Tail(j.parts)
    BY DEF SameRequest
  <2>2. d \in Nat
    BY <1>1, Counts
  <2>3. PartRead(j, k)
    BY <1>1, <2>1, PartDone
  <2> QED BY <2>2, <2>3, Zenon DEF PartRead
<1>3. /\ IsSeq(j.subqueries) /\ DOMAIN k.subqueries = 1 .. Len(k.subqueries)
      /\ IsSeq(k.subqueries)
      /\ \A i \in DOMAIN k.subqueries : k.subqueries[i].metric \in Names
      /\ \A i \in DOMAIN j.subqueries : /\ i \in DOMAIN k.subqueries
                                       /\ k.subqueries[i] = j.subqueries[i]
  <2>1. IsSeq(j.subqueries) /\ \A i \in DOMAIN j.subqueries : j.subqueries[i].metric \in Names
    BY <1>1 DEF JobType
  <2>2. CASE k.subqueries = j.subqueries
    BY <2>1, <2>2, SeqFacts
  <2>3. CASE PartPrepared(j, k)
    <3>1. PICK q : q.metric \in Names /\ k.subqueries = Append(j.subqueries, q)
      BY <2>3 DEF PartPrepared
    <3>2. \A i \in DOMAIN k.subqueries : k.subqueries[i].metric \in Names
      BY <2>1, <3>1, AppendedMetrics
    <3>3. Len(j.subqueries) \in Nat /\ DOMAIN j.subqueries = 1 .. Len(j.subqueries)
      BY <2>1, SeqFacts
    <3>4. IsSeq(k.subqueries) /\ DOMAIN k.subqueries = 1 .. Len(j.subqueries) + 1
          /\ DOMAIN k.subqueries = 1 .. Len(k.subqueries)
      BY <2>1, <3>1, AppendSeq, SeqFacts
    <3>5. \A i \in 1 .. Len(j.subqueries) : k.subqueries[i] = j.subqueries[i]
      BY <2>1, <3>1, AppendSeq
    <3> QED BY <2>1, <3>2, <3>3, <3>4, <3>5
  <2> QED BY <2>2, <2>3
<1>4. JobType(k)
  <2>1. k.start \in 0 .. TimeMod - 1 /\ k.end \in 0 .. TimeMod - 1
    <3>1. /\ j.now \in 0 .. Half - 1
          /\ j.start \in 0 .. TimeMod - 1 /\ j.end \in 0 .. TimeMod - 1
      BY <1>1 DEF JobType
    <3>2. part.name \in {"start", "end"} => part.time.size \in Nat
      BY <1>1, <1>2 DEF JobType
    <3>3. part.name \in {"start", "end"} =>
            Minus(j.now, ParseTime(part.time)) \in 0 .. TimeMod - 1
      BY <3>1, <3>2, AgoInRange
    <3> QED BY <3>1, <3>3 DEF LimitSet
  <2>2. /\ IsSeq(k.asked) /\ IsSeq(k.response) /\ k.response = << >>
        /\ k.now \in 0 .. Half - 1
        /\ \A i \in 1 .. Len(k.asked) :
             k.asked[i].name \in {"start", "end"} => k.asked[i].time.size \in Nat
    BY <1>1 DEF JobType, SameRequest
  <2>3. \A i \in DOMAIN k.response : k.response[i].query.metric \in Names
    BY <2>2, EmptyIsSeq, SeqFacts
  <2>4. DOMAIN k = JobFields
    BY DEF SameRequest
  <2> QED BY <1>2, <1>3, <2>1, <2>2, <2>3, <2>4 DEF JobType
<1>5. RangeInv(k)
  BY <1>1, RangeGoesOn DEF SameRequest
<1>6. GrowthInv(k, metrics, tables) /\ AnsweredFrom(k, tables)
  BY <1>1, AnsweredUnchanged, GrowthUnchanged
<1>7. KeptInv(k)
  <2> SUFFICES ASSUME NEW i \in 1 .. d + 1,
                      j.asked[i].name = "m", Answerable(j.asked[i].text),
                      j.asked[i].text.metric \in j.known
               PROVE  LET q == Query(j.asked[i].text)
                      IN  \/ \E n \in DOMAIN k.response : k.response[n] .query = q
                          \/ \E n \in DOMAIN k.subqueries : k.subqueries[n] = q
                          \/ k.missed
    BY <1>2 DEF KeptInv, SameRequest
  <2>1. i \in 1 .. d \/ i = d + 1
    BY <1>2
  <2>2. CASE i \in 1 .. d
    BY <1>1, <1>3, <2>2 DEF KeptInv
  <2>3. CASE i = d + 1
    BY <1>2, <2>3 DEF PartKept
  <2> QED BY <2>1, <2>2, <2>3
<1>8. OrderInv(k)
  <2>1. k.asked = j.asked /\ Done(j) \in Nat /\ Done(k) = Done(j) + 1
    BY <1>2 DEF SameRequest
  <2>2. CASE k.subqueries = j.subqueries
    <3>1. Done(k) \in Nat /\ Done(j) <= Done(k)
      BY <2>1
    <3> QED BY <1>1, <2>1, <2>2, <3>1, OrderKept
  <2>3. CASE PartPrepared(j, k)
    <3>1. PICK q : /\ q = Query(part.text) /\ part.name = "m"
                   /\ k.subqueries = Append(j.subqueries, q)
      BY <2>3 DEF PartPrepared
    <3>2. j.asked[Done(k)] = part
      BY <1>2
    <3> HIDE DEF part
    <3> QED BY <1>1, <1>3, <2>1, <3>1, <3>2, OrderPrepared
  <2> QED BY <2>2, <2>3
<1> QED BY <1>4, <1>5, <1>6, <1>7, <1>8 DEF JobInv

\* A statement was run, or dropped.
LEMMA SubqueryInv ==
  ASSUME NEW metrics, NEW tables, NEW j, JobInv(j, metrics, tables),
         j.pc = "execute", j.subqueries # << >>,
         NEW k, SameRequest(j, k), k.pc = "execute",
         k.parts = j.parts, k.start = j.start, k.end = j.end,
         k.missed = j.missed, k.subqueries = Tail(j.subqueries),
         LET q == Head(j.subqueries)
             rows == tables[q.metric]
         IN  \/ k.response = j.response /\ ~ q.statement
             \/ \E a : /\ k.response = Append(j.response, a) /\ a.query = q
                      /\ a.results = Select(q, Signed(j.start), Signed(j.end), rows),
         \A n \in Names : IsSeq(tables[n])
  PROVE  JobInv(k, metrics, tables)
<1> DEFINE q == Head(j.subqueries)
<1>1. JobType(j) /\ RangeInv(j) /\ GrowthInv(j, metrics, tables)
      /\ AnsweredFrom(j, tables) /\ KeptInv(j) /\ OrderInv(j)
  BY DEF JobInv
<1>2. Done(k) = Done(j) /\ RelativeOnly(k) = RelativeOnly(j)
  BY Zenon DEF Done, SameRequest, RelativeOnly
<1>3. /\ IsSeq(j.subqueries) /\ q.metric \in Names /\ IsSeq(j.response)
      /\ \A i \in DOMAIN j.subqueries : j.subqueries[i].metric \in Names
      /\ \A i \in DOMAIN j.response : j.response[i].query.metric \in Names
  <2>1. /\ IsSeq(j.subqueries) /\ IsSeq(j.response)
        /\ \A i \in DOMAIN j.subqueries : j.subqueries[i].metric \in Names
        /\ \A i \in DOMAIN j.response : j.response[i].query.metric \in Names
    BY <1>1 DEF JobType
  <2>2. q = j.subqueries[1] /\ 1 \in DOMAIN j.subqueries
    BY <2>1, TailSeq, SeqFacts
  <2> QED BY <2>1, <2>2
<1>4. /\ IsSeq(k.subqueries)
      /\ \A i \in DOMAIN j.subqueries :
           \/ j.subqueries[i] = q
           \/ \E n \in DOMAIN k.subqueries : k.subqueries[n] = j.subqueries[i]
      /\ \A i \in DOMAIN k.subqueries : k.subqueries[i].metric \in Names
  <2>1. /\ IsSeq(k.subqueries) /\ Len(k.subqueries) = Len(j.subqueries) - 1
        /\ \A i \in 1 .. Len(j.subqueries) - 1 : k.subqueries[i] = j.subqueries[i + 1]
        /\ q = j.subqueries[1]
    BY <1>3, TailSeq
  <2>2. /\ DOMAIN k.subqueries = 1 .. Len(j.subqueries) - 1
        /\ DOMAIN j.subqueries = 1 .. Len(j.subqueries) /\ Len(j.subqueries) \in Nat
    BY <1>3, <2>1, SeqFacts
  <2>3. \A i \in DOMAIN k.subqueries : /\ i + 1 \in DOMAIN j.subqueries
                                      /\ k.subqueries[i] = j.subqueries[i + 1]
    BY <2>1, <2>2
  <2>4. ASSUME NEW i \in DOMAIN j.subqueries, j.subqueries[i] # q
        PROVE  \E n \in DOMAIN k.subqueries : k.subqueries[n] = j.subqueries[i]
    <3>1. i \in 1 .. Len(j.subqueries) /\ i # 1
      BY <2>1, <2>2, <2>4
    <3>2. i - 1 \in DOMAIN k.subqueries /\ (i - 1) + 1 = i
      BY <2>2, <3>1
    <3> QED BY <2>3, <3>2
  <2> QED BY <1>3, <2>1, <2>3, <2>4
<1>5. /\ IsSeq(k.response)
      /\ \A i \in DOMAIN j.response : /\ i \in DOMAIN k.response
                                     /\ k.response[i] = j.response[i]
      /\ \A i \in DOMAIN k.response :
           \/ i \in DOMAIN j.response /\ k.response[i] = j.response[i]
           \/ /\ k.response[i].query = q
              /\ k.response[i].results =
                   Select(q, Signed(j.start), Signed(j.end), tables[q.metric])
      /\ q.statement => \E i \in DOMAIN k.response : k.response[i].query = q
  <2>1. CASE k.response = j.response /\ ~ q.statement
    BY <1>3, <2>1
  <2>2. ASSUME NEW a, k.response = Append(j.response, a), a.query = q,
               a.results = Select(q, Signed(j.start), Signed(j.end), tables[q.metric])
        PROVE  <1>5!1
    <3>1. /\ IsSeq(k.response) /\ Len(k.response) = Len(j.response) + 1
          /\ \A i \in 1 .. Len(j.response) : k.response[i] = j.response[i]
          /\ k.response[Len(j.response) + 1] = a
      BY <1>3, <2>2, AppendSeq
    <3>2. /\ DOMAIN j.response = 1 .. Len(j.response) /\ Len(j.response) \in Nat
          /\ DOMAIN k.response = 1 .. Len(j.response) + 1
      BY <1>3, <3>1, SeqFacts
    <3> QED BY <2>2, <3>1, <3>2
  <2> QED BY <2>1, <2>2
<1>6. JobType(k)
  <2>1. /\ IsSeq(k.asked) /\ IsSeq(k.parts) /\ Len(k.parts) <= Len(k.asked)
        /\ \A i \in 1 .. Len(k.parts) : k.parts[i] = k.asked[Done(k) + i]
        /\ k.parts = << >>
    BY <1>1, <1>2 DEF JobType, SameRequest
  <2>2. /\ k.now \in 0 .. Half - 1
        /\ k.start \in 0 .. TimeMod - 1 /\ k.end \in 0 .. TimeMod - 1
        /\ \A i \in 1 .. Len(k.asked) :
             k.asked[i].name \in {"start", "end"} => k.asked[i].time.size \in Nat
        /\ DOMAIN k = JobFields
    BY <1>1 DEF JobType, SameRequest
  <2>3. \A i \in DOMAIN k.response : k.response[i].query.metric \in Names
    BY <1>3, <1>5
  <2> QED BY <1>4, <1>5, <2>1, <2>2, <2>3 DEF JobType
<1>7. RangeInv(k)
  <2>1. \A name, n, default : Limit(k, name, n, default) = Limit(j, name, n, default)
    BY Zenon DEF Limit, SameRequest
  <2> QED BY <1>1, <1>2, <2>1 DEF RangeInv, SameRequest
<1>8. GrowthInv(k, metrics, tables)
  BY <1>1, GrowthUnchanged
<1>9. AnsweredFrom(k, tables)
  <2> DEFINE from == Limit(j, "start", Len(j.asked), 0)
             to == Limit(j, "end", Len(j.asked), j.now)
             Fine(a) == \E n \in Len(j.rows[a.query.metric]) .. Len(tables[a.query.metric]) :
                          a.results = Select(a.query, from, to,
                                             SubSeq(tables[a.query.metric], 1, n))
  <2> SUFFICES ASSUME RelativeOnly(j), NEW i \in DOMAIN k.response
               PROVE  Fine(k.response[i])
    BY <1>2, Zenon DEF AnsweredFrom, Limit, SameRequest
  <2>1. CASE i \in DOMAIN j.response /\ k.response[i] = j.response[i]
    <3>1. \A n \in DOMAIN j.response : Fine(j.response[n])
      BY <1>1, Zenon DEF AnsweredFrom
    <3> HIDE DEF Fine
    <3> QED BY <2>1, <3>1
  <2>2. CASE /\ k.response[i].query = q
             /\ k.response[i].results =
                  Select(q, Signed(j.start), Signed(j.end), tables[q.metric])
    <3> DEFINE rows == tables[q.metric]
    <3>1. Done(j) = Len(j.asked)
      BY <1>1, Counts DEF JobType
    <3>2. Signed(j.start) = from /\ Signed(j.end) = to
      BY <1>1, <3>1, Zenon DEF RangeInv
    <3>3. IsSeq(rows) /\ Len(rows) \in Nat
      BY <1>3, SeqFacts
    <3>4. SubSeq(rows, 1, Len(rows)) = rows
      <4>1. rows \in Seq(Range(rows))
        BY <3>3 DEF IsSeq
      <4> HIDE DEF rows
      <4> QED BY <4>1, SubSeqFull
    <3>5. Len(j.rows[q.metric]) \in Nat /\ Len(j.rows[q.metric]) <= Len(rows)
      BY <1>1, <1>3 DEF GrowthInv
    <3>6. Len(rows) \in Len(j.rows[q.metric]) .. Len(rows)
      BY <3>3, <3>5
    <3>7. k.response[i].results =
            Select(q, from, to, SubSeq(rows, 1, Len(rows)))
      BY <2>2, <3>2, <3>4, Zenon
    <3> QED BY <2>2, <3>6, <3>7, Zenon
  <2> QED BY <1>5, <2>1, <2>2
<1>10. KeptInv(k)
  <2> SUFFICES ASSUME NEW i \in 1 .. Done(j),
                      j.asked[i].name = "m", Answerable(j.asked[i].text),
                      j.asked[i].text.metric \in j.known
               PROVE  LET p == Query(j.asked[i].text)
                      IN  \/ \E n \in DOMAIN k.response : k.response[n] .query = p
                          \/ \E n \in DOMAIN k.subqueries : k.subqueries[n] = p
                          \/ k.missed
    BY <1>2 DEF KeptInv, SameRequest
  <2> DEFINE p == Query(j.asked[i].text)
  <2>1. \/ \E n \in DOMAIN j.response : j.response[n] .query = p
        \/ \E n \in DOMAIN j.subqueries : j.subqueries[n] = p
        \/ j.missed
    BY <1>1 DEF KeptInv
  <2>2. p.statement
    BY DEF Answerable, Query
  <2> HIDE DEF p
  <2>3. \/ \E n \in DOMAIN k.response : k.response[n] .query = p
        \/ \E n \in DOMAIN k.subqueries : k.subqueries[n] = p
        \/ k.missed
    BY <1>4, <1>5, <2>1, <2>2
  <2> QED BY <2>3 DEF p
<1>11. OrderInv(k)
  <2>1. \/ k.response = j.response
        \/ \E a : k.response = Append(j.response, a) /\ a.query = q
    OBVIOUS
  <2> QED BY <1>1, <1>2, <1>3, <2>1, OrderAnswered DEF SameRequest
<1> QED BY <1>6, <1>7, <1>8, <1>9, <1>10, <1>11 DEF JobInv

\* At most one row has come to each table.
OneMore(tables, tables2) ==
  \A n \in Names :
    /\ IsSeq(tables[n])
    /\ tables2[n] = tables[n] \/ \E x : tables2[n] = Append(tables[n], x)

\* A worker goes on to its next phase, or the datastore gets a row or a
\* database.
LEMMA PhaseInv ==
  ASSUME NEW metrics, NEW tables, NEW j, JobInv(j, metrics, tables),
         NEW metrics2, metrics \subseteq metrics2, NEW tables2,
         OneMore(tables, tables2), NEW k, SameRequest(j, k),
         k.parts = j.parts, k.start = j.start, k.end = j.end,
         k.subqueries = j.subqueries, k.response = j.response, k.missed = j.missed,
         \/ k.pc = j.pc
         \/ /\ k.pc = "find" /\ j.pc = "parts"
            /\ j.parts # << >> /\ Head(j.parts).name = "m"
         \/ k.pc = "execute" /\ j.pc = "parts" /\ j.parts = << >>
         \/ k.pc = "idle" /\ j.pc = "execute" /\ j.subqueries = << >>
  PROVE  JobInv(k, metrics2, tables2)
<1>1. JobType(j) /\ RangeInv(j) /\ GrowthInv(j, metrics, tables)
      /\ AnsweredFrom(j, tables) /\ KeptInv(j) /\ OrderInv(j)
  BY DEF JobInv
<1>2. Done(k) = Done(j) /\ RelativeOnly(k) = RelativeOnly(j)
  BY Zenon DEF Done, SameRequest, RelativeOnly
<1>3. JobType(k)
  <2>1. /\ IsSeq(k.asked) /\ IsSeq(k.parts) /\ Len(k.parts) <= Len(k.asked)
        /\ \A i \in 1 .. Len(k.parts) : k.parts[i] = k.asked[Done(k) + i]
    BY <1>1, <1>2 DEF JobType, SameRequest
  <2>2. /\ k.now \in 0 .. Half - 1
        /\ k.start \in 0 .. TimeMod - 1 /\ k.end \in 0 .. TimeMod - 1
        /\ \A i \in 1 .. Len(k.asked) :
             k.asked[i].name \in {"start", "end"} => k.asked[i].time.size \in Nat
        /\ DOMAIN k = JobFields
    BY <1>1 DEF JobType, SameRequest
  <2>3. /\ IsSeq(k.subqueries) /\ IsSeq(k.response)
        /\ \A i \in DOMAIN k.subqueries : k.subqueries[i].metric \in Names
        /\ \A i \in DOMAIN k.response : k.response[i].query.metric \in Names
    BY <1>1 DEF JobType
  <2>4. /\ k.pc \in {"idle", "parts", "find", "execute"}
        /\ k.pc = "find" => k.parts # << >> /\ Head(k.parts).name = "m"
        /\ k.pc \in {"idle", "execute"} => k.parts = << >>
        /\ k.pc = "idle" => k.subqueries = << >>
        /\ k.pc \in {"parts", "find"} => k.response = << >>
    BY <1>1, Zenon DEF JobType
  <2> QED BY <2>1, <2>2, <2>3, <2>4 DEF JobType
<1>4. RangeInv(k)
  <2>1. \A name, n, default : Limit(k, name, n, default) = Limit(j, name, n, default)
    BY Zenon DEF Limit, SameRequest
  <2> QED BY <1>1, <1>2, <2>1 DEF RangeInv, SameRequest
<1>5. ASSUME NEW n \in Names
      PROVE  /\ Len(tables[n]) \in Nat /\ Len(tables2[n]) \in Nat
             /\ Len(tables[n]) <= Len(tables2[n])
             /\ \A m \in Nat : m <= Len(tables[n]) =>
                  SubSeq(tables2[n], 1, m) = SubSeq(tables[n], 1, m)
  <2>1. IsSeq(tables[n]) /\ Len(tables[n]) \in Nat
    BY <1>5, SeqFacts DEF OneMore
  <2>2. CASE tables2[n] = tables[n]
    BY <2>1, <2>2
  <2>3. ASSUME NEW x, tables2[n] = Append(tables[n], x)
        PROVE  <1>5!2
    <3>1. Len(tables2[n]) = Len(tables[n]) + 1
      BY <2>1, <2>3, AppendSeq
    <3>2. \A m \in Nat : m <= Len(tables[n]) =>
            SubSeq(tables2[n], 1, m) = SubSeq(tables[n], 1, m)
      BY <2>1, <2>3, PrefixOfAppend
    <3> QED BY <2>1, <3>1, <3>2
  <2> QED BY <1>5, <2>2, <2>3 DEF OneMore
<1>6. GrowthInv(k, metrics2, tables2)
  <2>1. k.known \subseteq metrics2
    BY <1>1 DEF GrowthInv, SameRequest
  <2>2. ASSUME NEW n \in Names
        PROVE  Len(k.rows[n]) \in Nat /\ Len(k.rows[n]) <= Len(tables2[n])
    <3>1. Len(k.rows[n]) \in Nat /\ Len(k.rows[n]) <= Len(tables[n])
      BY <1>1 DEF GrowthInv, SameRequest
    <3> QED BY <1>5, <3>1
  <2> QED BY <2>1, <2>2 DEF GrowthInv
<1>7. AnsweredFrom(k, tables2)
  <2> DEFINE from == Limit(j, "start", Len(j.asked), 0)
             to == Limit(j, "end", Len(j.asked), j.now)
             Fine(a, t) == \E n \in Len(j.rows[a.query.metric]) .. Len(t[a.query.metric]) :
                             a.results = Select(a.query, from, to,
                                                SubSeq(t[a.query.metric], 1, n))
  <2>a. SUFFICES ASSUME RelativeOnly(j), NEW i \in DOMAIN k.response
                 PROVE  Fine(k.response[i], tables2)
    BY <1>2, Zenon DEF AnsweredFrom, Limit, SameRequest
  <2>b. SUFFICES Fine(j.response[i], tables2)
    BY Zenon
  <2>c. i \in DOMAIN j.response
    BY <2>a
  <2> DEFINE m == j.response[i].query.metric
  <2>1. m \in Names
    BY <1>1, <2>c DEF JobType
  <2>2. Len(j.rows[m]) \in Nat
    BY <1>1, <2>1 DEF GrowthInv
  <2>3. PICK n \in Len(j.rows[m]) .. Len(tables[m]) :
          j.response[i].results = Select(j.response[i].query, from, to,
                                         SubSeq(tables[m], 1, n))
    BY <1>1, <2>a, <2>c, Zenon DEF AnsweredFrom
  <2> HIDE DEF m
  <2>4. n \in Len(j.rows[m]) .. Len(tables2[m]) /\ n \in Nat /\ n <= Len(tables[m])
    BY <1>5, <2>1, <2>2
  <2>5. SubSeq(tables2[m], 1, n) = SubSeq(tables[m], 1, n)
    BY <1>5, <2>1, <2>4
  <2>6. j.response[i].results = Select(j.response[i].query, from, to,
                                       SubSeq(tables2[m], 1, n))
    <3> HIDE DEF from, to
    <3> QED BY <2>3, <2>5
  <2>7. \E l \in Len(j.rows[m]) .. Len(tables2[m]) :
          j.response[i].results = Select(j.response[i].query, from, to,
                                         SubSeq(tables2[m], 1, l))
    BY <2>4, <2>6, Zenon
  <2> QED BY <2>7, Zenon DEF m
<1>8. KeptInv(k)
  BY <1>1, <1>2, Zenon DEF KeptInv, SameRequest
<1>9. OrderInv(k)
  <2>1. Answered(k) = Answered(j)
    BY Zenon DEF Answered
  <2> QED BY <1>1, <1>2, <2>1, Zenon DEF OrderInv, SameRequest
<1> QED BY <1>3, <1>4, <1>6, <1>7, <1>8, <1>9 DEF JobInv

LEMMA BegunInv ==
  ASSUME NEW k, DOMAIN k = JobFields, IsSeq(k.asked),
         \A i \in 1 .. Len(k.asked) :
           k.asked[i].name \in {"start", "end"} => k.asked[i].time.size \in Nat,
         \A n \in Names : IsSeq(k.rows[n]),
         k.now \in 0 .. Half - 1,
         k.pc = "parts" \/ (k.pc = "idle" /\ k.asked = << >>),
         k.parts = k.asked, k.start = 0, k.end = k.now,
         k.subqueries = << >>, k.response = << >>
  PROVE  JobInv(k, k.known, k.rows)
<1> DEFINE request == k.asked
           time == k.now
<1>1. Len(request) \in Nat
  BY SeqFacts
<1>2. Done(k) = 0
  <2> DEFINE a == Len(request)
  <2>1. a \in Nat /\ Done(k) = a - a
    BY <1>1, Zenon DEF Done
  <2> HIDE DEF a
  <2> QED BY <2>1
<1>3. 0 \in 0 .. TimeMod - 1 /\ time \in 0 .. TimeMod - 1
      /\ Signed(0) = 0 /\ Signed(time) = time
  BY HalfFacts DEF Signed
<1>4. JobType(k)
  <2>1. DOMAIN k.subqueries = {} /\ DOMAIN k.response = {}
        /\ IsSeq(k.subqueries) /\ IsSeq(k.response)
    BY EmptyIsSeq
  <2>2. \A i \in 1 .. Len(k.parts) : k.parts[i] = k.asked[Done(k) + i]
    BY <1>1, <1>2
  <2>3. Len(k.parts) <= Len(k.asked)
    BY <1>1
  <2> QED BY <1>3, <2>1, <2>2, <2>3 DEF JobType
<1>5. RangeInv(k)
  <2>1. \A name, default : Limit(k, name, 0, default) = default
    BY LastPartNone DEF Limit
  <2> QED BY <1>2, <1>3, <2>1 DEF RangeInv
<1>6. GrowthInv(k, k.known, k.rows)
  <2>1. \A n \in Names : Len(k.rows[n]) \in Nat
    BY SeqFacts
  <2> QED BY <2>1 DEF GrowthInv
<1>7. AnsweredFrom(k, k.rows)
  BY EmptyIsSeq DEF AnsweredFrom
<1>8. KeptInv(k)
  BY <1>2 DEF KeptInv
<1>9. OrderInv(k)
  <2> DEFINE none == [i \in {} |-> 1]
  <2>1. DOMAIN k.response = {} /\ DOMAIN k.subqueries = {} /\ DOMAIN Answered(k) = {}
    BY DEF Answered
  <2>2. none \in [{} -> 1 .. Done(k)]
    OBVIOUS
  <2> HIDE DEF none
  <2>3. AskedAt(Answered(k), k.asked, none) /\ AskedAt(k.subqueries, k.asked, none)
    BY <2>1, Zenon DEF AskedAt
  <2> QED BY <2>1, <2>2, <2>3, Zenon DEF OrderInv
<1> QED BY <1>4, <1>5, <1>6, <1>7, <1>8, <1>9 DEF JobInv

-----------------------------------------------------------------------------
(* The invariant is inductive.                                             *)

LEMMA Continues ==
  ASSUME IInv, NEW w \in Workers, NEW j, Continue(w, j), alive,
         JobInv(j, store, table)
  PROVE  IInv'
<1>1. /\ job' = [job EXCEPT ![w] = j] /\ DOMAIN job = Workers
      /\ UNCHANGED <<store, linking, table, alive>>
  BY DEF Continue, IInv, StoreInv
<1>2. StoreInv'
  BY <1>1 DEF IInv, StoreInv
<1>3. ASSUME NEW v \in Workers PROVE JobInv(job'[v], store', table')
  <2>1. JobInv(job[v], store, table) /\ job'[v] = IF v = w THEN j ELSE job[v]
    BY <1>1, <1>3 DEF IInv
  <2> QED BY <1>1, <2>1, Zenon
<1> QED BY <1>2, <1>3, Zenon DEF IInv

LEMMA BeginRequestStep ==
  ASSUME IInv, NEW w \in Workers, NEW request \in Requests, NEW time \in Times,
         BeginRequest(w, request, time)
  PROVE  IInv'
<1> DEFINE k == Begun(request, time)
<1>1. Continue(w, k) /\ alive
  BY DEF BeginRequest, At
<1>2. request \in Seq(Parts)
  BY QueryAssumption
<1>3. \A i \in 1 .. Len(request) : request[i] \in Parts
  BY <1>2, ElementOfSeq
<1>4. /\ IsSeq(request) /\ time \in 0 .. Half - 1
      /\ \A i \in 1 .. Len(request) :
           request[i].name \in {"start", "end"} => request[i].time.size \in Nat
  BY <1>2, <1>3, Elements, QueryAssumption
<1>5. \A n \in Names : IsSeq(table[n])
  BY DEF IInv, StoreInv
<1>6. /\ DOMAIN k = JobFields /\ k.pc = "parts"
      /\ k.parts = request /\ k.asked = request /\ k.now = time
      /\ k.start = 0 /\ k.end = time /\ k.subqueries = << >> /\ k.response = << >>
      /\ k.known = store /\ k.rows = table
  BY DEF Begun, JobFields
<1> HIDE DEF k
<1>7. JobInv(k, k.known, k.rows)
  <2>1. /\ IsSeq(k.asked) /\ k.now \in 0 .. Half - 1
        /\ \A i \in 1 .. Len(k.asked) :
             k.asked[i].name \in {"start", "end"} => k.asked[i].time.size \in Nat
        /\ \A n \in Names : IsSeq(k.rows[n])
    BY <1>4, <1>5, <1>6, Zenon
  <2>2. k.parts = k.asked /\ k.end = k.now
    BY <1>6
  <2> QED BY <1>6, <2>1, <2>2, BegunInv
<1>8. JobInv(k, store, table)
  BY <1>6, <1>7
<1> QED BY <1>1, <1>8, Continues

LEMMA SetStartStep ==
  ASSUME IInv, NEW w \in Workers, SetStart(w)
  PROVE  IInv'
<1> DEFINE j == job[w]
           k == [j EXCEPT !.start = Ago(w), !.parts = Tail(@)]
<1>1. /\ JobInv(j, store, table) /\ DOMAIN j = JobFields
      /\ Continue(w, k) /\ alive /\ j.pc = "parts"
      /\ j.parts # << >> /\ Head(j.parts).name = "start"
  BY DEF IInv, JobInv, JobType, SetStart, NextPart, At, Subquery, Ago
<1>2. /\ SameRequest(j, k) /\ k.pc = "parts" /\ k.parts = Tail(j.parts)
      /\ k.start = Minus(j.now, ParseTime(Head(j.parts).time)) /\ k.end = j.end
      /\ k.response = j.response /\ k.subqueries = j.subqueries /\ k.missed = j.missed
  BY <1>1 DEF SameRequest, JobFields, Ago
<1> HIDE DEF k, j
<1>4. JobInv(k, store, table)
  BY <1>1, <1>2, PartInv DEF LimitSet, PartKept
<1> QED BY <1>1, <1>4, Continues

LEMMA SetEndStep ==
  ASSUME IInv, NEW w \in Workers, SetEnd(w)
  PROVE  IInv'
<1> DEFINE j == job[w]
           k == [j EXCEPT !.end = Ago(w), !.parts = Tail(@)]
<1>1. /\ JobInv(j, store, table) /\ DOMAIN j = JobFields
      /\ Continue(w, k) /\ alive /\ j.pc = "parts"
      /\ j.parts # << >> /\ Head(j.parts).name = "end"
  BY DEF IInv, JobInv, JobType, SetEnd, NextPart, At, Subquery, Ago
<1>2. /\ SameRequest(j, k) /\ k.pc = "parts" /\ k.parts = Tail(j.parts)
      /\ k.end = Minus(j.now, ParseTime(Head(j.parts).time)) /\ k.start = j.start
      /\ k.response = j.response /\ k.subqueries = j.subqueries /\ k.missed = j.missed
  BY <1>1 DEF SameRequest, JobFields, Ago
<1> HIDE DEF k, j
<1>4. JobInv(k, store, table)
  BY <1>1, <1>2, PartInv DEF LimitSet, PartKept
<1> QED BY <1>1, <1>4, Continues

LEMMA PassOverStep ==
  ASSUME IInv, NEW w \in Workers, PassOver(w)
  PROVE  IInv'
<1> DEFINE j == job[w]
           k == [j EXCEPT !.parts = Tail(@)]
<1>1. /\ JobInv(j, store, table) /\ DOMAIN j = JobFields
      /\ Continue(w, k) /\ alive /\ j.pc = "parts"
      /\ j.parts # << >> /\ Head(j.parts).name \notin {"start", "end", "m"}
  BY DEF IInv, JobInv, JobType, PassOver, NextPart, At, Subquery, Ago
<1>2. /\ SameRequest(j, k) /\ k.pc = "parts" /\ k.parts = Tail(j.parts)
      /\ k.end = j.end /\ k.start = j.start
      /\ k.response = j.response /\ k.subqueries = j.subqueries /\ k.missed = j.missed
  BY <1>1 DEF SameRequest, JobFields, Ago
<1> HIDE DEF k, j
<1>4. JobInv(k, store, table)
  BY <1>1, <1>2, PartInv DEF LimitSet, PartKept
<1> QED BY <1>1, <1>4, Continues

LEMMA TablesAreSeqs == ASSUME IInv PROVE \A n \in Names : IsSeq(table[n])
BY DEF IInv, StoreInv

\* A worker's step leaves the tables alone.
LEMMA TablesStay == ASSUME IInv PROVE OneMore(table, table)
BY TablesAreSeqs, Zenon DEF OneMore

LEMMA PrepareStep ==
  ASSUME IInv, NEW w \in Workers, Prepare(w)
  PROVE  IInv'
<1> DEFINE j == job[w]
           q == Subquery(w)
           k == [j EXCEPT !.pc = "parts", !.parts = Tail(@), !.racing = FALSE,
                          !.subqueries = Append(@, q)]
<1>1. /\ JobInv(j, store, table) /\ JobType(j)
      /\ Continue(w, k) /\ alive /\ j.pc = "find"
      /\ q = Query(Head(j.parts).text) /\ q.metric \in Names
  BY DEF IInv, StoreInv, JobInv, Prepare, At, Subquery
<1>2. /\ DOMAIN j = JobFields /\ j.parts # << >> /\ Head(j.parts).name = "m"
      /\ IsSeq(j.subqueries)
  BY <1>1 DEF JobType
<1> HIDE DEF q
<1>3. /\ SameRequest(j, k) /\ k.pc = "parts" /\ k.parts = Tail(j.parts)
      /\ k.start = j.start /\ k.end = j.end /\ k.response = j.response
      /\ k.missed = j.missed /\ k.subqueries = Append(j.subqueries, q)
  BY <1>2 DEF SameRequest, JobFields
<1>4. PartPrepared(j, k) /\ \E i \in DOMAIN k.subqueries : k.subqueries[i] = q
  <2>1. Len(j.subqueries) + 1 \in DOMAIN k.subqueries
    BY <1>2, <1>3, AppendSeq, SeqFacts
  <2> QED BY <1>1, <1>2, <1>3, <2>1, AppendSeq DEF PartPrepared
<1> HIDE DEF k, j
<1>5. JobInv(k, store, table)
  BY <1>1, <1>2, <1>3, <1>4, PartInv DEF LimitSet, PartKept
<1> QED BY <1>1, <1>5, Continues

\* What can be answered is of the metric it names, and SQLite takes it.
LEMMA AnswerablePrepares ==
  ASSUME NEW text, Answerable(text)
  PROVE  Query(text).metric = text.metric /\ Prepares(Query(text))
<1>1. \A f \in ToSet(text.filters) : f.parts = 2 => f.values # {} /\ ~ f.quote
  BY DEF Answerable, ToSet
<1>2. Query(text).parses
  BY <1>1 DEF Query
<1>3. Query(text).metric = text.metric /\ Query(text).aggregator \in Accepted
  BY DEF Answerable, Query
<1> QED BY <1>2, <1>3 DEF Prepares

LEMMA SkipStep ==
  ASSUME IInv, NEW w \in Workers, Skip(w)
  PROVE  IInv'
<1> DEFINE j == job[w]
           q == Subquery(w)
           k == [j EXCEPT !.pc = "parts", !.parts = Tail(@), !.racing = FALSE,
                          !.missed = @ \/ j.racing]
<1>1. /\ JobInv(j, store, table) /\ JobType(j) /\ GrowthInv(j, store, table)
      /\ Continue(w, k) /\ alive /\ j.pc = "find"
      /\ q = Query(Head(j.parts).text)
      /\ q.metric \notin store \/ ~ Prepares(q) \/ j.racing
  BY DEF IInv, JobInv, Skip, At, Subquery
<1>2. DOMAIN j = JobFields /\ j.parts # << >> /\ Head(j.parts).name = "m"
  BY <1>1 DEF JobType
<1> HIDE DEF q
<1>3. /\ SameRequest(j, k) /\ k.pc = "parts" /\ k.parts = Tail(j.parts)
      /\ k.start = j.start /\ k.end = j.end /\ k.response = j.response
      /\ k.missed = (j.missed \/ j.racing) /\ k.subqueries = j.subqueries
  BY <1>2 DEF SameRequest, JobFields
<1> HIDE DEF k, j
<1>4. ASSUME Answerable(Head(j.parts).text), Head(j.parts).text.metric \in j.known
      PROVE  j.racing
  BY <1>1, <1>4, AnswerablePrepares DEF GrowthInv
<1>5. /\ j.missed => k.missed
      /\ Answerable(Head(j.parts).text) /\ Head(j.parts).text.metric \in j.known =>
           k.missed
  BY <1>3, <1>4, Zenon
<1>6. JobInv(k, store, table)
  BY <1>1, <1>2, <1>3, <1>5, PartInv DEF LimitSet, PartKept
<1> QED BY <1>1, <1>6, Continues

LEMMA DropStep ==
  ASSUME IInv, NEW w \in Workers, Drop(w)
  PROVE  IInv'
<1> DEFINE j == job[w]
           k == [j EXCEPT !.subqueries = Tail(@)]
<1>1. /\ JobInv(j, store, table) /\ DOMAIN j = JobFields
      /\ Continue(w, k) /\ alive /\ j.pc = "execute"
      /\ j.subqueries # << >> /\ ~ Head(j.subqueries).statement
  BY DEF IInv, JobInv, JobType, Drop, AtSubquery, At, Next1
<1>2. /\ SameRequest(j, k) /\ k.pc = "execute" /\ k.parts = j.parts
      /\ k.start = j.start /\ k.end = j.end /\ k.response = j.response
      /\ k.missed = j.missed /\ k.subqueries = Tail(j.subqueries)
  BY <1>1 DEF SameRequest, JobFields
<1> HIDE DEF k, j
<1>3. JobInv(k, store, table)
  BY <1>1, <1>2, TablesAreSeqs, SubqueryInv
<1> QED BY <1>1, <1>3, Continues

LEMMA ExecuteStep ==
  ASSUME IInv, NEW w \in Workers, Execute(w)
  PROVE  IInv'
<1> DEFINE j == job[w]
           q == Next1(w)
           answer == [query |-> q, results |-> Results(w),
                      dps |-> Decimate(Downsampler(q.downsampler), Results(w))]
           k == [j EXCEPT !.subqueries = Tail(@), !.response = Append(@, answer)]
<1>1. /\ JobInv(j, store, table) /\ DOMAIN j = JobFields
      /\ Continue(w, k) /\ alive /\ j.pc = "execute"
      /\ j.subqueries # << >> /\ q = Head(j.subqueries)
  BY DEF IInv, JobInv, JobType, Execute, AtSubquery, At, Next1
<1>2. answer.query = Head(j.subqueries)
      /\ answer.results = Select(Head(j.subqueries), Signed(j.start), Signed(j.end),
                                 table[Head(j.subqueries).metric])
  BY <1>1 DEF Results
<1> HIDE DEF answer
<1>3. /\ SameRequest(j, k) /\ k.pc = "execute" /\ k.parts = j.parts
      /\ k.start = j.start /\ k.end = j.end
      /\ k.missed = j.missed /\ k.subqueries = Tail(j.subqueries)
      /\ k.response = Append(j.response, answer)
  BY <1>1 DEF SameRequest, JobFields
<1> HIDE DEF k, j, q
<1>4. JobInv(k, store, table)
  BY <1>1, <1>2, <1>3, TablesAreSeqs, SubqueryInv
<1> QED BY <1>1, <1>4, Continues

LEMMA BeginFindStep ==
  ASSUME IInv, NEW w \in Workers, BeginFind(w)
  PROVE  IInv'
<1> DEFINE j == job[w]
           k == [j EXCEPT !.pc = "find", !.racing = linking # {}]
<1>1. /\ JobInv(j, store, table) /\ DOMAIN j = JobFields
      /\ Continue(w, k) /\ alive /\ j.pc = "parts"
      /\ j.parts # << >> /\ Head(j.parts).name = "m"
  BY DEF IInv, JobInv, JobType, BeginFind, NextPart, AtSubquery, At
<1>2. /\ SameRequest(j, k) /\ k.pc = "find"
      /\ k.parts = j.parts /\ k.start = j.start /\ k.end = j.end
      /\ k.subqueries = j.subqueries /\ k.response = j.response
      /\ k.missed = j.missed
  BY <1>1 DEF SameRequest, JobFields
<1> HIDE DEF k, j
<1>3. JobInv(k, store, table)
  BY <1>1, <1>2, TablesStay, PhaseInv
<1> QED BY <1>1, <1>3, Continues

LEMMA EndPartsStep ==
  ASSUME IInv, NEW w \in Workers, EndParts(w)
  PROVE  IInv'
<1> DEFINE j == job[w]
           k == [j EXCEPT !.pc = "execute"]
<1>1. /\ JobInv(j, store, table) /\ DOMAIN j = JobFields
      /\ Continue(w, k) /\ alive /\ j.pc = "parts"
      /\ j.parts = << >>
  BY DEF IInv, JobInv, JobType, EndParts, NextPart, AtSubquery, At
<1>2. /\ SameRequest(j, k) /\ k.pc = "execute"
      /\ k.parts = j.parts /\ k.start = j.start /\ k.end = j.end
      /\ k.subqueries = j.subqueries /\ k.response = j.response
      /\ k.missed = j.missed
  BY <1>1 DEF SameRequest, JobFields
<1> HIDE DEF k, j
<1>3. JobInv(k, store, table)
  BY <1>1, <1>2, TablesStay, PhaseInv
<1> QED BY <1>1, <1>3, Continues

LEMMA RespondStep ==
  ASSUME IInv, NEW w \in Workers, Respond(w)
  PROVE  IInv'
<1> DEFINE j == job[w]
           k == [j EXCEPT !.pc = "idle"]
<1>1. /\ JobInv(j, store, table) /\ DOMAIN j = JobFields
      /\ Continue(w, k) /\ alive /\ j.pc = "execute"
      /\ j.subqueries = << >>
  BY DEF IInv, JobInv, JobType, Respond, AtResponse, At
<1>2. /\ SameRequest(j, k) /\ k.pc = "idle"
      /\ k.parts = j.parts /\ k.start = j.start /\ k.end = j.end
      /\ k.subqueries = j.subqueries /\ k.response = j.response
      /\ k.missed = j.missed
  BY <1>1 DEF SameRequest, JobFields
<1> HIDE DEF k, j
<1>3. JobInv(k, store, table)
  BY <1>1, <1>2, TablesStay, PhaseInv
<1> QED BY <1>1, <1>3, Continues

\* A worker that dies changes nothing else.
LEMMA DieStep ==
  ASSUME IInv, Die
  PROVE  IInv'
<1>1. UNCHANGED <<store, linking, table, job>> /\ alive' = FALSE
  BY DEF Die
<1>2. StoreInv'
  BY <1>1 DEF IInv, StoreInv
<1>3. \A v \in Workers : JobInv(job'[v], store', table')
  BY <1>1, Zenon DEF IInv
<1> QED BY <1>2, <1>3, Zenon DEF IInv

\* The datastore changes nothing of a job but whether it races.
LEMMA DatastoreInv ==
  ASSUME IInv, alive, alive' = alive, StoreInv', store \subseteq store',
         \A n \in Names :
           table'[n] = table[n] \/ \E x : table'[n] = Append(table[n], x),
         \/ job' = job
         \/ job' = [w \in Workers |-> [job[w] EXCEPT !.racing = @ \/ At(w, "find")]]
  PROVE  IInv'
<1>1. ASSUME NEW w \in Workers PROVE JobInv(job'[w], store', table')
  <2>1. PICK j : j = job[w]
    OBVIOUS
  <2>2. PICK k : k = job'[w]
    OBVIOUS
  <2>3. PICK metrics2 : metrics2 = store'
    OBVIOUS
  <2>4. PICK tables2 : tables2 = table'
    OBVIOUS
  <2>5. JobInv(j, store, table) /\ DOMAIN j = JobFields
    BY <2>1 DEF IInv, JobInv, JobType
  <2>6. k = j \/ k = [j EXCEPT !.racing = @ \/ At(w, "find")]
    BY <2>1, <2>2
  <2>7. /\ SameRequest(j, k) /\ k.pc = j.pc
        /\ k.parts = j.parts /\ k.start = j.start /\ k.end = j.end
        /\ k.subqueries = j.subqueries /\ k.response = j.response
        /\ k.missed = j.missed
    <3>1. CASE k = j
      BY <2>5, <3>1 DEF SameRequest
    <3>2. CASE k = [j EXCEPT !.racing = @ \/ At(w, "find")]
      BY <2>5, <3>2 DEF SameRequest, JobFields
    <3> QED BY <2>6, <3>1, <3>2
  <2>8. store \subseteq metrics2 /\ OneMore(table, tables2)
    BY <2>3, <2>4, TablesAreSeqs, Zenon DEF OneMore
  <2>9. JobInv(k, metrics2, tables2)
    BY <2>5, <2>7, <2>8, PhaseInv
  <2> QED BY <2>2, <2>3, <2>4, <2>9, Zenon
<1> QED BY <1>1, Zenon DEF IInv

LEMMA DatastoreStep ==
  ASSUME IInv, Datastore
  PROVE  IInv'
<1>1. alive /\ StoreInv
  BY DEF Datastore, IInv
<1>2. ASSUME NEW n \in Names, BeginInsert(n) PROVE IInv'
  <2>1. UNCHANGED <<store, table, alive>> /\ linking' = {n}
        /\ job' = [w \in Workers |-> [job[w] EXCEPT !.racing = @ \/ At(w, "find")]]
    BY <1>2 DEF BeginInsert
  <2>2. StoreInv'
    BY <1>1, <2>1 DEF StoreInv
  <2> QED BY <1>1, <2>1, <2>2, DatastoreInv
<1>3. ASSUME EndInsert PROVE IInv'
  <2>1. UNCHANGED <<table, job, alive>> /\ linking' = {} /\ store' = store \cup linking
    BY <1>3 DEF EndInsert
  <2>2. StoreInv'
    BY <1>1, <2>1 DEF StoreInv
  <2> QED BY <1>1, <2>1, <2>2, DatastoreInv
<1>4. ASSUME NEW line \in Lines, WriteMetric(line) PROVE IInv'
  <2> DEFINE n == Metric(line).name
             x == Row(Metric(line))
  <2>1. /\ UNCHANGED <<store, linking, job, alive>>
        /\ n \in store /\ Len(table[n]) < MaxRows
        /\ table' = [table EXCEPT ![n] = Append(@, x)]
    BY <1>4 DEF WriteMetric
  <2> HIDE DEF n, x
  <2>2. /\ n \in Names /\ DOMAIN table = Names
        /\ \A m \in Names : IsSeq(table[m]) /\ Len(table[m]) <= MaxRows
    BY <1>1, <2>1 DEF StoreInv
  <2>3. /\ DOMAIN table' = Names
        /\ \A m \in Names : table'[m] = IF m = n THEN Append(table[m], x) ELSE table[m]
    BY <2>1, <2>2
  <2>4. IsSeq(Append(table[n], x)) /\ Len(Append(table[n], x)) <= MaxRows
    <3>1. IsSeq(Append(table[n], x)) /\ Len(Append(table[n], x)) = Len(table[n]) + 1
      BY <2>2, AppendSeq
    <3>2. Len(table[n]) \in Nat
      BY <2>2, SeqFacts
    <3> DEFINE a == Len(table[n])
               b == Len(Append(table[n], x))
    <3>3. a < MaxRows /\ a \in Nat /\ b = a + 1 /\ MaxRows \in Nat
      BY <2>1, <3>1, <3>2, QueryAssumption
    <3> HIDE DEF a, b
    <3>4. b <= MaxRows
      BY <3>3
    <3> QED BY <3>1, <3>4, Zenon DEF b
  <2>5. \A m \in Names : IsSeq(table'[m]) /\ Len(table'[m]) <= MaxRows
    BY <2>2, <2>3, <2>4
  <2>6. StoreInv'
    BY <1>1, <2>1, <2>3, <2>5 DEF StoreInv
  <2>7. \A m \in Names :
          table'[m] = table[m] \/ \E y : table'[m] = Append(table[m], y)
    BY <2>3, Zenon
  <2> QED BY <1>1, <2>1, <2>6, <2>7, DatastoreInv
<1> QED BY <1>2, <1>3, <1>4 DEF Datastore

-----------------------------------------------------------------------------
(* The values of rows, subqueries and answers.                             *)

LEMMA TailElements ==
  ASSUME NEW s, IsSeq(s), s # << >>, NEW i \in DOMAIN Tail(s)
  PROVE  \E k \in DOMAIN s : Tail(s)[i] = s[k]
<1>1. /\ IsSeq(Tail(s)) /\ Len(Tail(s)) = Len(s) - 1
      /\ \A k \in 1 .. Len(s) - 1 : Tail(s)[k] = s[k + 1]
  BY TailSeq
<1>2. /\ DOMAIN Tail(s) = 1 .. Len(Tail(s)) /\ DOMAIN s = 1 .. Len(s)
      /\ Len(s) \in Nat
  BY <1>1, SeqFacts
<1>3. PICK n : n = Len(s)
  OBVIOUS
<1>4. i \in 1 .. n - 1 /\ n \in Nat /\ DOMAIN s = 1 .. n
  BY <1>1, <1>2, <1>3
<1>5. Tail(s)[i] = s[i + 1] /\ i + 1 \in DOMAIN s
  BY <1>1, <1>3, <1>4
<1> QED BY <1>5

LEMMA AppendElements ==
  ASSUME NEW s, IsSeq(s), NEW x, NEW i \in DOMAIN Append(s, x)
  PROVE  Append(s, x)[i] = x \/ \E k \in DOMAIN s : Append(s, x)[i] = s[k]
<1>1. /\ IsSeq(Append(s, x)) /\ Len(Append(s, x)) = Len(s) + 1
      /\ \A k \in 1 .. Len(s) : Append(s, x)[k] = s[k]
      /\ Append(s, x)[Len(s) + 1] = x
  BY AppendSeq
<1>2. /\ DOMAIN Append(s, x) = 1 .. Len(Append(s, x)) /\ DOMAIN s = 1 .. Len(s)
      /\ Len(s) \in Nat
  BY <1>1, SeqFacts
<1>3. PICK n : n = Len(s)
  OBVIOUS
<1>4. i \in 1 .. n + 1 /\ n \in Nat /\ DOMAIN s = 1 .. n
  BY <1>1, <1>2, <1>3
<1>5. i = n + 1 \/ i \in DOMAIN s
  BY <1>4
<1> QED BY <1>1, <1>3, <1>4, <1>5

\* The interval of a downsampler is a number without sign, whatever its text.
LEMMA QueryPrepared ==
  ASSUME NEW part, Sized(part), part.name = "m", NEW q, q = Query(part.text),
         q.statement => q.aggregator \in Accepted
  PROVE  Prepared(q)
<1>1. q.downsampler = part.text.downsampler \/ q.downsampler = [parts |-> 0]
  BY DEF Query
<1>2. q.downsampler.parts = 2 => q.downsampler.size \in Nat
  BY <1>1 DEF Sized
<1>3. Downsampler(q.downsampler).interval \in Nat
  <2>1. CASE q.downsampler.parts # 2
    BY <2>1 DEF Downsampler
  <2>2. CASE q.downsampler.parts = 2
    <3>1. Scaled(q.downsampler) \in 0 .. TimeMod - 1
      BY <1>2, <2>2, ScaledInRange
    <3>2. Scaled(q.downsampler) \in Nat
      BY <3>1, HalfFacts
    <3>3. Downsampler(q.downsampler).interval \in {0, Scaled(q.downsampler)}
      BY <2>2 DEF Downsampler
    <3> QED BY <3>2, <3>3
  <2> QED BY <2>1, <2>2
<1> QED BY <1>3 DEF Prepared

\* What a step of a worker leaves of its parts, subqueries and answers.
LEMMA ValueKept ==
  ASSUME NEW j, NEW k, JobType(j), ValueInv(j),
         \/ k.parts = j.parts
         \/ j.parts # << >> /\ k.parts = Tail(j.parts),
         \/ k.subqueries = j.subqueries
         \/ j.subqueries # << >> /\ k.subqueries = Tail(j.subqueries)
         \/ \E q : Prepared(q) /\ k.subqueries = Append(j.subqueries, q),
         \/ k.response = j.response
         \/ \E a : Decimated(a) /\ k.response = Append(j.response, a)
  PROVE  ValueInv(k)
<1>1. IsSeq(j.parts) /\ IsSeq(j.subqueries) /\ IsSeq(j.response)
  BY DEF JobType
<1>2. /\ \A i \in DOMAIN j.parts : Sized(j.parts[i])
      /\ \A i \in DOMAIN j.subqueries : Prepared(j.subqueries[i])
      /\ \A i \in DOMAIN j.response : Decimated(j.response[i])
  BY DEF ValueInv
<1>3. ASSUME NEW i \in DOMAIN k.parts PROVE Sized(k.parts[i])
  <2>1. CASE k.parts = j.parts
    BY <1>2, <2>1
  <2>2. CASE j.parts # << >> /\ k.parts = Tail(j.parts)
    <3>1. PICK l \in DOMAIN j.parts : Tail(j.parts)[i] = j.parts[l]
      BY <1>1, <2>2, TailElements
    <3> QED BY <1>2, <2>2, <3>1
  <2> QED BY <2>1, <2>2
<1>4. ASSUME NEW i \in DOMAIN k.subqueries PROVE Prepared(k.subqueries[i])
  <2>1. CASE k.subqueries = j.subqueries
    BY <1>2, <2>1
  <2>2. CASE j.subqueries # << >> /\ k.subqueries = Tail(j.subqueries)
    <3>1. PICK l \in DOMAIN j.subqueries : Tail(j.subqueries)[i] = j.subqueries[l]
      BY <1>1, <2>2, TailElements
    <3> QED BY <1>2, <2>2, <3>1
  <2>3. ASSUME NEW q, Prepared(q), k.subqueries = Append(j.subqueries, q)
        PROVE  Prepared(k.subqueries[i])
    <3>1. \/ k.subqueries[i] = q
          \/ \E l \in DOMAIN j.subqueries : k.subqueries[i] = j.subqueries[l]
      BY <1>1, <2>3, AppendElements
    <3> QED BY <1>2, <2>3, <3>1
  <2> QED BY <2>1, <2>2, <2>3
<1>5. ASSUME NEW i \in DOMAIN k.response PROVE Decimated(k.response[i])
  <2>1. CASE k.response = j.response
    BY <1>2, <2>1
  <2>2. ASSUME NEW a, Decimated(a), k.response = Append(j.response, a)
        PROVE  Decimated(k.response[i])
    <3>1. \/ k.response[i] = a
          \/ \E l \in DOMAIN j.response : k.response[i] = j.response[l]
      BY <1>1, <2>2, AppendElements
    <3> QED BY <1>2, <2>2, <3>1
  <2> QED BY <2>1, <2>2
<1> QED BY <1>3, <1>4, <1>5, Zenon DEF ValueInv

\* A worker's step changes its own job and no table.
LEMMA WorkerValues ==
  ASSUME IInv, ValuesInv, NEW w \in Workers, NEW k, Continue(w, k), ValueInv(k)
  PROVE  ValuesInv'
<1>1. /\ job' = [job EXCEPT ![w] = k] /\ DOMAIN job = Workers /\ table' = table
  BY DEF Continue, IInv, StoreInv
<1>2. ASSUME NEW v \in Workers PROVE ValueInv(job'[v])
  <2>1. ValueInv(job[v]) /\ job'[v] = IF v = w THEN k ELSE job[v]
    BY <1>1, <1>2 DEF ValuesInv
  <2> QED BY <2>1, Zenon
<1> QED BY <1>1, <1>2, Zenon DEF ValuesInv

-----------------------------------------------------------------------------
(* Values go on.                                                           *)

LEMMA BeginRequestValues ==
  ASSUME IInv, ValuesInv, NEW w \in Workers,
         NEW request \in Requests, NEW time \in Times, BeginRequest(w, request, time)
  PROVE  ValuesInv'
<1> DEFINE k == Begun(request, time)
<1>1. Continue(w, k)
  BY DEF BeginRequest
<1>2. k.parts = request /\ k.subqueries = << >> /\ k.response = << >>
  BY DEF Begun
<1> HIDE DEF k
<1>3. request \in Seq(Parts)
  BY QueryAssumption
<1>4. \A i \in DOMAIN request : request[i] \in Parts
  BY <1>3, ElementOfSeq
<1>5. \A i \in DOMAIN k.parts : Sized(k.parts[i])
  BY <1>2, <1>4, QueryAssumption DEF Sized
<1>6. DOMAIN k.subqueries = {} /\ DOMAIN k.response = {}
  BY <1>2
<1>7. ValueInv(k)
  BY <1>5, <1>6 DEF ValueInv
<1> QED BY <1>1, <1>7, WorkerValues

\* A step that reads a part, or none, and neither prepares nor answers.
LEMMA ReadValues ==
  ASSUME IInv, ValuesInv, NEW w \in Workers, NEW k, Continue(w, k),
         k.parts = job[w].parts \/ (job[w].parts # << >> /\ k.parts = Tail(job[w].parts)),
         k.subqueries = job[w].subqueries, k.response = job[w].response
  PROVE  ValuesInv'
<1>1. JobType(job[w]) /\ ValueInv(job[w])
  BY DEF IInv, JobInv, ValuesInv
<1>2. ValueInv(k)
  BY <1>1, ValueKept
<1> QED BY <1>2, WorkerValues

LEMMA ReadingValues ==
  ASSUME IInv, ValuesInv, NEW w \in Workers,
         \/ SetStart(w) \/ SetEnd(w) \/ PassOver(w) \/ BeginFind(w)
         \/ Skip(w) \/ EndParts(w) \/ Respond(w)
  PROVE  ValuesInv'
<1>1. DOMAIN job[w] = JobFields /\ (job[w].pc = "find" => job[w].parts # << >>)
  BY DEF IInv, JobInv, JobType
<1>2. CASE SetStart(w)
  <2> DEFINE k == [job[w] EXCEPT !.start = Ago(w), !.parts = Tail(@)]
  <2>1. Continue(w, k) /\ job[w].parts # << >>
    BY <1>2 DEF SetStart, NextPart
  <2>2. /\ k.parts = Tail(job[w].parts)
        /\ k.subqueries = job[w].subqueries /\ k.response = job[w].response
    BY <1>1 DEF JobFields
  <2> HIDE DEF k
  <2> QED BY <2>1, <2>2, ReadValues
<1>3. CASE SetEnd(w)
  <2> DEFINE k == [job[w] EXCEPT !.end = Ago(w), !.parts = Tail(@)]
  <2>1. Continue(w, k) /\ job[w].parts # << >>
    BY <1>3 DEF SetEnd, NextPart
  <2>2. /\ k.parts = Tail(job[w].parts)
        /\ k.subqueries = job[w].subqueries /\ k.response = job[w].response
    BY <1>1 DEF JobFields
  <2> HIDE DEF k
  <2> QED BY <2>1, <2>2, ReadValues
<1>4. CASE PassOver(w)
  <2> DEFINE k == [job[w] EXCEPT !.parts = Tail(@)]
  <2>1. Continue(w, k) /\ job[w].parts # << >>
    BY <1>4 DEF PassOver
  <2>2. /\ k.parts = Tail(job[w].parts)
        /\ k.subqueries = job[w].subqueries /\ k.response = job[w].response
    BY <1>1 DEF JobFields
  <2> HIDE DEF k
  <2> QED BY <2>1, <2>2, ReadValues
<1>5. CASE BeginFind(w)
  <2> DEFINE k == [job[w] EXCEPT !.pc = "find", !.racing = linking # {}]
  <2>1. Continue(w, k)
    BY <1>5 DEF BeginFind
  <2>2. /\ k.parts = job[w].parts
        /\ k.subqueries = job[w].subqueries /\ k.response = job[w].response
    BY <1>1 DEF JobFields
  <2> HIDE DEF k
  <2> QED BY <2>1, <2>2, ReadValues
<1>6. CASE Skip(w)
  <2> DEFINE k == [job[w] EXCEPT !.pc = "parts", !.parts = Tail(@),
                               !.racing = FALSE, !.missed = @ \/ job[w].racing]
  <2>1. Continue(w, k) /\ job[w].parts # << >>
    BY <1>1, <1>6 DEF Skip, At
  <2>2. /\ k.parts = Tail(job[w].parts)
        /\ k.subqueries = job[w].subqueries /\ k.response = job[w].response
    BY <1>1 DEF JobFields
  <2> HIDE DEF k
  <2> QED BY <2>1, <2>2, ReadValues
<1>7. CASE EndParts(w)
  <2> DEFINE k == [job[w] EXCEPT !.pc = "execute"]
  <2>1. Continue(w, k)
    BY <1>7 DEF EndParts
  <2>2. /\ k.parts = job[w].parts
        /\ k.subqueries = job[w].subqueries /\ k.response = job[w].response
    BY <1>1 DEF JobFields
  <2> HIDE DEF k
  <2> QED BY <2>1, <2>2, ReadValues
<1>8. CASE Respond(w)
  <2> DEFINE k == [job[w] EXCEPT !.pc = "idle"]
  <2>1. Continue(w, k)
    BY <1>8 DEF Respond
  <2>2. /\ k.parts = job[w].parts
        /\ k.subqueries = job[w].subqueries /\ k.response = job[w].response
    BY <1>1 DEF JobFields
  <2> HIDE DEF k
  <2> QED BY <2>1, <2>2, ReadValues
<1> QED BY <1>2, <1>3, <1>4, <1>5, <1>6, <1>7, <1>8

LEMMA PrepareValues ==
  ASSUME IInv, ValuesInv, NEW w \in Workers, Prepare(w)
  PROVE  ValuesInv'
<1> DEFINE j == job[w]
           q == Subquery(w)
           k == [j EXCEPT !.pc = "parts", !.parts = Tail(@), !.racing = FALSE,
                          !.subqueries = Append(@, q)]
<1>1. /\ JobType(j) /\ ValueInv(j) /\ DOMAIN j = JobFields
      /\ Continue(w, k) /\ j.pc = "find"
      /\ q = Query(Head(j.parts).text)
      /\ q.statement => q.aggregator \in Accepted
  BY DEF IInv, JobInv, JobType, ValuesInv, Prepare, Prepares, At, Subquery
<1> HIDE DEF q
<1>2. /\ j.parts # << >> /\ Head(j.parts).name = "m" /\ IsSeq(j.parts)
  BY <1>1 DEF JobType
<1>3. /\ k.parts = Tail(j.parts) /\ k.subqueries = Append(j.subqueries, q)
      /\ k.response = j.response
  BY <1>1 DEF JobFields
<1> HIDE DEF k, j
<1>4. Sized(Head(j.parts))
  <2>1. Head(j.parts) = j.parts[1] /\ 1 \in DOMAIN j.parts
    BY <1>2, TailSeq, SeqFacts
  <2> QED BY <1>1, <2>1 DEF ValueInv
<1>5. Prepared(q)
  BY <1>1, <1>2, <1>4, QueryPrepared
<1>6. ValueInv(k)
  BY <1>1, <1>2, <1>3, <1>5, ValueKept
<1> QED BY <1>1, <1>6, WorkerValues

LEMMA DropValues ==
  ASSUME IInv, ValuesInv, NEW w \in Workers, Drop(w)
  PROVE  ValuesInv'
<1> DEFINE j == job[w]
           k == [j EXCEPT !.subqueries = Tail(@)]
<1>1. /\ JobType(j) /\ ValueInv(j) /\ DOMAIN j = JobFields
      /\ Continue(w, k) /\ j.subqueries # << >>
  BY DEF IInv, JobInv, JobType, ValuesInv, Drop, AtSubquery
<1>2. /\ k.parts = j.parts /\ k.subqueries = Tail(j.subqueries)
      /\ k.response = j.response
  BY <1>1 DEF JobFields
<1> HIDE DEF k, j
<1>3. ValueInv(k)
  BY <1>1, <1>2, ValueKept
<1> QED BY <1>1, <1>3, WorkerValues

\* ResultSet::Execute gets a series, whatever the table holds by then.
LEMMA ResultsAreSeries ==
  ASSUME IInv, ValuesInv, NEW w \in Workers,
         AtSubquery(w), Next1(w).statement
  PROVE  /\ Prepared(Next1(w)) /\ Next1(w).aggregator \in Accepted
         /\ Next1(w).metric \in Names
         /\ IsSeq(table[Next1(w).metric]) /\ IsTable(table[Next1(w).metric])
         /\ IsSeries(Results(w))
<1>1. PICK j, q, rows : j = job[w] /\ q = Next1(w) /\ rows = table[q.metric]
  OBVIOUS
<1>2. JobType(j) /\ ValueInv(j) /\ j.subqueries # << >> /\ q = Head(j.subqueries)
  BY <1>1 DEF IInv, JobInv, ValuesInv, AtSubquery, Next1
<1>3. q = j.subqueries[1] /\ 1 \in DOMAIN j.subqueries
  BY <1>2, TailSeq, SeqFacts DEF JobType
<1>4. Prepared(q) /\ q.metric \in Names /\ q.statement
  BY <1>1, <1>2, <1>3 DEF ValueInv, JobType
<1>5. IsSeq(rows) /\ IsTable(rows)
  BY <1>1, <1>4 DEF IInv, StoreInv, ValuesInv
<1>6. q.aggregator \in Accepted
  BY <1>4 DEF Prepared
<1>7. IsSeries(Select(q, Signed(job[w].start), Signed(job[w].end), rows))
  BY <1>5, <1>6, SelectIsRight
<1> QED BY <1>1, <1>4, <1>5, <1>6, <1>7 DEF Results

LEMMA ExecuteValues ==
  ASSUME IInv, ValuesInv, NEW w \in Workers, Execute(w)
  PROVE  ValuesInv'
<1> DEFINE j == job[w]
           q == Next1(w)
           ds == Downsampler(q.downsampler)
           answer == [query |-> q, results |-> Results(w),
                      dps |-> Decimate(ds, Results(w))]
           k == [j EXCEPT !.subqueries = Tail(@), !.response = Append(@, answer)]
<1>1. /\ JobType(j) /\ ValueInv(j) /\ DOMAIN j = JobFields
      /\ Continue(w, k) /\ j.subqueries # << >>
      /\ AtSubquery(w) /\ q.statement /\ ~ DereferencesEnd(ds, Results(w))
  BY DEF IInv, JobInv, JobType, ValuesInv, Execute, AtSubquery
<1>2. Prepared(q) /\ IsSeries(Results(w))
  BY <1>1, ResultsAreSeries
<1>3. /\ answer.query = q /\ answer.results = Results(w)
      /\ answer.dps = Decimate(ds, Results(w))
  OBVIOUS
<1> HIDE DEF answer
<1>4. Decimated(answer)
  BY <1>1, <1>2, <1>3 DEF Decimated
<1>5. /\ k.parts = j.parts /\ k.subqueries = Tail(j.subqueries)
      /\ k.response = Append(j.response, answer)
  BY <1>1 DEF JobFields
<1> HIDE DEF k, j
<1>6. ValueInv(k)
  BY <1>1, <1>4, <1>5, ValueKept
<1> QED BY <1>1, <1>6, WorkerValues

LEMMA MetricOfNumbers ==
  ASSUME NEW name, NEW timestamp \in Nat, NEW value \in Values, NEW tags,
         NEW m, m = MetricOf(name, timestamp, value, tags), m # NotAMetric
  PROVE  /\ m.row.timestamp \in Nat /\ m.row.value \in Values
         /\ DOMAIN m.row = {"timestamp", "value", "tags"}
<1>1. m.row = [timestamp |-> Unsigned(timestamp), value |-> value, tags |-> tags]
  BY DEF MetricOf
<1>2. Unsigned(timestamp) \in Nat
  BY HalfFacts DEF Unsigned
<1> QED BY <1>1, <1>2

\* Metric reads numbers, which WriteMetric converts to an int64_t.
LEMMA RowIsTyped ==
  ASSUME NEW line, Metric(line).ok
  PROVE  Row(Metric(line)).timestamp \in Int /\ Row(Metric(line)).value \in Values
<1>1. PICK m : m = Metric(line)
  OBVIOUS
<1>2. /\ \A t \in DOMAIN Number : Number[t] \in Nat /\ Number[t] \in Values
      /\ 0 \in Values
  BY TimeSeriesAssumption DEF Values, Range
<1>3. /\ m.row.timestamp \in Nat /\ m.row.value \in Values
      /\ DOMAIN m.row = {"timestamp", "value", "tags"}
  <2>1. ASSUME Len(line) = 1 PROVE FALSE
    BY <1>1, <2>1 DEF Metric, NotAMetric
  <2>2. ~ (Len(line) <= 1) /\ m # NotAMetric
    BY <1>1 DEF Metric, NotAMetric
  <2>3. CASE Len(line) = 2
    <3>1. /\ line[1] \in DOMAIN Number
          /\ m = MetricOf(line[1], 0, Number[line[1]], <<line[2]>>)
      BY <1>1, <2>2, <2>3 DEF Metric
    <3>2. 0 \in Nat /\ Number[line[1]] \in Values
      BY <1>2, <3>1
    <3> QED BY <2>2, <3>1, <3>2, MetricOfNumbers
  <2>4. CASE Len(line) = 3
    <3>1. line[2] \in DOMAIN Number /\ m = MetricOf(line[1], Number[line[2]], 0, line)
      BY <1>1, <2>2, <2>4 DEF Metric
    <3>2. Number[line[2]] \in Nat /\ 0 \in Values
      BY <1>2, <3>1
    <3> QED BY <2>2, <3>1, <3>2, MetricOfNumbers
  <2>5. CASE ~ Len(line) \in {1, 2, 3}
    <3>1. /\ line[2] \in DOMAIN Number /\ line[3] \in DOMAIN Number
          /\ m = MetricOf(line[1], Number[line[2]], Number[line[3]],
                          SubSeq(line, 4, Len(line)))
      BY <1>1, <2>2, <2>5 DEF Metric
    <3>2. Number[line[2]] \in Nat /\ Number[line[3]] \in Values
      BY <1>2, <3>1
    <3> QED BY <2>2, <3>1, <3>2, MetricOfNumbers
  <2> QED BY <2>1, <2>3, <2>4, <2>5, Zenon
<1>4. Row(m).timestamp = Signed(m.row.timestamp) /\ Row(m).value = m.row.value
  BY <1>3 DEF Row
<1>5. Signed(m.row.timestamp) \in Int
  BY <1>3, HalfFacts DEF Signed
<1> QED BY <1>1, <1>3, <1>4, <1>5

LEMMA DatastoreValues ==
  ASSUME IInv, ValuesInv, Datastore
  PROVE  ValuesInv'
<1>1. ASSUME NEW n \in Names, BeginInsert(n) PROVE ValuesInv'
  <2>1. /\ table' = table /\ DOMAIN job = Workers
        /\ job' = [w \in Workers |-> [job[w] EXCEPT !.racing = @ \/ At(w, "find")]]
    BY <1>1 DEF BeginInsert, IInv, StoreInv
  <2>2. ASSUME NEW w \in Workers PROVE ValueInv(job'[w])
    <3>1. PICK j, k : j = job[w] /\ k = job'[w]
      OBVIOUS
    <3>2. JobType(j) /\ ValueInv(j) /\ DOMAIN j = JobFields
      BY <3>1 DEF IInv, JobInv, JobType, ValuesInv
    <3>3. k = [j EXCEPT !.racing = @ \/ At(w, "find")]
      BY <2>1, <3>1
    <3>4. /\ k.parts = j.parts /\ k.subqueries = j.subqueries
          /\ k.response = j.response
      BY <3>2, <3>3 DEF JobFields
    <3>5. ValueInv(k)
      BY <3>2, <3>4, ValueKept
    <3> QED BY <3>1, <3>5
  <2> QED BY <2>1, <2>2, Zenon DEF ValuesInv
<1>2. ASSUME EndInsert PROVE ValuesInv'
  BY <1>2, Zenon DEF EndInsert, ValuesInv
<1>3. ASSUME NEW line \in Lines, WriteMetric(line) PROVE ValuesInv'
  <2> DEFINE n == Metric(line).name
             x == Row(Metric(line))
  <2>1. /\ job' = job /\ table' = [table EXCEPT ![n] = Append(@, x)]
        /\ DOMAIN table = Names /\ Metric(line).ok
    BY <1>3 DEF WriteMetric, IInv, StoreInv
  <2>2. x.timestamp \in Int /\ x.value \in Values
    BY <2>1, RowIsTyped
  <2> HIDE DEF n, x
  <2>3. ASSUME NEW m \in Names PROVE IsTable(table'[m])
    <3>1. PICK rows : rows = table[m]
      OBVIOUS
    <3>2. IsSeq(rows) /\ IsTable(rows)
      BY <3>1 DEF IInv, StoreInv, ValuesInv
    <3>3. table'[m] = rows \/ table'[m] = Append(rows, x)
      BY <2>1, <3>1
    <3>4. IsTable(Append(rows, x))
      <4>1. ASSUME NEW i \in DOMAIN Append(rows, x)
            PROVE  /\ Append(rows, x)[i].timestamp \in Int
                   /\ Append(rows, x)[i].value \in Values
        <5>1. \/ Append(rows, x)[i] = x
              \/ \E l \in DOMAIN rows : Append(rows, x)[i] = rows[l]
          BY <3>2, AppendElements
        <5> QED BY <2>2, <3>2, <5>1 DEF IsTable
      <4> QED BY <4>1 DEF IsTable
    <3> QED BY <3>2, <3>3, <3>4
  <2>4. \A w \in Workers : ValueInv(job'[w])
    BY <2>1 DEF ValuesInv
  <2> QED BY <2>3, <2>4, Zenon DEF ValuesInv
<1> QED BY <1>1, <1>2, <1>3 DEF Datastore

LEMMA ValuesBegin == Init => ValuesInv
<1> SUFFICES ASSUME Init PROVE ValuesInv
  OBVIOUS
<1>1. ASSUME NEW n \in Names PROVE IsTable(table[n])
  <2>1. DOMAIN table[n] = {}
    BY DEF Init
  <2> QED BY <2>1 DEF IsTable
<1>2. ASSUME NEW w \in Workers PROVE ValueInv(job[w])
  <2>1. PICK k : k = job[w]
    OBVIOUS
  <2>2. k = [Begun(<< >>, 0) EXCEPT !.pc = "idle"]
    BY <2>1 DEF Init
  <2>3. k.parts = << >> /\ k.subqueries = << >> /\ k.response = << >>
    BY <2>2 DEF Begun
  <2>4. DOMAIN k.parts = {} /\ DOMAIN k.subqueries = {} /\ DOMAIN k.response = {}
    BY <2>3
  <2>5. ValueInv(k)
    BY <2>4 DEF ValueInv
  <2> QED BY <2>1, <2>5
<1> QED BY <1>1, <1>2 DEF ValuesInv

LEMMA ValuesStep == IInv /\ ValuesInv /\ [Next]_vars => ValuesInv'
<1> SUFFICES ASSUME IInv, ValuesInv, [Next]_vars PROVE ValuesInv'
  OBVIOUS
<1>1. CASE Datastore
  BY <1>1, DatastoreValues
<1>2. ASSUME NEW w \in Workers, Worker(w) PROVE ValuesInv'
  <2>1. CASE Die
    BY <2>1, Zenon DEF Die, ValuesInv
  <2>2. CASE DieOfNoQuery(w) \/ DieOfNoResult(w) \/ DieOfFormat(w)
    BY <2>1, <2>2 DEF DieOfNoQuery, DieOfNoResult, DieOfFormat
  <2> QED BY <1>2, <2>2, BeginRequestValues, ReadingValues, PrepareValues,
             DropValues, ExecuteValues, Zenon DEF Worker
<1>3. CASE UNCHANGED vars
  BY <1>3, Zenon DEF vars, ValuesInv
<1> QED BY <1>1, <1>2, <1>3 DEF Next

-----------------------------------------------------------------------------
(* The theorems.                                                           *)

\* Before its first request a worker has answered nothing.
LEMMA Initially == Init => IInv
<1> SUFFICES ASSUME Init PROVE IInv
  OBVIOUS
<1>1. StoreInv
  <2>1. \A n \in Names : table[n] = << >>
    BY DEF Init
  <2>2. \A n \in Names : IsSeq(table[n]) /\ Len(table[n]) <= MaxRows
    <3>1. ASSUME NEW s, s = << >>, NEW a, a = Len(s)
          PROVE  IsSeq(s) /\ a <= MaxRows
      <4>1. a = 0 /\ IsSeq(s)
        BY <3>1, EmptyIsSeq
      <4>2. MaxRows \in Nat
        BY QueryAssumption
      <4>3. a <= MaxRows
        BY <4>1, <4>2
      <4> QED BY <4>1, <4>3
    <3> QED BY <2>1, <3>1
  <2> QED BY <2>2 DEF Init, StoreInv
<1>2. ASSUME NEW w \in Workers PROVE JobInv(job[w], store, table)
  <2>1. PICK k : k = job[w]
    OBVIOUS
  <2>2. k = [Begun(<< >>, 0) EXCEPT !.pc = "idle"]
    BY <2>1 DEF Init
  <2>3. /\ DOMAIN k = JobFields /\ k.pc = "idle" /\ k.asked = << >>
        /\ k.parts = k.asked /\ k.start = 0 /\ k.end = k.now /\ k.now = 0
        /\ k.subqueries = << >> /\ k.response = << >>
        /\ k.known = store /\ k.rows = table
    BY <2>2 DEF Begun, JobFields
  <2>4. \A n \in Names : IsSeq(k.rows[n])
    BY <1>1, <2>3 DEF StoreInv
  <2>5. IsSeq(k.asked) /\ k.now \in 0 .. Half - 1
    BY <2>3, EmptyIsSeq, HalfFacts
  <2>6. \A i \in 1 .. Len(k.asked) :
          k.asked[i].name \in {"start", "end"} => k.asked[i].time.size \in Nat
    BY <2>3
  <2>7. JobInv(k, k.known, k.rows)
    BY <2>3, <2>4, <2>5, <2>6, BegunInv
  <2> QED BY <2>1, <2>3, <2>7
<1> QED BY <1>1, <1>2, Zenon DEF IInv

LEMMA Steps == IInv /\ [Next]_vars => IInv'
<1> SUFFICES ASSUME IInv, [Next]_vars PROVE IInv'
  OBVIOUS
<1>1. CASE Datastore
  BY <1>1, DatastoreStep
<1>2. ASSUME NEW w \in Workers, Worker(w) PROVE IInv'
  <2>1. CASE DieOfNoQuery(w) \/ DieOfNoResult(w) \/ DieOfFormat(w)
    BY <2>1, DieStep DEF DieOfNoQuery, DieOfNoResult, DieOfFormat
  <2> QED
    BY <1>2, <2>1, BeginRequestStep, SetStartStep, SetEndStep, PassOverStep,
       BeginFindStep, PrepareStep, SkipStep, EndPartsStep, DropStep,
       ExecuteStep, RespondStep, Zenon DEF Worker
<1>3. CASE UNCHANGED vars
  <2>1. UNCHANGED <<store, linking, table, job, alive>>
    BY <1>3 DEF vars
  <2>2. StoreInv'
    BY <2>1 DEF IInv, StoreInv
  <2>3. \A w \in Workers : JobInv(job'[w], store', table')
    BY <2>1, Zenon DEF IInv
  <2> QED BY <2>2, <2>3, Zenon DEF IInv
<1> QED BY <1>1, <1>2, <1>3 DEF Next

\* ApiQueryHandler on every worker and the datastore thread keep the
\* inductive invariant: the range is that of the parts read so far, what was
\* answered is of the table, and what was prepared is not lost.
THEOREM Invariance == Spec => []IInv
BY Initially, Steps, PTL DEF Spec

\* The range of a request is always a pair of 64-bit numbers without sign.
THEOREM TypeCorrect == Spec => []TypeOK
<1>1. IInv => TypeOK
  BY DEF IInv, StoreInv, JobInv, JobType, TypeOK
<1> QED BY <1>1, Invariance, PTL

\* The tables hold values that were read, every statement that is prepared has
\* a column SQLite can make, and every answer is downsampled from what was
\* selected.
THEOREM ValuesInvariance == Spec => [](IInv /\ ValuesInv)
<1>1. IInv /\ ValuesInv /\ [Next]_vars => (IInv /\ ValuesInv)'
  BY Steps, ValuesStep
<1> QED BY Initially, ValuesBegin, <1>1, PTL DEF Spec

\* A table had only numbers before as well.
LEMMA PrefixIsTable ==
  ASSUME NEW rows, IsSeq(rows), IsTable(rows), NEW n \in Nat, n <= Len(rows)
  PROVE  IsSeq(SubSeq(rows, 1, n)) /\ IsTable(SubSeq(rows, 1, n))
<1>1. \A i \in 1 .. n : rows[i] \in Range(rows) /\ i \in DOMAIN rows
  BY SeqFacts DEF Range
<1>2. PICK prefix : prefix = SubSeq(rows, 1, n)
  OBVIOUS
<1>3. /\ prefix \in Seq(Range(rows)) /\ Len(prefix) = n
      /\ \A i \in 1 .. n : prefix[i] = rows[i]
  BY <1>1, <1>2, SubSeqProperties
<1>4. IsSeq(prefix)
  BY <1>3, Elements
<1>5. DOMAIN prefix = 1 .. n
  BY <1>3, <1>4, SeqFacts
<1>6. IsTable(prefix)
  BY <1>1, <1>3, <1>5 DEF IsTable
<1> QED BY <1>2, <1>4, <1>6

\* What ApiQueryHandler answers is what each query selects in the range asked
\* for, in one state of the table since the request began.
THEOREM Current == Spec => []AnswersAreCurrent
<1>1. IInv /\ ValuesInv => AnswersAreCurrent
  <2> SUFFICES ASSUME IInv, ValuesInv, NEW w \in Workers, RelativeOnly(job[w]),
                      NEW k \in DOMAIN job[w].response
               PROVE  LET j == job[w]
                          a == j.response[k]
                          rows == table[a.query.metric]
                      IN  \E n \in Len(j.rows[a.query.metric]) .. Len(rows) :
                            Selected(a.query, Limit(j, "start", Len(j.asked), 0),
                                     Limit(j, "end", Len(j.asked), j.now),
                                     SubSeq(rows, 1, n), a.results)
    BY Zenon DEF AnswersAreCurrent
  <2>1. PICK j, a, rows, from, to :
          /\ j = job[w] /\ a = j.response[k] /\ rows = table[a.query.metric]
          /\ from = Limit(j, "start", Len(j.asked), 0)
          /\ to = Limit(j, "end", Len(j.asked), j.now)
    OBVIOUS
  <2>2. /\ JobType(j) /\ GrowthInv(j, store, table) /\ AnsweredFrom(j, table)
        /\ ValueInv(j)
    BY <2>1 DEF IInv, JobInv, ValuesInv
  <2>3. a.query.metric \in Names /\ Decimated(a)
    BY <2>1, <2>2 DEF JobType, ValueInv
  <2>4. IsSeq(rows) /\ IsTable(rows) /\ Len(j.rows[a.query.metric]) \in Nat
    BY <2>1, <2>2, <2>3 DEF IInv, StoreInv, ValuesInv, GrowthInv
  <2>5. a.query.aggregator \in Accepted
    BY <2>3 DEF Decimated, Prepared
  <2>6. PICK n \in Len(j.rows[a.query.metric]) .. Len(rows) :
          a.results = Select(a.query, from, to, SubSeq(rows, 1, n))
    BY <2>1, <2>2, Zenon DEF AnsweredFrom
  <2>7. n \in Nat /\ n <= Len(rows)
    BY <2>4, <2>6, SeqFacts
  <2>8. IsSeq(SubSeq(rows, 1, n)) /\ IsTable(SubSeq(rows, 1, n))
    BY <2>4, <2>7, PrefixIsTable
  <2>9. Selected(a.query, from, to, SubSeq(rows, 1, n), a.results)
    BY <2>5, <2>6, <2>8, SelectIsRight
  <2> QED BY <2>1, <2>6, <2>9, Zenon
<1> QED BY <1>1, ValuesInvariance, PTL

\* What Decimate makes of the results of an answer drops none and counts none
\* twice, and the response has a key for each of its points.
THEOREM Downsampling == Spec => []DownsampledAsDocumented
<1>1. ValuesInv => DownsampledAsDocumented
  <2> SUFFICES ASSUME ValuesInv, NEW w \in Workers, NEW k \in DOMAIN job[w].response
               PROVE  LET a == job[w].response[k]
                          ds == Downsampler(a.query.downsampler)
                      IN  /\ IF ds.method = "none" THEN a.dps = a.results
                             ELSE Downsampled(ds, a.results, a.dps)
                          /\ \A m \in 2 .. Len(a.dps) :
                               a.dps[m - 1].timestamp < a.dps[m].timestamp
    BY Zenon DEF DownsampledAsDocumented
  <2>1. PICK a, ds : a = job[w].response[k] /\ ds = Downsampler(a.query.downsampler)
    OBVIOUS
  <2>2. /\ IsSeries(a.results) /\ ~ DereferencesEnd(ds, a.results)
        /\ a.dps = Decimate(ds, a.results) /\ ds.interval \in Nat
    BY <2>1 DEF ValuesInv, ValueInv, Decimated, Prepared
  <2>3. CASE ds.method = "none"
    <3>1. a.dps = a.results
      BY <2>2, <2>3 DEF Decimate
    <3>2. \A m \in 2 .. Len(a.dps) :
            m - 1 \in DOMAIN a.dps /\ m \in DOMAIN a.dps /\ m - 1 < m
      BY <2>2, <3>1 DEF IsSeries
    <3>3. \A m \in 2 .. Len(a.dps) : a.dps[m - 1].timestamp < a.dps[m].timestamp
      BY <2>2, <3>1, <3>2 DEF IsSeries
    <3> QED BY <2>1, <2>3, <3>1, <3>3
  <2>4. CASE ds.method # "none"
    <3>1. ds.method \in Aggregators
      BY <2>1, <2>4 DEF Downsampler
    <3>2. /\ Downsampled(ds, a.results, a.dps)
          /\ \A m \in 2 .. Len(a.dps) : a.dps[m - 1].timestamp < a.dps[m].timestamp
      BY <2>2, <3>1, DecimateIsRight
    <3> QED BY <2>1, <2>4, <3>2
  <2> QED BY <2>3, <2>4
<1> QED BY <1>1, ValuesInvariance, PTL

\* ApiQueryHandler answers every subquery whose text can be answered and whose
\* metric was known when its request began, whatever becomes of the others,
\* unless its search of m_Store raced with an insert.
THEOREM Complete == Spec => []NoSubqueryVanishes
<1>1. IInv => NoSubqueryVanishes
  <2> SUFFICES ASSUME IInv, NEW w \in Workers, job[w].pc = "idle",
                      NEW i \in DOMAIN job[w].asked,
                      job[w].asked[i].name = "m", Answerable(job[w].asked[i].text),
                      job[w].asked[i].text.metric \in job[w].known
               PROVE  \/ \E k \in DOMAIN job[w].response :
                           job[w].response[k].query = Query(job[w].asked[i].text)
                      \/ job[w].missed
    BY Zenon DEF NoSubqueryVanishes
  <2>1. PICK j : j = job[w]
    OBVIOUS
  <2>2. JobType(j) /\ KeptInv(j) /\ j.pc = "idle"
    BY <2>1 DEF IInv, JobInv
  <2>3. j.parts = << >> /\ j.subqueries = << >> /\ IsSeq(j.asked)
    BY <2>2, Zenon DEF JobType
  <2>4. i \in 1 .. Done(j)
    BY <2>1, <2>3, SeqFacts, EmptyIsSeq DEF Done
  <2>5. DOMAIN j.subqueries = {}
    BY <2>3
  <2>6. \/ \E k \in DOMAIN j.response : j.response[k].query = Query(j.asked[i].text)
        \/ j.missed
    BY <2>1, <2>2, <2>4, <2>5, Zenon DEF KeptInv
  <2> QED BY <2>1, <2>6, Zenon
<1> QED BY <1>1, Invariance, PTL

\* The answers of ApiQueryHandler come in the order in which the request asks
\* for them, each for another of its subqueries.
THEOREM InOrder == Spec => []AnswersInOrder
<1>1. IInv => AnswersInOrder
  <2> SUFFICES ASSUME IInv, NEW w \in Workers
               PROVE  \E at \in [DOMAIN job[w].response -> DOMAIN job[w].asked] :
                        AskedAt(Answered(job[w]), job[w].asked, at)
    BY Zenon DEF AnswersInOrder
  <2>1. PICK j : j = job[w]
    OBVIOUS
  <2>2. JobType(j) /\ OrderInv(j)
    BY <2>1 DEF IInv, JobInv
  <2>3. PICK f \in [DOMAIN j.response -> 1 .. Done(j)] :
          AskedAt(Answered(j), j.asked, f)
    BY <2>2, Zenon DEF OrderInv
  <2>4. 1 .. Done(j) \subseteq DOMAIN j.asked
    <3>1. PICK a, b : a = Len(j.asked) /\ b = Len(j.parts)
      OBVIOUS
    <3>2. a \in Nat /\ b \in Nat /\ Done(j) = a - b
      BY <2>2, <3>1, Counts, Zenon DEF Done
    <3>3. DOMAIN j.asked = 1 .. a
      BY <2>2, <3>1, SeqFacts DEF JobType
    <3> QED BY <3>2, <3>3
  <2>5. f \in [DOMAIN j.response -> DOMAIN j.asked]
    BY <2>4
  <2> QED BY <2>1, <2>3, <2>5, Zenon
<1> QED BY <1>1, Invariance, PTL
=============================================================================
