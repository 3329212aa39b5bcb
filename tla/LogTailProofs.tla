----------------------------- MODULE LogTailProofs -----------------------------
(***************************************************************************)
(* What LogTail claims of the way of an entry from the service's channel   *)
(* to the page, for channels, batches and buffers of any length, any       *)
(* number of hub threads and of entries.                                   *)
(***************************************************************************)
EXTENDS LogTail, SequenceTheorems, TLAPS

-----------------------------------------------------------------------------
(* Sequences: what is in one, and how often. *)
Once(s) == \A i, j \in 1 .. Len(s) : s[i] = s[j] => i = j

LEMMA ToSetIs ==
  ASSUME NEW S, NEW s \in Seq(S)
  PROVE  /\ ToSet(s) \subseteq S
         /\ \A i \in 1 .. Len(s) : s[i] \in ToSet(s)
         /\ \A e \in ToSet(s) : \E i \in 1 .. Len(s) : s[i] = e
BY DEF ToSet

LEMMA OnceIs ==
  ASSUME NEW S, NEW s \in Seq(S)
  PROVE  IsInjective(s) <=> Once(s)
BY DEF IsInjective, Once

LEMMA EmptyIs == ToSet(<<>>) = {} /\ Once(<<>>) /\ Len(<<>>) = 0
BY DEF ToSet, Once

LEMMA SingleIs ==
  ASSUME NEW e
  PROVE  ToSet(<<e>>) = {e} /\ Once(<<e>>) /\ Len(<<e>>) = 1 /\ <<e>> # <<>>
BY DEF ToSet, Once

LEMMA ConcatIs ==
  ASSUME NEW S, NEW s \in Seq(S), NEW r \in Seq(S)
  PROVE  /\ s \o r \in Seq(S) /\ Len(s \o r) = Len(s) + Len(r)
         /\ ToSet(s \o r) = ToSet(s) \union ToSet(r)
         /\ Once(s \o r) <=> Once(s) /\ Once(r) /\ ToSet(s) \intersect ToSet(r) = {}
<1> DEFINE c == s \o r
<1>1. /\ c \in Seq(S) /\ Len(c) = Len(s) + Len(r) /\ Len(s) \in Nat /\ Len(r) \in Nat
      /\ \A i \in 1 .. Len(s) : c[i] = s[i]
      /\ \A i \in 1 .. Len(r) : c[Len(s) + i] = r[i]
      /\ \A i \in 1 .. Len(c) : i \in 1 .. Len(s) \/ i - Len(s) \in 1 .. Len(r)
  BY ConcatProperties
<1> HIDE DEF c
<1>2. /\ \A i \in 1 .. Len(s) : s[i] \in ToSet(s)
      /\ \A i \in 1 .. Len(r) : r[i] \in ToSet(r)
      /\ \A i \in 1 .. Len(c) : c[i] \in ToSet(c)
      /\ \A e \in ToSet(s) : \E i \in 1 .. Len(s) : s[i] = e
      /\ \A e \in ToSet(r) : \E i \in 1 .. Len(r) : r[i] = e
      /\ \A e \in ToSet(c) : \E i \in 1 .. Len(c) : c[i] = e
  BY <1>1, ToSetIs
<1>3. ToSet(c) \subseteq ToSet(s) \union ToSet(r)
  <2>1. ASSUME NEW i \in 1 .. Len(c)
        PROVE  c[i] \in ToSet(s) \union ToSet(r)
    <3>1. CASE i \in 1 .. Len(s)
      BY <1>1, <3>1, <1>2
    <3>2. CASE i - Len(s) \in 1 .. Len(r)
      <4>1. c[i] = r[i - Len(s)]
        BY <1>1, <3>2
      <4>2. QED
        BY <3>2, <4>1, <1>2
    <3>3. QED
      BY <1>1, <3>1, <3>2
  <2>2. QED
    BY <1>1, <2>1, <1>2
<1>4. ToSet(s) \subseteq ToSet(c)
  <2>1. ASSUME NEW i \in 1 .. Len(s)
        PROVE  s[i] \in ToSet(c)
    <3>1. i \in 1 .. Len(c) /\ c[i] = s[i]
      BY <1>1
    <3>2. QED
      BY <3>1, <1>2
  <2>2. QED
    BY <2>1, <1>2
<1>5. ToSet(r) \subseteq ToSet(c)
  <2>1. ASSUME NEW i \in 1 .. Len(r)
        PROVE  r[i] \in ToSet(c)
    <3>1. Len(s) + i \in 1 .. Len(c) /\ c[Len(s) + i] = r[i]
      BY <1>1
    <3>2. QED
      BY <1>1, <3>1, <1>2
  <2>2. QED
    BY <2>1, <1>2
<1>6. ASSUME Once(c)
      PROVE  Once(s) /\ Once(r) /\ ToSet(s) \intersect ToSet(r) = {}
  <2>1. Once(s)
    BY <1>1, <1>6 DEF Once
  <2>2. ASSUME NEW i \in 1 .. Len(r), NEW j \in 1 .. Len(r), r[i] = r[j]
        PROVE  i = j
    <3>1. /\ Len(s) + i \in 1 .. Len(c) /\ c[Len(s) + i] = r[i]
          /\ Len(s) + j \in 1 .. Len(c) /\ c[Len(s) + j] = r[j]
      BY <1>1
    <3>2. Len(s) + i = Len(s) + j
      BY <1>6, <2>2, <3>1 DEF Once
    <3>3. QED
      BY <1>1, <3>2
  <2>3. ASSUME NEW i \in 1 .. Len(s), NEW j \in 1 .. Len(r), s[i] = r[j]
        PROVE  FALSE
    <3>1. /\ i \in 1 .. Len(c) /\ c[i] = s[i]
          /\ Len(s) + j \in 1 .. Len(c) /\ c[Len(s) + j] = r[j]
      BY <1>1
    <3>2. i = Len(s) + j
      BY <1>6, <2>3, <3>1 DEF Once
    <3>3. QED
      BY <1>1, <3>2
  <2>4. QED
    BY <2>1, <2>2, <2>3, <1>2 DEF Once
<1>7. ASSUME Once(s), Once(r), ToSet(s) \intersect ToSet(r) = {}
      PROVE  Once(c)
  <2> SUFFICES ASSUME NEW i \in 1 .. Len(c), NEW j \in 1 .. Len(c), c[i] = c[j]
               PROVE  i = j
    BY DEF Once
  <2>1. CASE i \in 1 .. Len(s) /\ j \in 1 .. Len(s)
    BY <1>1, <1>7, <2>1 DEF Once
  <2>2. CASE i - Len(s) \in 1 .. Len(r) /\ j - Len(s) \in 1 .. Len(r)
    <3>1. c[i] = r[i - Len(s)] /\ c[j] = r[j - Len(s)]
      <4>1. i = Len(s) + (i - Len(s)) /\ j = Len(s) + (j - Len(s))
        BY <1>1
      <4>2. QED
        BY <1>1, <2>2, <4>1
    <3>2. i - Len(s) = j - Len(s)
      BY <1>7, <2>2, <3>1 DEF Once
    <3>3. QED
      BY <1>1, <3>2
  <2>3. ASSUME NEW k \in 1 .. Len(s), NEW l, l - Len(s) \in 1 .. Len(r), l \in 1 .. Len(c),
               c[k] = c[l]
        PROVE  FALSE
    <3>1. c[k] \in ToSet(s)
      BY <1>1, <1>2
    <3>2. c[l] = r[l - Len(s)]
      BY <1>1, <2>3
    <3>3. c[l] \in ToSet(r)
      BY <2>3, <3>2, <1>2
    <3>4. QED
      BY <1>7, <2>3, <3>1, <3>3
  <2>4. QED
    BY <1>1, <2>1, <2>2, <2>3
<1>8. QED
  BY <1>1, <1>3, <1>4, <1>5, <1>6, <1>7 DEF c

LEMMA AppendIs ==
  ASSUME NEW S, NEW s \in Seq(S), NEW e \in S
  PROVE  /\ Append(s, e) \in Seq(S) /\ Len(Append(s, e)) = Len(s) + 1
         /\ Append(s, e)[Len(s) + 1] = e
         /\ ToSet(Append(s, e)) = ToSet(s) \union {e}
         /\ Once(s) /\ e \notin ToSet(s) => Once(Append(s, e))
<1>1. Append(s, e) = s \o <<e>> /\ <<e>> \in Seq(S)
  OBVIOUS
<1>2. Append(s, e)[Len(s) + 1] = e
  OBVIOUS
<1>3. ToSet(<<e>>) = {e} /\ Once(<<e>>) /\ Len(<<e>>) = 1
  BY SingleIs
<1>4. /\ s \o <<e>> \in Seq(S) /\ Len(s \o <<e>>) = Len(s) + Len(<<e>>)
      /\ ToSet(s \o <<e>>) = ToSet(s) \union ToSet(<<e>>)
      /\ Once(s \o <<e>>) <=> Once(s) /\ Once(<<e>>) /\ ToSet(s) \intersect ToSet(<<e>>) = {}
  BY <1>1, ConcatIs
<1>5. QED
  BY <1>1, <1>2, <1>3, <1>4

LEMMA HeadIs ==
  ASSUME NEW S, NEW s \in Seq(S), s # <<>>
  PROVE  /\ Head(s) \in S /\ Tail(s) \in Seq(S) /\ Len(Tail(s)) = Len(s) - 1
         /\ ToSet(s) = {Head(s)} \union ToSet(Tail(s))
         /\ Once(s) => Once(Tail(s)) /\ Head(s) \notin ToSet(Tail(s))
         /\ \A i \in 1 .. Len(Tail(s)) : Tail(s)[i] = s[i + 1]
<1> DEFINE h == <<Head(s)>>
           t == Tail(s)
<1>1. /\ Head(s) \in S /\ t \in Seq(S) /\ h \in Seq(S) /\ s = h \o t /\ Len(t) = Len(s) - 1
  BY HeadTailProperties
<1>2. \A i \in 1 .. Len(t) : t[i] = s[i + 1]
  BY <1>1, HeadTailProperties
<1>3. ToSet(h) = {Head(s)} /\ Once(h)
  BY SingleIs
<1>4. ASSUME NEW a \in Seq(S), NEW b \in Seq(S)
      PROVE  /\ ToSet(a \o b) = ToSet(a) \union ToSet(b)
             /\ Once(a \o b) => Once(b) /\ ToSet(a) \intersect ToSet(b) = {}
  BY <1>4, ConcatIs
<1> HIDE DEF h, t
<1>5. /\ ToSet(s) = {Head(s)} \union ToSet(t)
      /\ Once(s) => Once(t) /\ Head(s) \notin ToSet(t)
  BY <1>1, <1>3, <1>4
<1>6. QED
  BY <1>1, <1>2, <1>5 DEF t

(* The newest of a sequence are the end of it. *)
LEMMA NewestIs ==
  ASSUME NEW S, NEW s \in Seq(S), NEW n \in Nat \ {0}
  PROVE  /\ Newest(s, n) \in Seq(S) /\ Len(Newest(s, n)) <= n
         /\ ToSet(Newest(s, n)) \subseteq ToSet(s)
         /\ Once(s) => Once(Newest(s, n))
         /\ Len(Newest(s, n)) = (IF Len(s) <= n THEN Len(s) ELSE n)
         /\ \A i \in 1 .. Len(Newest(s, n)) :
              Newest(s, n)[i] = s[Len(s) - Len(Newest(s, n)) + i]
<1>1. CASE Len(s) <= n
  <2>1. Newest(s, n) = s /\ Len(s) \in Nat
    BY <1>1 DEF Newest
  <2>2. \A i \in 1 .. Len(s) : Len(s) - Len(s) + i = i
    BY <2>1
  <2>3. QED
    BY <1>1, <2>1, <2>2
<1>2. CASE ~(Len(s) <= n)
  <2> DEFINE m == Newest(s, n)
             k == Len(s) - n
  <2>1. Len(s) \in Nat /\ k \in Nat /\ k + 1 \in 1 .. Len(s) /\ m = SubSeq(s, k + 1, Len(s))
    BY <1>2 DEF Newest
  <2>2. /\ m \in Seq(S) /\ Len(m) = n
        /\ \A i \in 1 .. n : m[i] = s[k + i] /\ k + i \in 1 .. Len(s)
    <3> HIDE DEF m
    <3>1. \A i \in k + 1 .. Len(s) : s[i] \in S
      BY <2>1
    <3>2. /\ m \in Seq(S) /\ Len(m) = IF k + 1 <= Len(s) THEN Len(s) - (k + 1) + 1 ELSE 0
          /\ \A i \in 1 .. Len(s) - (k + 1) + 1 : m[i] = s[(k + 1) + i - 1]
      BY <2>1, <3>1, SubSeqProperties
    <3>3. Len(s) - (k + 1) + 1 = n /\ k + 1 <= Len(s)
      BY <2>1
    <3>4. \A i \in 1 .. n : (k + 1) + i - 1 = k + i /\ k + i \in 1 .. Len(s)
      BY <2>1
    <3>5. QED
      BY <3>2, <3>3, <3>4
  <2> HIDE DEF m
  <2>3. ToSet(m) \subseteq ToSet(s)
    <3>1. \A i \in 1 .. n : m[i] \in ToSet(s)
      BY <2>2, ToSetIs
    <3>2. \A e \in ToSet(m) : \E i \in 1 .. n : m[i] = e
      BY <2>2, ToSetIs
    <3>3. QED
      BY <3>1, <3>2
  <2>4. ASSUME Once(s)
        PROVE  Once(m)
    <3> SUFFICES ASSUME NEW i \in 1 .. n, NEW j \in 1 .. n, m[i] = m[j]
                 PROVE  i = j
      BY <2>2 DEF Once
    <3>1. s[k + i] = s[k + j] /\ k + i \in 1 .. Len(s) /\ k + j \in 1 .. Len(s)
      BY <2>2
    <3> HIDE DEF k
    <3>2. k + i = k + j
      BY <2>4, <3>1 DEF Once
    <3>3. k \in Nat
      BY <2>1
    <3>4. QED
      BY <3>2, <3>3
  <2>5. \A i \in 1 .. n : m[i] = s[Len(s) - n + i]
    BY <2>1, <2>2
  <2>6. QED
    BY <1>2, <2>1, <2>2, <2>3, <2>4, <2>5 DEF m
<1>3. QED
  BY <1>1, <1>2

LEMMA ReverseIs ==
  ASSUME NEW S, NEW s \in Seq(S)
  PROVE  /\ Reverse(s) \in Seq(S) /\ Len(Reverse(s)) = Len(s)
         /\ ToSet(Reverse(s)) = ToSet(s)
         /\ Once(s) => Once(Reverse(s))
<1> DEFINE r == Reverse(s)
<1>1. Len(s) \in Nat /\ \A i \in 1 .. Len(s) : Len(s) - i + 1 \in 1 .. Len(s)
  OBVIOUS
<1>2. r = [i \in 1 .. Len(s) |-> s[(Len(s) - i) + 1]]
  BY DEF Reverse
<1>3. r \in Seq(S) /\ Len(r) = Len(s)
  BY <1>1, <1>2
<1>4. \A i \in 1 .. Len(s) : r[i] = s[Len(s) - i + 1]
  BY <1>2
<1> HIDE DEF r
<1>5. ToSet(r) \subseteq ToSet(s)
  <2>1. \A i \in 1 .. Len(s) : r[i] \in ToSet(s)
    BY <1>1, <1>4, ToSetIs
  <2>2. \A e \in ToSet(r) : \E i \in 1 .. Len(s) : r[i] = e
    BY <1>3, ToSetIs
  <2>3. QED
    BY <2>1, <2>2
<1>6. ASSUME NEW i \in 1 .. Len(s)
      PROVE  s[i] \in ToSet(r)
  <2>1. r[Len(s) - i + 1] = s[Len(s) - (Len(s) - i + 1) + 1] /\ Len(s) - i + 1 \in 1 .. Len(s)
    BY <1>1, <1>4
  <2>2. Len(s) - (Len(s) - i + 1) + 1 = i
    BY <1>1
  <2>3. r[Len(s) - i + 1] = s[i]
    BY <2>1, <2>2
  <2>4. QED
    BY <1>3, <2>1, <2>3, ToSetIs
<1>7. ToSet(s) \subseteq ToSet(r)
  <2>1. \A e \in ToSet(s) : \E i \in 1 .. Len(s) : s[i] = e
    BY ToSetIs
  <2>2. QED
    BY <1>6, <2>1
<1>8. ASSUME Once(s)
      PROVE  Once(r)
  <2> SUFFICES ASSUME NEW i \in 1 .. Len(s), NEW j \in 1 .. Len(s), r[i] = r[j]
               PROVE  i = j
    BY <1>3 DEF Once
  <2>1. Len(s) - i + 1 = Len(s) - j + 1
    BY <1>1, <1>4, <1>8 DEF Once
  <2>2. QED
    BY <1>1, <2>1
<1>9. QED
  BY <1>3, <1>5, <1>7, <1>8 DEF r

(* The page takes an entry in at the front, and lets the last one go only when full. *)
LEMMA InsertNewestIs ==
  ASSUME NEW s \in Seq(Entries), NEW e \in Entries, Len(s) <= Capacity
  PROVE  /\ InsertNewest(s, e) \in Seq(Entries) /\ Len(InsertNewest(s, e)) <= Capacity
         /\ \/ ToSet(InsertNewest(s, e)) = ToSet(s) \union {e}
            \/ Len(InsertNewest(s, e)) = Capacity
         /\ Len(s) = Capacity => Len(InsertNewest(s, e)) = Capacity
         /\ \A i \in 1 .. Len(InsertNewest(s, e)) :
              \/ i = 1 /\ InsertNewest(s, e)[i] = e
              \/ i - 1 \in 1 .. Len(s) /\ InsertNewest(s, e)[i] = s[i - 1]
<1> DEFINE c == <<e>> \o s
<1>1. /\ c \in Seq(Entries) /\ Len(c) = Len(s) + 1 /\ Len(s) \in Nat /\ Capacity \in Nat \ {0}
      /\ ToSet(c) = ToSet(s) \union {e}
      /\ \A i \in 1 .. Len(c) : \/ i = 1 /\ c[i] = e
                                \/ i - 1 \in 1 .. Len(s) /\ c[i] = s[i - 1]
  <2>1. <<e>> \in Seq(Entries) /\ ToSet(<<e>>) = {e} /\ Len(<<e>>) = 1
    BY SingleIs
  <2>2. /\ c \in Seq(Entries) /\ Len(c) = Len(<<e>>) + Len(s)
        /\ ToSet(c) = ToSet(<<e>>) \union ToSet(s)
    BY <2>1, ConcatIs
  <2>3. Capacity \in Nat \ {0} /\ Len(s) \in Nat
    BY LogAssumption DEF LogAssumption
  <2>4. /\ \A i \in 1 .. Len(<<e>>) : c[i] = <<e>>[i]
        /\ \A i \in 1 .. Len(s) : c[Len(<<e>>) + i] = s[i]
    BY <2>1, ConcatProperties
  <2>5. ASSUME NEW i \in 1 .. Len(s) + 1
        PROVE  \/ i = 1 /\ c[i] = e
               \/ i - 1 \in 1 .. Len(s) /\ c[i] = s[i - 1]
    <3>1. CASE i = 1
      BY <2>1, <2>4, <3>1
    <3>2. CASE i # 1
      <4>1. i - 1 \in 1 .. Len(s) /\ 1 + (i - 1) = i
        BY <2>3, <3>2
      <4>2. QED
        BY <2>1, <2>4, <4>1
    <3>3. QED
      BY <3>1, <3>2
  <2>6. Len(c) = Len(s) + 1
    BY <2>1, <2>2, <2>3
  <2> HIDE DEF c
  <2>7. QED
    BY <2>1, <2>2, <2>3, <2>5, <2>6
<1> HIDE DEF c
<1>2. CASE Len(s) < Capacity
  <2>1. InsertNewest(s, e) = SubSeq(c, 1, Len(c))
    BY <1>1, <1>2 DEF InsertNewest, c
  <2>2. SubSeq(c, 1, Len(c)) = c
    BY <1>1, SubSeqFull
  <2>3. InsertNewest(s, e) = c
    BY <2>1, <2>2
  <2>4. QED
    BY <1>1, <1>2, <2>3
<1>3. CASE ~(Len(s) < Capacity)
  <2>1. InsertNewest(s, e) = SubSeq(c, 1, Capacity) /\ Capacity \in 1 .. Len(c)
    BY <1>1, <1>3 DEF InsertNewest, c
  <2>2. \A i \in 1 .. Capacity : c[i] \in Entries
    BY <1>1, <2>1
  <2>3. /\ SubSeq(c, 1, Capacity) \in Seq(Entries) /\ Len(SubSeq(c, 1, Capacity)) = Capacity
        /\ \A i \in 1 .. Capacity : SubSeq(c, 1, Capacity)[i] = c[1 + i - 1]
    BY <1>1, <2>2, SubSeqProperties
  <2>4. \A i \in 1 .. Capacity : 1 + i - 1 = i /\ i \in 1 .. Len(c)
    BY <1>1, <2>1
  <2>5. QED
    BY <1>1, <2>1, <2>3, <2>4
<1>4. QED
  BY <1>2, <1>3

-----------------------------------------------------------------------------
(* The types, with the order of what is queued. *)
TypeInv ==
  /\ logged \in [service : 0 .. ServiceEntries, web : 0 .. WebEntries]
  /\ forwarder \in {"waiting", "draining"}
  /\ link \in {"up", "dead", "down"}
  /\ conn \in IF link = "up" THEN HubThreads ELSE {NoThread}
  /\ channel \in Seq(Entries) /\ Len(channel) <= ChannelCapacity
  /\ batch \in Seq(Entries) /\ Len(batch) <= BatchSize
  /\ buffer \in Seq(Entries) /\ Len(buffer) <= Capacity
  /\ view \in Seq(Entries) /\ Len(view) <= Capacity
  /\ inserts \in Seq(Entries)
  /\ todo \in [Threads -> Seq(Entries)]
  /\ announce \in [Threads -> AtMostOne]
  /\ page \in {"closed", "resyncing", "shown"} /\ paused \in BOOLEAN
  /\ cleared \subseteq Entries

LEMMA Positive ==
  /\ ChannelCapacity \in Nat \ {0} /\ BatchSize \in Nat \ {0} /\ Capacity \in Nat \ {0}
  /\ ServiceEntries \in Nat /\ WebEntries \in Nat
  /\ WebThread \in Threads /\ HubThreads \subseteq Threads /\ WebThread \notin HubThreads
BY LogAssumption DEF LogAssumption, Threads

LEMMA ServiceEntry ==
  ASSUME NEW n \in 1 .. ServiceEntries
  PROVE  LET e == [from |-> "service", nr |-> n]
         IN  e \in Entries /\ e.from = "service" /\ e.nr = n
BY DEF Entries

LEMMA WebEntry ==
  ASSUME NEW n \in 1 .. WebEntries
  PROVE  LET e == [from |-> "web", nr |-> n]
         IN  e \in Entries /\ e.from = "web" /\ e.nr = n
BY DEF Entries

LEMMA EntryIs ==
  ASSUME NEW e \in Entries
  PROVE  e.from \in {"service", "web"} /\ e.nr \in Nat
BY Positive DEF Entries

(* The steps of the service. *)
LEMMA ServiceLogsIs ==
  ASSUME TypeInv, ServiceLogs
  PROVE  \E e \in Entries :
           /\ e.from = "service" /\ e.nr = logged.service + 1
           /\ logged' = [logged EXCEPT !.service = e.nr]
           /\ channel' = Newest(Append(channel, e), ChannelCapacity)
           /\ UNCHANGED <<forwarder, batch, linkVars, streamVars, pageVars>>
<1> DEFINE e == [from |-> "service", nr |-> logged'.service]
<1>1. /\ logged'.service = logged.service + 1 /\ logged'.service \in 1 .. ServiceEntries
      /\ logged' = [logged EXCEPT !.service = logged'.service]
  BY Positive DEF ServiceLogs, TypeInv
<1>2. e \in Entries /\ e.from = "service" /\ e.nr = logged'.service
  BY <1>1, ServiceEntry
<1>3. channel' = Newest(Append(channel, e), ChannelCapacity)
  BY DEF ServiceLogs, DropOldest
<1>4. UNCHANGED <<forwarder, batch, linkVars, streamVars, pageVars>>
  BY DEF ServiceLogs
<1> HIDE DEF e
<1>5. QED
  BY <1>1, <1>2, <1>3, <1>4

LEMMA WebLogsIs ==
  ASSUME TypeInv, WebLogs
  PROVE  \E e \in Entries :
           /\ e.from = "web" /\ e.nr = logged.web + 1
           /\ logged' = [logged EXCEPT !.web = e.nr]
           /\ todo[WebThread] = <<>> /\ todo' = [todo EXCEPT ![WebThread] = <<e>>]
           /\ UNCHANGED <<serviceVars, linkVars, announce, buffer, pageVars>>
<1> DEFINE e == [from |-> "web", nr |-> logged'.web]
<1>1. /\ logged'.web = logged.web + 1 /\ logged'.web \in 1 .. WebEntries
      /\ logged' = [logged EXCEPT !.web = logged'.web]
  BY Positive DEF WebLogs, TypeInv
<1>2. e \in Entries /\ e.from = "web" /\ e.nr = logged'.web
  BY <1>1, WebEntry
<1>3. /\ todo[WebThread] = <<>> /\ todo' = [todo EXCEPT ![WebThread] = <<e>>]
      /\ UNCHANGED <<serviceVars, linkVars, announce, buffer, pageVars>>
  BY DEF WebLogs
<1> HIDE DEF e
<1>4. QED
  BY <1>1, <1>2, <1>3

(* The sequences after a step, as far as the step makes them. *)
LEMMA PushedIs ==
  ASSUME NEW s \in Seq(Entries), NEW e \in Entries, NEW n \in Nat \ {0}
  PROVE  /\ Newest(Append(s, e), n) \in Seq(Entries) /\ Len(Newest(Append(s, e), n)) <= n
         /\ ToSet(Newest(Append(s, e), n)) \subseteq ToSet(s) \union {e}
         /\ Once(s) /\ e \notin ToSet(s) => Once(Newest(Append(s, e), n))
<1> DEFINE a == Append(s, e)
           m == Newest(a, n)
<1>1. /\ a \in Seq(Entries) /\ Len(a) = Len(s) + 1 /\ a[Len(s) + 1] = e /\ Len(s) \in Nat
      /\ \A i \in 1 .. Len(s) : a[i] = s[i]
      /\ ToSet(a) = ToSet(s) \union {e}
      /\ Once(s) /\ e \notin ToSet(s) => Once(a)
  BY AppendIs
<1> HIDE DEF a
<1>2. /\ m \in Seq(Entries) /\ Len(m) <= n /\ ToSet(m) \subseteq ToSet(a)
      /\ Once(a) => Once(m)
      /\ Len(m) = IF Len(a) <= n THEN Len(a) ELSE n
      /\ \A i \in 1 .. Len(m) : m[i] = a[Len(a) - Len(m) + i]
  BY <1>1, NewestIs
<1>3. QED
  BY <1>1, <1>2 DEF a, m

(* What a logged entry does to the channel: the last is new, the others have moved up. *)
LEMMA ChannelPushed ==
  ASSUME TypeInv, NEW e \in Entries, channel' = Newest(Append(channel, e), ChannelCapacity)
  PROVE  /\ Len(channel') = IF Len(channel) < ChannelCapacity
                            THEN Len(channel) + 1 ELSE ChannelCapacity
         /\ \A i \in 1 .. Len(channel') :
              \/ i = Len(channel') /\ channel'[i] = e
              \/ \E j \in 1 .. Len(channel) :
                   j = Len(channel) + 1 - Len(channel') + i /\ channel'[i] = channel[j]
<1> DEFINE a == Append(channel, e)
           n == ChannelCapacity
<1>0. channel \in Seq(Entries) /\ n \in Nat \ {0}
  BY Positive DEF TypeInv
<1>1. /\ a \in Seq(Entries) /\ Len(a) = Len(channel) + 1 /\ a[Len(channel) + 1] = e
      /\ Len(channel) \in Nat /\ \A i \in 1 .. Len(channel) : a[i] = channel[i]
  BY <1>0, AppendIs
<1>2. channel' = Newest(a, n)
  OBVIOUS
<1> HIDE DEF a, n
<1>3. /\ Newest(a, n) \in Seq(Entries)
      /\ Len(Newest(a, n)) = IF Len(a) <= n THEN Len(a) ELSE n
      /\ \A i \in 1 .. Len(Newest(a, n)) :
           Newest(a, n)[i] = a[Len(a) - Len(Newest(a, n)) + i]
  BY <1>0, <1>1, NewestIs
<1>4. /\ channel' \in Seq(Entries)
      /\ Len(channel') = IF Len(a) <= n THEN Len(a) ELSE n
      /\ \A i \in 1 .. Len(channel') : channel'[i] = a[Len(a) - Len(channel') + i]
  BY <1>2, <1>3, Zenon
<1>5. /\ Len(channel') = IF Len(channel) < n THEN Len(channel) + 1 ELSE n
      /\ Len(channel') \in Nat /\ Len(channel') <= Len(channel) + 1
  BY <1>0, <1>1, <1>4
<1>6. ASSUME NEW i \in 1 .. Len(channel')
      PROVE  \/ i = Len(channel') /\ channel'[i] = e
             \/ \E j \in 1 .. Len(channel) :
                  j = Len(channel) + 1 - Len(channel') + i /\ channel'[i] = channel[j]
  <2> DEFINE j == Len(channel) + 1 - Len(channel') + i
  <2>1. j \in 1 .. Len(channel) + 1 /\ Len(a) - Len(channel') + i = j
    BY <1>1, <1>5
  <2>2. channel'[i] = a[j]
    BY <1>4, <2>1
  <2>3. CASE j = Len(channel) + 1
    BY <1>1, <1>5, <2>2, <2>3
  <2>4. CASE j # Len(channel) + 1
    <3>1. j \in 1 .. Len(channel)
      BY <1>1, <2>1, <2>4
    <3>2. QED
      BY <1>1, <2>2, <3>1
  <2>5. QED
    BY <2>3, <2>4
<1>7. QED
  BY <1>5, <1>6 DEF n

LEMMA TryReadIs ==
  ASSUME TypeInv, TryRead
  PROVE  \E e \in Entries :
           /\ e \in ToSet(channel)
           /\ ToSet(channel') \subseteq ToSet(channel)
           /\ Once(channel) => Once(channel') /\ e \notin ToSet(channel')
           /\ channel' \in Seq(Entries) /\ Len(channel') <= ChannelCapacity
           /\ Len(channel) \in Nat \ {0} /\ Len(channel') = Len(channel) - 1
           /\ e = channel[1] /\ \A i \in 1 .. Len(channel') : channel'[i] = channel[i + 1]
           /\ batch' = Append(batch, e)
           /\ batch' \in Seq(Entries) /\ Len(batch') <= BatchSize
           /\ ToSet(batch') = ToSet(batch) \union {e}
           /\ Once(batch) /\ e \notin ToSet(batch) => Once(batch')
           /\ channel # <<>> /\ forwarder = "draining"
           /\ UNCHANGED <<logged, forwarder, linkVars, streamVars, pageVars>>
<1> DEFINE e == Head(channel)
<1>1. /\ channel # <<>> /\ channel' = Tail(channel) /\ batch' = Append(batch, e)
      /\ Len(batch) < BatchSize /\ forwarder = "draining"
      /\ UNCHANGED <<logged, forwarder, linkVars, streamVars, pageVars>>
      /\ channel \in Seq(Entries) /\ batch \in Seq(Entries) /\ Len(channel) <= ChannelCapacity
  BY DEF TryRead, TypeInv
<1>2. /\ e \in Entries /\ channel' \in Seq(Entries) /\ Len(channel') = Len(channel) - 1
      /\ ToSet(channel) = {e} \union ToSet(channel')
      /\ Once(channel) => Once(channel') /\ e \notin ToSet(channel')
      /\ \A i \in 1 .. Len(channel') : channel'[i] = channel[i + 1]
  BY <1>1, HeadIs
<1>3. Len(channel) \in Nat \ {0} /\ Len(batch) \in Nat /\ e = channel[1]
  BY <1>1
<1> HIDE DEF e
<1>4. /\ batch' \in Seq(Entries) /\ Len(batch') = Len(batch) + 1
      /\ ToSet(batch') = ToSet(batch) \union {e}
      /\ Once(batch) /\ e \notin ToSet(batch) => Once(batch')
  BY <1>1, <1>2, AppendIs
<1>5. Len(channel') <= ChannelCapacity /\ Len(batch') <= BatchSize
  BY <1>1, <1>2, <1>3, <1>4, Positive
<1>6. QED
  BY <1>1, <1>2, <1>3, <1>4, <1>5

LEMMA SendSucceedsIs ==
  ASSUME TypeInv, SendSucceeds
  PROVE  /\ forwarder = "draining" /\ forwarder' = "waiting"
         /\ UNCHANGED <<logged, channel, batch, linkVars, announce, buffer, pageVars>>
         /\ \/ todo' = todo
            \/ \E t \in HubThreads : todo' = [todo EXCEPT ![t] = @ \o batch]
BY DEF SendSucceeds, TypeInv

LEMMA WriteIs ==
  ASSUME TypeInv, NEW t \in Threads, Write(t)
  PROVE  \E e \in Entries :
           /\ e \in ToSet(todo[t]) /\ announce[t] = <<>>
           /\ todo' = [todo EXCEPT ![t] = Tail(todo[t])] /\ Tail(todo[t]) \in Seq(Entries)
           /\ ToSet(todo[t]) = {e} \union ToSet(Tail(todo[t]))
           /\ Once(todo[t]) => Once(Tail(todo[t])) /\ e \notin ToSet(Tail(todo[t]))
           /\ announce' = [announce EXCEPT ![t] = <<e>>]
           /\ buffer' \in Seq(Entries) /\ Len(buffer') <= Capacity
           /\ ToSet(buffer') \subseteq ToSet(buffer) \union {e}
           /\ Once(buffer) /\ e \notin ToSet(buffer) => Once(buffer')
           /\ UNCHANGED <<logged, serviceVars, linkVars, pageVars>>
<1> DEFINE e == Head(todo[t])
<1>1. /\ todo[t] # <<>> /\ announce[t] = <<>> /\ todo[t] \in Seq(Entries)
      /\ buffer' = Newest(Append(buffer, e), Capacity)
      /\ announce' = [announce EXCEPT ![t] = <<e>>]
      /\ todo' = [todo EXCEPT ![t] = Tail(todo[t])]
      /\ UNCHANGED <<logged, serviceVars, linkVars, pageVars>>
      /\ buffer \in Seq(Entries)
  BY DEF Write, TypeInv
<1>2. /\ e \in Entries /\ Tail(todo[t]) \in Seq(Entries)
      /\ ToSet(todo[t]) = {e} \union ToSet(Tail(todo[t]))
      /\ Once(todo[t]) => Once(Tail(todo[t])) /\ e \notin ToSet(Tail(todo[t]))
  BY <1>1, HeadIs
<1> HIDE DEF e
<1>3. /\ buffer' \in Seq(Entries) /\ Len(buffer') <= Capacity
      /\ ToSet(buffer') \subseteq ToSet(buffer) \union {e}
      /\ Once(buffer) /\ e \notin ToSet(buffer) => Once(buffer')
  BY <1>1, <1>2, PushedIs, Positive
<1>4. QED
  BY <1>1, <1>2, <1>3

LEMMA TypesKept == TypeInv /\ [Next]_vars => TypeInv'
<1> SUFFICES ASSUME TypeInv, [Next]_vars PROVE TypeInv'
  OBVIOUS
<1> USE DEF serviceVars, linkVars, streamVars, pageVars
<1>1. CASE ServiceLogs
  <2>1. PICK e \in Entries :
          /\ e.from = "service" /\ e.nr = logged.service + 1
          /\ logged' = [logged EXCEPT !.service = e.nr]
          /\ channel' = Newest(Append(channel, e), ChannelCapacity)
          /\ UNCHANGED <<forwarder, batch, linkVars, streamVars, pageVars>>
    BY <1>1, ServiceLogsIs
  <2>2. channel' \in Seq(Entries) /\ Len(channel') <= ChannelCapacity
    BY <2>1, PushedIs, Positive DEF TypeInv
  <2>3. logged' \in [service : 0 .. ServiceEntries, web : 0 .. WebEntries]
    <3>1. /\ logged.service < ServiceEntries /\ logged.service \in 0 .. ServiceEntries
          /\ logged \in [service : 0 .. ServiceEntries, web : 0 .. WebEntries]
      BY <1>1 DEF ServiceLogs, TypeInv
    <3>2. e.nr \in 0 .. ServiceEntries
      BY <2>1, <3>1, Positive
    <3>3. QED
      BY <2>1, <3>1, <3>2
  <2>4. QED
    BY <2>1, <2>2, <2>3 DEF TypeInv
<1>2. CASE StartBatch
  BY <1>2, EmptyIs, Positive DEF StartBatch, BatchCleared, TypeInv
<1>3. CASE TryRead
  BY <1>3, TryReadIs DEF TypeInv
<1>4. CASE SendSucceeds
  <2>1. ASSUME NEW t \in HubThreads, todo' = [todo EXCEPT ![t] = @ \o batch]
        PROVE  todo' \in [Threads -> Seq(Entries)]
    BY <2>1, Positive, ConcatIs DEF TypeInv
  <2>2. todo' \in [Threads -> Seq(Entries)]
    BY <1>4, <2>1, SendSucceedsIs DEF TypeInv
  <2>3. QED
    BY <1>4, <2>2, SendSucceedsIs DEF TypeInv
<1>5. CASE SendFails
  BY <1>5 DEF SendFails, AfterFault, TypeInv
<1>6. CASE RestartService
  BY <1>6, EmptyIs, Positive DEF RestartService, LoseLink, TypeInv
<1>7. CASE LinkBreaks \/ NoticeBreak \/ Connect
  BY <1>7 DEF LinkBreaks, NoticeBreak, Connect, LoseLink, TypeInv
<1>8. CASE WebLogs
  <2>1. PICK e \in Entries :
          /\ e.from = "web" /\ e.nr = logged.web + 1
          /\ logged' = [logged EXCEPT !.web = e.nr]
          /\ todo[WebThread] = <<>> /\ todo' = [todo EXCEPT ![WebThread] = <<e>>]
          /\ UNCHANGED <<serviceVars, linkVars, announce, buffer, pageVars>>
    BY <1>8, WebLogsIs
  <2>2. todo' \in [Threads -> Seq(Entries)]
    <3>1. <<e>> \in Seq(Entries)
      OBVIOUS
    <3>2. QED
      BY <2>1, <3>1 DEF TypeInv
  <2>3. logged' \in [service : 0 .. ServiceEntries, web : 0 .. WebEntries]
    <3>1. /\ logged.web < WebEntries /\ logged.web \in 0 .. WebEntries
          /\ logged \in [service : 0 .. ServiceEntries, web : 0 .. WebEntries]
      BY <1>8 DEF WebLogs, TypeInv
    <3>2. e.nr \in 0 .. WebEntries
      BY <2>1, <3>1, Positive
    <3>3. QED
      BY <2>1, <3>1, <3>2
  <2>4. QED
    BY <2>1, <2>2, <2>3 DEF TypeInv
<1>9. ASSUME NEW t \in Threads, Write(t) PROVE TypeInv'
  <2>1. PICK e \in Entries :
          /\ todo' = [todo EXCEPT ![t] = Tail(todo[t])] /\ Tail(todo[t]) \in Seq(Entries)
          /\ announce' = [announce EXCEPT ![t] = <<e>>]
          /\ buffer' \in Seq(Entries) /\ Len(buffer') <= Capacity
          /\ UNCHANGED <<logged, serviceVars, linkVars, pageVars>>
    BY <1>9, WriteIs
  <2>2. todo' \in [Threads -> Seq(Entries)] /\ announce' \in [Threads -> AtMostOne]
    BY <2>1 DEF TypeInv, AtMostOne
  <2>3. QED
    BY <2>1, <2>2 DEF TypeInv
<1>10. ASSUME NEW t \in Threads, OnLogReceived(t) PROVE TypeInv'
  <2>1. announce[t] \in Seq(Entries)
    <3>1. announce[t] = <<>> \/ \E e \in Entries : announce[t] = <<e>>
      BY DEF TypeInv, AtMostOne
    <3>2. \A e \in Entries : <<e>> \in Seq(Entries)
      OBVIOUS
    <3>3. QED
      BY <3>1, <3>2, EmptySeq
  <2>2. inserts' \in Seq(Entries)
    BY <1>10, <2>1 DEF OnLogReceived, TypeInv
  <2>3. announce' \in [Threads -> AtMostOne]
    BY <1>10 DEF OnLogReceived, TypeInv, AtMostOne
  <2>4. QED
    BY <1>10, <2>2, <2>3 DEF OnLogReceived, TypeInv
<1>11. CASE OpenPage \/ Pause \/ Resume
  <2>1. paused' \in BOOLEAN
    BY <1>11, Zenon DEF OpenPage, Pause, Resume, TypeInv
  <2>2. QED
    BY <1>11, <2>1 DEF OpenPage, Pause, Resume, AfterResume, TypeInv
<1>12. CASE Resync
  <2>1. view' \in Seq(Entries) /\ Len(view') <= Capacity
    BY <1>12, ReverseIs DEF Resync, Snapshot, TypeInv
  <2>2. QED
    BY <1>12, <2>1 DEF Resync, TypeInv
<1>13. CASE HandleInsert
  <2>1. Head(inserts) \in Entries /\ Tail(inserts) \in Seq(Entries)
    BY <1>13, HeadIs DEF HandleInsert, TypeInv
  <2>2. view' \in Seq(Entries) /\ Len(view') <= Capacity
    BY <1>13, <2>1, InsertNewestIs DEF HandleInsert, TypeInv
  <2>3. QED
    BY <1>13, <2>1, <2>2 DEF HandleInsert, TypeInv
<1>14. CASE ClearView
  <2>1. ToSet(buffer) \subseteq Entries
    BY ToSetIs DEF TypeInv
  <2>2. QED
    BY <1>14, <2>1, EmptyIs, Positive DEF ClearView, TypeInv
<1>15. CASE ClosePage \/ RestartWeb
  <2>1. /\ page' = "closed" /\ paused' = FALSE /\ inserts' = <<>> /\ view' = <<>>
        /\ cleared' = {} /\ UNCHANGED <<logged, serviceVars>>
    BY <1>15 DEF ClosePage, RestartWeb
  <2>2. paused' \in BOOLEAN
    BY <2>1, Zenon
  <2>3. /\ conn' \in IF link' = "up" THEN HubThreads ELSE {NoThread}
        /\ link' \in {"up", "dead", "down"}
    BY <1>15 DEF ClosePage, RestartWeb, LoseLink, TypeInv
  <2>4. <<>> \in Seq(Entries) /\ Len(<<>>) = 0 /\ Len(<<>>) <= Capacity /\ <<>> \in AtMostOne
    BY EmptySeq, Positive DEF AtMostOne
  <2>5. /\ todo' \in [Threads -> Seq(Entries)] /\ announce' \in [Threads -> AtMostOne]
        /\ buffer' \in Seq(Entries) /\ Len(buffer') <= Capacity
    <3>1. CASE ClosePage
      BY <3>1 DEF ClosePage, TypeInv
    <3>2. CASE RestartWeb
      <4>1. /\ todo' = [t \in Threads |-> <<>>] /\ announce' = [t \in Threads |-> <<>>]
            /\ buffer' = <<>>
        BY <3>2 DEF RestartWeb
      <4>2. QED
        BY <2>4, <4>1
    <3>3. QED
      BY <1>15, <3>1, <3>2
  <2>6. view' \in Seq(Entries) /\ Len(view') <= Capacity /\ inserts' \in Seq(Entries)
    BY <2>1, <2>4
  <2>7. QED
    BY <2>1, <2>2, <2>3, <2>5, <2>6 DEF TypeInv
<1>16. CASE UNCHANGED vars
  BY <1>16 DEF vars, TypeInv
<1>17. QED
  BY <1>1, <1>2, <1>3, <1>4, <1>5, <1>6, <1>7, <1>8, <1>9, <1>10, <1>11, <1>12, <1>13, <1>14,
     <1>15, <1>16
  DEF Next, ForwarderStep, PageStep

-----------------------------------------------------------------------------
(* The page listens before it reads. *)
LEMMA MissedKept == TypeInv /\ NothingIsMissed /\ [Next]_vars => NothingIsMissed'
<1> SUFFICES ASSUME TypeInv, NothingIsMissed, [Next]_vars,
                    page' = "shown", ~paused', NEW d \in ToSet(buffer')
             PROVE  \/ d \in ToSet(view') \union ToSet(inserts') \union cleared'
                    \/ \E t \in Threads : announce'[t] = <<d>>
                    \/ Len(view') = Capacity
  BY DEF NothingIsMissed
<1> DEFINE Goal == \/ d \in ToSet(view') \union ToSet(inserts') \union cleared'
                   \/ \E t \in Threads : announce'[t] = <<d>>
                   \/ Len(view') = Capacity
<1>1. ASSUME page = "shown", ~paused, d \in ToSet(buffer)
      PROVE  \/ d \in ToSet(view) \union ToSet(inserts) \union cleared
             \/ \E t \in Threads : announce[t] = <<d>>
             \/ Len(view) = Capacity
  BY <1>1 DEF NothingIsMissed
<1>2. ASSUME UNCHANGED <<buffer, announce, pageVars>> PROVE Goal
  BY <1>1, <1>2 DEF pageVars
<1>3. ASSUME NEW t \in Threads, Write(t) PROVE Goal
  <2>1. PICK e \in Entries :
          /\ announce[t] = <<>> /\ announce' = [announce EXCEPT ![t] = <<e>>]
          /\ ToSet(buffer') \subseteq ToSet(buffer) \union {e}
          /\ UNCHANGED pageVars
    BY <1>3, WriteIs
  <2>2. CASE d = e
    <3>1. announce'[t] = <<d>>
      BY <2>1, <2>2 DEF TypeInv
    <3>2. QED
      BY <3>1
  <2>3. CASE d \in ToSet(buffer)
    <3>1. ASSUME NEW u \in Threads, announce[u] = <<d>>
          PROVE  announce'[u] = <<d>>
      BY <2>1, <3>1 DEF TypeInv
    <3>2. QED
      BY <1>1, <2>1, <2>3, <3>1 DEF pageVars
  <2>4. QED
    BY <2>1, <2>2, <2>3
<1>4. ASSUME NEW t \in Threads, OnLogReceived(t) PROVE Goal
  <2>1. /\ announce' = [announce EXCEPT ![t] = <<>>]
        /\ UNCHANGED <<buffer, page, paused, view, cleared>>
        /\ inserts' = inserts \o announce[t]
    BY <1>4 DEF OnLogReceived, Listening
  <2>2. /\ inserts \in Seq(Entries) /\ announce[t] \in Seq(Entries)
    <3>1. announce[t] = <<>> \/ \E e \in Entries : announce[t] = <<e>>
      BY DEF TypeInv, AtMostOne
    <3>2. \A e \in Entries : <<e>> \in Seq(Entries)
      OBVIOUS
    <3>3. QED
      BY <3>1, <3>2, EmptySeq DEF TypeInv
  <2>3. ToSet(inserts') = ToSet(inserts) \union ToSet(announce[t])
    BY <2>1, <2>2, ConcatIs
  <2>4. ASSUME NEW u \in Threads, announce[u] = <<d>>
        PROVE  Goal
    <3>1. CASE u = t
      <4>1. d \in ToSet(announce[t])
        BY <2>4, <3>1, SingleIs
      <4>2. QED
        BY <2>3, <4>1
    <3>2. CASE u # t
      <4>1. announce'[u] = <<d>>
        BY <2>1, <2>4, <3>2 DEF TypeInv
      <4>2. QED
        BY <4>1
    <3>3. QED
      BY <3>1, <3>2
  <2>5. QED
    BY <1>1, <2>1, <2>3, <2>4
<1>5. CASE Resync
  <2>1. view' = Reverse(buffer) /\ buffer' = buffer
    BY <1>5 DEF Resync, Snapshot, streamVars
  <2>2. ToSet(view') = ToSet(buffer)
    BY <2>1, ReverseIs DEF TypeInv
  <2>3. QED
    BY <2>1, <2>2
<1>6. CASE HandleInsert
  <2>1. /\ page = "shown" /\ inserts # <<>> /\ inserts \in Seq(Entries)
        /\ view \in Seq(Entries) /\ Len(view) <= Capacity
        /\ view' = InsertNewest(view, Head(inserts)) /\ inserts' = Tail(inserts)
        /\ UNCHANGED <<buffer, announce, paused, cleared>>
    BY <1>6 DEF HandleInsert, streamVars, TypeInv
  <2>2. /\ Head(inserts) \in Entries
        /\ ToSet(inserts) = {Head(inserts)} \union ToSet(inserts')
    BY <2>1, HeadIs
  <2>3. /\ \/ ToSet(view') = ToSet(view) \union {Head(inserts)}
           \/ Len(view') = Capacity
        /\ Len(view) = Capacity => Len(view') = Capacity
    BY <2>1, <2>2, InsertNewestIs
  <2>4. QED
    BY <1>1, <2>1, <2>2, <2>3
<1>7. CASE ClearView
  BY <1>7 DEF ClearView, streamVars
<1>8. CASE OpenPage \/ Pause \/ Resume \/ ClosePage \/ RestartWeb
  BY <1>8 DEF OpenPage, Pause, Resume, AfterResume, ClosePage, RestartWeb
<1>9. ASSUME \/ ServiceLogs \/ ForwarderStep \/ RestartService
             \/ LinkBreaks \/ NoticeBreak \/ Connect \/ WebLogs \/ UNCHANGED vars
      PROVE  UNCHANGED <<buffer, announce, pageVars>>
  BY <1>9 DEF ServiceLogs, ForwarderStep, StartBatch, TryRead, SendSucceeds, SendFails,
     RestartService, LinkBreaks, NoticeBreak, Connect, WebLogs, vars, streamVars, pageVars
<1>10. QED
  BY <1>2, <1>3, <1>4, <1>5, <1>6, <1>7, <1>8, <1>9 DEF Next, PageStep

-----------------------------------------------------------------------------
(* Every entry is in one place, and a new one is in none of them. *)
IsLogged(e) == e.nr <= IF e.from = "service" THEN logged.service ELSE logged.web

OnceInv ==
  /\ Once(channel) /\ Once(Filling) /\ Once(buffer)
  /\ ToSet(channel) \intersect ToSet(Filling) = {}
  /\ ToSet(channel) \intersect ToSet(buffer) = {}
  /\ ToSet(Filling) \intersect ToSet(buffer) = {}
  /\ \A e \in ToSet(channel) \union ToSet(Filling) \union ToSet(buffer) : IsLogged(e)
  /\ \A t \in Threads :
       /\ Once(todo[t]) /\ \A e \in ToSet(todo[t]) : IsLogged(e)
       /\ ToSet(todo[t]) \intersect ToSet(channel) = {}
       /\ ToSet(todo[t]) \intersect ToSet(Filling) = {}
       /\ ToSet(todo[t]) \intersect ToSet(buffer) = {}
  /\ \A t, u \in Threads : t # u => ToSet(todo[t]) \intersect ToSet(todo[u]) = {}

LEMMA LoggedStays ==
  ASSUME TypeInv, NEW p \in {"service", "web"}, NEW n \in Nat,
         p = "service" => n = logged.service + 1 /\ logged' = [logged EXCEPT !.service = n],
         p = "web" => n = logged.web + 1 /\ logged' = [logged EXCEPT !.web = n],
         NEW e \in Entries
  PROVE  /\ IsLogged(e) => IsLogged(e)'
         /\ e.from = p /\ e.nr = n => IsLogged(e)' /\ ~IsLogged(e)
<1>1. /\ logged.service \in Nat /\ logged.web \in Nat
      /\ logged'.service >= logged.service /\ logged'.web >= logged.web
      /\ p = "service" => logged'.service = n
      /\ p = "web" => logged'.web = n
  BY Positive, SMTT(30) DEF TypeInv
<1>2. logged'.service \in Nat /\ logged'.web \in Nat
  BY Positive, SMTT(30) DEF TypeInv
<1>3. e.nr \in Nat /\ e.from \in {"service", "web"}
  BY EntryIs
<1>4. QED
  BY <1>1, <1>2, <1>3 DEF IsLogged

LEMMA EntriesOf ==
  ASSUME TypeInv
  PROVE  /\ Filling \in Seq(Entries)
         /\ ToSet(channel) \subseteq Entries /\ ToSet(Filling) \subseteq Entries
         /\ ToSet(buffer) \subseteq Entries
         /\ \A t \in Threads : todo[t] \in Seq(Entries) /\ ToSet(todo[t]) \subseteq Entries
<1>1. Filling \in Seq(Entries)
  BY EmptySeq DEF TypeInv, Filling
<1>2. \A t \in Threads : todo[t] \in Seq(Entries)
  BY DEF TypeInv
<1>3. ASSUME NEW s \in Seq(Entries) PROVE ToSet(s) \subseteq Entries
  BY ToSetIs
<1>4. QED
  BY <1>1, <1>2, <1>3 DEF TypeInv

LEMMA OnceKept == TypeInv /\ OnceInv /\ [Next]_vars => OnceInv'
<1> SUFFICES ASSUME TypeInv, OnceInv, [Next]_vars PROVE OnceInv'
  OBVIOUS
<1>1. CASE ServiceLogs
  <2>1. PICK e \in Entries :
          /\ e.from = "service" /\ e.nr = logged.service + 1
          /\ logged' = [logged EXCEPT !.service = e.nr]
          /\ channel' = Newest(Append(channel, e), ChannelCapacity)
          /\ UNCHANGED <<forwarder, batch, linkVars, streamVars, pageVars>>
    BY <1>1, ServiceLogsIs
  <2>2. /\ \A d \in Entries : IsLogged(d) => IsLogged(d)'
        /\ IsLogged(e)' /\ ~IsLogged(e)
    BY <2>1, EntryIs, LoggedStays
  <2>3. /\ ToSet(channel') \subseteq ToSet(channel) \union {e}
        /\ Once(channel) /\ e \notin ToSet(channel) => Once(channel')
    BY <2>1, PushedIs, Positive DEF TypeInv
  <2>4. Filling' = Filling /\ todo' = todo /\ buffer' = buffer
    BY <2>1 DEF Filling, streamVars
  <2>5. QED
    BY <2>2, <2>3, <2>4, EntriesOf DEF OnceInv
<1>2. CASE StartBatch
  <2>1. Filling' = <<>> /\ UNCHANGED <<channel, buffer, todo, logged>>
    BY <1>2 DEF StartBatch, BatchCleared, Filling, streamVars
  <2>2. QED
    BY <2>1, EmptyIs DEF OnceInv, IsLogged
<1>3. CASE TryRead
  <2>1. PICK e \in Entries :
          /\ e \in ToSet(channel) /\ ToSet(channel') \subseteq ToSet(channel)
          /\ Once(channel) => Once(channel') /\ e \notin ToSet(channel')
          /\ ToSet(batch') = ToSet(batch) \union {e}
          /\ Once(batch) /\ e \notin ToSet(batch) => Once(batch')
          /\ forwarder = "draining"
          /\ UNCHANGED <<logged, forwarder, linkVars, streamVars, pageVars>>
    BY <1>3, TryReadIs
  <2>2. Filling = batch /\ Filling' = batch' /\ todo' = todo /\ buffer' = buffer
    BY <2>1 DEF Filling, streamVars
  <2>3. QED
    BY <2>1, <2>2 DEF OnceInv, IsLogged
<1>4. CASE SendSucceeds
  <2>1. Filling = batch /\ Filling' = <<>> /\ UNCHANGED <<channel, buffer, logged>>
    BY <1>4, SendSucceedsIs DEF Filling
  <2>2. CASE todo' = todo
    BY <2>1, <2>2, EmptyIs DEF OnceInv, IsLogged
  <2>3. ASSUME NEW t \in HubThreads, todo' = [todo EXCEPT ![t] = @ \o batch]
        PROVE  OnceInv'
    <3>1. /\ todo'[t] = todo[t] \o batch /\ t \in Threads
          /\ \A u \in Threads \ {t} : todo'[u] = todo[u]
      BY <2>3, Positive DEF TypeInv
    <3>2. todo[t] \in Seq(Entries) /\ batch \in Seq(Entries)
      BY <3>1 DEF TypeInv
    <3>3. /\ ToSet(todo'[t]) = ToSet(todo[t]) \union ToSet(batch)
          /\ Once(todo[t]) /\ Once(batch) /\ ToSet(todo[t]) \intersect ToSet(batch) = {}
               => Once(todo'[t])
      BY <3>1, <3>2, ConcatIs
    <3>4. QED
      BY <2>1, <3>1, <3>3, EmptyIs, ZenonT(60) DEF OnceInv, IsLogged
  <2>4. QED
    BY <1>4, <2>2, <2>3, SendSucceedsIs
<1>5. CASE SendFails
  <2>1. Filling' = <<>> /\ UNCHANGED <<channel, buffer, todo, logged>>
    BY <1>5 DEF SendFails, AfterFault, Filling, streamVars
  <2>2. QED
    BY <2>1, EmptyIs DEF OnceInv, IsLogged
<1>6. CASE RestartService
  <2>1. Filling' = <<>> /\ channel' = <<>> /\ UNCHANGED <<buffer, todo, logged>>
    BY <1>6 DEF RestartService, Filling, streamVars
  <2>2. QED
    BY <2>1, EmptyIs DEF OnceInv, IsLogged
<1>7. CASE WebLogs
  <2>1. PICK e \in Entries :
          /\ e.from = "web" /\ e.nr = logged.web + 1
          /\ logged' = [logged EXCEPT !.web = e.nr]
          /\ todo' = [todo EXCEPT ![WebThread] = <<e>>]
          /\ UNCHANGED <<serviceVars, linkVars, announce, buffer, pageVars>>
    BY <1>7, WebLogsIs
  <2>2. /\ \A d \in Entries : IsLogged(d) => IsLogged(d)'
        /\ IsLogged(e)' /\ ~IsLogged(e)
    BY <2>1, EntryIs, LoggedStays
  <2>3. /\ ToSet(todo'[WebThread]) = {e} /\ Once(todo'[WebThread])
        /\ \A u \in Threads \ {WebThread} : todo'[u] = todo[u]
    BY <2>1, SingleIs, Positive DEF TypeInv
  <2>4. Filling' = Filling /\ channel' = channel /\ buffer' = buffer
    BY <2>1 DEF Filling, serviceVars
  <2>5. /\ e \notin ToSet(channel) \union ToSet(Filling) \union ToSet(buffer)
        /\ \A u \in Threads : e \notin ToSet(todo[u])
        /\ \A d \in ToSet(channel) \union ToSet(Filling) \union ToSet(buffer) : IsLogged(d)'
        /\ \A u \in Threads : \A d \in ToSet(todo[u]) : IsLogged(d)'
    <3>1. /\ \A d \in ToSet(channel) \union ToSet(Filling) \union ToSet(buffer) : IsLogged(d)
          /\ \A u \in Threads : \A d \in ToSet(todo[u]) : IsLogged(d)
      BY DEF OnceInv
    <3>2. QED
      BY <2>2, <3>1, EntriesOf
  <2>6. ASSUME NEW u \in Threads
        PROVE  /\ Once(todo'[u]) /\ \A d \in ToSet(todo'[u]) : IsLogged(d)'
               /\ ToSet(todo'[u]) \subseteq ToSet(todo[u]) \union {e}
               /\ u # WebThread => ToSet(todo'[u]) = ToSet(todo[u])
    BY <2>2, <2>3, <2>5 DEF OnceInv
  <2>7. \A t, u \in Threads : t # u => ToSet(todo'[t]) \intersect ToSet(todo'[u]) = {}
    BY <2>3, <2>5, <2>6 DEF OnceInv
  <2>8. QED
    BY <2>4, <2>5, <2>6, <2>7 DEF OnceInv
<1>8. ASSUME NEW t \in Threads, Write(t) PROVE OnceInv'
  <2>1. PICK e \in Entries :
          /\ todo' = [todo EXCEPT ![t] = Tail(todo[t])]
          /\ ToSet(todo[t]) = {e} \union ToSet(Tail(todo[t]))
          /\ Once(todo[t]) => Once(Tail(todo[t])) /\ e \notin ToSet(Tail(todo[t]))
          /\ ToSet(buffer') \subseteq ToSet(buffer) \union {e}
          /\ Once(buffer) /\ e \notin ToSet(buffer) => Once(buffer')
          /\ UNCHANGED <<logged, serviceVars, linkVars, pageVars>>
    BY <1>8, WriteIs
  <2>2. todo'[t] = Tail(todo[t]) /\ \A u \in Threads \ {t} : todo'[u] = todo[u]
    BY <2>1 DEF TypeInv
  <2>3. Filling' = Filling /\ channel' = channel /\ logged' = logged
    BY <2>1 DEF Filling, serviceVars
  <2>4. ASSUME NEW u \in Threads
        PROVE  /\ Once(todo'[u]) /\ ToSet(todo'[u]) \subseteq ToSet(todo[u])
               /\ e \notin ToSet(todo'[u])
    <3>1. CASE u = t
      BY <2>1, <2>2, <3>1 DEF OnceInv
    <3>2. CASE u # t
      BY <2>1, <2>2, <3>2 DEF OnceInv
    <3>3. QED
      BY <3>1, <3>2
  <2>5. /\ Once(buffer') /\ ToSet(buffer') \subseteq ToSet(buffer) \union {e}
        /\ e \notin ToSet(channel) /\ e \notin ToSet(Filling) /\ IsLogged(e)
    BY <2>1 DEF OnceInv
  <2>6. \A d : IsLogged(d)' <=> IsLogged(d)
    BY <2>3 DEF IsLogged
  <2>7. /\ Once(channel') /\ Once(Filling') /\ Once(buffer')
        /\ ToSet(channel') \intersect ToSet(Filling') = {}
        /\ ToSet(channel') \intersect ToSet(buffer') = {}
        /\ ToSet(Filling') \intersect ToSet(buffer') = {}
        /\ \A d \in ToSet(channel') \union ToSet(Filling') \union ToSet(buffer') : IsLogged(d)'
    BY <2>3, <2>5, <2>6 DEF OnceInv
  <2>8. ASSUME NEW u \in Threads
        PROVE  /\ \A d \in ToSet(todo'[u]) : IsLogged(d)'
               /\ ToSet(todo'[u]) \intersect ToSet(channel') = {}
               /\ ToSet(todo'[u]) \intersect ToSet(Filling') = {}
               /\ ToSet(todo'[u]) \intersect ToSet(buffer') = {}
    BY <2>3, <2>4, <2>5, <2>6 DEF OnceInv
  <2>9. \A u, w \in Threads : u # w => ToSet(todo'[u]) \intersect ToSet(todo'[w]) = {}
    BY <2>4 DEF OnceInv
  <2>10. QED
    BY <2>4, <2>7, <2>8, <2>9 DEF OnceInv
<1>9. CASE RestartWeb
  <2>1. /\ Filling' = Filling /\ channel' = channel /\ logged' = logged /\ buffer' = <<>>
        /\ \A t \in Threads : todo'[t] = <<>>
    BY <1>9 DEF RestartWeb, Filling, serviceVars
  <2>2. QED
    BY <2>1, EmptyIs DEF OnceInv, IsLogged
<1>10. CASE UNCHANGED <<logged, serviceVars, todo, buffer>>
  BY <1>10 DEF OnceInv, IsLogged, Filling, serviceVars
<1>11. ASSUME \/ LinkBreaks \/ NoticeBreak \/ Connect \/ PageStep \/ UNCHANGED vars
              \/ \E t \in Threads : OnLogReceived(t)
       PROVE  UNCHANGED <<logged, serviceVars, todo, buffer>>
  BY <1>11 DEF LinkBreaks, NoticeBreak, Connect, OnLogReceived, PageStep, OpenPage, Resync,
     HandleInsert, Pause, Resume, ClearView, ClosePage, vars, streamVars
<1>12. QED
  BY <1>1, <1>2, <1>3, <1>4, <1>5, <1>6, <1>7, <1>8, <1>9, <1>10, <1>11
  DEF Next, ForwarderStep

-----------------------------------------------------------------------------
(* The service's entries: the channel holds the last that were logged, one after the
   other, and all that was read from it is older. *)
Behind == logged.service - Len(channel)
Rising(s) == \A i, j \in 1 .. Len(s) : i < j => s[i].nr < s[j].nr

OrderInv ==
  /\ \A i \in 1 .. Len(channel) : channel[i].nr = Behind + i
  /\ Rising(Filling) /\ \A x \in ToSet(Filling) : x.nr <= Behind
  /\ \A t \in HubThreads :
       /\ Rising(todo[t]) /\ \A x \in ToSet(todo[t]) : x.nr <= Behind
       /\ \A x \in ToSet(todo[t]), y \in ToSet(Filling) : x.nr < y.nr

LEMMA RisingConcat ==
  ASSUME NEW s \in Seq(Entries), NEW r \in Seq(Entries), Rising(s), Rising(r),
         \A x \in ToSet(s), y \in ToSet(r) : x.nr < y.nr
  PROVE  Rising(s \o r)
<1> DEFINE c == s \o r
<1>1. /\ c \in Seq(Entries) /\ Len(c) = Len(s) + Len(r) /\ Len(s) \in Nat /\ Len(r) \in Nat
      /\ \A i \in 1 .. Len(s) : c[i] = s[i]
      /\ \A i \in 1 .. Len(r) : c[Len(s) + i] = r[i]
  BY ConcatProperties
<1>2. /\ \A i \in 1 .. Len(s) : s[i] \in ToSet(s)
      /\ \A i \in 1 .. Len(r) : r[i] \in ToSet(r)
  BY ToSetIs
<1> HIDE DEF c
<1> SUFFICES ASSUME NEW i \in 1 .. Len(c), NEW j \in 1 .. Len(c), i < j
             PROVE  c[i].nr < c[j].nr
  BY DEF Rising, c
<1>3. CASE j \in 1 .. Len(s)
  BY <1>1, <1>3 DEF Rising
<1>4. CASE i \in 1 .. Len(s) /\ j \notin 1 .. Len(s)
  <2>1. j - Len(s) \in 1 .. Len(r) /\ Len(s) + (j - Len(s)) = j
    BY <1>1, <1>4
  <2>2. c[j] = r[j - Len(s)] /\ c[i] = s[i]
    BY <1>1, <1>4, <2>1
  <2>3. QED
    BY <1>2, <1>4, <2>1, <2>2
<1>5. CASE i \notin 1 .. Len(s)
  <2>1. /\ i - Len(s) \in 1 .. Len(r) /\ Len(s) + (i - Len(s)) = i
        /\ j - Len(s) \in 1 .. Len(r) /\ Len(s) + (j - Len(s)) = j
        /\ i - Len(s) < j - Len(s)
    BY <1>1, <1>5
  <2>2. c[j] = r[j - Len(s)] /\ c[i] = r[i - Len(s)]
    BY <1>1, <2>1
  <2>3. QED
    BY <2>1, <2>2 DEF Rising
<1>6. QED
  BY <1>1, <1>3, <1>4, <1>5

LEMMA RisingTail ==
  ASSUME NEW s \in Seq(Entries), s # <<>>, Rising(s)
  PROVE  Rising(Tail(s))
<1>1. /\ Len(Tail(s)) = Len(s) - 1 /\ Len(s) \in Nat \ {0}
      /\ \A i \in 1 .. Len(Tail(s)) : Tail(s)[i] = s[i + 1]
  BY HeadIs
<1>2. QED
  BY <1>1 DEF Rising

LEMMA OrderKept == TypeInv /\ OrderInv /\ [Next]_vars => OrderInv'
<1> SUFFICES ASSUME TypeInv, OrderInv, [Next]_vars PROVE OrderInv'
  OBVIOUS
<1>0. /\ Behind \in Int /\ Len(channel) \in Nat /\ logged.service \in Nat
      /\ \A x \in Entries : x.nr \in Nat
      /\ Rising(<<>>) /\ ToSet(<<>>) = {}
  BY EntryIs, EmptyIs, Positive DEF TypeInv, Behind, Rising
<1>1. CASE ServiceLogs
  <2>1. PICK e \in Entries :
          /\ e.nr = logged.service + 1 /\ logged' = [logged EXCEPT !.service = e.nr]
          /\ channel' = Newest(Append(channel, e), ChannelCapacity)
          /\ UNCHANGED <<forwarder, batch, linkVars, streamVars, pageVars>>
    BY <1>1, ServiceLogsIs
  <2>2. /\ Len(channel') = IF Len(channel) < ChannelCapacity
                           THEN Len(channel) + 1 ELSE ChannelCapacity
        /\ \A i \in 1 .. Len(channel') :
             \/ i = Len(channel') /\ channel'[i] = e
             \/ \E j \in 1 .. Len(channel) :
                  j = Len(channel) + 1 - Len(channel') + i /\ channel'[i] = channel[j]
    BY <2>1, ChannelPushed
  <2>3. /\ logged'.service = logged.service + 1 /\ Len(channel') \in Nat
        /\ Behind' = logged.service + 1 - Len(channel') /\ Behind <= Behind' /\ Behind' \in Int
    <3>1. logged'.service = logged.service + 1
      BY <2>1 DEF TypeInv
    <3>2. Len(channel') \in Nat /\ Len(channel') <= Len(channel) + 1
      <4>1. Len(channel) <= ChannelCapacity
        BY DEF TypeInv
      <4>2. QED
        BY <1>0, <2>2, <4>1, Positive
    <3>3. QED
      BY <1>0, <3>1, <3>2 DEF Behind
  <2>4. \A i \in 1 .. Len(channel') : channel'[i].nr = Behind' + i
    <3> SUFFICES ASSUME NEW i \in 1 .. Len(channel') PROVE channel'[i].nr = Behind' + i
      OBVIOUS
    <3>1. CASE i = Len(channel') /\ channel'[i] = e
      BY <1>0, <2>1, <2>3, <3>1
    <3>2. CASE \E j \in 1 .. Len(channel) :
                 j = Len(channel) + 1 - Len(channel') + i /\ channel'[i] = channel[j]
      <4>1. channel'[i].nr = Behind + (Len(channel) + 1 - Len(channel') + i)
        BY <3>2 DEF OrderInv
      <4>2. QED
        BY <1>0, <2>3, <4>1 DEF Behind
    <3>3. QED
      BY <2>2, <3>1, <3>2
  <2>5. Filling' = Filling /\ todo' = todo
    BY <2>1 DEF Filling, streamVars
  <2>6. /\ \A x \in ToSet(Filling) : x.nr <= Behind'
        /\ \A t \in HubThreads : \A x \in ToSet(todo[t]) : x.nr <= Behind'
    BY <1>0, <2>3, EntriesOf, Positive, SMTT(30) DEF OrderInv
  <2>7. QED
    BY <2>4, <2>5, <2>6 DEF OrderInv
<1>2. CASE TryRead
  <2>1. PICK e \in Entries :
          /\ Len(channel) \in Nat \ {0} /\ Len(channel') = Len(channel) - 1
          /\ e = channel[1] /\ \A i \in 1 .. Len(channel') : channel'[i] = channel[i + 1]
          /\ batch' = Append(batch, e) /\ forwarder = "draining"
          /\ UNCHANGED <<logged, forwarder, linkVars, streamVars, pageVars>>
    BY <1>2, TryReadIs
  <2>2. Behind' = Behind + 1 /\ e.nr = Behind + 1
    BY <1>0, <2>1 DEF Behind, OrderInv
  <2>3. \A i \in 1 .. Len(channel') : channel'[i].nr = Behind' + i
    <3> SUFFICES ASSUME NEW i \in 1 .. Len(channel') PROVE channel'[i].nr = Behind' + i
      OBVIOUS
    <3>1. i + 1 \in 1 .. Len(channel) /\ channel'[i] = channel[i + 1]
      BY <2>1
    <3>2. channel[i + 1].nr = Behind + (i + 1)
      BY <3>1 DEF OrderInv
    <3>3. QED
      BY <1>0, <2>2, <3>1, <3>2
  <2>4. /\ Filling = batch /\ Filling' = batch \o <<e>> /\ todo' = todo
        /\ batch \in Seq(Entries) /\ <<e>> \in Seq(Entries)
    BY <2>1 DEF Filling, TypeInv, streamVars
  <2>5. ToSet(<<e>>) = {e} /\ Rising(<<e>>)
    BY SingleIs DEF Rising
  <2>6. \A x \in ToSet(batch) : x.nr < e.nr /\ x.nr \in Nat
    BY <1>0, <2>2, <2>4, EntriesOf DEF OrderInv
  <2>7. Rising(batch \o <<e>>)
    BY <2>4, <2>5, <2>6, RisingConcat DEF OrderInv
  <2>8. ToSet(Filling') = ToSet(batch) \union {e}
    BY <2>4, <2>5, ConcatIs
  <2>9. \A x \in ToSet(Filling') : x.nr <= Behind'
    BY <1>0, <2>2, <2>6, <2>8
  <2>10. ASSUME NEW t \in HubThreads, NEW x \in ToSet(todo[t])
         PROVE  x.nr <= Behind' /\ \A y \in ToSet(Filling') : x.nr < y.nr
    <3>1. x.nr <= Behind /\ x.nr \in Nat /\ \A y \in ToSet(batch) : x.nr < y.nr
      BY <1>0, <2>4, EntriesOf, Positive DEF OrderInv
    <3>2. QED
      BY <1>0, <2>2, <2>8, <3>1
  <2>11. QED
    BY <2>3, <2>4, <2>7, <2>9, <2>10 DEF OrderInv
<1>3. CASE SendSucceeds
  <2>1. Filling = batch /\ Filling' = <<>> /\ Behind' = Behind /\ channel' = channel
    BY <1>3, SendSucceedsIs DEF Filling, Behind
  <2>2. ASSUME NEW t \in HubThreads, todo' = [todo EXCEPT ![t] = @ \o batch],
               NEW u \in HubThreads
        PROVE  Rising(todo'[u]) /\ \A x \in ToSet(todo'[u]) : x.nr <= Behind
    <3>1. t \in Threads /\ todo[t] \in Seq(Entries) /\ batch \in Seq(Entries)
      BY Positive DEF TypeInv
    <3>2. CASE u = t
      <4>1. todo'[u] = todo[t] \o batch
        BY <2>2, <3>1, <3>2 DEF TypeInv
      <4>2. Rising(todo[t] \o batch)
        BY <2>1, <3>1, RisingConcat DEF OrderInv
      <4>3. ToSet(todo[t] \o batch) = ToSet(todo[t]) \union ToSet(batch)
        BY <3>1, ConcatIs
      <4>4. QED
        BY <2>1, <4>1, <4>2, <4>3 DEF OrderInv
    <3>3. CASE u # t
      BY <2>2, <3>1, <3>3, Positive DEF TypeInv, OrderInv
    <3>4. QED
      BY <3>2, <3>3
  <2>3. \A u \in HubThreads : Rising(todo'[u]) /\ \A x \in ToSet(todo'[u]) : x.nr <= Behind
    <3>1. CASE todo' = todo
      BY <3>1 DEF OrderInv
    <3>2. QED
      BY <1>3, <2>2, <3>1, SendSucceedsIs
  <2>4. QED
    BY <1>0, <2>1, <2>3 DEF OrderInv
<1>4. CASE Filling' = <<>> /\ UNCHANGED <<logged, channel, todo>>
  BY <1>0, <1>4 DEF OrderInv, Behind
<1>5. CASE RestartService
  <2>1. /\ Filling' = <<>> /\ channel' = <<>> /\ Behind' = logged.service /\ Behind <= Behind'
        /\ UNCHANGED todo
    BY <1>0, <1>5 DEF RestartService, Filling, streamVars, Behind
  <2>2. \A t \in HubThreads : \A x \in ToSet(todo[t]) : x.nr <= Behind'
    BY <1>0, <2>1, EntriesOf, Positive DEF OrderInv
  <2>3. Len(channel') = 0
    BY <2>1
  <2>4. QED
    BY <1>0, <2>1, <2>2, <2>3 DEF OrderInv
<1>6. CASE WebLogs
  <2>1. /\ todo' = [todo EXCEPT ![WebThread] = todo'[WebThread]]
        /\ logged'.service = logged.service /\ UNCHANGED serviceVars
    <3>1. PICK e \in Entries : todo' = [todo EXCEPT ![WebThread] = <<e>>]
      BY <1>6, WebLogsIs
    <3>2. QED
      BY <1>6, <3>1, Positive DEF TypeInv, WebLogs
  <2>2. \A t \in HubThreads : todo'[t] = todo[t]
    BY <2>1, Positive DEF TypeInv
  <2>3. Behind' = Behind /\ Filling' = Filling /\ channel' = channel
    BY <2>1 DEF Behind, Filling, serviceVars
  <2>4. QED
    BY <2>2, <2>3 DEF OrderInv
<1>7. ASSUME NEW t \in Threads, Write(t) PROVE OrderInv'
  <2>1. /\ todo[t] # <<>> /\ todo[t] \in Seq(Entries)
        /\ todo' = [todo EXCEPT ![t] = Tail(todo[t])]
        /\ ToSet(Tail(todo[t])) \subseteq ToSet(todo[t])
        /\ UNCHANGED <<logged, serviceVars>>
    BY <1>7, HeadIs DEF Write, TypeInv
  <2>2. Behind' = Behind /\ Filling' = Filling /\ channel' = channel
    BY <2>1 DEF Behind, Filling, serviceVars
  <2>3. ASSUME NEW u \in HubThreads
        PROVE  Rising(todo'[u]) /\ ToSet(todo'[u]) \subseteq ToSet(todo[u])
    <3>1. CASE u = t
      BY <2>1, <3>1, RisingTail DEF TypeInv, OrderInv
    <3>2. CASE u # t
      BY <2>1, <3>2, Positive DEF TypeInv, OrderInv
    <3>3. QED
      BY <3>1, <3>2
  <2>4. QED
    BY <2>2, <2>3 DEF OrderInv
<1>8. CASE RestartWeb
  <2>1. /\ Behind' = Behind /\ Filling' = Filling /\ channel' = channel
        /\ \A t \in Threads : todo'[t] = <<>>
    BY <1>8 DEF RestartWeb, Behind, Filling, serviceVars
  <2>2. QED
    BY <1>0, <2>1, Positive DEF OrderInv
<1>9. CASE UNCHANGED <<logged, serviceVars, todo>>
  BY <1>9 DEF OrderInv, Behind, Filling, serviceVars
<1>10. ASSUME StartBatch \/ SendFails
       PROVE  Filling' = <<>> /\ UNCHANGED <<logged, channel, todo>>
  BY <1>10 DEF StartBatch, BatchCleared, SendFails, AfterFault, Filling, streamVars
<1>11. ASSUME \/ LinkBreaks \/ NoticeBreak \/ Connect \/ PageStep \/ UNCHANGED vars
              \/ \E t \in Threads : OnLogReceived(t)
       PROVE  UNCHANGED <<logged, serviceVars, todo>>
  BY <1>11 DEF LinkBreaks, NoticeBreak, Connect, OnLogReceived, PageStep, OpenPage, Resync,
     HandleInsert, Pause, Resume, ClearView, ClosePage, vars, streamVars
<1>12. QED
  BY <1>1, <1>2, <1>3, <1>4, <1>5, <1>6, <1>7, <1>8, <1>9, <1>10, <1>11
  DEF Next, ForwarderStep

-----------------------------------------------------------------------------
(* An entry that has come as far as the buffer is nowhere before it any more, and does
   not get there again. *)
Out(e) ==
  /\ IsLogged(e)
  /\ e \notin ToSet(channel) \union ToSet(Filling)
  /\ \A t \in Threads : e \notin ToSet(todo[t])

LEMMA OutStays ==
  ASSUME TypeInv, OnceInv, [Next]_vars, NEW e \in Entries, Out(e)
  PROVE  Out(e)'
<1>1. CASE ServiceLogs
  <2>1. PICK d \in Entries :
          /\ d.from = "service" /\ d.nr = logged.service + 1
          /\ logged' = [logged EXCEPT !.service = d.nr]
          /\ channel' = Newest(Append(channel, d), ChannelCapacity)
          /\ UNCHANGED <<forwarder, batch, linkVars, streamVars, pageVars>>
    BY <1>1, ServiceLogsIs
  <2>2. (IsLogged(e) => IsLogged(e)') /\ ~IsLogged(d)
    BY <2>1, EntryIs, LoggedStays
  <2>3. ToSet(channel') \subseteq ToSet(channel) \union {d}
    BY <2>1, PushedIs, Positive DEF TypeInv
  <2>4. Filling' = Filling /\ todo' = todo
    BY <2>1 DEF Filling, streamVars
  <2>5. QED
    BY <2>2, <2>3, <2>4 DEF Out
<1>2. CASE TryRead
  <2>1. PICK d \in Entries :
          /\ d \in ToSet(channel) /\ ToSet(channel') \subseteq ToSet(channel)
          /\ ToSet(batch') = ToSet(batch) \union {d} /\ forwarder = "draining"
          /\ UNCHANGED <<logged, forwarder, linkVars, streamVars, pageVars>>
    BY <1>2, TryReadIs
  <2>2. Filling = batch /\ Filling' = batch' /\ todo' = todo
    BY <2>1 DEF Filling, streamVars
  <2>3. QED
    BY <2>1, <2>2 DEF Out, IsLogged
<1>3. CASE SendSucceeds
  <2>1. Filling = batch /\ Filling' = <<>> /\ UNCHANGED <<channel, logged>>
    BY <1>3, SendSucceedsIs DEF Filling
  <2>2. CASE todo' = todo
    BY <2>1, <2>2, EmptyIs DEF Out, IsLogged
  <2>3. ASSUME NEW t \in HubThreads, todo' = [todo EXCEPT ![t] = @ \o batch]
        PROVE  Out(e)'
    <3>1. /\ todo'[t] = todo[t] \o batch /\ t \in Threads
          /\ \A u \in Threads \ {t} : todo'[u] = todo[u]
      BY <2>3, Positive DEF TypeInv
    <3>2. ToSet(todo'[t]) = ToSet(todo[t]) \union ToSet(batch)
      BY <3>1, ConcatIs DEF TypeInv
    <3>3. QED
      BY <2>1, <3>1, <3>2, EmptyIs DEF Out, IsLogged
  <2>4. QED
    BY <1>3, <2>2, <2>3, SendSucceedsIs
<1>4. CASE RestartService
  <2>1. Filling' = <<>> /\ channel' = <<>> /\ UNCHANGED <<todo, logged>>
    BY <1>4 DEF RestartService, Filling, streamVars
  <2>2. QED
    BY <2>1, EmptyIs DEF Out, IsLogged
<1>5. CASE WebLogs
  <2>1. PICK d \in Entries :
          /\ d.from = "web" /\ d.nr = logged.web + 1
          /\ logged' = [logged EXCEPT !.web = d.nr]
          /\ todo' = [todo EXCEPT ![WebThread] = <<d>>]
          /\ UNCHANGED <<serviceVars, linkVars, announce, buffer, pageVars>>
    BY <1>5, WebLogsIs
  <2>2. (IsLogged(e) => IsLogged(e)') /\ ~IsLogged(d)
    BY <2>1, EntryIs, LoggedStays
  <2>3. /\ ToSet(todo'[WebThread]) = {d}
        /\ \A u \in Threads \ {WebThread} : todo'[u] = todo[u]
    BY <2>1, SingleIs, Positive DEF TypeInv
  <2>4. Filling' = Filling /\ channel' = channel
    BY <2>1 DEF Filling, serviceVars
  <2>5. QED
    BY <2>2, <2>3, <2>4 DEF Out
<1>6. ASSUME NEW t \in Threads, Write(t) PROVE Out(e)'
  <2>1. /\ todo' = [todo EXCEPT ![t] = Tail(todo[t])]
        /\ ToSet(Tail(todo[t])) \subseteq ToSet(todo[t])
        /\ UNCHANGED <<logged, serviceVars>>
    BY <1>6, WriteIs
  <2>2. \A u \in Threads : ToSet(todo'[u]) \subseteq ToSet(todo[u])
    BY <2>1 DEF TypeInv
  <2>3. Filling' = Filling /\ channel' = channel /\ logged' = logged
    BY <2>1 DEF Filling, serviceVars
  <2>4. QED
    BY <2>2, <2>3 DEF Out, IsLogged
<1>7. CASE RestartWeb
  <2>1. /\ Filling' = Filling /\ channel' = channel /\ logged' = logged
        /\ \A t \in Threads : todo'[t] = <<>>
    BY <1>7 DEF RestartWeb, Filling, serviceVars
  <2>2. QED
    BY <2>1, EmptyIs DEF Out, IsLogged
<1>8. CASE StartBatch \/ SendFails
  <2>1. Filling' = <<>> /\ UNCHANGED <<channel, todo, logged>>
    BY <1>8 DEF StartBatch, BatchCleared, SendFails, AfterFault, Filling, streamVars
  <2>2. QED
    BY <2>1, EmptyIs DEF Out, IsLogged
<1>9. ASSUME \/ LinkBreaks \/ NoticeBreak \/ Connect \/ PageStep \/ UNCHANGED vars
             \/ \E t \in Threads : OnLogReceived(t)
      PROVE  Out(e)'
  <2>1. UNCHANGED <<logged, serviceVars, todo>>
    BY <1>9 DEF LinkBreaks, NoticeBreak, Connect, OnLogReceived, PageStep, OpenPage, Resync,
       HandleInsert, Pause, Resume, ClearView, ClosePage, vars, streamVars
  <2>2. QED
    BY <2>1 DEF Out, IsLogged, Filling, serviceVars
<1>10. QED
  BY <1>1, <1>2, <1>3, <1>4, <1>5, <1>6, <1>7, <1>8, <1>9 DEF Next, ForwarderStep

(* An entry the channel dropped, that went with a failed batch or that the buffer has let
   go, is gone for good. *)
Gone(e) == Out(e) /\ e \notin ToSet(buffer)
NeverComesBack == [][\A e \in Entries : Gone(e) => Gone(e)']_vars

LEMMA GoneStays ==
  ASSUME TypeInv, OnceInv, [Next]_vars, NEW e \in Entries, Gone(e)
  PROVE  Gone(e)'
<1>1. ASSUME NEW t \in Threads, Write(t) PROVE e \notin ToSet(buffer')
  <2>1. PICK d \in Entries :
          d \in ToSet(todo[t]) /\ ToSet(buffer') \subseteq ToSet(buffer) \union {d}
    BY <1>1, WriteIs
  <2>2. QED
    BY <2>1 DEF Gone, Out
<1>2. CASE RestartWeb
  BY <1>2, OutStays, EmptyIs DEF RestartWeb, Gone
<1>3. CASE UNCHANGED buffer
  BY <1>3, OutStays DEF Gone
<1>4. ASSUME ~RestartWeb, \A t \in Threads : ~Write(t)
      PROVE  UNCHANGED buffer
  BY <1>4 DEF Next, ServiceLogs, ForwarderStep, StartBatch, TryRead, SendSucceeds, SendFails,
     RestartService, LinkBreaks, NoticeBreak, Connect, WebLogs, OnLogReceived, PageStep,
     OpenPage, Resync, HandleInsert, Pause, Resume, ClearView, ClosePage, vars, streamVars
<1>5. QED
  BY <1>1, <1>2, <1>3, <1>4, OutStays DEF Gone

-----------------------------------------------------------------------------
(* An entry reaches the page by its announcement, once, and by a Resync. *)
AtMostOnce(s, e) == \A i, j \in 1 .. Len(s) : s[i] = e /\ s[j] = e => i = j
Twice(s) ==
  \A i, j, k \in 1 .. Len(s) : s[i] = s[j] /\ s[j] = s[k] => i = j \/ j = k \/ i = k

ViewInv ==
  /\ Twice(view)
  /\ Once(inserts)
  /\ \A e \in ToSet(inserts) : AtMostOnce(view, e)
  /\ \A e \in ToSet(view) \union ToSet(inserts) \union ToSet(buffer) : Out(e)
  /\ \A t \in Threads :
       /\ ToSet(announce[t]) \intersect ToSet(inserts) = {}
       /\ \A e \in ToSet(announce[t]) : AtMostOnce(view, e) /\ Out(e)
  /\ \A t, u \in Threads : t # u => ToSet(announce[t]) \intersect ToSet(announce[u]) = {}

LEMMA FewAreFew ==
  ASSUME NEW s \in Seq(Entries)
  PROVE  /\ Once(s) => Twice(s) /\ \A e : AtMostOnce(s, e)
         /\ \A e : e \notin ToSet(s) => AtMostOnce(s, e)
<1>1. \A i \in 1 .. Len(s) : s[i] \in ToSet(s)
  BY ToSetIs
<1>2. QED
  BY <1>1 DEF Once, Twice, AtMostOnce

(* What is shown once at most may be inserted once more. *)
LEMMA InsertedIs ==
  ASSUME NEW s \in Seq(Entries), NEW e \in Entries, Len(s) <= Capacity,
         Twice(s), AtMostOnce(s, e)
  PROVE  LET v == InsertNewest(s, e)
         IN  /\ Twice(v) /\ ToSet(v) \subseteq ToSet(s) \union {e}
             /\ \A d : d # e /\ AtMostOnce(s, d) => AtMostOnce(v, d)
<1> DEFINE v == InsertNewest(s, e)
<1>1. /\ v \in Seq(Entries)
      /\ \A i \in 1 .. Len(v) : \/ i = 1 /\ v[i] = e
                                \/ i - 1 \in 1 .. Len(s) /\ v[i] = s[i - 1]
  BY InsertNewestIs
<1> HIDE DEF v
<1>2. ASSUME NEW i \in 1 .. Len(v), NEW j \in 1 .. Len(v), NEW k \in 1 .. Len(v),
             v[i] = v[j], v[j] = v[k]
      PROVE  i = j \/ j = k \/ i = k
  <2>1. CASE v[i] = e
    <3>1. ASSUME NEW l \in 1 .. Len(v), NEW m \in 1 .. Len(v), v[l] = e, v[m] = e,
                 l # 1, m # 1
          PROVE  l = m
      <4>1. l - 1 \in 1 .. Len(s) /\ m - 1 \in 1 .. Len(s) /\ s[l - 1] = e /\ s[m - 1] = e
        BY <1>1, <3>1
      <4>2. l - 1 = m - 1
        BY <4>1 DEF AtMostOnce
      <4>3. QED
        BY <4>2
    <3>2. QED
      BY <1>2, <2>1, <3>1
  <2>2. CASE v[i] # e
    <3>1. /\ i - 1 \in 1 .. Len(s) /\ j - 1 \in 1 .. Len(s) /\ k - 1 \in 1 .. Len(s)
          /\ s[i - 1] = s[j - 1] /\ s[j - 1] = s[k - 1]
      BY <1>1, <1>2, <2>2
    <3>2. i - 1 = j - 1 \/ j - 1 = k - 1 \/ i - 1 = k - 1
      BY <3>1 DEF Twice
    <3>3. QED
      BY <3>2
  <2>3. QED
    BY <2>1, <2>2
<1>3. ASSUME NEW x \in ToSet(v)
      PROVE  x \in ToSet(s) \union {e}
  <2>1. PICK i \in 1 .. Len(v) : v[i] = x
    BY <1>1, ToSetIs
  <2>2. QED
    BY <1>1, <2>1, ToSetIs
<1>4. ASSUME NEW d, d # e, AtMostOnce(s, d),
             NEW i \in 1 .. Len(v), NEW j \in 1 .. Len(v), v[i] = d, v[j] = d
      PROVE  i = j
  <2>1. i - 1 \in 1 .. Len(s) /\ j - 1 \in 1 .. Len(s) /\ s[i - 1] = d /\ s[j - 1] = d
    BY <1>1, <1>4
  <2>2. i - 1 = j - 1
    BY <1>4, <2>1 DEF AtMostOnce
  <2>3. QED
    BY <2>2
<1>5. Twice(v)
  BY <1>2 DEF Twice
<1>6. \A d : d # e /\ AtMostOnce(s, d) => AtMostOnce(v, d)
  BY <1>4 DEF AtMostOnce
<1>7. QED
  BY <1>3, <1>5, <1>6 DEF v

LEMMA ViewKept == TypeInv /\ OnceInv /\ ViewInv /\ [Next]_vars => ViewInv'
<1> SUFFICES ASSUME TypeInv, OnceInv, ViewInv, [Next]_vars PROVE ViewInv'
  OBVIOUS
<1>1. /\ view \in Seq(Entries) /\ Len(view) <= Capacity /\ inserts \in Seq(Entries)
      /\ buffer \in Seq(Entries)
      /\ \A t \in Threads : announce[t] \in Seq(Entries) /\ Once(announce[t])
  <2>1. ASSUME NEW t \in Threads
        PROVE  announce[t] \in Seq(Entries) /\ Once(announce[t])
    <3>1. announce[t] = <<>> \/ \E e \in Entries : announce[t] = <<e>>
      BY DEF TypeInv, AtMostOne
    <3>2. \A e \in Entries : <<e>> \in Seq(Entries)
      OBVIOUS
    <3>3. QED
      BY <3>1, <3>2, EmptySeq, EmptyIs, SingleIs
  <2>2. QED
    BY <2>1 DEF TypeInv
<1>2. /\ ToSet(view) \subseteq Entries /\ ToSet(inserts) \subseteq Entries
      /\ ToSet(buffer) \subseteq Entries
      /\ \A t \in Threads : ToSet(announce[t]) \subseteq Entries
  BY <1>1, ToSetIs
<1>3. /\ \A e \in ToSet(view) \union ToSet(inserts) \union ToSet(buffer) : Out(e)'
      /\ \A t \in Threads : \A e \in ToSet(announce[t]) : Out(e)'
  BY <1>2, OutStays DEF ViewInv
<1>4. ASSUME NEW t \in Threads, Write(t) PROVE ViewInv'
  <2>1. PICK e \in Entries :
          /\ e \in ToSet(todo[t]) /\ announce[t] = <<>>
          /\ todo' = [todo EXCEPT ![t] = Tail(todo[t])]
          /\ ToSet(todo[t]) = {e} \union ToSet(Tail(todo[t]))
          /\ Once(todo[t]) => Once(Tail(todo[t])) /\ e \notin ToSet(Tail(todo[t]))
          /\ announce' = [announce EXCEPT ![t] = <<e>>]
          /\ ToSet(buffer') \subseteq ToSet(buffer) \union {e}
          /\ UNCHANGED <<logged, serviceVars, linkVars, pageVars>>
    BY <1>4, WriteIs
  <2>2. /\ view' = view /\ inserts' = inserts
        /\ ToSet(announce'[t]) = {e} /\ \A u \in Threads \ {t} : announce'[u] = announce[u]
    BY <2>1, SingleIs DEF TypeInv, pageVars
  <2>3. Out(e)'
    <3>1. /\ Filling' = Filling /\ channel' = channel /\ logged' = logged
          /\ todo'[t] = Tail(todo[t]) /\ \A u \in Threads \ {t} : todo'[u] = todo[u]
      BY <2>1 DEF Filling, serviceVars, TypeInv
    <3>2. /\ e \notin ToSet(channel) /\ e \notin ToSet(Filling) /\ IsLogged(e)
          /\ e \notin ToSet(Tail(todo[t])) /\ \A u \in Threads \ {t} : e \notin ToSet(todo[u])
      BY <2>1 DEF OnceInv
    <3>3. QED
      BY <3>1, <3>2 DEF Out, IsLogged
  <2>4. /\ e \notin ToSet(view) /\ e \notin ToSet(inserts)
        /\ \A u \in Threads : e \notin ToSet(announce[u])
    BY <2>1 DEF ViewInv, Out
  <2>5. AtMostOnce(view, e)
    BY <1>1, <2>4, FewAreFew
  <2>6. ASSUME NEW u \in Threads
        PROVE  /\ ToSet(announce'[u]) \intersect ToSet(inserts) = {}
               /\ \A d \in ToSet(announce'[u]) : AtMostOnce(view, d) /\ Out(d)'
               /\ ToSet(announce'[u]) \subseteq ToSet(announce[u]) \union {e}
               /\ u # t => ToSet(announce'[u]) = ToSet(announce[u])
    <3>1. CASE u = t
      BY <2>2, <2>3, <2>4, <2>5, <3>1
    <3>2. CASE u # t
      BY <1>3, <2>2, <3>2 DEF ViewInv
    <3>3. QED
      BY <3>1, <3>2
  <2>7. \A u, w \in Threads : u # w => ToSet(announce'[u]) \intersect ToSet(announce'[w]) = {}
    BY <2>2, <2>4, <2>6 DEF ViewInv
  <2>8. \A d \in ToSet(view) \union ToSet(inserts) \union ToSet(buffer') : Out(d)'
    BY <1>3, <2>1, <2>3
  <2>9. QED
    BY <2>2, <2>6, <2>7, <2>8 DEF ViewInv
<1>5. ASSUME NEW t \in Threads, OnLogReceived(t) PROVE ViewInv'
  <2>1. /\ announce' = [announce EXCEPT ![t] = <<>>] /\ UNCHANGED <<view, buffer>>
        /\ inserts' = inserts \/ inserts' = inserts \o announce[t]
    BY <1>5 DEF OnLogReceived
  <2>2. /\ ToSet(inserts') \subseteq ToSet(inserts) \union ToSet(announce[t])
        /\ Once(inserts')
    <3>1. /\ ToSet(inserts \o announce[t]) = ToSet(inserts) \union ToSet(announce[t])
          /\ Once(inserts \o announce[t])
      BY <1>1, ConcatIs DEF ViewInv
    <3>2. QED
      BY <2>1, <3>1 DEF ViewInv
  <2>3. /\ ToSet(announce'[t]) = {} /\ \A u \in Threads \ {t} : announce'[u] = announce[u]
    BY <2>1, EmptyIs DEF TypeInv
  <2>4. ASSUME NEW u \in Threads
        PROVE  /\ ToSet(announce'[u]) \subseteq ToSet(announce[u])
               /\ ToSet(announce'[u]) \intersect ToSet(inserts') = {}
    <3>1. CASE u = t
      BY <2>3, <3>1
    <3>2. CASE u # t
      BY <2>2, <2>3, <3>2 DEF ViewInv
    <3>3. QED
      BY <3>1, <3>2
  <2>5. \A u, w \in Threads : u # w => ToSet(announce'[u]) \intersect ToSet(announce'[w]) = {}
    BY <2>4 DEF ViewInv
  <2>6. \A e \in ToSet(inserts') : AtMostOnce(view, e) /\ Out(e)'
    BY <1>3, <2>2 DEF ViewInv
  <2>7. \A e \in ToSet(view) \union ToSet(inserts') \union ToSet(buffer) : Out(e)'
    BY <1>3, <2>6
  <2>8. \A u \in Threads : \A e \in ToSet(announce'[u]) : AtMostOnce(view, e) /\ Out(e)'
    BY <1>3, <2>4 DEF ViewInv
  <2>9. QED
    BY <2>1, <2>2, <2>4, <2>5, <2>6, <2>7, <2>8 DEF ViewInv
<1>6. ASSUME UNCHANGED <<announce, buffer>>, Twice(view'), Once(inserts'),
             ToSet(view') \subseteq ToSet(view) \union ToSet(inserts) \union ToSet(buffer),
             ToSet(inserts') \subseteq ToSet(inserts),
             \A e \in ToSet(inserts') : AtMostOnce(view', e),
             \A t \in Threads : \A e \in ToSet(announce[t]) : AtMostOnce(view', e)
      PROVE  ViewInv'
  BY <1>3, <1>6 DEF ViewInv
<1>7. CASE Resync
  <2>1. view' = Reverse(buffer) /\ UNCHANGED <<announce, buffer, inserts>>
    BY <1>7 DEF Resync, Snapshot, streamVars
  <2>2. /\ view' \in Seq(Entries) /\ ToSet(view') = ToSet(buffer) /\ Once(view')
    BY <1>1, <2>1, ReverseIs DEF OnceInv
  <2>3. Twice(view') /\ \A e : AtMostOnce(view', e)
    BY <2>2, FewAreFew
  <2>4. QED
    BY <1>6, <2>1, <2>2, <2>3 DEF ViewInv
<1>8. CASE HandleInsert
  <2> DEFINE e == Head(inserts)
  <2>1. /\ inserts # <<>> /\ view' = InsertNewest(view, e) /\ inserts' = Tail(inserts)
        /\ UNCHANGED <<announce, buffer>>
    BY <1>8 DEF HandleInsert, streamVars
  <2>2. /\ e \in Entries /\ ToSet(inserts) = {e} \union ToSet(inserts')
        /\ Once(inserts') /\ e \notin ToSet(inserts')
    BY <1>1, <2>1, HeadIs DEF ViewInv
  <2> HIDE DEF e
  <2>3. AtMostOnce(view, e) /\ Twice(view)
    BY <2>2 DEF ViewInv
  <2>4. /\ Twice(view') /\ ToSet(view') \subseteq ToSet(view) \union {e}
        /\ \A d : d # e /\ AtMostOnce(view, d) => AtMostOnce(view', d)
    BY <1>1, <2>1, <2>2, <2>3, InsertedIs
  <2>5. \A d \in ToSet(inserts') : AtMostOnce(view', d)
    BY <2>2, <2>4 DEF ViewInv
  <2>6. \A t \in Threads : \A d \in ToSet(announce[t]) : AtMostOnce(view', d)
    BY <2>2, <2>4 DEF ViewInv
  <2>7. QED
    BY <1>6, <2>1, <2>2, <2>4, <2>5, <2>6
<1>9. CASE ClearView \/ ClosePage
  <2>1. view' = <<>> /\ UNCHANGED <<announce, buffer>>
    BY <1>9 DEF ClearView, ClosePage, streamVars
  <2>2. Twice(<<>>) /\ \A e : AtMostOnce(<<>>, e)
    BY DEF Twice, AtMostOnce
  <2>3. ToSet(view') = {} /\ Once(inserts') /\ ToSet(inserts') \subseteq ToSet(inserts)
    BY <1>9, EmptyIs DEF ViewInv, ClearView, ClosePage
  <2>4. QED
    BY <1>6, <2>1, <2>2, <2>3
<1>10. CASE RestartWeb
  <2>1. /\ view' = <<>> /\ inserts' = <<>> /\ buffer' = <<>>
        /\ \A t \in Threads : announce'[t] = <<>>
    BY <1>10 DEF RestartWeb
  <2>2. Twice(<<>>) /\ ToSet(<<>>) = {} /\ Once(<<>>)
    BY EmptyIs DEF Twice
  <2>3. QED
    BY <2>1, <2>2 DEF ViewInv
<1>11. CASE UNCHANGED <<view, inserts, announce, buffer>>
  BY <1>3, <1>11 DEF ViewInv
<1>12. ASSUME \/ ServiceLogs \/ ForwarderStep \/ RestartService
              \/ LinkBreaks \/ NoticeBreak \/ Connect \/ WebLogs
              \/ OpenPage \/ Pause \/ Resume \/ UNCHANGED vars
       PROVE  UNCHANGED <<view, inserts, announce, buffer>>
  BY <1>12 DEF ServiceLogs, ForwarderStep, StartBatch, TryRead, SendSucceeds, SendFails,
     RestartService, LinkBreaks, NoticeBreak, Connect, WebLogs, OpenPage, Pause, Resume, vars,
     streamVars, pageVars
<1>13. QED
  BY <1>4, <1>5, <1>7, <1>8, <1>9, <1>10, <1>11, <1>12 DEF Next, PageStep

-----------------------------------------------------------------------------
LogInv == TypeInv /\ OnceInv /\ NothingIsMissed /\ OrderInv /\ ViewInv

LEMMA InitOK == Init => LogInv
<1> SUFFICES ASSUME Init PROVE LogInv
  OBVIOUS
<1>1. paused \in BOOLEAN
  BY Zenon DEF Init
<1>2. /\ logged = [service |-> 0, web |-> 0] /\ channel = <<>> /\ forwarder = "waiting"
      /\ batch = <<>> /\ link = "down" /\ conn = NoThread /\ buffer = <<>> /\ page = "closed"
      /\ inserts = <<>> /\ view = <<>> /\ cleared = {}
      /\ \A t \in Threads : todo[t] = <<>>
  BY DEF Init
<1>3. <<>> \in Seq(Entries) /\ Len(<<>>) = 0 /\ <<>> \in AtMostOne
  BY EmptySeq DEF AtMostOne
<1>4. todo \in [Threads -> Seq(Entries)] /\ announce \in [Threads -> AtMostOne]
  BY <1>3 DEF Init
<1>5. TypeInv
  BY <1>1, <1>2, <1>3, <1>4, Positive DEF TypeInv
<1>6. OnceInv
  BY <1>2, EmptyIs DEF OnceInv, Filling
<1>7. NothingIsMissed
  BY <1>2 DEF NothingIsMissed
<1>8. OrderInv
  BY <1>2, EmptyIs, Positive DEF OrderInv, Filling, Rising
<1>9. ViewInv
  BY <1>2, <1>3, EmptyIs DEF Init, ViewInv, Twice
<1>10. QED
  BY <1>5, <1>6, <1>7, <1>8, <1>9 DEF LogInv

(* What holds of an entry on its way. *)
THEOREM InvariantHolds == Spec => []LogInv
<1>1. LogInv /\ [Next]_vars => LogInv'
  BY TypesKept, OnceKept, MissedKept, OrderKept, ViewKept DEF LogInv
<1>2. QED
  BY InitOK, <1>1, PTL DEF Spec

(* Every variable keeps its type: channel, batch, buffer and page never hold more than
   their bounds (LogForwardChannel, MaxLogBatchSize, LogStreamService.Capacity). *)
THEOREM TypeCorrect == Spec => []TypeOK
<1>1. LogInv => TypeOK
  <2> SUFFICES ASSUME LogInv PROVE TypeOK
    OBVIOUS
  <2>1. ASSUME NEW s \in Seq(Entries) PROVE ToSet(s) \subseteq Entries
    BY ToSetIs
  <2>2. logged.service \in 0 .. ServiceEntries /\ logged.web \in 0 .. WebEntries
    BY DEF LogInv, TypeInv
  <2>3. QED
    BY <2>1, <2>2 DEF LogInv, TypeInv, TypeOK, Bounded
<1>2. QED
  BY <1>1, InvariantHolds, PTL

(* No entry of either program is delivered twice, whatever breaks between
   LogForwardChannel, ForwardLogsAsync, PublishLogs and LogStreamService.Write. *)
THEOREM DeliveredOnce == Spec => []PublishedOnce
<1>1. LogInv => PublishedOnce
  <2> SUFFICES ASSUME LogInv, NEW t \in Threads
               PROVE  IsInjective(channel \o Filling \o todo[t] \o buffer)
    BY DEF PublishedOnce, LogInv, OnceInv
  <2> DEFINE a == channel \o Filling
             b == a \o todo[t]
             c == b \o buffer
  <2>1. /\ channel \in Seq(Entries) /\ Filling \in Seq(Entries) /\ todo[t] \in Seq(Entries)
        /\ buffer \in Seq(Entries)
    BY EntriesOf DEF LogInv, TypeInv
  <2>2. /\ a \in Seq(Entries) /\ ToSet(a) = ToSet(channel) \union ToSet(Filling)
        /\ Once(a) <=> /\ Once(channel) /\ Once(Filling)
                       /\ ToSet(channel) \intersect ToSet(Filling) = {}
    BY <2>1, ConcatIs
  <2> HIDE DEF a
  <2>3. /\ b \in Seq(Entries) /\ ToSet(b) = ToSet(a) \union ToSet(todo[t])
        /\ Once(b) <=> Once(a) /\ Once(todo[t]) /\ ToSet(a) \intersect ToSet(todo[t]) = {}
    BY <2>1, <2>2, ConcatIs
  <2> HIDE DEF b
  <2>4. /\ c \in Seq(Entries)
        /\ Once(c) <=> Once(b) /\ Once(buffer) /\ ToSet(b) \intersect ToSet(buffer) = {}
    BY <2>1, <2>3, ConcatIs
  <2>5. Once(c)
    BY <2>2, <2>3, <2>4 DEF LogInv, OnceInv
  <2> HIDE DEF c
  <2>6. IsInjective(c)
    BY <2>4, <2>5, OnceIs
  <2>7. QED
    BY <2>6 DEF a, b, c
<1>2. QED
  BY <1>1, InvariantHolds, PTL

(* A listening page misses nothing of the buffer but what was cleared or had to make
   room: Logs.razor subscribes before it reads (OnInitialized, TogglePause, Resync). *)
THEOREM PageMissesNothing == Spec => []NothingIsMissed
<1>1. LogInv => NothingIsMissed
  BY DEF LogInv
<1>2. QED
  BY <1>1, InvariantHolds, PTL

(* LogForwardChannel holds the last entries that were logged, dropping its oldest when
   it overflows, and PublishLogs gets the service's entries in their order, over failed
   sends and new connections. *)
THEOREM OrderStays == Spec => []OrderIsKept
<1>1. LogInv => OrderIsKept
  <2> SUFFICES ASSUME LogInv PROVE OrderIsKept
    OBVIOUS
  <2>1. ASSUME NEW s \in Seq(Entries), Rising(s) PROVE InOrder(s)
    BY <2>1 DEF Rising, InOrder
  <2>2. /\ channel \in Seq(Entries) /\ logged.service \in Nat /\ Behind \in Int
        /\ \A i \in 1 .. Len(channel) : channel[i].nr = Behind + i
        /\ \A i \in DOMAIN channel : channel[i].nr = logged.service - Len(channel) + i
    <3>1. channel \in Seq(Entries) /\ logged.service \in Nat
      BY Positive DEF LogInv, TypeInv
    <3>2. \A i \in 1 .. Len(channel) : channel[i].nr = Behind + i
      BY DEF LogInv, OrderInv
    <3>3. DOMAIN channel = 1 .. Len(channel) /\ Behind \in Int
      BY <3>1 DEF Behind
    <3>4. QED
      BY <3>1, <3>2, <3>3 DEF Behind
  <2>3. ASSUME NEW t \in HubThreads
        PROVE  InOrder(todo[t] \o Filling \o channel)
    <3> DEFINE a == todo[t] \o Filling
    <3>1. /\ todo[t] \in Seq(Entries) /\ Filling \in Seq(Entries) /\ channel \in Seq(Entries)
      BY EntriesOf, Positive DEF LogInv, TypeInv
    <3>2. a \in Seq(Entries) /\ ToSet(a) = ToSet(todo[t]) \union ToSet(Filling)
      BY <3>1, ConcatIs
    <3>3. Rising(a)
      BY <3>1, RisingConcat DEF LogInv, OrderInv
    <3> HIDE DEF a
    <3>4. \A i, j \in 1 .. Len(channel) : i < j => channel[i].nr < channel[j].nr
      BY <2>2
    <3>5. ASSUME NEW x \in ToSet(a), NEW y \in ToSet(channel)
          PROVE  x.nr < y.nr
      <4>1. PICK i \in 1 .. Len(channel) : channel[i] = y
        BY <3>1, ToSetIs
      <4>2. /\ y.nr = Behind + i /\ Behind \in Int
        BY <2>2, <4>1
      <4>3. x \in Entries
        BY <3>2, ToSetIs
      <4>4. x.nr <= Behind /\ x.nr \in Nat
        BY <3>2, <4>3, EntryIs DEF LogInv, OrderInv
      <4>5. QED
        BY <4>2, <4>4
    <3>6. Rising(a \o channel)
      BY <3>1, <3>2, <3>3, <3>4, <3>5, RisingConcat DEF Rising
    <3>7. a \o channel \in Seq(Entries)
      BY <3>1, <3>2, ConcatIs
    <3>8. QED
      BY <2>1, <3>6, <3>7 DEF a
  <2>4. QED
    BY <2>2, <2>3 DEF OrderIsKept
<1>2. QED
  BY <1>1, InvariantHolds, PTL

(* An entry whose announcement crosses the reading of the buffer is shown twice, and never
   more often: Resync replaces _entries, and every entry is announced once. *)
THEOREM ShownTwiceAtMost == Spec => []ShownAtMostTwice
<1>1. LogInv => ShownAtMostTwice
  <2> SUFFICES ASSUME LogInv PROVE ShownAtMostTwice
    OBVIOUS
  <2>1. DOMAIN view = 1 .. Len(view)
    BY DEF LogInv, TypeInv
  <2>2. QED
    BY <2>1 DEF LogInv, ViewInv, Twice, ShownAtMostTwice
<1>2. QED
  BY <1>1, InvariantHolds, PTL

(* At most once, for good: what LogForwardChannel dropped, a failed send or a restart lost
   or LogStreamService let go is never sent, written or buffered again. *)
THEOREM LostStaysLost == Spec => NeverComesBack
<1>1. LogInv /\ [Next]_vars => [\A e \in Entries : Gone(e) => Gone(e)']_vars
  BY GoneStays DEF LogInv
<1>2. QED
  BY <1>1, InvariantHolds, PTL DEF Spec, NeverComesBack

=============================================================================
