-------------------------- MODULE HistoryArchiveProofs --------------------------
(***************************************************************************)
(* The cache implements the archive, for calm schedules, clocks that are   *)
(* at most a turn behind, and a program that nobody registers with.        *)
(*                                                                         *)
(* The argument follows messages on their way to the cache: whatever is    *)
(* under way for a channel comes after all rows the channel has, and at    *)
(* most one such thing is under way (Flow).  A request is made from the    *)
(* last row, or from memory, which has every row.                          *)
(***************************************************************************)
EXTENDS HistoryCalmProofs

-----------------------------------------------------------------------------
(* The elements of sequences                                               *)

LEMMA RangeIs ==
  ASSUME NEW S, NEW s \in Seq(S)
  PROVE  /\ Len(s) \in Nat /\ DOMAIN s = 1..Len(s)
         /\ Range(s) \subseteq S
         /\ \A x : x \in Range(s) <=> \E i \in 1..Len(s) : s[i] = x
<1>1. Len(s) \in Nat /\ DOMAIN s = 1..Len(s) /\ s \in [1..Len(s) -> S]
  BY LenProperties
<1> QED
  BY <1>1 DEF Range

LEMMA RangeTail ==
  ASSUME NEW S, NEW s \in Seq(S), s # << >>
  PROVE  /\ Range(Tail(s)) \subseteq Range(s)
         /\ Head(s) \in Range(s)
         /\ \A x \in Range(s) : x = Head(s) \/ x \in Range(Tail(s))
<1>1. /\ Head(s) = s[1] /\ Len(s) \in Nat \ {0} /\ Tail(s) \in Seq(S)
      /\ Len(Tail(s)) = Len(s) - 1
      /\ \A i \in 1..Len(s) - 1 : Tail(s)[i] = s[i + 1]
  BY TailAt
<1> DEFINE rest == Tail(s)
<1>9. rest \in Seq(S) /\ rest = Tail(s)
  BY <1>1
<1> HIDE DEF rest
<1>2. \A x : x \in Range(rest) <=> \E i \in 1..Len(rest) : rest[i] = x
  BY <1>9, RangeIs
<1>3. \A x : x \in Range(s) <=> \E i \in 1..Len(s) : s[i] = x
  BY RangeIs
<1>4. \A i \in 1..Len(rest) : i + 1 \in 1..Len(s) /\ rest[i] = s[i + 1]
  BY <1>1, <1>9
<1>5. \A i \in 1..Len(s) : i = 1 \/ (i - 1 \in 1..Len(rest) /\ i - 1 + 1 = i)
  BY <1>1, <1>9
<1>6. \A x \in Range(rest) : x \in Range(s)
  BY <1>2, <1>3, <1>4
<1>7. Head(s) \in Range(s)
  BY <1>1, <1>3, 1 \in 1..Len(s)
<1>8. \A x \in Range(s) : x = Head(s) \/ x \in Range(rest)
  <2> SUFFICES ASSUME NEW i \in 1..Len(s), i # 1 PROVE s[i] \in Range(rest)
    BY <1>1, <1>3
  <2>1. rest[i - 1] = s[i - 1 + 1] /\ i - 1 \in 1..Len(rest) /\ i - 1 + 1 = i
    BY <1>4, <1>5
  <2> QED
    BY <1>2, <2>1
<1> QED
  BY <1>6, <1>7, <1>8 DEF rest

LEMMA RangeAppend ==
  ASSUME NEW S, NEW s \in Seq(S), NEW e
  PROVE  Range(Append(s, e)) = Range(s) \cup {e}
<1> DEFINE more == Append(s, e)
<1>1. /\ more \in Seq(S \cup {e})
      /\ Len(s) \in Nat /\ Len(more) = Len(s) + 1
      /\ \A i \in 1..Len(s) + 1 : more[i] = IF i <= Len(s) THEN s[i] ELSE e
  BY AppendIs
<1> HIDE DEF more
<1>2. \A x : x \in Range(more) <=> \E i \in 1..Len(more) : more[i] = x
  BY <1>1, RangeIs
<1>3. \A x : x \in Range(s) <=> \E i \in 1..Len(s) : s[i] = x
  BY RangeIs
<1>4. \A i \in 1..Len(s) : i \in 1..Len(more) /\ more[i] = s[i]
  BY <1>1
<1>5. Len(s) + 1 \in 1..Len(more) /\ more[Len(s) + 1] = e
  BY <1>1
<1>6. \A i \in 1..Len(more) : i \in 1..Len(s) \/ i = Len(s) + 1
  BY <1>1
<1>7. Range(more) = Range(s) \cup {e}
  BY <1>2, <1>3, <1>4, <1>5, <1>6
<1> QED
  BY <1>7 DEF more

LEMMA RangeConcat ==
  ASSUME NEW S, NEW s \in Seq(S), NEW t \in Seq(S)
  PROVE  Range(s \o t) = Range(s) \cup Range(t)
<1> DEFINE both == s \o t
<1>1. /\ both \in Seq(S) /\ Len(both) = Len(s) + Len(t)
      /\ Len(s) \in Nat /\ Len(t) \in Nat
      /\ \A i \in 1..Len(s) + Len(t) : both[i] = IF i <= Len(s) THEN s[i] ELSE t[i - Len(s)]
  BY ConcatProperties, LenProperties
<1> HIDE DEF both
<1>2. \A x : x \in Range(both) <=> \E i \in 1..Len(both) : both[i] = x
  BY <1>1, RangeIs
<1>3. /\ \A x : x \in Range(s) <=> \E i \in 1..Len(s) : s[i] = x
      /\ \A x : x \in Range(t) <=> \E i \in 1..Len(t) : t[i] = x
  BY RangeIs
<1>4. \A i \in 1..Len(s) : i \in 1..Len(both) /\ both[i] = s[i]
  BY <1>1
<1>5. \A i \in 1..Len(t) : Len(s) + i \in 1..Len(both) /\ both[Len(s) + i] = t[i]
  <2>1. \A i \in 1..Len(t) : /\ Len(s) + i \in 1..Len(s) + Len(t)
                              /\ ~(Len(s) + i <= Len(s)) /\ Len(s) + i - Len(s) = i
    BY <1>1
  <2> QED
    BY <1>1, <2>1
<1>6. \A i \in 1..Len(both) : \/ i \in 1..Len(s) /\ both[i] = s[i]
                              \/ i - Len(s) \in 1..Len(t) /\ both[i] = t[i - Len(s)]
  BY <1>1
<1>7. Range(both) = Range(s) \cup Range(t)
  BY <1>2, <1>3, <1>4, <1>5, <1>6, ZenonT(30)
<1> QED
  BY <1>7 DEF both

LEMMA RangePrefix ==
  ASSUME NEW S, NEW s \in Seq(S), NEW n \in 0..Len(s)
  PROVE  SubSeq(s, 1, n) \in Seq(S) /\ Range(SubSeq(s, 1, n)) \subseteq Range(s)
<1> DEFINE part == SubSeq(s, 1, n)
<1>1. /\ part \in Seq(S) /\ Len(part) = n
      /\ \A i \in 1..n : i \in 1..Len(s) /\ part[i] = s[i]
  BY PrefixIs
<1> HIDE DEF part
<1>2. \A x : x \in Range(part) <=> \E i \in 1..Len(part) : part[i] = x
  BY <1>1, RangeIs
<1>3. \A x : x \in Range(s) <=> \E i \in 1..Len(s) : s[i] = x
  BY RangeIs
<1>4. part \in Seq(S) /\ Range(part) \subseteq Range(s)
  BY <1>1, <1>2, <1>3
<1> QED
  BY <1>4 DEF part

LEMMA RangeOne ==
  ASSUME NEW e
  PROVE  Range(<<e>>) = {e} /\ Range(<< >>) = {}
<1>1. DOMAIN <<e>> = {1} /\ <<e>>[1] = e /\ DOMAIN << >> = {}
  OBVIOUS
<1> QED
  BY <1>1 DEF Range

-----------------------------------------------------------------------------
(* Ascending sequences                                                     *)

Ascends(s) == \A i, j \in 1..Len(s) : i < j => s[i] < s[j]

\* The ascending sequence of a set of numbers has all of them.
LEMMA AscendingIs ==
  ASSUME NEW nums \in SUBSET Nat, IsFiniteSet(nums), NEW f \in Ascending(nums)
  PROVE  f \in Seq(nums) /\ Ascends(f) /\ Range(f) = nums
<1> DEFINE n == Cardinality(nums)
<1>1. n \in Nat
  BY FS_CardinalityType
<1>2. f \in [1..n -> nums] /\ \A i, j \in 1..n : i < j => f[i] < f[j]
  BY DEF Ascending
<1> HIDE DEF n
<1>3. f \in Seq(nums) /\ Len(f) = n
  BY <1>1, <1>2, FunctionIsSeq, LenProperties
<1>4. \A i, j \in 1..n : f[i] = f[j] => i = j
  <2> SUFFICES ASSUME NEW i \in 1..n, NEW j \in 1..n, f[i] = f[j], i # j PROVE FALSE
    OBVIOUS
  <2>1. f[i] \in nums /\ f[j] \in nums /\ (i < j \/ j < i)
    BY <1>1, <1>2
  <2>2. f[i] < f[j] \/ f[j] < f[i]
    BY <1>2, <2>1
  <2>3. \A a \in Nat : ~(a < a)
    OBVIOUS
  <2>4. f[i] \in Nat
    BY <2>1
  <2> QED
    BY <2>2, <2>3, <2>4
<1>5. f \in Injection(1..n, nums)
  BY <1>2, <1>4 DEF Injection, IsInjective
<1>6. \A k \in Nat : Cardinality(1..k) = k /\ IsFiniteSet(1..k)
  BY FS_Interval
<1>7. f \in Surjection(1..n, nums)
  BY <1>1, <1>5, <1>6, FS_Injection DEF n
<1>8. Range(f) = nums
  BY <1>2, <1>7 DEF Surjection, Range
<1> QED
  BY <1>2, <1>3, <1>8 DEF Ascends

LEMMA InTurnIs ==
  ASSUME NEW s \in Seq(Nat), Ascends(s)
  PROVE  /\ Len(s) = Cardinality(Range(s))
         /\ s \in [1..Len(s) -> Range(s)]
<1>1. Len(s) \in Nat /\ s \in [1..Len(s) -> Nat]
  BY LenProperties
<1>2. s \in [1..Len(s) -> Range(s)]
  BY <1>1 DEF Range
<1>3. \A i, j \in 1..Len(s) : s[i] = s[j] => i = j
  <2> SUFFICES ASSUME NEW i \in 1..Len(s), NEW j \in 1..Len(s), s[i] = s[j], i # j PROVE FALSE
    OBVIOUS
  <2>1. s[i] \in Nat /\ s[j] \in Nat /\ (i < j \/ j < i)
    BY <1>1
  <2> QED
    BY <2>1 DEF Ascends
<1>4. s \in Injection(1..Len(s), Range(s)) /\ s \in Surjection(1..Len(s), Range(s))
  BY <1>1, <1>2, <1>3 DEF Injection, IsInjective, Surjection, Range
<1>5. ExistsBijection(1..Len(s), Range(s))
  BY <1>4 DEF ExistsBijection, Bijection
<1>6. \A n \in Nat : Cardinality(1..n) = n /\ IsFiniteSet(1..n)
  BY FS_Interval
<1> QED
  BY <1>1, <1>2, <1>5, <1>6, FS_Bijection

-----------------------------------------------------------------------------
(* What memory holds                                                       *)

\* Messages are on their way to the client, waiting to be saved, asked for.
Arriving(ch, msgs) == \E r \in Range(toClient) :
    r.kind \in {"history", "echo"} /\ r.chs = <<ch>> /\ r.msgs = msgs

Saving(ch, msgs) == \E e \in Range(events) :
    e.to = "cacher" /\ e.kind \in {"history", "text"} /\ e.chs = <<ch>> /\ e.msgs = msgs

Asked(ch, since) == \E q \in Range(toServer) :
    q.kind = "history" /\ q.ch = ch /\ q.since = since

\* Until on_authorized has run there is nothing but the accepted response and
\* its calls.
NotLoaded == ~loaded =>
    /\ toServer = << >>
    /\ \A ch \in Channels : hist[ch] = << >>
    /\ \A r \in Range(toClient) : r.kind = "authorized"
    /\ \A e \in Range(events) : e.kind = "authorized"

ShownLoaded == mainShown => loaded \/ events # << >>

\* Memory has every row, and whatever is about to be saved.
RowsKept == loaded => \A ch \in Channels : Range(cache[ch]) \subseteq Range(hist[ch])

SavesKept == \A ch \in Channels : \A msgs \in Seq(Messages) :
    Saving(ch, msgs) => Range(msgs) \subseteq Range(hist[ch])

Remembered == /\ NotLoaded /\ ShownLoaded
              /\ phase = "offline" => ~loaded
              /\ RowsKept /\ SavesKept

LEMMA RangesTyped ==
  ASSUME TypeOK
  PROVE  /\ Range(toServer) \subseteq Requests
         /\ Range(toClient) \subseteq Responses
         /\ Range(events) \subseteq Events
         /\ \A ch \in Channels : /\ hist[ch] \in Seq(Messages) /\ Range(hist[ch]) \subseteq Messages
                                 /\ cache[ch] \in Seq(Messages) /\ Range(cache[ch]) \subseteq Messages
  BY RangeIs DEF TypeOK

\* The calls of a signal are queued behind the others.
LEMMA EmitRange ==
  ASSUME TypeOK, NEW kind, NEW chs, NEW msgs, Emit(kind, chs, msgs)
  PROVE  /\ Range(events') = Range(events) \cup {Delivery("control", kind, chs, msgs),
                                                 Delivery("cacher", kind, chs, msgs)}
         /\ events' # << >>
<1> DEFINE d1 == Delivery("control", kind, chs, msgs)
           d2 == Delivery("cacher", kind, chs, msgs)
           half == Append(events, d1)
<1>1. events \in Seq(Events) /\ events' = Append(half, d2)
  BY DEF TypeOK, Emit
<1> HIDE DEF d1, d2
<1>2. half \in Seq(Events \cup {d1}) /\ Range(half) = Range(events) \cup {d1}
  BY <1>1, AppendIs, RangeAppend
<1> HIDE DEF half
<1>3. Range(events') = Range(half) \cup {d2}
  <2>1. Range(Append(half, d2)) = Range(half) \cup {d2}
    BY <1>2, RangeAppend
  <2> QED
    BY <1>1, <2>1
<1>4. events' # << >>
  <2>1. Append(half, d2) # << >>
    BY <1>2, HeadStays
  <2> QED
    BY <1>1, <2>1
<1> QED
  BY <1>2, <1>3, <1>4 DEF d1, d2

\* What is saved are the messages that can be inserted, in their order.
LEMMA InsertedIs ==
  ASSUME NEW msgs \in Seq(Messages), NEW rows \in Inserted(msgs), Len(posted) \in Nat
  PROVE  /\ rows \in Seq(Messages)
         /\ Range(rows) = {m \in Range(msgs) : Insertable(m)}
         /\ Ascends(msgs) => Ascends(rows)
<1> DEFINE these == {i \in DOMAIN msgs : Insertable(msgs[i])}
<1>1. PICK kept \in Ascending(these) : rows = [i \in DOMAIN kept |-> msgs[kept[i]]]
  BY DEF Inserted
<1>2. DOMAIN msgs = 1..Len(msgs) /\ Len(msgs) \in Nat
  BY LenProperties
<1>3. IsFiniteSet(these) /\ these \in SUBSET (1..Len(msgs)) /\ these \in SUBSET Nat
  <2>1. IsFiniteSet(1..Len(msgs))
    BY <1>2, FS_Interval, 1 \in Int, Len(msgs) \in Int
  <2>2. these \in SUBSET (1..Len(msgs)) /\ these \in SUBSET Nat
    BY <1>2
  <2> QED
    BY <2>1, <2>2, FS_Subset
<1> HIDE DEF these
<1>4. kept \in Seq(these) /\ Ascends(kept) /\ Range(kept) = these
  BY <1>3, AscendingIs
<1>5. /\ DOMAIN kept = 1..Len(kept) /\ Len(kept) \in Nat
      /\ \A i \in 1..Len(kept) : kept[i] \in these
      /\ \A i \in these : \E k \in 1..Len(kept) : kept[k] = i
  BY <1>4, RangeIs
<1>6. rows \in Seq(Messages)
  BY InsertedType
<1>7. Len(rows) = Len(kept) /\ \A k \in 1..Len(kept) : rows[k] = msgs[kept[k]]
  <2>1. DOMAIN rows = 1..Len(kept) /\ DOMAIN rows = 1..Len(rows) /\ Len(rows) \in Nat
    BY <1>1, <1>5, <1>6, LenProperties
  <2> QED
    BY <1>1, <1>5, <2>1
<1>8. Range(rows) = {m \in Range(msgs) : Insertable(m)}
  <2>1. \A m : m \in Range(rows) <=> \E k \in 1..Len(kept) : msgs[kept[k]] = m
    BY <1>6, <1>7, RangeIs
  <2>2. \A m : m \in Range(msgs) <=> \E i \in 1..Len(msgs) : msgs[i] = m
    BY RangeIs
  <2>3. \A i : i \in these <=> i \in 1..Len(msgs) /\ Insertable(msgs[i])
    BY <1>2 DEF these
  <2> QED
    BY <1>5, <2>1, <2>2, <2>3
<1>9. ASSUME Ascends(msgs) PROVE Ascends(rows)
  <2> SUFFICES ASSUME NEW i \in 1..Len(rows), NEW j \in 1..Len(rows), i < j
               PROVE  rows[i] < rows[j]
    BY DEF Ascends
  <2>1. kept[i] < kept[j]
    BY <1>4, <1>7 DEF Ascends
  <2>2. kept[i] \in 1..Len(msgs) /\ kept[j] \in 1..Len(msgs)
    BY <1>3, <1>5, <1>7
  <2> QED
    BY <1>7, <1>9, <2>1, <2>2 DEF Ascends
<1> QED
  BY <1>6, <1>8, <1>9

LEMMA SaveIs ==
  ASSUME TypeOK, NEW ch \in Channels, NEW msgs \in Seq(Messages), Save(ch, msgs)
  PROVE  /\ \A other \in Channels : other # ch => cache'[other] = cache[other]
         /\ \E rows \in Inserted(msgs) :
               rows \in Seq(Messages) /\ cache' = [cache EXCEPT ![ch] = cache[ch] \o rows]
         /\ Range(cache'[ch]) = Range(cache[ch]) \cup {m \in Range(msgs) : Insertable(m)}
<1>1. PICK rows \in Inserted(msgs) : cache' = [cache EXCEPT ![ch] = cache[ch] \o rows]
  BY DEF Save
<1>2. cache \in [Channels -> Seq(Messages)] /\ Len(posted) \in Nat
  BY LenProperties DEF TypeOK
<1>3. rows \in Seq(Messages) /\ Range(rows) = {m \in Range(msgs) : Insertable(m)}
  BY <1>2, InsertedIs
<1>4. cache'[ch] = cache[ch] \o rows
  BY <1>1, <1>2
<1>5. Range(cache'[ch]) = Range(cache[ch]) \cup Range(rows)
  BY <1>2, <1>3, <1>4, RangeConcat
<1> QED
  BY <1>1, <1>2, <1>3, <1>5

LEMMA ServerRemembers ==
  ASSUME TypeOK, Remembered, ServerStep
  PROVE  Remembered'
<1>1. toServer # << >> /\ UNCHANGED <<phase, events, hist, cache, loaded, mainShown, posted>>
  BY DEF ServerStep, ServeChannels, ServeHistory, ServeJoin, DropUnidentified, Serves, server,
         client, window
<1>2. loaded
  BY <1>1 DEF Remembered, NotLoaded
<1>3. Messages' = Messages
  BY <1>1 DEF Messages
<1> QED
  BY <1>1, <1>2, <1>3 DEF Remembered, NotLoaded, ShownLoaded, RowsKept, SavesKept, Saving

\* The client reads a response: what it carries gets into memory and to the
\* cacher.
LEMMA IoTraffic ==
  ASSUME TypeOK, IoStep
  PROVE  /\ UNCHANGED <<posted, subs, phase, toServer, cache, loaded, mainShown>>
         /\ Range(toClient') \subseteq Range(toClient)
         /\ \A ch \in Channels : Range(hist[ch]) \subseteq Range(hist'[ch])
         /\ \A ch \in Channels : \A msgs :
               Saving(ch, msgs)' => \/ Saving(ch, msgs)
                                    \/ Arriving(ch, msgs) /\ Range(msgs) \subseteq Range(hist'[ch])
         /\ events' = << >> => events = << >>
<1>1. UNCHANGED <<posted, subs, phase, toServer, cache, loaded, mainShown>>
  BY DEF IoStep, ReadAccepted, SetLoginId, ReadChannels, ReadHistory, ReadEcho, ReadJoined,
         server, link, window
<1>2. toClient' = toClient \/ (toClient # << >> /\ toClient' = Tail(toClient))
  <2>1. CASE SetLoginId
    BY <2>1 DEF SetLoginId, link
  <2>2. CASE \E kind : Reads(kind)
    BY <2>2 DEF Reads
  <2> QED
    BY <2>1, <2>2 DEF IoStep, ReadAccepted, ReadChannels, ReadHistory, ReadEcho, ReadJoined
<1>3. Range(toClient') \subseteq Range(toClient)
  BY <1>2, RangeTail DEF TypeOK
<1>4. hist \in [Channels -> Seq(Messages)]
  BY DEF TypeOK
<1>5. ASSUME NEW kind \in {"history", "text"}, NEW ch, NEW msgs,
             ch = Head(toClient).chs[1], msgs = Head(toClient).msgs,
             toClient # << >>, Head(toClient).kind \in {"history", "echo"},
             hist' = [hist EXCEPT ![ch] = hist[ch] \o msgs], Emit(kind, <<ch>>, msgs)
      PROVE  /\ \A c \in Channels : Range(hist[c]) \subseteq Range(hist'[c])
             /\ \A c \in Channels : \A ms :
                   Saving(c, ms)' => \/ Saving(c, ms)
                                     \/ Arriving(c, ms) /\ Range(ms) \subseteq Range(hist'[c])
             /\ events' # << >>
  <2>1. Head(toClient) \in Range(toClient) /\ Head(toClient) \in Responses
    BY <1>5, RangeTail, TailAt DEF TypeOK
  <2>2. Head(toClient).chs \in One(Channels) /\ msgs \in Seq(Messages)
    BY <1>5, <2>1 DEF Responses
  <2>3. ch \in Channels /\ Head(toClient).chs = <<ch>>
    BY <1>5, <2>2, OneChannel
  <2>4. hist'[ch] = hist[ch] \o msgs /\ \A c \in Channels : c # ch => hist'[c] = hist[c]
    BY <1>4, <1>5, <2>3
  <2>5. Range(hist'[ch]) = Range(hist[ch]) \cup Range(msgs)
    BY <1>4, <2>2, <2>3, <2>4, RangeConcat
  <2>6. Arriving(ch, msgs)
    BY <1>5, <2>1, <2>3 DEF Arriving
  <2>7. /\ Range(events') = Range(events) \cup {Delivery("control", kind, <<ch>>, msgs),
                                                Delivery("cacher", kind, <<ch>>, msgs)}
        /\ events' # << >>
    BY <1>5, EmitRange
  <2>8. /\ Delivery("control", kind, <<ch>>, msgs).to = "control"
        /\ Delivery("cacher", kind, <<ch>>, msgs).chs = <<ch>>
        /\ Delivery("cacher", kind, <<ch>>, msgs).msgs = msgs
    BY DEF Delivery
  <2>9. \A c, ms : Saving(c, ms)' => Saving(c, ms) \/ (<<c>> = <<ch>> /\ ms = msgs)
    <3> SUFFICES ASSUME NEW c, NEW ms, Saving(c, ms)'
                 PROVE  Saving(c, ms) \/ (<<c>> = <<ch>> /\ ms = msgs)
      OBVIOUS
    <3>1. PICK e \in Range(events') : /\ e.to = "cacher" /\ e.kind \in {"history", "text"}
                                      /\ e.chs = <<c>> /\ e.msgs = ms
      BY DEF Saving
    <3>2. e \in Range(events) \/ e = Delivery("cacher", kind, <<ch>>, msgs)
      BY <2>7, <2>8, <3>1
    <3> QED
      BY <2>8, <3>1, <3>2 DEF Saving
  <2>10. \A c : <<c>> = <<ch>> => c = ch
    BY <<ch>>[1] = ch
  <2> QED
    BY <2>4, <2>5, <2>6, <2>7, <2>9, <2>10
<1>6. CASE ReadHistory
  BY <1>1, <1>3, <1>5, <1>6 DEF ReadHistory, Reads
<1>7. CASE ReadEcho /\ Head(toClient).chs[1] \in entries
  BY <1>1, <1>3, <1>5, <1>7 DEF ReadEcho, Reads
<1>8. CASE UNCHANGED <<hist, events>>
  BY <1>1, <1>3, <1>8 DEF Saving
<1>9. ASSUME NEW kind, NEW chs, NEW msgs, Emit(kind, chs, msgs), hist' = hist,
             kind \notin {"history", "text"}
      PROVE  /\ \A c \in Channels : \A ms : Saving(c, ms)' => Saving(c, ms)
             /\ events' # << >>
  <2>1. /\ Range(events') = Range(events) \cup {Delivery("control", kind, chs, msgs),
                                                Delivery("cacher", kind, chs, msgs)}
        /\ events' # << >>
    BY <1>9, EmitRange
  <2>2. /\ Delivery("control", kind, chs, msgs).kind = kind
        /\ Delivery("cacher", kind, chs, msgs).kind = kind
    BY DEF Delivery
  <2> QED
    BY <1>9, <2>1, <2>2 DEF Saving
<1>10. CASE ReadAccepted
  BY <1>1, <1>3, <1>9, <1>10 DEF ReadAccepted
<1>11. CASE ReadChannels
  BY <1>1, <1>3, <1>9, <1>11 DEF ReadChannels, client
<1>12. CASE ReadJoined
  BY <1>1, <1>3, <1>9, <1>12 DEF ReadJoined, client
<1> QED
  BY <1>6, <1>7, <1>8, <1>10, <1>11, <1>12 DEF IoStep, SetLoginId, ReadEcho

LEMMA IoRemembers ==
  ASSUME TypeOK, Remembered, IoStep
  PROVE  Remembered'
<1>1. /\ UNCHANGED <<posted, subs, phase, toServer, cache, loaded, mainShown>>
      /\ Range(toClient') \subseteq Range(toClient)
      /\ \A ch \in Channels : Range(hist[ch]) \subseteq Range(hist'[ch])
      /\ \A ch \in Channels : \A msgs :
            Saving(ch, msgs)' => \/ Saving(ch, msgs)
                                 \/ Arriving(ch, msgs) /\ Range(msgs) \subseteq Range(hist'[ch])
      /\ events' = << >> => events = << >>
  BY IoTraffic
<1>2. Messages' = Messages
  BY <1>1 DEF Messages
<1>3. RowsKept' /\ SavesKept'
  BY <1>1, <1>2 DEF Remembered, RowsKept, SavesKept
<1>4. ShownLoaded' /\ (phase = "offline" => ~loaded)'
  BY <1>1 DEF Remembered, ShownLoaded
<1>5. NotLoaded'
  <2>1. CASE loaded
    BY <1>1, <2>1 DEF NotLoaded
  <2>2. CASE ~loaded
    <3>1. /\ toServer = << >> /\ \A ch \in Channels : hist[ch] = << >>
          /\ \A r \in Range(toClient) : r.kind = "authorized"
          /\ \A e \in Range(events) : e.kind = "authorized"
      BY <2>2 DEF Remembered, NotLoaded
    <3>2. CASE SetLoginId
      BY <1>1, <3>1, <3>2 DEF SetLoginId, NotLoaded
    <3>3. CASE ~SetLoginId
      <4>1. toClient # << >> /\ Head(toClient).kind = "authorized"
        <5>1. toClient # << >>
          BY <3>3 DEF IoStep, ReadAccepted, ReadChannels, ReadHistory, ReadEcho, ReadJoined, Reads
        <5> QED
          BY <3>1, <5>1, RangeTail DEF TypeOK
      <4>2. Emit("authorized", << >>, << >>) /\ hist' = hist
        BY <3>3, <4>1 DEF IoStep, ReadAccepted, ReadChannels, ReadHistory, ReadEcho,
           ReadJoined, Reads
      <4>3. \A e \in Range(events') : e.kind = "authorized"
        BY <3>1, <4>2, EmitRange DEF Delivery
      <4> QED
        BY <1>1, <3>1, <4>2, <4>3 DEF NotLoaded
    <3> QED
      BY <3>2, <3>3
  <2> QED
    BY <2>1, <2>2
<1> QED
  BY <1>3, <1>4, <1>5 DEF Remembered

\* The GUI thread takes a call off the queue.
LEMMA GuiTraffic ==
  ASSUME TypeOK, GuiStep
  PROVE  /\ UNCHANGED <<posted, subs, phase, toClient>>
         /\ events # << >> /\ events' = Tail(events)
         /\ Head(events) \in Range(events) /\ Head(events) \in Events
         /\ Range(events') \subseteq Range(events)
         /\ \A ch \in Channels : Range(hist[ch]) \subseteq Range(hist'[ch])
         /\ \A ch \in Channels : \A msgs : Saving(ch, msgs)' => Saving(ch, msgs)
<1>1. /\ UNCHANGED <<posted, subs, phase, toClient>>
      /\ events # << >> /\ events' = Tail(events)
  BY DEF GuiStep, ChangeWindow, OnAuthorized, OnRegistered, AddChannels, OnChannelsReceived,
         OnJoined, UpdateWidget, SaveMessages, Slot, server, link
<1>2. /\ Head(events) \in Range(events) /\ Head(events) \in Events
      /\ Range(events') \subseteq Range(events)
  BY <1>1, RangeTail, TailAt DEF TypeOK
<1>3. \A ch \in Channels : Range(hist[ch]) \subseteq Range(hist'[ch])
  <2>1. CASE OnAuthorized
    <3> SUFFICES ASSUME NEW ch \in Channels PROVE Range(hist[ch]) \subseteq Range(hist'[ch])
      OBVIOUS
    <3>1. hist'[ch] = hist[ch] \o cache[ch]
      BY <2>1 DEF OnAuthorized, Load
    <3>2. hist[ch] \in Seq(Messages) /\ cache[ch] \in Seq(Messages)
      BY RangesTyped
    <3>3. Range(hist[ch] \o cache[ch]) = Range(hist[ch]) \cup Range(cache[ch])
      BY <3>2, RangeConcat
    <3> QED
      BY <3>1, <3>3
  <2>2. CASE hist' = hist
    BY <2>2
  <2> QED
    BY <2>1, <2>2 DEF GuiStep, ChangeWindow, OnRegistered, AddChannels, OnChannelsReceived,
       OnJoined, UpdateWidget, SaveMessages, client
<1>4. \A ch \in Channels : \A msgs : Saving(ch, msgs)' => Saving(ch, msgs)
  BY <1>2 DEF Saving
<1> QED
  BY <1>1, <1>2, <1>3, <1>4

\* What SaveMessages saves is the head of the queue.
LEMMA SavedIs ==
  ASSUME TypeOK, SaveMessages
  PROVE  \E ch \in Channels : \E msgs \in Seq(Messages) :
            /\ Saving(ch, msgs) /\ Save(ch, msgs)
            /\ Head(events).to = "cacher" /\ Head(events).chs = <<ch>>
            /\ Head(events).msgs = msgs
<1> DEFINE e == Head(events)
<1>1. e.to = "cacher" /\ e.kind \in {"history", "text"} /\ Save(e.chs[1], e.msgs) /\ events # << >>
  BY DEF SaveMessages, Slot
<1>2. e \in Range(events) /\ e \in Events
  BY <1>1, RangeTail, TailAt DEF TypeOK
<1> HIDE DEF e
<1>3. e.chs \in One(Channels) /\ e.msgs \in Seq(Messages)
  BY <1>1, <1>2 DEF Events
<1>4. e.chs[1] \in Channels /\ e.chs = <<e.chs[1]>>
  BY <1>3, OneChannel
<1>5. Saving(e.chs[1], e.msgs)
  BY <1>1, <1>2, <1>4 DEF Saving
<1> QED
  BY <1>1, <1>3, <1>4, <1>5 DEF e

LEMMA GuiRemembers ==
  ASSUME TypeOK, Flow, Remembered, GuiStep
  PROVE  Remembered'
<1>1. /\ UNCHANGED <<posted, subs, phase, toClient>>
      /\ events # << >> /\ events' = Tail(events)
      /\ Head(events) \in Range(events) /\ Head(events) \in Events
      /\ Range(events') \subseteq Range(events)
      /\ \A ch \in Channels : Range(hist[ch]) \subseteq Range(hist'[ch])
      /\ \A ch \in Channels : \A msgs : Saving(ch, msgs)' => Saving(ch, msgs)
  BY GuiTraffic
<1>2. Messages' = Messages
  BY <1>1 DEF Messages
<1>3. SavesKept'
  BY <1>1, <1>2 DEF Remembered, SavesKept
<1>4. loaded => loaded'
  BY DEF GuiStep, ChangeWindow, OnAuthorized, OnRegistered, AddChannels, OnChannelsReceived,
         OnJoined, UpdateWidget, SaveMessages
<1>5. ~loaded' => ChangeWindow /\ Head(events).kind = "authorized"
  <2>1. ~loaded => Head(events).kind = "authorized"
    BY <1>1 DEF Remembered, NotLoaded
  <2>2. ~loaded => ChangeWindow \/ OnAuthorized
    BY <2>1 DEF GuiStep, OnRegistered, AddChannels, OnChannelsReceived, OnJoined, UpdateWidget,
       SaveMessages, Slot
  <2> QED
    BY <1>4, <2>1, <2>2 DEF OnAuthorized
<1>6. NotLoaded'
  <2> SUFFICES ASSUME ~loaded', ChangeWindow, ~loaded PROVE NotLoaded'
    BY <1>4, <1>5 DEF NotLoaded
  <2> QED
    BY <1>1 DEF ChangeWindow, link, client, Remembered, NotLoaded
<1>7. ShownLoaded'
  <2> SUFFICES ASSUME ~loaded' PROVE events' # << >>
    BY DEF ShownLoaded
  <2>1. Head(events).to = "control" /\ Head(events).kind # "history"
    <3>1. ChangeWindow /\ Head(events).kind = "authorized"
      BY <1>5
    <3>2. Head(events).to = "control"
      BY <3>1 DEF ChangeWindow, Slot
    <3> QED
      BY <3>1, <3>2
  <2>2. SecondHalf(events, events')
    BY <1>1, <2>1, LoneCalled DEF Flow
  <2>3. PICK e \in Events : events' = <<e>>
    BY <2>1, <2>2 DEF SecondHalf
  <2>4. <<e>> # << >>
    OBVIOUS
  <2> QED
    BY <2>3, <2>4
<1>8. (phase = "offline" => ~loaded)'
  BY <1>1 DEF Flow, NotRunning
<1>9. RowsKept'
  <2>1. CASE OnAuthorized
    <3> SUFFICES ASSUME NEW ch \in Channels PROVE Range(cache'[ch]) \subseteq Range(hist'[ch])
      BY DEF RowsKept
    <3>1. hist'[ch] = hist[ch] \o cache[ch] /\ cache'[ch] = cache[ch]
      BY <2>1 DEF OnAuthorized, Load
    <3>2. hist[ch] \in Seq(Messages) /\ cache[ch] \in Seq(Messages)
      BY RangesTyped
    <3>3. Range(hist[ch] \o cache[ch]) = Range(hist[ch]) \cup Range(cache[ch])
      BY <3>2, RangeConcat
    <3> QED
      BY <3>1, <3>3
  <2>2. CASE SaveMessages
    <3>1. PICK ch \in Channels, msgs \in Seq(Messages) : Saving(ch, msgs) /\ Save(ch, msgs)
      BY <2>2, SavedIs
    <3>2. /\ \A other \in Channels : other # ch => cache'[other] = cache[other]
          /\ Range(cache'[ch]) = Range(cache[ch]) \cup {m \in Range(msgs) : Insertable(m)}
      BY <3>1, SaveIs
    <3>3. Range(msgs) \subseteq Range(hist[ch]) /\ hist' = hist /\ loaded' = loaded
      BY <2>2, <3>1 DEF Remembered, SavesKept, SaveMessages, client
    <3> QED
      BY <3>2, <3>3 DEF Remembered, RowsKept
  <2>3. CASE UNCHANGED <<cache, loaded>>
    BY <1>1, <2>3 DEF Remembered, RowsKept
  <2> QED
    BY <2>1, <2>2, <2>3 DEF GuiStep, ChangeWindow, OnRegistered, AddChannels,
       OnChannelsReceived, OnJoined, UpdateWidget
<1> QED
  BY <1>3, <1>6, <1>7, <1>8, <1>9 DEF Remembered

LEMMA RestRemembers ==
  ASSUME Calm, ~Newcomers, TypeOK, Flow, Remembered, UserStep \/ Cut \/ Crash
  PROVE  Remembered'
<1>1. CASE Crash
  BY <1>1, RangeOne DEF Crash, Forgotten, Remembered, NotLoaded, ShownLoaded, RowsKept,
     SavesKept, Saving
<1>2. CASE ~Crash
  <2>1. UNCHANGED <<events, hist, cache, loaded, mainShown>>
    BY <1>2 DEF UserStep, Login, Register, Connect, Post, UserJoins, Cut, client, window
  <2>2. RowsKept' /\ ShownLoaded'
    BY <2>1 DEF Remembered, RowsKept, ShownLoaded
  <2>3. SavesKept'
    <3> SUFFICES ASSUME NEW ch \in Channels, NEW msgs, Saving(ch, msgs)
                 PROVE  Range(msgs) \subseteq Range(hist[ch])
      BY <2>1 DEF SavesKept, Saving
    <3>1. msgs \in Seq(Messages)
      <4>1. PICK e \in Range(events) : e.kind \in {"history", "text"} /\ e.msgs = msgs
        BY DEF Saving
      <4> QED
        BY <4>1, RangesTyped DEF Events
    <3> QED
      BY <3>1 DEF Remembered, SavesKept
  <2>4. Settled => loaded
    BY DEF Settled, Remembered, ShownLoaded
  <2>5. CASE loaded /\ phase' # "offline"
    BY <2>1, <2>2, <2>3, <2>5 DEF Remembered, NotLoaded
  <2>6. loaded => phase' # "offline"
    BY <1>2 DEF Remembered, UserStep, Login, Register, Connect, Post, UserJoins, Cut
  <2>7. CASE ~loaded
    <3>1. /\ toServer = << >> /\ \A ch \in Channels : hist[ch] = << >>
          /\ \A r \in Range(toClient) : r.kind = "authorized"
          /\ \A e \in Range(events) : e.kind = "authorized"
      BY <2>7 DEF Remembered, NotLoaded
    <3>2. toServer' = << >>
      BY <1>2, <2>4, <2>7, <3>1 DEF UserStep, Login, Register, Connect, Post, UserJoins, Cut
    <3>3. \A r \in Range(toClient') : r.kind = "authorized"
      <4>1. CASE Login
        BY <4>1, RangeOne DEF Login, Connect, Response
      <4>2. CASE Cut
        <5>1. PICK n \in 0..Len(toClient) : toClient' = SubSeq(toClient, 1, n)
          BY <4>2 DEF Cut
        <5>2. Range(SubSeq(toClient, 1, n)) \subseteq Range(toClient)
          BY RangePrefix DEF TypeOK
        <5> QED
          BY <3>1, <5>1, <5>2
      <4>3. CASE toClient' = toClient
        BY <3>1, <4>3
      <4> QED
        BY <1>2, <2>4, <2>7, <4>1, <4>2, <4>3 DEF UserStep, Register, Post, UserJoins
    <3> QED
      BY <2>1, <2>2, <2>3, <2>7, <3>1, <3>2, <3>3 DEF Remembered, NotLoaded
  <2> QED
    BY <2>5, <2>6, <2>7
<1> QED
  BY <1>1, <1>2

LEMMA InitRemembers == Init => Remembered
  BY RangeOne DEF Init, Remembered, NotLoaded, ShownLoaded, RowsKept, SavesKept, Saving

LEMMA StepRemembers ==
  ASSUME Calm, ~Newcomers, TypeOK, Flow, Remembered, [Next]_vars
  PROVE  Remembered'
<1>1. CASE Next
  BY <1>1, ServerRemembers, IoRemembers, GuiRemembers, RestRemembers DEF Next
<1>2. CASE UNCHANGED vars
  BY <1>2 DEF vars, server, link, client, window, Remembered, NotLoaded, ShownLoaded, RowsKept,
     SavesKept, Saving, Messages
<1> QED
  BY <1>1, <1>2

-----------------------------------------------------------------------------
(* In which order messages come                                            *)

\* Every message lies at most a turn behind.
Clock == \A m \in Messages :
    Time(m) \in Nat /\ 1 <= Time(m) /\ m - 1 <= Time(m) /\ Time(m) <= m

InOrder(ch, msgs) == Ascends(msgs) /\ \A m \in Range(msgs) : posted[m].ch = ch

Follows(ch, msgs) == /\ InOrder(ch, msgs)
                     /\ \A m \in Range(cache[ch]), n \in Range(msgs) : m < n

RowsInOrder == \A ch \in Channels : InOrder(ch, cache[ch])

\* What arrives and what is saved comes after the rows.
ArrivalsFollow == \A ch \in Channels : \A msgs :
    Arriving(ch, msgs) \/ Saving(ch, msgs) => Follows(ch, msgs)

\* No row is later than what is asked for.
RowsBefore(ch, since) == \A m \in Range(cache[ch]) : Time(m) <= since

SincesFollow == \A ch \in Channels : \A since :
    Asked(ch, since) => RowsBefore(ch, since)

Ordered == Clock /\ RowsInOrder /\ ArrivalsFollow /\ SincesFollow

\* A later time is a later message.
LEMMA LaterTime ==
  ASSUME Clock, NEW m \in Messages, NEW n \in Messages, Time(m) < Time(n), Len(posted) \in Nat
  PROVE  m < n
<1>1. /\ Time(m) \in Nat /\ Time(n) \in Nat
      /\ m - 1 <= Time(m) /\ Time(m) <= m /\ n - 1 <= Time(n) /\ Time(n) <= n
  BY DEF Clock
<1>2. m \in Nat /\ n \in Nat
  BY DEF Messages
<1>3. CASE m = n
  BY <1>1, <1>3
<1> QED
  BY <1>1, <1>2, <1>3

\* The messages of a channel later than a time are a finite set.
LEMMA PostedSinceIs ==
  ASSUME TypeOK, NEW ch, NEW since
  PROVE  /\ PostedSince(ch, since) \in SUBSET Messages /\ IsFiniteSet(PostedSince(ch, since))
         /\ PostedSince(ch, since) \in SUBSET Nat
         /\ \A m : m \in PostedSince(ch, since) <=>
                      m \in Messages /\ posted[m].ch = ch /\ Time(m) > since
<1>1. DOMAIN posted = Messages /\ Len(posted) \in Nat
  BY LenProperties DEF TypeOK, Messages
<1>2. \A m : m \in PostedSince(ch, since) <=>
                m \in Messages /\ posted[m].ch = ch /\ Time(m) > since
  BY <1>1 DEF PostedSince, Time
<1>3. PostedSince(ch, since) \in SUBSET Messages
  BY <1>2
<1>4. IsFiniteSet(Messages) /\ Messages \subseteq Nat
  <2>1. IsFiniteSet(1..Len(posted))
    BY <1>1, FS_Interval, 1 \in Int, Len(posted) \in Int
  <2> QED
    BY <1>1, <2>1 DEF Messages
<1>5. IsFiniteSet(PostedSince(ch, since))
  BY <1>3, <1>4, FS_Subset
<1> QED
  BY <1>2, <1>3, <1>4, <1>5

\* When the cacher saves messages of a channel, nothing else names it.
LEMMA SavedAlone ==
  ASSUME TypeOK, Flow, NEW ch, events # << >>, Head(events).to = "cacher",
         Head(events).chs = <<ch>>, events' = Tail(events)
  PROVE  /\ \A msgs : ~Arriving(ch, msgs) /\ ~Saving(ch, msgs)'
         /\ \A since : ~Asked(ch, since)
<1>1. /\ Head(events) = events[1] /\ Len(events) \in Nat \ {0} /\ Len(events') = Len(events) - 1
      /\ \A i \in 1..Len(events) - 1 : events'[i] = events[i + 1]
      /\ events' \in Seq(Events)
  BY TailAt DEF TypeOK
<1>2. 1 \in 1..Len(events) /\ events[1].to = "cacher" /\ events[1].chs = <<ch>>
  BY <1>1
<1>3. \A i \in 1..Len(toServer) : toServer[i].ch # ch
  BY <1>2 DEF Flow, Apart, Unheard
<1>4. \A i \in 1..Len(toClient) : toClient[i].chs # <<ch>>
  BY <1>2 DEF Flow, Apart, Unsignalled
<1>5. \A i \in 1..Len(events') : events'[i].to = "cacher" => events'[i].chs # <<ch>>
  <2>1. \A i \in 1..Len(events') : i + 1 \in 1..Len(events) /\ i + 1 # 1 /\ events'[i] = events[i + 1]
    BY <1>1
  <2> QED
    BY <1>2, <2>1 DEF Flow, Apart, OneCall
<1>6. \A q \in Range(toServer) : q.ch # ch
  <2>1. \A q \in Range(toServer) : \E i \in 1..Len(toServer) : toServer[i] = q
    BY RangeIs DEF TypeOK
  <2> QED
    BY <1>3, <2>1
<1>7. \A r \in Range(toClient) : r.chs # <<ch>>
  <2>1. \A r \in Range(toClient) : \E i \in 1..Len(toClient) : toClient[i] = r
    BY RangeIs DEF TypeOK
  <2> QED
    BY <1>4, <2>1
<1>8. \A e \in Range(events') : e.to = "cacher" => e.chs # <<ch>>
  <2>1. \A e \in Range(events') : \E i \in 1..Len(events') : events'[i] = e
    <3>1. events' \in Seq(Events)
      BY <1>1
    <3> QED
      BY <3>1, RangeIs
  <2> QED
    BY <1>5, <2>1
<1> QED
  BY <1>6, <1>7, <1>8 DEF Arriving, Saving, Asked

\* The server answers what was asked.
LEMMA ServerTraffic ==
  ASSUME TypeOK, ServerStep
  PROVE  /\ UNCHANGED <<posted, phase, cache, events, hist, loaded>>
         /\ \A ch, since : Asked(ch, since)' => Asked(ch, since)
         /\ \A ch, msgs : Arriving(ch, msgs)' =>
               \/ Arriving(ch, msgs)
               \/ \E since \in Nat : Asked(ch, since) /\ msgs \in Ascending(PostedSince(ch, since))
<1>1. /\ UNCHANGED <<posted, phase, cache, events, hist, loaded>>
      /\ toServer # << >> /\ toServer' = Tail(toServer)
  BY DEF ServerStep, ServeChannels, ServeHistory, ServeJoin, DropUnidentified, Serves, server,
         client
<1>2. /\ Range(toServer') \subseteq Range(toServer)
      /\ Head(toServer) \in Range(toServer) /\ Head(toServer) \in Requests
  BY <1>1, RangeTail, TailAt DEF TypeOK
<1>3. \A ch, since : Asked(ch, since)' => Asked(ch, since)
  BY <1>2 DEF Asked
<1>4. ASSUME NEW r, toClient' = Append(toClient, r), NEW ch, NEW msgs, Arriving(ch, msgs)',
             ~Arriving(ch, msgs)
      PROVE  r.kind \in {"history", "echo"} /\ r.chs = <<ch>> /\ r.msgs = msgs
  <2>1. Range(Append(toClient, r)) = Range(toClient) \cup {r}
    BY RangeAppend DEF TypeOK
  <2> QED
    BY <1>4, <2>1 DEF Arriving
<1>5. CASE ServeHistory
  <2> DEFINE req == Head(toServer)
  <2>1. PICK answer \in Ascending(PostedSince(req.ch, req.since)) :
           toClient' = Append(toClient, Response("history", <<req.ch>>, answer))
    BY <1>5 DEF ServeHistory, Answer
  <2>2. req.kind = "history"
    BY <1>5 DEF ServeHistory, Serves
  <2>3. Asked(req.ch, req.since) /\ req.since \in Nat
    BY <1>2, <2>2 DEF Asked, Requests
  <2>4. ASSUME NEW ch, NEW msgs, Arriving(ch, msgs)', ~Arriving(ch, msgs)
        PROVE  ch = req.ch /\ msgs = answer
    <3>1. /\ Response("history", <<req.ch>>, answer).chs = <<ch>>
          /\ Response("history", <<req.ch>>, answer).msgs = msgs
      BY <1>4, <2>1, <2>4
    <3>2. <<req.ch>> = <<ch>> /\ answer = msgs
      BY <3>1 DEF Response
    <3>3. <<req.ch>>[1] = req.ch /\ <<ch>>[1] = ch
      OBVIOUS
    <3> QED
      BY <3>2, <3>3
  <2> QED
    BY <1>1, <1>3, <2>1, <2>3, <2>4
<1>6. ASSUME NEW kind, NEW chs, NEW sent, Answer(kind, chs, sent), kind \notin {"history", "echo"}
      PROVE  \A ch, msgs : Arriving(ch, msgs)' => Arriving(ch, msgs)
  <2>1. /\ toClient' = Append(toClient, Response(kind, chs, sent))
        /\ Response(kind, chs, sent).kind = kind
    BY <1>6 DEF Answer, Response
  <2> QED
    BY <1>4, <1>6, <2>1
<1>7. CASE ServeChannels
  BY <1>1, <1>3, <1>6, <1>7 DEF ServeChannels
<1>8. CASE ServeJoin
  BY <1>1, <1>3, <1>6, <1>8 DEF ServeJoin
<1>9. CASE DropUnidentified
  BY <1>1, <1>3, <1>9 DEF DropUnidentified, Arriving
<1> QED
  BY <1>5, <1>7, <1>8, <1>9 DEF ServerStep

\* The cacher asks from the last row, or from the newest message in memory.
LEMMA GuiAsks ==
  ASSUME TypeOK, GuiStep, NEW ch, NEW since, Asked(ch, since)', ~Asked(ch, since)
  PROVE  /\ ch \in Channels
         /\ events # << >> /\ Head(events).to = "cacher"
         /\ UNCHANGED <<cache, hist, loaded>>
         /\ \/ /\ Head(events).kind = "channels" /\ ch \in Range(Head(events).chs)
               /\ since = SinceBack(cache[ch])
            \/ /\ Head(events).kind = "joined" /\ Head(events).chs = <<ch>>
               /\ since \in SincesNewest(hist[ch])
<1>1. events # << >> /\ Head(events) \in Events
  BY GuiTraffic
<1>2. ASSUME NEW reqs \in Seq(Requests), Send(reqs)
      PROVE  \E q \in Range(reqs) : q.kind = "history" /\ q.ch = ch /\ q.since = since
  <2>1. PICK q \in Range(toServer') : q.kind = "history" /\ q.ch = ch /\ q.since = since
    BY DEF Asked
  <2>2. q \notin Range(toServer)
    BY <2>1 DEF Asked
  <2>3. toServer' = toServer \o reqs \/ toServer' = toServer
    BY <1>2 DEF Send
  <2>4. Range(toServer \o reqs) = Range(toServer) \cup Range(reqs)
    BY RangeConcat DEF TypeOK
  <2> QED
    BY <2>1, <2>2, <2>3, <2>4
<1>3. CASE OnChannelsReceived
  <2> DEFINE chs == Head(events).chs
             reqs == HistoriesOf(chs)
  <2>1. /\ Head(events).kind = "channels" /\ Head(events).to = "cacher" /\ Send(reqs)
        /\ UNCHANGED <<cache, hist, loaded>>
    BY <1>3 DEF OnChannelsReceived, Slot, HistoriesOf, client
  <2>2. chs \in Seq(Channels)
    BY <1>1, <2>1 DEF Events
  <2>3. reqs \in Seq(Requests) /\ Len(reqs) = Len(chs)
    BY <2>2, HistoriesAsked DEF HistoriesOf, Load
  <2>4. \A i \in 1..Len(chs) : reqs[i] = HistoryRequest(chs[i], SinceBack(Load(chs[i])))
    BY <2>2, LenProperties DEF HistoriesOf
  <2> HIDE DEF reqs
  <2>5. PICK q \in Range(reqs) : q.kind = "history" /\ q.ch = ch /\ q.since = since
    BY <1>2, <2>1, <2>3
  <2>6. PICK i \in 1..Len(chs) : q = reqs[i]
    BY <2>3, RangeIs
  <2>7. q = HistoryRequest(chs[i], SinceBack(Load(chs[i])))
    BY <2>4, <2>6
  <2>8. ch = chs[i] /\ since = SinceBack(cache[ch])
    BY <2>5, <2>7 DEF HistoryRequest, Request, Load
  <2>9. ch \in Range(chs) /\ ch \in Channels
    BY <2>2, <2>6, <2>8, RangeIs
  <2> QED
    BY <1>1, <2>1, <2>8, <2>9
<1>4. CASE OnJoined
  <2> DEFINE c == Head(events).chs[1]
  <2>1. /\ Head(events).kind = "joined" /\ Head(events).to = "cacher"
        /\ UNCHANGED <<cache, hist, loaded>>
    BY <1>4 DEF OnJoined, Slot
  <2>2. PICK s \in SincesNewest(hist[c]) : Send(<<HistoryRequest(c, s)>>)
    BY <1>4 DEF OnJoined
  <2>3. c \in Channels /\ Head(events).chs = <<c>>
    <3>1. Head(events).chs \in One(Channels)
      BY <1>1, <2>1 DEF Events
    <3> QED
      BY <3>1, OneChannel
  <2> HIDE DEF c
  <2>4. <<HistoryRequest(c, s)>> \in Seq(Requests)
    BY <2>2, <2>3, HistoryAsked
  <2>5. PICK q \in Range(<<HistoryRequest(c, s)>>) : q.kind = "history" /\ q.ch = ch /\ q.since = since
    BY <1>2, <2>2, <2>4
  <2>6. q = HistoryRequest(c, s)
    BY RangeOne
  <2>7. ch = c /\ since = s
    BY <2>5, <2>6 DEF HistoryRequest, Request
  <2> QED
    BY <1>1, <2>1, <2>2, <2>3, <2>7
<1>5. CASE OnAuthorized
  <2> DEFINE r == Request("channels", "", NoTime)
  <2>1. Send(<<r>>)
    BY <1>5 DEF OnAuthorized, AskForChannels, ChannelsRequest
  <2>2. <<r>> \in Seq(Requests)
    BY ChannelsAsked
  <2>3. r.kind # "history"
    BY DEF Request
  <2> HIDE DEF r
  <2>4. \E q \in Range(<<r>>) : q.kind = "history"
    BY <1>2, <2>1, <2>2
  <2>5. Range(<<r>>) = {r}
    BY RangeOne
  <2> QED
    BY <2>3, <2>4, <2>5
<1>6. CASE UNCHANGED toServer
  BY <1>6 DEF Asked
<1> QED
  BY <1>3, <1>4, <1>5, <1>6 DEF GuiStep, ChangeWindow, OnRegistered, AddChannels, UpdateWidget,
     SaveMessages, link

\* A message that is posted is sent to the client, or is not.
LEMMA PostTraffic ==
  ASSUME TypeOK, NEW here \in Channels, Post(here)
  PROVE  \A ch, msgs : Arriving(ch, msgs)' =>
            \/ Arriving(ch, msgs)
            \/ /\ ch = here /\ msgs = <<Len(posted) + 1>>
               /\ phase = "online" /\ here \in subs
<1> DEFINE r == Response("echo", <<here>>, <<Len(posted) + 1>>)
<1>1. \/ toClient' = toClient
      \/ toClient' = Append(toClient, r) /\ phase = "online" /\ here \in subs
  BY DEF Post
<1>2. r.chs = <<here>> /\ r.msgs = <<Len(posted) + 1>>
  BY DEF Response
<1>3. \A ch : <<ch>> = <<here>> => ch = here
  BY <<here>>[1] = here
<1> HIDE DEF r
<1>4. Range(Append(toClient, r)) = Range(toClient) \cup {r}
  BY RangeAppend DEF TypeOK
<1>5. CASE toClient' = toClient
  BY <1>5 DEF Arriving
<1>6. CASE toClient' = Append(toClient, r) /\ phase = "online" /\ here \in subs
  BY <1>2, <1>3, <1>4, <1>6 DEF Arriving
<1> QED
  BY <1>1, <1>5, <1>6

\* Nothing else puts messages on the way.
LEMMA RestTraffic ==
  ASSUME TypeOK, \/ Cut \/ Crash \/ Login \/ Register
                 \/ \E ch \in Channels : UserJoins(ch)
  PROVE  /\ UNCHANGED posted
         /\ \A ch, msgs : Arriving(ch, msgs)' => Arriving(ch, msgs)
         /\ \A ch, msgs : Saving(ch, msgs)' => Saving(ch, msgs)
         /\ \A ch, since : Asked(ch, since)' => Asked(ch, since)
<1>1. CASE \E ch \in Channels : UserJoins(ch)
  <2>1. PICK ch \in Channels : UserJoins(ch)
    BY <1>1
  <2> DEFINE q == Request("join", ch, NoTime)
  <2>2. Send(<<q>>) /\ UNCHANGED <<posted, toClient, events>>
    BY <2>1 DEF UserJoins, JoinRequest, server
  <2>3. q.kind # "history"
    BY DEF Request
  <2>4. <<q>> \in Seq(Requests)
    BY JoinAsked
  <2> HIDE DEF q
  <2>5. Range(toServer \o <<q>>) = Range(toServer) \cup {q}
    <3>1. toServer \in Seq(Requests)
      BY DEF TypeOK
    <3>2. Range(toServer \o <<q>>) = Range(toServer) \cup Range(<<q>>)
      BY <2>4, <3>1, RangeConcat, ZenonT(30)
    <3> QED
      BY <3>2, RangeOne
  <2>6. Range(toServer') \subseteq Range(toServer) \cup {q}
    BY <2>2, <2>5 DEF Send
  <2> QED
    BY <2>2, <2>3, <2>6 DEF Arriving, Saving, Asked
<1>2. CASE Cut
  <2>1. PICK n \in 0..Len(toClient) : toClient' = SubSeq(toClient, 1, n)
    BY <1>2 DEF Cut
  <2>2. Range(SubSeq(toClient, 1, n)) \subseteq Range(toClient)
    BY RangePrefix DEF TypeOK
  <2>3. toServer' = << >> /\ UNCHANGED <<posted, events>>
    BY <1>2 DEF Cut, server
  <2> QED
    BY <2>1, <2>2, <2>3, RangeOne DEF Arriving, Saving, Asked
<1>3. CASE Crash
  BY <1>3, RangeOne DEF Crash, Forgotten, server, Arriving, Saving, Asked
<1>4. CASE Login \/ Register
  <2>1. PICK kind \in Accepted : Connect(kind)
    BY <1>4 DEF Login, Register, Accepted
  <2>2. toClient' = <<Response(kind, << >>, << >>)>> /\ UNCHANGED <<posted, toServer, events>>
    BY <2>1 DEF Connect
  <2>3. Response(kind, << >>, << >>).kind = kind
    BY DEF Response
  <2>4. \A ch, msgs : ~Arriving(ch, msgs)'
    BY <2>2, <2>3, RangeOne DEF Arriving, Accepted
  <2> QED
    BY <2>2, <2>4 DEF Saving, Asked
<1> QED
  BY <1>1, <1>2, <1>3, <1>4

\* What is on the way are messages that were posted.
LEMMA TrafficTyped ==
  ASSUME TypeOK, NEW ch
  PROVE  /\ \A msgs : Arriving(ch, msgs) \/ Saving(ch, msgs)
                         => msgs \in Seq(Messages) /\ Range(msgs) \subseteq Messages
         /\ \A since : Asked(ch, since) => since \in Nat
<1>1. ASSUME NEW msgs, Arriving(ch, msgs) \/ Saving(ch, msgs)
      PROVE  msgs \in Seq(Messages) /\ Range(msgs) \subseteq Messages
  <2>1. msgs \in Seq(Messages)
    <3>1. CASE Arriving(ch, msgs)
      <4>1. PICK r \in Range(toClient) : r.kind \in {"history", "echo"} /\ r.msgs = msgs
        BY <3>1 DEF Arriving
      <4> QED
        BY <4>1, RangesTyped DEF Responses
    <3>2. CASE Saving(ch, msgs)
      <4>1. PICK e \in Range(events) : e.kind \in {"history", "text"} /\ e.msgs = msgs
        BY <3>2 DEF Saving
      <4> QED
        BY <4>1, RangesTyped DEF Events
    <3> QED
      BY <1>1, <3>1, <3>2
  <2> QED
    BY <2>1, RangeIs
<1>2. ASSUME NEW since, Asked(ch, since) PROVE since \in Nat
  BY <1>2, RangesTyped DEF Asked, Requests
<1> QED
  BY <1>1, <1>2

LEMMA AscendsConcat ==
  ASSUME NEW s \in Seq(Nat), NEW t \in Seq(Nat), Ascends(s), Ascends(t),
         \A m \in Range(s), n \in Range(t) : m < n
  PROVE  Ascends(s \o t)
<1> DEFINE both == s \o t
<1>1. /\ Len(both) = Len(s) + Len(t)
      /\ Len(s) \in Nat /\ Len(t) \in Nat
      /\ \A i \in 1..Len(s) + Len(t) : both[i] = IF i <= Len(s) THEN s[i] ELSE t[i - Len(s)]
  BY ConcatProperties, LenProperties
<1>2. /\ \A i \in 1..Len(s) : s[i] \in Range(s)
      /\ \A i \in 1..Len(t) : t[i] \in Range(t)
  BY RangeIs
<1> HIDE DEF both
<1> SUFFICES ASSUME NEW i \in 1..Len(both), NEW j \in 1..Len(both), i < j
             PROVE  both[i] < both[j]
  BY DEF Ascends, both
<1>3. CASE j <= Len(s)
  <2>1. i \in 1..Len(s) /\ j \in 1..Len(s) /\ both[i] = s[i] /\ both[j] = s[j]
    BY <1>1, <1>3
  <2> QED
    BY <2>1 DEF Ascends
<1>4. CASE ~(i <= Len(s))
  <2>1. /\ i - Len(s) \in 1..Len(t) /\ j - Len(s) \in 1..Len(t) /\ i - Len(s) < j - Len(s)
        /\ both[i] = t[i - Len(s)] /\ both[j] = t[j - Len(s)]
    BY <1>1, <1>4
  <2> QED
    BY <2>1 DEF Ascends
<1>5. CASE i <= Len(s) /\ ~(j <= Len(s))
  <2>1. /\ i \in 1..Len(s) /\ j - Len(s) \in 1..Len(t)
        /\ both[i] = s[i] /\ both[j] = t[j - Len(s)]
    BY <1>1, <1>5
  <2> QED
    BY <1>2, <2>1
<1> QED
  BY <1>3, <1>4, <1>5

LEMMA FollowsPrefix ==
  ASSUME NEW ch, NEW msgs \in Seq(Messages), Follows(ch, msgs), NEW n \in 0..Len(msgs)
  PROVE  SubSeq(msgs, 1, n) \in Seq(Messages) /\ Follows(ch, SubSeq(msgs, 1, n))
<1> DEFINE part == SubSeq(msgs, 1, n)
<1>1. /\ part \in Seq(Messages) /\ Range(part) \subseteq Range(msgs) /\ Len(part) = n
      /\ \A i \in 1..n : i \in 1..Len(msgs) /\ part[i] = msgs[i]
  BY RangePrefix, PrefixIs
<1> HIDE DEF part
<1>2. Ascends(part)
  BY <1>1 DEF Follows, InOrder, Ascends
<1>3. Follows(ch, part)
  BY <1>1, <1>2 DEF Follows, InOrder
<1> QED
  BY <1>1, <1>3 DEF part

\* What is saved of what follows are rows that follow.
LEMMA SavedFollows ==
  ASSUME TypeOK, NEW ch \in Channels, NEW msgs \in Seq(Messages), Follows(ch, msgs),
         Save(ch, msgs)
  PROVE  \E rows \in Seq(Messages) :
            Follows(ch, rows) /\ cache' = [cache EXCEPT ![ch] = cache[ch] \o rows]
<1>1. PICK rows \in Inserted(msgs) : cache' = [cache EXCEPT ![ch] = cache[ch] \o rows]
  BY DEF Save
<1>2. Len(posted) \in Nat
  BY LenProperties DEF TypeOK
<1>3. /\ rows \in Seq(Messages) /\ Range(rows) \subseteq Range(msgs)
      /\ Ascends(msgs) => Ascends(rows)
  BY <1>2, InsertedIs
<1> QED
  BY <1>1, <1>3 DEF Follows, InOrder

LEMMA SavedInOrder ==
  ASSUME TypeOK, RowsInOrder, NEW ch \in Channels, NEW msgs \in Seq(Messages),
         Follows(ch, msgs), Save(ch, msgs), UNCHANGED posted
  PROVE  RowsInOrder'
<1>1. PICK rows \in Seq(Messages) :
         Follows(ch, rows) /\ cache' = [cache EXCEPT ![ch] = cache[ch] \o rows]
  BY SavedFollows
<1>2. cache \in [Channels -> Seq(Messages)] /\ Messages \subseteq Nat
  BY LenProperties DEF TypeOK, Messages
<1>3. cache[ch] \in Seq(Nat) /\ rows \in Seq(Nat) /\ cache[ch] \in Seq(Messages)
  BY <1>2, SeqMonotonic
<1>4. InOrder(ch, cache[ch]) /\ InOrder(ch, rows)
      /\ \A m \in Range(cache[ch]), n \in Range(rows) : m < n
  BY <1>1 DEF RowsInOrder, Follows
<1>5. Ascends(cache[ch] \o rows)
  BY <1>3, <1>4, AscendsConcat DEF InOrder
<1>6. Range(cache[ch] \o rows) = Range(cache[ch]) \cup Range(rows)
  BY <1>3, RangeConcat
<1>7. cache'[ch] = cache[ch] \o rows /\ \A c \in Channels : c # ch => cache'[c] = cache[c]
  BY <1>1, <1>2
<1> SUFFICES ASSUME NEW c \in Channels PROVE InOrder(c, cache[c])'
  BY DEF RowsInOrder
<1>8. CASE c = ch
  BY <1>4, <1>5, <1>6, <1>7, <1>8 DEF InOrder
<1>9. CASE c # ch
  BY <1>7, <1>9 DEF RowsInOrder, InOrder
<1> QED
  BY <1>8, <1>9

LEMMA ServerOrdered ==
  ASSUME TypeOK, Ordered, ServerStep
  PROVE  Ordered'
<1>1. /\ UNCHANGED <<posted, phase, cache, events, hist, loaded>>
      /\ \A ch, since : Asked(ch, since)' => Asked(ch, since)
      /\ \A ch, msgs : Arriving(ch, msgs)' =>
            \/ Arriving(ch, msgs)
            \/ \E since \in Nat : Asked(ch, since) /\ msgs \in Ascending(PostedSince(ch, since))
  BY ServerTraffic
<1>2. Clock' /\ RowsInOrder'
  BY <1>1 DEF Ordered, Clock, RowsInOrder, InOrder, Messages, Time
<1>3. SincesFollow'
  BY <1>1 DEF Ordered, SincesFollow, RowsBefore, Time
<1>4. ASSUME NEW ch \in Channels, NEW since \in Nat, Asked(ch, since),
             NEW msgs \in Ascending(PostedSince(ch, since))
      PROVE  Follows(ch, msgs)
  <2>1. /\ PostedSince(ch, since) \in SUBSET Messages /\ IsFiniteSet(PostedSince(ch, since))
        /\ PostedSince(ch, since) \in SUBSET Nat
        /\ \A m : m \in PostedSince(ch, since) <=>
                     m \in Messages /\ posted[m].ch = ch /\ Time(m) > since
    BY PostedSinceIs
  <2>2. Ascends(msgs) /\ Range(msgs) = PostedSince(ch, since)
    BY <1>4, <2>1, AscendingIs
  <2>3. InOrder(ch, msgs)
    BY <2>1, <2>2 DEF InOrder
  <2>4. ASSUME NEW m \in Range(cache[ch]), NEW n \in Range(msgs) PROVE m < n
    <3>1. m \in Messages /\ n \in Messages
      BY <2>1, <2>2, <2>4, RangesTyped
    <3>2. Time(m) <= since /\ Time(n) > since
      BY <1>4, <2>1, <2>2, <2>4 DEF Ordered, SincesFollow, RowsBefore
    <3>3. Time(m) < Time(n)
      BY <1>4, <3>1, <3>2 DEF Ordered, Clock
    <3>4. Len(posted) \in Nat
      BY LenProperties DEF TypeOK
    <3> QED
      BY <3>1, <3>3, <3>4, LaterTime DEF Ordered
  <2> QED
    BY <2>3, <2>4 DEF Follows
<1>5. ArrivalsFollow'
  <2> SUFFICES ASSUME NEW ch \in Channels, NEW msgs, (Arriving(ch, msgs) \/ Saving(ch, msgs))'
               PROVE  Follows(ch, msgs)'
    BY DEF ArrivalsFollow
  <2>1. Follows(ch, msgs)
    <3>1. CASE Arriving(ch, msgs) \/ Saving(ch, msgs)
      BY <3>1 DEF Ordered, ArrivalsFollow
    <3>2. Saving(ch, msgs)' => Saving(ch, msgs)
      BY <1>1 DEF Saving
    <3> QED
      BY <1>1, <1>4, <3>1, <3>2
  <2> QED
    BY <1>1, <2>1 DEF Follows, InOrder
<1> QED
  BY <1>2, <1>3, <1>5 DEF Ordered

LEMMA IoOrdered ==
  ASSUME TypeOK, Ordered, IoStep
  PROVE  Ordered'
<1>1. /\ UNCHANGED <<posted, toServer, cache>>
      /\ Range(toClient') \subseteq Range(toClient)
      /\ \A ch \in Channels : \A msgs :
            Saving(ch, msgs)' => Saving(ch, msgs) \/ Arriving(ch, msgs)
  BY IoTraffic
<1>2. Clock' /\ RowsInOrder'
  BY <1>1 DEF Ordered, Clock, RowsInOrder, InOrder, Messages, Time
<1>3. SincesFollow'
  BY <1>1 DEF Ordered, SincesFollow, RowsBefore, Time, Asked
<1>4. ArrivalsFollow'
  <2> SUFFICES ASSUME NEW ch \in Channels, NEW msgs, (Arriving(ch, msgs) \/ Saving(ch, msgs))'
               PROVE  Follows(ch, msgs)'
    BY DEF ArrivalsFollow
  <2>1. Arriving(ch, msgs)' => Arriving(ch, msgs)
    BY <1>1 DEF Arriving
  <2>2. Follows(ch, msgs)
    BY <1>1, <2>1 DEF Ordered, ArrivalsFollow
  <2> QED
    BY <1>1, <2>2 DEF Follows, InOrder
<1> QED
  BY <1>2, <1>3, <1>4 DEF Ordered

\* The last row has the latest time.
LEMMA BackIsLatest ==
  ASSUME TypeOK, Clock, NEW ch \in Channels, InOrder(ch, cache[ch])
  PROVE  RowsBefore(ch, SinceBack(cache[ch]))
<1> DEFINE rows == cache[ch]
<1>1. rows \in Seq(Messages) /\ Len(rows) \in Nat
  BY LenProperties DEF TypeOK
<1> SUFFICES ASSUME NEW i \in 1..Len(rows) PROVE Time(rows[i]) <= SinceBack(rows)
  <2>1. \A m \in Range(rows) : \E i \in 1..Len(rows) : rows[i] = m
    BY <1>1, RangeIs
  <2> QED
    BY <2>1 DEF RowsBefore
<1> HIDE DEF rows
<1>2. rows # << >> /\ SinceBack(rows) = Time(rows[Len(rows)]) /\ Len(rows) \in 1..Len(rows)
  BY <1>1 DEF SinceBack
<1>3. rows[i] \in Messages /\ rows[Len(rows)] \in Messages /\ Len(posted) \in Nat
  BY <1>1, <1>2, ElementOfSeq, LenProperties DEF TypeOK
<1>4. i = Len(rows) \/ rows[i] < rows[Len(rows)]
  BY <1>1, <1>2 DEF InOrder, Ascends, rows
<1>5. Time(rows[i]) \in Nat /\ Time(rows[Len(rows)]) \in Nat
  BY <1>3 DEF Clock
<1>6. CASE i = Len(rows)
  BY <1>2, <1>5, <1>6
<1>7. CASE rows[i] < rows[Len(rows)]
  <2>1. ~(Time(rows[Len(rows)]) < Time(rows[i]))
    <3>1. rows[i] \in Nat /\ rows[Len(rows)] \in Nat
      BY <1>3 DEF Messages
    <3> QED
      BY <1>3, <1>7, <3>1, LaterTime
  <2> QED
    BY <1>2, <1>5, <2>1
<1> QED
  BY <1>4, <1>6, <1>7

\* Nor is any message in memory later than the newest.
LEMMA NewestIsLatest ==
  ASSUME TypeOK, NEW ch \in Channels, NEW since \in SincesNewest(hist[ch])
  PROVE  \A m \in Range(hist[ch]) : Time(m) <= since
<1>1. hist[ch] \in Seq(Messages)
  BY RangesTyped
<1>2. DOMAIN hist[ch] = 1..Len(hist[ch])
  BY <1>1, LenProperties
<1>3. \A m \in Range(hist[ch]) : \E i \in 1..Len(hist[ch]) : hist[ch][i] = m
  BY <1>1, RangeIs
<1>4. CASE hist[ch] = << >>
  BY <1>4, RangeOne
<1>5. CASE hist[ch] # << >>
  BY <1>2, <1>3, <1>5 DEF SincesNewest
<1> QED
  BY <1>4, <1>5

LEMMA GuiOrdered ==
  ASSUME TypeOK, Flow, Remembered, Ordered, GuiStep
  PROVE  Ordered'
<1>1. /\ UNCHANGED <<posted, subs, phase, toClient>>
      /\ events # << >> /\ events' = Tail(events)
      /\ Head(events) \in Range(events)
      /\ \A ch \in Channels : \A msgs : Saving(ch, msgs)' => Saving(ch, msgs)
  BY GuiTraffic
<1>2. Clock'
  BY <1>1 DEF Ordered, Clock, Messages, Time
<1>3. \A ch, msgs : Arriving(ch, msgs)' => Arriving(ch, msgs)
  BY <1>1 DEF Arriving
<1>4. CASE SaveMessages
  <2>1. PICK ch \in Channels : \E msgs \in Seq(Messages) :
           /\ Saving(ch, msgs) /\ Save(ch, msgs)
           /\ Head(events).to = "cacher" /\ Head(events).chs = <<ch>>
    BY <1>4, SavedIs
  <2>2. PICK msgs \in Seq(Messages) : Saving(ch, msgs) /\ Save(ch, msgs)
    BY <2>1
  <2>3. Follows(ch, msgs)
    BY <2>2 DEF Ordered, ArrivalsFollow
  <2>4. RowsInOrder'
    BY <1>1, <2>2, <2>3, SavedInOrder DEF Ordered
  <2>5. /\ \A ms : ~Arriving(ch, ms) /\ ~Saving(ch, ms)'
        /\ \A since : ~Asked(ch, since)
    BY <1>1, <2>1, SavedAlone
  <2>6. \A c \in Channels : c # ch => cache'[c] = cache[c]
    BY <2>2, SaveIs
  <2>7. \A c, since : Asked(c, since)' => Asked(c, since)
    BY <1>4 DEF SaveMessages, link, Asked
  <2>8. SincesFollow'
    <3> SUFFICES ASSUME NEW c \in Channels, NEW since, Asked(c, since)'
                 PROVE  RowsBefore(c, since)'
      BY DEF SincesFollow
    <3>1. c # ch /\ RowsBefore(c, since)
      BY <2>5, <2>7 DEF Ordered, SincesFollow
    <3> QED
      BY <1>1, <2>6, <3>1 DEF RowsBefore, Time
  <2>9. ArrivalsFollow'
    <3> SUFFICES ASSUME NEW c \in Channels, NEW ms, (Arriving(c, ms) \/ Saving(c, ms))'
                 PROVE  Follows(c, ms)'
      BY DEF ArrivalsFollow
    <3>1. c # ch /\ Follows(c, ms)
      BY <1>1, <1>3, <2>5 DEF Ordered, ArrivalsFollow
    <3> QED
      BY <1>1, <2>6, <3>1 DEF Follows, InOrder
  <2> QED
    BY <1>2, <2>4, <2>8, <2>9 DEF Ordered
<1>5. CASE ~SaveMessages
  <2>1. cache' = cache
    BY <1>5 DEF GuiStep, ChangeWindow, OnAuthorized, OnRegistered, AddChannels,
       OnChannelsReceived, OnJoined, UpdateWidget
  <2>2. RowsInOrder'
    BY <1>1, <2>1 DEF Ordered, RowsInOrder, InOrder
  <2>3. ArrivalsFollow'
    <3> SUFFICES ASSUME NEW c \in Channels, NEW ms, (Arriving(c, ms) \/ Saving(c, ms))'
                 PROVE  Follows(c, ms)'
      BY DEF ArrivalsFollow
    <3>1. Follows(c, ms)
      BY <1>1, <1>3 DEF Ordered, ArrivalsFollow
    <3> QED
      BY <1>1, <2>1, <3>1 DEF Follows, InOrder
  <2>4. SincesFollow'
    <3> SUFFICES ASSUME NEW ch \in Channels, NEW since, Asked(ch, since)'
                 PROVE  RowsBefore(ch, since)
      BY <1>1, <2>1 DEF SincesFollow, RowsBefore, Time
    <3>1. CASE Asked(ch, since)
      BY <3>1 DEF Ordered, SincesFollow
    <3>2. CASE ~Asked(ch, since)
      <4>1. \/ since = SinceBack(cache[ch])
            \/ Head(events).kind = "joined" /\ since \in SincesNewest(hist[ch])
        BY <3>2, GuiAsks
      <4>2. RowsBefore(ch, SinceBack(cache[ch]))
        BY BackIsLatest DEF Ordered, RowsInOrder
      <4>3. ASSUME Head(events).kind = "joined", since \in SincesNewest(hist[ch])
            PROVE  RowsBefore(ch, since)
        <5>1. loaded
          BY <1>1, <4>3 DEF Remembered, NotLoaded
        <5>2. Range(cache[ch]) \subseteq Range(hist[ch])
          BY <5>1 DEF Remembered, RowsKept
        <5> QED
          BY <4>3, <5>2, NewestIsLatest DEF RowsBefore
      <4> QED
        BY <4>1, <4>2, <4>3
    <3> QED
      BY <3>1, <3>2
  <2> QED
    BY <1>2, <2>2, <2>3, <2>4 DEF Ordered
<1> QED
  BY <1>4, <1>5

LEMMA PostOrdered ==
  ASSUME Skew <= 1, TypeOK, Ordered, NEW here \in Channels, Post(here)
  PROVE  Ordered'
<1> DEFINE new == Len(posted) + 1
<1>1. /\ Len(posted) \in Nat /\ Len(posted') = Len(posted) + 1
      /\ \A m \in 1..Len(posted) : posted'[m] = posted[m]
      /\ posted'[Len(posted) + 1].ch = here
  BY PostGrows
<1>2. /\ toServer' = toServer /\ events' = events /\ cache' = cache
      /\ \A ch, msgs : Arriving(ch, msgs)' =>
            Arriving(ch, msgs) \/ (ch = here /\ msgs = <<new>>)
  <2>1. UNCHANGED <<toServer, events, cache>>
    BY DEF Post
  <2>2. ASSUME NEW ch, NEW msgs, Arriving(ch, msgs)'
        PROVE  Arriving(ch, msgs) \/ (ch = here /\ msgs = <<Len(posted) + 1>>)
    BY <2>2, PostTraffic
  <2> QED
    BY <2>1, <2>2
<1>3. \A m \in Messages : posted'[m] = posted[m] /\ m < new
  BY <1>1 DEF Messages
<1>4. Clock'
  <2>1. PICK lag \in 0..Skew, quoted \in BOOLEAN :
           /\ lag <= Len(posted)
           /\ posted' = Append(posted, [ch |-> here, time |-> Len(posted) + 1 - lag,
                                        quoted |-> quoted])
    BY DEF Post
  <2>2. lag \in Nat /\ lag <= 1
    BY HistorySyncAssumption DEF HistorySyncAssumption
  <2>3. posted'[new].time = Len(posted) + 1 - lag
    <3> DEFINE msg == [ch |-> here, time |-> Len(posted) + 1 - lag, quoted |-> quoted]
    <3>1. msg.time = Len(posted) + 1 - lag
      OBVIOUS
    <3> HIDE DEF msg
    <3>4. posted \in Seq([ch : Channels, time : Nat, quoted : BOOLEAN])
      BY DEF TypeOK
    <3>2. \A i \in 1..Len(posted) + 1 :
             Append(posted, msg)[i] = IF i <= Len(posted) THEN posted[i] ELSE msg
      BY <3>4, AppendIs
    <3>3. Append(posted, msg)[new] = msg
      BY <1>1, <3>2
    <3> QED
      BY <2>1, <3>1, <3>3 DEF msg
  <2>4. new \in Nat /\ 1 <= new - lag /\ new - 1 <= new - lag /\ new - lag <= new /\ new - lag \in Nat
    BY <1>1, <2>1, <2>2
  <2>5. \A m \in Messages' : m \in Messages \/ m = new
    BY <1>1 DEF Messages
  <2> SUFFICES ASSUME NEW m \in Messages'
               PROVE  /\ posted'[m].time \in Nat /\ 1 <= posted'[m].time
                      /\ m - 1 <= posted'[m].time /\ posted'[m].time <= m
    BY DEF Clock, Time
  <2>6. CASE m \in Messages
    BY <1>3, <2>6 DEF Ordered, Clock, Time
  <2>7. CASE m = new
    BY <2>3, <2>4, <2>7
  <2> QED
    BY <2>5, <2>6, <2>7
<1>5. \A ch \in Channels : Range(cache[ch]) \subseteq Messages
  BY RangesTyped
<1>6. RowsInOrder'
  BY <1>2, <1>3, <1>5 DEF Ordered, RowsInOrder, InOrder
<1>7. SincesFollow'
  BY <1>2, <1>3, <1>5 DEF Ordered, SincesFollow, RowsBefore, Time, Asked
<1>8. ArrivalsFollow'
  <2> SUFFICES ASSUME NEW ch \in Channels, NEW msgs, (Arriving(ch, msgs) \/ Saving(ch, msgs))'
               PROVE  Follows(ch, msgs)'
    BY DEF ArrivalsFollow
  <2>1. CASE Arriving(ch, msgs) \/ Saving(ch, msgs)
    <3>1. Follows(ch, msgs) /\ Range(msgs) \subseteq Messages
      BY <2>1, TrafficTyped DEF Ordered, ArrivalsFollow
    <3> QED
      BY <1>2, <1>3, <3>1 DEF Follows, InOrder
  <2>2. CASE ch = here /\ msgs = <<new>>
    <3>1. Range(<<new>>) = {new}
      BY RangeOne
    <3>2. Ascends(<<new>>)
      BY DEF Ascends
    <3> QED
      BY <1>1, <1>2, <1>3, <1>5, <2>2, <3>1, <3>2 DEF Follows, InOrder
  <2>3. Saving(ch, msgs)' => Saving(ch, msgs)
    BY <1>2 DEF Saving
  <2> QED
    BY <1>2, <2>1, <2>2, <2>3
<1> QED
  BY <1>4, <1>6, <1>7, <1>8 DEF Ordered

\* A crash saves a beginning of what was to be saved.
LEMMA CrashSaves ==
  ASSUME TypeOK, Crash
  PROVE  \/ UNCHANGED cache
         \/ \E ch \in Channels : \E msgs \in Seq(Messages) : \E n \in 0..Len(msgs) :
               Saving(ch, msgs) /\ Save(ch, SubSeq(msgs, 1, n))
<1> SUFFICES ASSUME cache' # cache
             PROVE  \E ch \in Channels : \E msgs \in Seq(Messages) : \E n \in 0..Len(msgs) :
                       Saving(ch, msgs) /\ Save(ch, SubSeq(msgs, 1, n))
  OBVIOUS
<1> DEFINE e == Head(events)
<1>1. /\ events # << >> /\ e.to = "cacher" /\ e.kind \in {"history", "text"}
      /\ \E n \in 1..Len(e.msgs) : Save(e.chs[1], SubSeq(e.msgs, 1, n))
  BY DEF Crash
<1>2. e \in Range(events) /\ e \in Events
  BY <1>1, RangeTail, TailAt DEF TypeOK
<1> HIDE DEF e
<1>3. e.chs \in One(Channels) /\ e.msgs \in Seq(Messages)
  BY <1>1, <1>2 DEF Events
<1>4. e.chs[1] \in Channels /\ e.chs = <<e.chs[1]>> /\ Len(e.msgs) \in Nat
  BY <1>3, OneChannel, LenProperties
<1>5. Saving(e.chs[1], e.msgs)
  BY <1>1, <1>2, <1>4 DEF Saving
<1>6. \E n \in 0..Len(e.msgs) : Save(e.chs[1], SubSeq(e.msgs, 1, n))
  BY <1>1, <1>4
<1> QED
  BY <1>3, <1>4, <1>5, <1>6

LEMMA CrashOrdered ==
  ASSUME TypeOK, Ordered, Crash
  PROVE  Ordered'
<1>1. toServer' = << >> /\ toClient' = << >> /\ events' = << >> /\ UNCHANGED posted
  BY DEF Crash, Forgotten, server
<1>2. /\ \A ch, msgs : ~Arriving(ch, msgs)' /\ ~Saving(ch, msgs)'
      /\ \A ch, since : ~Asked(ch, since)'
  BY <1>1, RangeOne DEF Arriving, Saving, Asked
<1>3. Clock' /\ ArrivalsFollow' /\ SincesFollow'
  BY <1>1, <1>2 DEF Ordered, Clock, ArrivalsFollow, SincesFollow, Messages, Time
<1>4. RowsInOrder'
  <2>1. CASE UNCHANGED cache
    BY <1>1, <2>1 DEF Ordered, RowsInOrder, InOrder
  <2>2. ASSUME NEW ch \in Channels, NEW msgs \in Seq(Messages), NEW n \in 0..Len(msgs),
               Saving(ch, msgs), Save(ch, SubSeq(msgs, 1, n))
        PROVE  RowsInOrder'
    <3>1. Follows(ch, msgs)
      BY <2>2 DEF Ordered, ArrivalsFollow
    <3>2. SubSeq(msgs, 1, n) \in Seq(Messages) /\ Follows(ch, SubSeq(msgs, 1, n))
      BY <3>1, FollowsPrefix
    <3> QED
      BY <1>1, <2>2, <3>2, SavedInOrder DEF Ordered
  <2> QED
    BY <2>1, <2>2, CrashSaves
<1> QED
  BY <1>3, <1>4 DEF Ordered

LEMMA RestOrdered ==
  ASSUME TypeOK, Ordered, Cut \/ Login \/ Register \/ \E ch \in Channels : UserJoins(ch)
  PROVE  Ordered'
<1>1. /\ UNCHANGED posted
      /\ \A ch, msgs : Arriving(ch, msgs)' => Arriving(ch, msgs)
      /\ \A ch, msgs : Saving(ch, msgs)' => Saving(ch, msgs)
      /\ \A ch, since : Asked(ch, since)' => Asked(ch, since)
  BY RestTraffic
<1>2. cache' = cache
  BY DEF Cut, Login, Register, Connect, UserJoins
<1>3. Clock' /\ RowsInOrder' /\ SincesFollow'
  BY <1>1, <1>2 DEF Ordered, Clock, RowsInOrder, InOrder, SincesFollow, RowsBefore, Messages, Time
<1>4. ArrivalsFollow'
  BY <1>1, <1>2 DEF Ordered, ArrivalsFollow, Follows, InOrder
<1> QED
  BY <1>3, <1>4 DEF Ordered

LEMMA InitOrdered == Init => Ordered
<1> SUFFICES ASSUME Init PROVE Ordered
  OBVIOUS
<1>1. Len(posted) = 0 /\ \A ch \in Channels : cache[ch] = << >> /\ Len(cache[ch]) = 0
  BY DEF Init
<1>2. Clock
  BY <1>1 DEF Clock, Messages
<1>3. RowsInOrder
  <2>1. \A i \in 1..0 : FALSE
    OBVIOUS
  <2>2. ASSUME NEW ch \in Channels PROVE InOrder(ch, cache[ch])
    BY <1>1, <2>1, RangeOne DEF InOrder, Ascends
  <2> QED
    BY <2>2 DEF RowsInOrder
<1>4. ArrivalsFollow /\ SincesFollow
  BY RangeOne DEF Init, ArrivalsFollow, SincesFollow, Arriving, Saving, Asked
<1> QED
  BY <1>2, <1>3, <1>4 DEF Ordered

LEMMA StepOrdered ==
  ASSUME Skew <= 1, TypeOK, Flow, Remembered, Ordered, [Next]_vars
  PROVE  Ordered'
<1>1. CASE Next
  BY <1>1, ServerOrdered, IoOrdered, GuiOrdered, PostOrdered, CrashOrdered, RestOrdered
     DEF Next, UserStep
<1>2. CASE UNCHANGED vars
  BY <1>2 DEF vars, server, link, Ordered, Clock, RowsInOrder, ArrivalsFollow, SincesFollow,
     Follows, InOrder, RowsBefore, Arriving, Saving, Asked, Messages, Time
<1> QED
  BY <1>1, <1>2

-----------------------------------------------------------------------------
(* The refinement                                                          *)

\* Posting publishes a message of the channel.
LEMMA PostPublishes ==
  ASSUME TypeOK, NEW here \in Channels, Post(here)
  PROVE  Disk!Publish
<1> DEFINE was == [m \in DOMAIN posted |-> posted[m].ch]
           now == [m \in DOMAIN posted' |-> posted'[m].ch]
<1>1. /\ Len(posted) \in Nat /\ Len(posted') = Len(posted) + 1
      /\ \A m \in 1..Len(posted) : posted'[m] = posted[m]
      /\ posted'[Len(posted) + 1].ch = here
  BY PostGrows
<1>2. posted \in Seq([ch : Channels, time : Nat, quoted : BOOLEAN]) /\ cache' = cache
  BY DEF TypeOK, Post
<1>3. /\ DOMAIN posted = 1..Len(posted)
      /\ \A m \in 1..Len(posted) : posted[m].ch \in Channels
  <2>1. \A m \in 1..Len(posted) : posted[m] \in [ch : Channels, time : Nat, quoted : BOOLEAN]
    BY <1>2, LenProperties
  <2> QED
    BY <1>2, <2>1, LenProperties
<1>4. was \in Seq(Channels) /\ Len(was) = Len(posted)
      /\ \A m \in 1..Len(posted) : was[m] = posted[m].ch
  BY <1>1, <1>3
<1>5. DOMAIN posted' = 1..Len(posted) + 1
  <2>1. PICK e : posted' = Append(posted, e)
    BY DEF Post
  <2>2. Append(posted, e) \in Seq([ch : Channels, time : Nat, quoted : BOOLEAN] \cup {e})
    BY <1>2, AppendIs
  <2> QED
    BY <1>1, <2>1, <2>2, LenProperties
<1>6. DOMAIN now = 1..Len(posted) + 1
      /\ \A m \in 1..Len(posted) + 1 : now[m] = IF m <= Len(posted) THEN was[m] ELSE here
  BY <1>1, <1>4, <1>5
<1>7. now = [m \in DOMAIN now |-> now[m]]
  OBVIOUS
<1> HIDE DEF was, now
<1>8. /\ Append(was, here) \in Seq(Channels \cup {here})
      /\ Len(Append(was, here)) = Len(posted) + 1
      /\ \A m \in 1..Len(posted) + 1 :
            Append(was, here)[m] = IF m <= Len(posted) THEN was[m] ELSE here
  BY <1>4, AppendIs
<1>9. Append(was, here) = [m \in 1..Len(posted) + 1 |-> Append(was, here)[m]]
  BY <1>8, LenProperties
<1>10. now = Append(was, here)
  BY <1>6, <1>7, <1>8, <1>9
<1> QED
  BY <1>2, <1>10 DEF Disk!Publish, was, now

\* Rows that follow those of their channel are recorded in their turn.
LEMMA RowsRecorded ==
  ASSUME TypeOK, NEW ch \in Channels, NEW more \in Seq(Messages), Follows(ch, more),
         cache' = [cache EXCEPT ![ch] = cache[ch] \o more], UNCHANGED posted
  PROVE  Disk!Record
<1>1. posted \in Seq([ch : Channels, time : Nat, quoted : BOOLEAN])
      /\ cache \in [Channels -> Seq(Messages)]
  BY DEF TypeOK
<1>2. DOMAIN posted = Messages /\ Messages \subseteq Nat
  BY <1>1, LenProperties DEF Messages
<1>3. Range(more) \subseteq Messages
  BY RangeIs
<1>4. \A i \in DOMAIN cache[ch] : cache[ch][i] \in Range(cache[ch])
  BY DEF Range
<1>5. Range(more) \subseteq Disk!Later(ch)
  BY <1>2, <1>3, <1>4 DEF Disk!Later, Follows, InOrder
<1>6. more \in Disk!InTurn(Range(more))
  <2> DEFINE R == Range(more)
  <2>1. more \in Seq(Nat) /\ Ascends(more)
    BY <1>2, SeqMonotonic DEF Follows, InOrder
  <2>2. Len(more) = Cardinality(Range(more)) /\ more \in [1..Len(more) -> Range(more)]
    BY <2>1, InTurnIs
  <2>3. \A i, j \in 1..Len(more) : i < j => more[i] < more[j]
    BY <2>1 DEF Ascends
  <2>4. Len(more) = Cardinality(R) /\ more \in [1..Len(more) -> R]
    BY <2>2
  <2> HIDE DEF R
  <2>5. more \in [1..Cardinality(R) -> R]
        /\ \A i, j \in 1..Cardinality(R) : i < j => more[i] < more[j]
    BY <2>3, <2>4
  <2>6. Disk!Cardinality(R) = Cardinality(R)
    BY DEF Disk!Cardinality, Cardinality
  <2>7. more \in Disk!InTurn(R)
    BY <2>5, <2>6 DEF Disk!InTurn
  <2> QED
    BY <2>7 DEF R
<1>7. UNCHANGED [m \in DOMAIN posted |-> posted[m].ch]
  OBVIOUS
<1> QED
  BY <1>5, <1>6, <1>7 DEF Disk!Record

\* Saving and dying record what follows, if anything.
LEMMA SavesRecorded ==
  ASSUME TypeOK, Ordered, SaveMessages \/ Crash
  PROVE  Disk!Record \/ (UNCHANGED posted /\ UNCHANGED cache)
<1>1. UNCHANGED posted
  BY DEF SaveMessages, Crash, server
<1>2. ASSUME NEW ch \in Channels, NEW msgs \in Seq(Messages), Follows(ch, msgs), Save(ch, msgs)
      PROVE  Disk!Record
  BY <1>1, <1>2, SavedFollows, RowsRecorded
<1>3. CASE SaveMessages
  <2>1. PICK ch \in Channels, msgs \in Seq(Messages) : Saving(ch, msgs) /\ Save(ch, msgs)
    BY <1>3, SavedIs
  <2> QED
    BY <1>2, <2>1 DEF Ordered, ArrivalsFollow
<1>4. CASE Crash
  <2>1. ASSUME NEW ch \in Channels, NEW msgs \in Seq(Messages), NEW n \in 0..Len(msgs),
               Saving(ch, msgs), Save(ch, SubSeq(msgs, 1, n))
        PROVE  Disk!Record
    <3>1. Follows(ch, msgs)
      BY <2>1 DEF Ordered, ArrivalsFollow
    <3>2. SubSeq(msgs, 1, n) \in Seq(Messages) /\ Follows(ch, SubSeq(msgs, 1, n))
      BY <3>1, FollowsPrefix
    <3> QED
      BY <1>2, <2>1, <3>2
  <2> QED
    BY <1>1, <1>4, <2>1, CrashSaves
<1> QED
  BY <1>3, <1>4

LEMMA DiskStep ==
  ASSUME TypeOK, Ordered, [Next]_vars
  PROVE  [Disk!Next]_(Disk!vars)
<1>1. UNCHANGED posted /\ UNCHANGED cache => UNCHANGED Disk!vars
  BY DEF Disk!vars
<1>2. CASE UNCHANGED vars
  BY <1>1, <1>2 DEF vars, server
<1>3. CASE ServerStep
  BY <1>1, <1>3 DEF ServerStep, ServeChannels, ServeHistory, ServeJoin, DropUnidentified, server
<1>4. CASE IoStep
  BY <1>1, <1>4 DEF IoStep, ReadAccepted, SetLoginId, ReadChannels, ReadHistory, ReadEcho,
     ReadJoined, server
<1>5. CASE GuiStep /\ ~SaveMessages
  BY <1>1, <1>5 DEF GuiStep, ChangeWindow, OnAuthorized, OnRegistered, AddChannels,
     OnChannelsReceived, OnJoined, UpdateWidget, server
<1>6. CASE Login \/ Register \/ Cut \/ \E ch \in Channels : UserJoins(ch)
  BY <1>1, <1>6 DEF Login, Register, Connect, Cut, UserJoins, server
<1>7. CASE SaveMessages \/ Crash
  BY <1>1, <1>7, SavesRecorded DEF Disk!Next
<1>8. ASSUME NEW ch \in Channels, Post(ch)
      PROVE  Disk!Publish
  BY <1>8, PostPublishes
<1> QED
  BY <1>2, <1>3, <1>4, <1>5, <1>6, <1>7, <1>8 DEF Next, UserStep, Disk!Next

\* Under a calm schedule, with clocks that never turn back by more than a second's
\* worth of messages and with no newcomer on the machine, the cache is an archive:
\* however often the connection or the program ends, within a save included, the
\* rows of a channel stay in the order of posting, none twice and none lost.
THEOREM CacheIsArchive ==
  ASSUME Calm, Skew <= 1, ~Newcomers
  PROVE  Spec => ImplementsArchive
<1>1. Init => Disk!Init
  <2>1. \A f : DOMAIN f = {} => f = << >>
    OBVIOUS
  <2> QED
    BY <2>1 DEF Init, Disk!Init
<1>2. TypeOK /\ Ordered /\ [Next]_vars => [Disk!Next]_(Disk!vars)
  BY DiskStep
<1>3. TypeOK /\ Flow /\ Remembered /\ Ordered /\ [Next]_vars => Ordered'
  BY StepOrdered
<1>4. TypeOK /\ Flow /\ Remembered /\ [Next]_vars => Remembered'
  BY StepRemembers
<1>5. TypeOK /\ TypeOK' /\ IdInv /\ Flow /\ [Next]_vars => Flow'
  BY StepFlow
<1>6. TypeOK /\ IdInv /\ [Next]_vars => IdInv'
  BY StepIds
<1> QED
  BY <1>1, <1>2, <1>3, <1>4, <1>5, <1>6, InitIds, InitFlow, InitRemembers, InitOrdered, TypeCorrect, PTL
     DEF Spec, ImplementsArchive, Disk!Spec

=============================================================================
