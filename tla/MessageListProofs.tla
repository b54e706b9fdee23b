--------------------------- MODULE MessageListProofs ---------------------------
(***************************************************************************)
(* Theorems about MessageList for any channels, messages and items, in     *)
(* every schedule of the two threads.                                      *)
(***************************************************************************)
EXTENDS MessageList, SequenceTheorems, FiniteSetTheorems, TLAPS

USE MessageListAssumption, NoChannelAssumption

-----------------------------------------------------------------------------
(* Sequences and types                                                     *)

LEMMA AppendAt ==
  ASSUME NEW S, NEW s \in Seq(S), NEW e \in S
  PROVE  /\ Append(s, e) \in Seq(S)
         /\ Len(s) \in Nat /\ DOMAIN s = 1..Len(s)
         /\ DOMAIN Append(s, e) = 1..Len(s) + 1
         /\ Len(Append(s, e)) = Len(s) + 1
         /\ \A i \in 1..Len(s) : Append(s, e)[i] = s[i]
         /\ Append(s, e)[Len(s) + 1] = e
  OBVIOUS

LEMMA TailAt ==
  ASSUME NEW S, NEW s \in Seq(S), s # << >>
  PROVE  /\ Head(s) \in S /\ Head(s) = s[1]
         /\ Len(s) \in Nat \ {0} /\ DOMAIN s = 1..Len(s)
         /\ Tail(s) \in Seq(S)
         /\ DOMAIN Tail(s) = 1..Len(s) - 1
         /\ \A i \in 1..Len(s) - 1 : Tail(s)[i] = s[i + 1]
  OBVIOUS

LEMMA ElementAt ==
  ASSUME NEW S, NEW s \in Seq(S)
  PROVE  Len(s) \in Nat /\ DOMAIN s = 1..Len(s) /\ \A i \in 1..Len(s) : s[i] \in S
  OBVIOUS

LEMMA FunctionIsSeq ==
  ASSUME NEW S, NEW n \in Nat, NEW f \in [1..n -> S]
  PROVE  f \in Seq(S) /\ Len(f) = n
  BY SeqDef

LEMMA InitTypes == Init => TypeOK
<1> SUFFICES ASSUME Init PROVE TypeOK
  OBVIOUS
<1>1. << >> \in Seq(1..MaxMessages)
  OBVIOUS
<1>2. hist \in [Channels -> Seq(1..MaxMessages)] /\ label \in [Channels -> 0..MaxMessages]
  BY <1>1 DEF Init
<1>3. items \in Seq(Items) /\ events \in Seq(Slots) /\ io \in Slots \cup {Idle}
  BY DEF Init
<1>4. received \in 0..MaxMessages /\ rows \in Nat /\ again \in Nat /\ missed \in Nat
  BY DEF Init
<1>5. current \in Channels \cup {NoChannel} /\ fault \in BOOLEAN
  BY DEF Init
<1> QED
  BY <1>2, <1>3, <1>4, <1>5 DEF TypeOK

LEMMA DisplayedType ==
  ASSUME TypeOK, NEW ch \in Channels, NEW old \in 0..MaxMessages
  PROVE  Displayed(ch, old) \in 0..MaxMessages
<1>1. hist[ch] \in Seq(1..MaxMessages)
  BY DEF TypeOK
<1>2. CASE hist[ch] = << >>
  BY <1>2 DEF Displayed
<1>3. CASE hist[ch] # << >>
  <2>1. Len(hist[ch]) \in 1..Len(hist[ch])
    BY <1>1, <1>3
  <2>2. hist[ch][Len(hist[ch])] \in 1..MaxMessages
    BY <1>1, <2>1
  <2> QED
    BY <1>3, <2>2 DEF Displayed
<1> QED
  BY <1>2, <1>3

LEMMA SlotIs ==
  ASSUME NEW e \in Slots
  PROVE  /\ e.kind \in {"text", "history"} /\ e.ch \in Channels /\ e.msg \in Nat
         /\ e.kind = "text" => e.msg \in 1..MaxMessages
         /\ e = Event(e.kind, e.ch, e.msg)
         /\ e # Idle
  BY DEF Slots, Event, Idle

LEMMA IdleIs == Idle.kind = "idle" /\ Idle.ch = NoChannel /\ Idle.msg = 0
  BY DEF Idle, Event

LEMMA EventIs ==
  ASSUME NEW kind, NEW ch, NEW m
  PROVE  /\ Event(kind, ch, m).kind = kind
         /\ Event(kind, ch, m).ch = ch
         /\ Event(kind, ch, m).msg = m
  BY DEF Event

LEMMA EventType ==
  ASSUME NEW ch \in Channels
  PROVE  /\ \A m \in 1..MaxMessages : Event("text", ch, m) \in Slots
         /\ Event("history", ch, 0) \in Slots
  BY DEF Slots, Event

\* The types of the parts that the proofs below compare
LEMMA PartsAre ==
  ASSUME TypeOK
  PROVE  /\ rows \in Nat /\ received \in Nat
         /\ Len(events) \in Nat /\ DOMAIN events = 1..Len(events)
         /\ \A i \in 1..Len(events) : events[i] \in Slots
         /\ \A ch \in Channels : /\ Len(hist[ch]) \in Nat
                                 /\ \A p \in 1..Len(hist[ch]) : hist[ch][p] \in 1..MaxMessages
         /\ current # NoChannel => current \in Channels
         /\ io.kind = "idle" => io = Idle
         /\ io # Idle => io \in Slots /\ io.ch \in Channels
<1>1. Len(events) \in Nat /\ DOMAIN events = 1..Len(events)
      /\ \A i \in 1..Len(events) : events[i] \in Slots
  BY ElementAt DEF TypeOK
<1>3. ASSUME NEW ch \in Channels
      PROVE  Len(hist[ch]) \in Nat /\ \A p \in 1..Len(hist[ch]) : hist[ch][p] \in 1..MaxMessages
  <2>1. hist[ch] \in Seq(1..MaxMessages)
    BY DEF TypeOK
  <2> QED
    BY <2>1, ElementAt
<1>4. rows \in Nat /\ received \in Nat /\ (current # NoChannel => current \in Channels)
  BY DEF TypeOK
<1>5. /\ io.kind = "idle" => io = Idle
      /\ io # Idle => io \in Slots /\ io.ch \in Channels
  BY SlotIs DEF TypeOK
<1> QED
  BY <1>1, <1>3, <1>4, <1>5

\* What AppendTo makes of the histories
LEMMA AppendToIs ==
  ASSUME TypeOK, NEW ch \in Channels, AppendTo(ch)
  PROVE  /\ received' = received + 1 /\ received' \in 1..MaxMessages
         /\ hist' \in [Channels -> Seq(1..MaxMessages)]
         /\ \A c \in Channels : c # ch => hist'[c] = hist[c]
         /\ Len(hist[ch]) \in Nat /\ Len(hist'[ch]) = Len(hist[ch]) + 1
         /\ \A i \in 1..Len(hist[ch]) : hist'[ch][i] = hist[ch][i]
         /\ hist'[ch][Len(hist[ch]) + 1] = received + 1
<1>1. received' = received + 1 /\ received' \in 1..MaxMessages
  BY DEF TypeOK, AppendTo
<1>2. hist[ch] \in Seq(1..MaxMessages) /\ received + 1 \in 1..MaxMessages
  BY <1>1 DEF TypeOK
<1>3. /\ hist'[ch] = Append(hist[ch], received + 1)
      /\ \A c \in Channels : c # ch => hist'[c] = hist[c]
      /\ hist' = [hist EXCEPT ![ch] = Append(hist[ch], received + 1)]
  BY DEF TypeOK, AppendTo
<1>4. Append(hist[ch], received + 1) \in Seq(1..MaxMessages)
  BY <1>2, AppendAt
<1>5. hist' \in [Channels -> Seq(1..MaxMessages)]
  BY <1>3, <1>4 DEF TypeOK
<1> QED
  BY <1>1, <1>2, <1>3, <1>5, AppendAt

\* A handler that is inside its loop is about a channel.
LEMMA HistoryIsOf ==
  ASSUME TypeOK, io.kind = "history"
  PROVE  io \in Slots /\ io.ch \in Channels
<1>1. io # Idle
  BY IdleIs
<1> QED
  BY <1>1, PartsAre

\* What a slot call of either kind has in common
LEMMA SlotTaken ==
  ASSUME TypeOK, MessageReceived \/ HistoryReceived
  PROVE  /\ events # << >> /\ Head(events) \in Slots /\ Head(events).ch \in Channels
         /\ events' = Tail(events) /\ events' \in Seq(Slots)
         /\ UpdateDisplayed(Head(events).ch)
         /\ UNCHANGED <<received, hist, items, current, io, fault, again, missed>>
<1>1. events # << >> /\ events \in Seq(Slots)
  BY DEF TypeOK, MessageReceived, HistoryReceived
<1>2. Head(events) \in Slots /\ Tail(events) \in Seq(Slots)
  BY <1>1, TailAt
<1>3. Head(events).ch \in Channels
  BY <1>2, SlotIs
<1> QED
  BY <1>1, <1>2, <1>3 DEF MessageReceived, HistoryReceived, histories, counts

\* The items that were there before a channel is added
LEMMA ItemsKept ==
  ASSUME TypeOK, NEW ch \in Channels
  PROVE  LET kept == [i \in DOMAIN items |-> DropWidget(items[i], ch)]
         IN  /\ kept \in Seq(Items)
             /\ Len(kept) = Len(items) /\ Len(items) \in Nat
             /\ \A i \in 1..Len(items) :
                   /\ kept[i].ch = items[i].ch
                   /\ kept[i].live = (items[i].live /\ items[i].ch # ch)
<1> DEFINE kept == [i \in DOMAIN items |-> DropWidget(items[i], ch)]
<1>1. Len(items) \in Nat /\ DOMAIN items = 1..Len(items)
      /\ \A i \in 1..Len(items) : items[i] \in Items
  BY ElementAt DEF TypeOK
<1>2. ASSUME NEW item \in Items
      PROVE  /\ DropWidget(item, ch) \in Items
             /\ DropWidget(item, ch).ch = item.ch
             /\ DropWidget(item, ch).live = (item.live /\ item.ch # ch)
  <2>1. item.ch \in Channels
    BY DEF Items
  <2>2. (item.live /\ item.ch # ch) \in BOOLEAN
    OBVIOUS
  <2> QED
    BY <2>1, <2>2 DEF DropWidget, Items
<1>3. kept \in [1..Len(items) -> Items]
  BY <1>1, <1>2
<1>4. kept \in Seq(Items) /\ Len(kept) = Len(items)
  BY <1>1, <1>3, FunctionIsSeq
<1> QED
  BY <1>1, <1>2, <1>4

LEMMA OutstandingFinite ==
  ASSUME NEW ch
  PROVE  IsFiniteSet(Outstanding(ch)) /\ Cardinality(Outstanding(ch)) \in Nat
<1>1. IsFiniteSet(1..MaxMessages)
  BY FS_Interval
<1>2. IsFiniteSet(Outstanding(ch))
  BY <1>1, FS_Subset DEF Outstanding
<1> QED
  BY <1>2, FS_CardinalityType

LEMMA StepTypes == TypeOK /\ [Next]_vars => TypeOK'
<1> SUFFICES ASSUME TypeOK, [Next]_vars PROVE TypeOK'
  OBVIOUS
<1>1. CASE \E ch \in Channels : LoadCached(ch)
  <2>1. PICK ch \in Channels : LoadCached(ch)
    BY <1>1
  <2>2. received' \in 1..MaxMessages /\ hist' \in [Channels -> Seq(1..MaxMessages)]
    BY <2>1, AppendToIs DEF LoadCached
  <2> QED
    BY <2>1, <2>2 DEF LoadCached, TypeOK, window, counts
<1>2. CASE \E ch \in Channels : EchoStored(ch)
  <2>1. PICK ch \in Channels : EchoStored(ch)
    BY <1>2
  <2>2. /\ received' \in 1..MaxMessages /\ hist' \in [Channels -> Seq(1..MaxMessages)]
        /\ received' = received + 1
    BY <2>1, AppendToIs DEF EchoStored
  <2>3. io' \in Slots
    BY <2>1, <2>2, EventType DEF EchoStored
  <2> QED
    BY <2>1, <2>2, <2>3 DEF EchoStored, TypeOK, window, counts
<1>a. CASE \E ch \in Channels : HistoryRead(ch)
  BY <1>a, EventType DEF HistoryRead, TypeOK, histories, window, counts
<1>b. CASE HistoryStored
  <2>1. io.ch \in Channels
    BY <1>b, HistoryIsOf DEF HistoryStored
  <2>2. received' \in 1..MaxMessages /\ hist' \in [Channels -> Seq(1..MaxMessages)]
    BY <1>b, <2>1, AppendToIs DEF HistoryStored
  <2>3. missed' \in Nat
    BY <1>b DEF HistoryStored, TypeOK
  <2> QED
    BY <1>b, <2>2, <2>3 DEF HistoryStored, TypeOK, window
<1>c. CASE Emit
  <2>1. io \in Slots
    BY <1>c, PartsAre DEF Emit
  <2>2. events' \in Seq(Slots)
    BY <1>c, <2>1, AppendAt DEF Emit, TypeOK
  <2> QED
    BY <1>c, <2>2 DEF Emit, TypeOK, histories, window, counts
<1>3. CASE \E ch \in Channels : AddChannel(ch)
  <2>1. PICK ch \in Channels : AddChannel(ch)
    BY <1>3
  <2> DEFINE kept == [i \in DOMAIN items |-> DropWidget(items[i], ch)]
             new == [ch |-> ch, live |-> TRUE]
  <2>2. kept \in Seq(Items)
    BY ItemsKept
  <2>3. new \in Items
    BY DEF Items
  <2>4. items' = Append(kept, new)
    BY <2>1 DEF AddChannel
  <2>5. items' \in Seq(Items)
    BY <2>2, <2>3, <2>4, AppendAt
  <2>6. Displayed(ch, 0) \in 0..MaxMessages
    BY DisplayedType, 0 \in 0..MaxMessages
  <2>7. label' \in [Channels -> 0..MaxMessages]
    BY <2>1, <2>6 DEF AddChannel, SetChannel, TypeOK
  <2> QED
    BY <2>1, <2>5, <2>7 DEF AddChannel, TypeOK, histories, counts
<1>4. CASE \E i \in 1..MaxItems : SelectChannel(i)
  <2>1. PICK i \in 1..MaxItems : SelectChannel(i)
    BY <1>4
  <2>2. items[i] \in Items
    BY <2>1, ElementAt DEF SelectChannel, TypeOK
  <2>3. items[i].ch \in Channels
    BY <2>2 DEF Items
  <2>a. Len(hist[items[i].ch]) \in Nat
    BY <2>3, ElementAt DEF TypeOK
  <2>b. Cardinality(Outstanding(items[i].ch)) \in Nat
    BY OutstandingFinite
  <2>4. /\ current' \in Channels \cup {NoChannel} /\ rows' \in Nat /\ fault' \in BOOLEAN
        /\ again' \in Nat /\ missed' \in Nat
    <3>1. CASE items[i].live
      BY <2>1, <2>3, <2>a, <2>b, <3>1 DEF SelectChannel, RowsFor, TypeOK
    <3>2. CASE ~items[i].live
      BY <2>1, <3>2 DEF SelectChannel, TypeOK, counts
    <3> QED
      BY <3>1, <3>2
  <2> QED
    BY <2>1, <2>4 DEF SelectChannel, TypeOK, histories
<1>5. CASE MessageReceived \/ HistoryReceived
  <2>1. label' \in [Channels -> 0..MaxMessages]
    <3> DEFINE ch == Head(events).ch
    <3>1. ch \in Channels /\ label[ch] \in 0..MaxMessages
      BY <1>5, SlotTaken DEF TypeOK
    <3>2. Displayed(ch, label[ch]) \in 0..MaxMessages
      BY <3>1, DisplayedType
    <3>3. label' = [label EXCEPT ![ch] = Displayed(ch, label[ch])]
      BY <1>5, SlotTaken DEF UpdateDisplayed
    <3> QED
      BY <3>2, <3>3 DEF TypeOK
  <2>2. rows' \in Nat
    BY <1>5 DEF MessageReceived, HistoryReceived, TypeOK
  <2> QED
    BY <1>5, <2>1, <2>2, SlotTaken DEF TypeOK
<1>6. CASE UNCHANGED vars
  BY <1>6 DEF vars, histories, window, counts, TypeOK
<1> QED
  BY <1>1, <1>2, <1>a, <1>b, <1>c, <1>3, <1>4, <1>5, <1>6 DEF Next

\* For any number of channels, messages and items every variable keeps its type,
\* whenever channels are selected.
THEOREM TypeCorrect == Spec => []TypeOK
<1>1. Init => TypeOK
  BY InitTypes
<1>2. TypeOK /\ [Next]_vars => TypeOK'
  BY StepTypes
<1> QED
  BY <1>1, <1>2, PTL DEF Spec

-----------------------------------------------------------------------------
(* The items of a channel                                                  *)

LEMMA InitNewest == Init => NewestItemLives
  BY DEF Init, NewestItemLives

LEMMA AddNewest ==
  ASSUME TypeOK, NewestItemLives, NEW ch \in Channels, AddChannel(ch)
  PROVE  NewestItemLives'
<1> DEFINE kept == [i \in DOMAIN items |-> DropWidget(items[i], ch)]
           new == [ch |-> ch, live |-> TRUE]
           n == Len(items)
<1>1. /\ kept \in Seq(Items) /\ Len(kept) = n /\ n \in Nat
      /\ \A i \in 1..n : /\ kept[i].ch = items[i].ch
                         /\ kept[i].live = (items[i].live /\ items[i].ch # ch)
  BY ItemsKept
<1>2. new \in Items /\ new.ch = ch /\ new.live
  BY DEF Items
<1>3. items' = Append(kept, new)
  BY DEF AddChannel
<1>4. /\ DOMAIN items' = 1..n + 1
      /\ \A i \in 1..n : items'[i] = kept[i]
      /\ items'[n + 1] = new
  BY <1>1, <1>2, <1>3, AppendAt
<1>5. \A i \in 1..n : items[i].live <=> \A j \in 1..n : j > i => items[j].ch # items[i].ch
  BY ElementAt DEF TypeOK, NewestItemLives
<1> HIDE DEF kept, new, n
<1>6. ASSUME NEW i \in 1..n
      PROVE  items'[i].live <=> \A j \in 1..n + 1 : j > i => items'[j].ch # items'[i].ch
  <2>1. items'[i].ch = items[i].ch /\ (items'[i].live <=> items[i].live /\ items[i].ch # ch)
    BY <1>1, <1>4
  <2>2. \A j \in 1..n : items'[j].ch = items[j].ch
    BY <1>1, <1>4
  <2>3. items'[n + 1].ch = ch /\ n + 1 > i /\ n + 1 \in 1..n + 1
    BY <1>1, <1>2, <1>4
  <2>4. \A j \in 1..n + 1 : j \in 1..n \/ j = n + 1
    BY <1>1
  <2>5. 1..n \subseteq 1..n + 1
    BY <1>1
  <2> QED
    BY <1>5, <2>1, <2>2, <2>3, <2>4, <2>5
<1>7. \A j \in 1..n + 1 : ~(j > n + 1)
  BY <1>1
<1>8. \A i \in 1..n + 1 : i \in 1..n \/ i = n + 1
  BY <1>1
<1>9. \A i \in 1..n + 1 :
         items'[i].live <=> \A j \in 1..n + 1 : j > i => items'[j].ch # items'[i].ch
  BY <1>2, <1>4, <1>6, <1>7, <1>8
<1> QED
  BY <1>4, <1>9 DEF NewestItemLives

LEMMA StepNewest == TypeOK /\ NewestItemLives /\ [Next]_vars => NewestItemLives'
<1> SUFFICES ASSUME TypeOK, NewestItemLives, [Next]_vars PROVE NewestItemLives'
  OBVIOUS
<1>1. CASE \E ch \in Channels : AddChannel(ch)
  BY <1>1, AddNewest
<1>2. CASE UNCHANGED items
  BY <1>2 DEF NewestItemLives
<1>3. CASE ~ \E ch \in Channels : AddChannel(ch)
  <2>1. UNCHANGED items
    BY <1>3 DEF Next, LoadCached, EchoStored, HistoryRead, HistoryStored, Emit,
                SelectChannel, MessageReceived, HistoryReceived, vars, window
  <2> QED
    BY <1>2, <2>1
<1> QED
  BY <1>1, <1>3

\* Of the items of a channel exactly the newest has a widget, however often
\* channels are joined again.
THEOREM NewestLives == Spec => []NewestItemLives
<1>1. Init => NewestItemLives
  BY InitNewest
<1>2. TypeOK /\ NewestItemLives /\ [Next]_vars => NewestItemLives'
  BY StepNewest
<1> QED
  BY <1>1, <1>2, TypeCorrect, PTL DEF Spec

-----------------------------------------------------------------------------
(* What an item displays                                                   *)

LabelRight(ch) == hist[ch] # << >> => label[ch] = hist[ch][Len(hist[ch])]

\* A slot call that refreshes the channel's widget is queued or about to be.
Waits(ch) == \E e \in Pending : e.ch = ch

LEMMA PendingEmit ==
  ASSUME TypeOK, Emit
  PROVE  Pending' = Pending \cup {Idle}
<1> DEFINE n == Len(events)
<1>1. events \in Seq(Slots) /\ io \in Slots
  BY PartsAre DEF TypeOK, Emit
<1>2. /\ n \in Nat /\ DOMAIN events = 1..n /\ DOMAIN events' = 1..n + 1
      /\ \A i \in 1..n : events'[i] = events[i]
      /\ events'[n + 1] = io
  BY <1>1, AppendAt DEF Emit
<1>3. io' = Idle
  BY DEF Emit
<1> HIDE DEF n
<1>4. 1..n + 1 = 1..n \cup {n + 1}
  BY <1>2
<1>5. {events'[i] : i \in 1..n + 1} = {events[i] : i \in 1..n} \cup {io}
  BY <1>2, <1>4
<1> QED
  BY <1>2, <1>3, <1>5 DEF Pending

LEMMA PendingTail ==
  ASSUME TypeOK, events # << >>, events' = Tail(events), io' = io
  PROVE  /\ Pending = Pending' \cup {Head(events)}
         /\ Head(events) = events[1] /\ 1 \in 1..Len(events)
<1> DEFINE n == Len(events)
<1>1. events \in Seq(Slots)
  BY DEF TypeOK
<1>2. /\ Head(events) = events[1]
      /\ n \in Nat \ {0} /\ DOMAIN events = 1..n /\ DOMAIN events' = 1..n - 1
      /\ \A i \in 1..n - 1 : events'[i] = events[i + 1]
  BY <1>1, TailAt
<1> HIDE DEF n
<1>3. ASSUME NEW i \in 1..n
      PROVE  events[i] = Head(events) \/ \E j \in 1..n - 1 : events[i] = events'[j]
  <2>1. CASE i = 1
    BY <1>2, <2>1
  <2>2. CASE i # 1
    <3>1. i - 1 \in 1..n - 1 /\ (i - 1) + 1 = i
      BY <1>2, <2>2
    <3>2. events'[i - 1] = events[i]
      BY <1>2, <3>1
    <3> QED
      BY <3>1, <3>2
  <2> QED
    BY <2>1, <2>2
<1>4. ASSUME NEW j \in 1..n - 1
      PROVE  \E i \in 1..n : events'[j] = events[i]
  <2>1. j + 1 \in 1..n
    BY <1>2
  <2> QED
    BY <1>2, <2>1
<1>5. 1 \in 1..n
  BY <1>2
<1>6. {events[i] : i \in 1..n} = {events'[j] : j \in 1..n - 1} \cup {Head(events)}
  BY <1>2, <1>3, <1>4, <1>5
<1> QED
  BY <1>2, <1>5, <1>6 DEF Pending, n

\* What the handlers make of what is pending
LEMMA PendingStarted ==
  ASSUME TypeOK, io = Idle, events' = events
  PROVE  Pending' \cup {Idle} = Pending \cup {io'} /\ Pending \subseteq Pending' \cup {Idle}
  BY DEF Pending

LEMMA ItemShowsIs == ItemShowsLast <=> \A ch \in Listed : LabelRight(ch) \/ Waits(ch)
  BY DEF ItemShowsLast, LabelRight, Waits

LEMMA ListedType == TypeOK => Listed \subseteq Channels
<1> SUFFICES ASSUME TypeOK, NEW i \in DOMAIN items PROVE items[i].ch \in Channels
  BY DEF Listed
<1>1. items[i] \in Items
  BY ElementAt DEF TypeOK
<1> QED
  BY <1>1 DEF Items

LEMMA StoredShows ==
  ASSUME TypeOK, ItemShowsLast, NEW ch \in Channels, AppendTo(ch), UNCHANGED <<items, label>>,
         Waits(ch)', \A c \in Channels : Waits(c) => Waits(c)'
  PROVE  ItemShowsLast'
<1>3. \A c \in Channels : c # ch => hist'[c] = hist[c]
  BY AppendToIs
<1>5. \A c \in Channels : c # ch /\ LabelRight(c) => LabelRight(c)'
  BY <1>3 DEF LabelRight
<1>6. Listed' = Listed /\ Listed \subseteq Channels
  BY ListedType DEF Listed
<1>7. \A c \in Listed' : (LabelRight(c) \/ Waits(c))'
  BY <1>3, <1>5, <1>6, ItemShowsIs
<1> QED
  BY <1>7, ItemShowsIs DEF ItemShowsLast, LabelRight, Waits

LEMMA EchoShows ==
  ASSUME TypeOK, ItemShowsLast, NEW ch \in Channels, EchoStored(ch)
  PROVE  ItemShowsLast'
<1>1. AppendTo(ch) /\ UNCHANGED <<items, label, events>> /\ io = Idle
      /\ io' = Event("text", ch, received + 1)
  BY DEF EchoStored, MayStart, window
<1>2. io'.ch = ch /\ io' \in Pending'
  BY <1>1, EventIs DEF Pending
<1>3. \A c \in Channels : Waits(c) => Waits(c)'
  BY <1>1, PendingStarted, IdleIs, NoChannelAssumption DEF Waits
<1> QED
  BY <1>1, <1>2, <1>3, StoredShows DEF Waits

LEMMA HistoryShows ==
  ASSUME TypeOK, ItemShowsLast, HistoryStored
  PROVE  ItemShowsLast'
<1>1. AppendTo(io.ch) /\ UNCHANGED <<items, label, events, io>> /\ io.ch \in Channels
  BY HistoryIsOf DEF HistoryStored, window
<1>2. Pending' = Pending /\ io \in Pending
  BY <1>1 DEF Pending
<1> QED
  BY <1>1, <1>2, StoredShows DEF Waits

\* A step of the io thread that stores nothing
LEMMA QuietShows ==
  ASSUME TypeOK, ItemShowsLast, UNCHANGED <<hist, items, label>>,
         Pending \subseteq Pending' \cup {Idle}
  PROVE  ItemShowsLast'
<1>1. \A c \in Channels : Waits(c) => Waits(c)'
  BY IdleIs, NoChannelAssumption DEF Waits
<1>2. \A c \in Channels : LabelRight(c) => LabelRight(c)'
  BY DEF LabelRight
<1>3. Listed' = Listed /\ Listed \subseteq Channels
  BY ListedType DEF Listed
<1>4. \A c \in Listed' : (LabelRight(c) \/ Waits(c))'
  BY <1>1, <1>2, <1>3, ItemShowsIs
<1> QED
  BY <1>4 DEF ItemShowsLast, LabelRight, Waits

LEMMA AddShows ==
  ASSUME TypeOK, ItemShowsLast, NEW ch \in Channels, AddChannel(ch)
  PROVE  ItemShowsLast'
<1>1. hist' = hist /\ Pending' = Pending
  BY DEF AddChannel, histories, Pending
<1>2. label'[ch] = Displayed(ch, 0) /\ \A c \in Channels : c # ch => label'[c] = label[c]
  BY DEF AddChannel, SetChannel, TypeOK
<1>3. LabelRight(ch)'
  BY <1>1, <1>2 DEF LabelRight, Displayed
<1>4. \A c \in Channels : c # ch /\ (LabelRight(c) \/ Waits(c)) => (LabelRight(c) \/ Waits(c))'
  BY <1>1, <1>2 DEF LabelRight, Waits
<1>5. Listed' \subseteq Listed \cup {ch} /\ Listed \subseteq Channels
  <2> DEFINE kept == [i \in DOMAIN items |-> DropWidget(items[i], ch)]
             new == [ch |-> ch, live |-> TRUE]
             n == Len(items)
  <2>1. /\ kept \in Seq(Items) /\ Len(kept) = n /\ n \in Nat
        /\ \A i \in 1..n : kept[i].ch = items[i].ch
    BY ItemsKept
  <2>2. new \in Items /\ new.ch = ch
    BY DEF Items
  <2>3. items' = Append(kept, new)
    BY DEF AddChannel
  <2>4. /\ DOMAIN items' = 1..n + 1
        /\ \A i \in 1..n : items'[i] = kept[i]
        /\ items'[n + 1] = new
    BY <2>1, <2>2, <2>3, AppendAt
  <2>5. DOMAIN items = 1..n
    BY ElementAt DEF TypeOK
  <2> HIDE DEF kept, new, n
  <2>6. \A i \in 1..n + 1 : i \in 1..n \/ i = n + 1
    BY <2>1
  <2> QED
    BY <2>1, <2>2, <2>4, <2>5, <2>6, ListedType DEF Listed
<1>6. \A c \in Listed' : (LabelRight(c) \/ Waits(c))'
  BY <1>3, <1>4, <1>5, ItemShowsIs
<1> QED
  BY <1>6 DEF ItemShowsLast, LabelRight, Waits

LEMMA SlotShows ==
  ASSUME TypeOK, ItemShowsLast, MessageReceived \/ HistoryReceived
  PROVE  ItemShowsLast'
<1>0. PICK ch \in Channels : ch = Head(events).ch
  BY SlotTaken
<1>1. /\ events # << >> /\ events' = Tail(events)
      /\ UNCHANGED <<hist, items, io>>
      /\ UpdateDisplayed(ch)
  BY <1>0, SlotTaken
<1>2. /\ label'[ch] = Displayed(ch, label[ch])
      /\ \A c \in Channels : c # ch => label'[c] = label[c]
  BY <1>1 DEF UpdateDisplayed, TypeOK
<1>3. LabelRight(ch)'
  BY <1>1, <1>2 DEF LabelRight, Displayed
<1>4. \A c \in Channels : c # ch /\ LabelRight(c) => LabelRight(c)'
  BY <1>1, <1>2 DEF LabelRight
<1>5. \A c \in Channels : c # ch /\ Waits(c) => Waits(c)'
  BY <1>0, <1>1, PendingTail DEF Waits
<1>6. Listed' = Listed /\ Listed \subseteq Channels
  BY <1>1, ListedType DEF Listed
<1>7. \A c \in Listed' : (LabelRight(c) \/ Waits(c))'
  BY <1>3, <1>4, <1>5, <1>6, ItemShowsIs
<1> QED
  BY <1>7 DEF ItemShowsLast, LabelRight, Waits

LEMMA StepShows == TypeOK /\ ItemShowsLast /\ [Next]_vars => ItemShowsLast'
<1> SUFFICES ASSUME TypeOK, ItemShowsLast, [Next]_vars PROVE ItemShowsLast'
  OBVIOUS
<1>1. CASE \E ch \in Channels : LoadCached(ch)
  <2>1. items' = << >>
    BY <1>1 DEF LoadCached, window
  <2> QED
    BY <2>1 DEF ItemShowsLast, Listed
<1>2. CASE \E ch \in Channels : EchoStored(ch)
  BY <1>2, EchoShows
<1>a. CASE \E ch \in Channels : HistoryRead(ch)
  <2>1. UNCHANGED <<hist, items, label, events>> /\ io = Idle
    BY <1>a DEF HistoryRead, MayStart, histories, window
  <2> QED
    BY <2>1, PendingStarted, QuietShows
<1>b. CASE HistoryStored
  BY <1>b, HistoryShows
<1>c. CASE Emit
  <2>1. UNCHANGED <<hist, items, label>>
    BY <1>c DEF Emit, histories, window
  <2> QED
    BY <1>c, <2>1, PendingEmit, QuietShows
<1>3. CASE \E ch \in Channels : AddChannel(ch)
  BY <1>3, AddShows
<1>4. CASE (\E i \in 1..MaxItems : SelectChannel(i)) \/ UNCHANGED vars
  <2>1. UNCHANGED <<hist, items, label, events, io>>
    BY <1>4 DEF SelectChannel, vars, histories, window
  <2> QED
    BY <2>1, QuietShows DEF Pending
<1>5. CASE MessageReceived \/ HistoryReceived
  BY <1>5, SlotShows
<1> QED
  BY <1>1, <1>2, <1>a, <1>b, <1>c, <1>3, <1>4, <1>5 DEF Next

\* In every schedule a channel's item displays the back of its history unless
\* a slot call that will refresh it is queued or about to be.
THEOREM LastShown == Spec => []ItemShowsLast
<1>1. Init => ItemShowsLast
  <2>1. Init => Listed = {}
    BY DEF Init, Listed
  <2> QED
    BY <2>1 DEF ItemShowsLast
<1>2. TypeOK /\ ItemShowsLast /\ [Next]_vars => ItemShowsLast'
  BY StepShows
<1> QED
  BY <1>1, <1>2, TypeCorrect, PTL DEF Spec

-----------------------------------------------------------------------------
(* Messages are numbered as they come in                                   *)

HistAscends ==
    \A ch \in Channels :
        /\ Len(hist[ch]) <= received
        /\ \A i \in 1..Len(hist[ch]) : hist[ch][i] <= received
        /\ \A i, j \in 1..Len(hist[ch]) : i < j => hist[ch][i] < hist[ch][j]

IsText(e) == e.kind = "text"

TextsAscend ==
    /\ \A e \in Pending : e.msg <= received
    /\ \A i, j \in 1..Len(events) :
          i < j /\ IsText(events[i]) /\ IsText(events[j]) => events[i].msg < events[j].msg
    /\ IsText(io) => \A i \in 1..Len(events) : IsText(events[i]) => events[i].msg < io.msg

\* A channel is only selected once there is an item.
SelectedHasItem == current # NoChannel => items # << >>

Numbered == HistAscends /\ TextsAscend /\ SelectedHasItem

LEMMA InitNumbered == Init => Numbered
<1> SUFFICES ASSUME Init PROVE Numbered
  OBVIOUS
<1>1. \A ch \in Channels : hist[ch] = << >>
  BY DEF Init
<1>2. received = 0 /\ events = << >> /\ io = Idle /\ current = NoChannel
  BY DEF Init
<1>3. Pending = {Idle}
  BY <1>2 DEF Pending
<1> QED
  BY <1>1, <1>2, <1>3, IdleIs
  DEF Numbered, HistAscends, TextsAscend, SelectedHasItem, IsText

LEMMA PendingIs ==
  ASSUME TypeOK
  PROVE  /\ \A i \in 1..Len(events) : events[i] \in Pending
         /\ io \in Pending
         /\ \A e \in Pending : e \in Slots \/ e = Idle
         /\ \A e \in Pending : e.msg \in Nat
         /\ \A e \in Pending : e = io \/ \E i \in 1..Len(events) : e = events[i]
<1>1. /\ \A i \in 1..Len(events) : events[i] \in Pending
      /\ \A e \in Pending : e = io \/ \E i \in 1..Len(events) : e = events[i]
      /\ io \in Pending
  BY PartsAre DEF Pending
<1>2. \A e \in Pending : e \in Slots \/ e = Idle
  BY <1>1, PartsAre
<1>3. \A e \in Pending : e.msg \in Nat
  BY <1>2, SlotIs, IdleIs
<1> QED
  BY <1>1, <1>2, <1>3

LEMMA AppendAscends ==
  ASSUME TypeOK, HistAscends, NEW ch \in Channels, AppendTo(ch)
  PROVE  HistAscends'
<1>1. /\ received' = received + 1 /\ received \in Nat
      /\ \A c \in Channels : c # ch => hist'[c] = hist[c]
      /\ Len(hist[ch]) \in Nat /\ Len(hist'[ch]) = Len(hist[ch]) + 1
      /\ \A i \in 1..Len(hist[ch]) : hist'[ch][i] = hist[ch][i]
      /\ hist'[ch][Len(hist[ch]) + 1] = received + 1
  BY AppendToIs DEF TypeOK
<1>2. ASSUME NEW c \in Channels
      PROVE  /\ Len(hist[c]) \in Nat /\ Len(hist[c]) <= received
             /\ \A i \in 1..Len(hist[c]) : hist[c][i] \in Nat /\ hist[c][i] <= received
             /\ \A i, j \in 1..Len(hist[c]) : i < j => hist[c][i] < hist[c][j]
  <2>1. hist[c] \in Seq(1..MaxMessages)
    BY DEF TypeOK
  <2>2. Len(hist[c]) \in Nat /\ \A i \in 1..Len(hist[c]) : hist[c][i] \in Nat
    BY <2>1, ElementAt
  <2> QED
    BY <2>2 DEF HistAscends
<1> SUFFICES ASSUME NEW c \in Channels
             PROVE  /\ Len(hist'[c]) <= received'
                    /\ \A i \in 1..Len(hist'[c]) : hist'[c][i] <= received'
                    /\ \A i, j \in 1..Len(hist'[c]) : i < j => hist'[c][i] < hist'[c][j]
  BY DEF HistAscends
<1>3. CASE c # ch
  BY <1>1, <1>2, <1>3
<1>4. CASE c = ch
  <2>1. \A i \in 1..Len(hist'[ch]) : i \in 1..Len(hist[ch]) \/ i = Len(hist[ch]) + 1
    BY <1>1
  <2>2. Len(hist'[ch]) <= received'
    BY <1>1, <1>2
  <2>3. \A i \in 1..Len(hist'[ch]) : hist'[ch][i] <= received'
    BY <1>1, <1>2, <2>1
  <2>4. ASSUME NEW i \in 1..Len(hist'[ch]), NEW j \in 1..Len(hist'[ch]), i < j
        PROVE  hist'[ch][i] < hist'[ch][j]
    <3>1. i \in 1..Len(hist[ch])
      BY <1>1, <2>4
    <3>2. hist'[ch][i] = hist[ch][i] /\ hist[ch][i] \in Nat /\ hist[ch][i] <= received
      BY <1>1, <1>2, <3>1
    <3>3. CASE j \in 1..Len(hist[ch])
      BY <1>1, <1>2, <2>4, <3>1, <3>2, <3>3
    <3>4. CASE j = Len(hist[ch]) + 1
      BY <1>1, <3>2, <3>4
    <3> QED
      BY <2>1, <3>3, <3>4
  <2> QED
    BY <1>4, <2>2, <2>3, <2>4
<1> QED
  BY <1>3, <1>4

\* A message is stored, and no slot call made.
LEMMA StoredTexts ==
  ASSUME TypeOK, TextsAscend, received' = received + 1, UNCHANGED <<events, io>>
  PROVE  TextsAscend'
<1>1. Pending' = Pending
  BY DEF Pending
<1>2. \A e \in Pending : e.msg <= received'
  BY PendingIs, PartsAre DEF TextsAscend
<1> QED
  BY <1>1, <1>2 DEF TextsAscend

\* A handler starts, with the message it has stored or with none.
LEMMA StartedTexts ==
  ASSUME TypeOK, TextsAscend, io = Idle, events' = events, received' \in Nat,
         \/ IsText(io') /\ received' = received + 1 /\ io'.msg = received + 1
         \/ ~IsText(io') /\ received' = received /\ io'.msg = 0
  PROVE  TextsAscend'
<1>1. \A e \in Pending : e.msg \in Nat /\ e.msg <= received
  BY PendingIs DEF TextsAscend
<1>2. received \in Nat
  BY PartsAre
<1>3. \A e \in Pending' : e \in Pending \/ e = io'
  BY PendingStarted
<1>4. \A e \in Pending' : e.msg <= received'
  BY <1>1, <1>2, <1>3
<1>5. IsText(io') => \A i \in 1..Len(events) : events[i].msg < io'.msg
  BY <1>1, <1>2, PendingIs
<1> QED
  BY <1>4, <1>5 DEF TextsAscend

LEMMA EmittedTexts ==
  ASSUME TypeOK, TextsAscend, Emit
  PROVE  TextsAscend'
<1> DEFINE n == Len(events)
<1>1. io \in Slots /\ events \in Seq(Slots) /\ received \in Nat
  BY PartsAre DEF Emit, TypeOK
<1>2. /\ n \in Nat /\ Len(events') = n + 1
      /\ \A i \in 1..n : events'[i] = events[i]
      /\ events'[n + 1] = io
  BY <1>1, AppendAt DEF Emit
<1>3. ~IsText(io') /\ received' = received
  BY IdleIs DEF Emit, IsText, histories
<1>4. \A e \in Pending' : e.msg <= received'
  BY <1>1, <1>3, PendingEmit, IdleIs DEF TextsAscend
<1>5. /\ \A i, j \in 1..n :
           i < j /\ IsText(events[i]) /\ IsText(events[j]) => events[i].msg < events[j].msg
      /\ IsText(io) => \A i \in 1..n : IsText(events[i]) => events[i].msg < io.msg
  BY DEF TextsAscend
<1> HIDE DEF n
<1>6. ASSUME NEW i \in 1..n + 1, NEW j \in 1..n + 1, i < j,
             IsText(events'[i]), IsText(events'[j])
      PROVE  events'[i].msg < events'[j].msg
  <2>1. i \in 1..n /\ (j \in 1..n \/ j = n + 1)
    BY <1>2, <1>6
  <2>2. CASE j \in 1..n
    BY <1>2, <1>5, <1>6, <2>1, <2>2
  <2>3. CASE j = n + 1
    BY <1>2, <1>5, <1>6, <2>1, <2>3
  <2> QED
    BY <2>1, <2>2, <2>3
<1> QED
  BY <1>2, <1>3, <1>4, <1>6 DEF TextsAscend

LEMMA TakenTexts ==
  ASSUME TypeOK, TextsAscend, events # << >>, events' = Tail(events),
         UNCHANGED <<received, io>>
  PROVE  TextsAscend'
<1> DEFINE n == Len(events)
<1>1. /\ n \in Nat /\ Len(events') = n - 1
      /\ \A i \in 1..n - 1 : events'[i] = events[i + 1]
  BY TailAt DEF TypeOK
<1>2. \A i \in 1..n - 1 : i + 1 \in 1..n
  BY <1>1
<1>3. \A e \in Pending' : e.msg <= received'
  BY PendingTail DEF TextsAscend
<1>4. ASSUME NEW i \in 1..n - 1, NEW j \in 1..n - 1, i < j,
             IsText(events'[i]), IsText(events'[j])
      PROVE  events'[i].msg < events'[j].msg
  <2>1. i + 1 \in 1..n /\ j + 1 \in 1..n /\ i + 1 < j + 1
    BY <1>1, <1>4
  <2>2. events'[i] = events[i + 1] /\ events'[j] = events[j + 1]
    BY <1>1
  <2> QED
    BY <1>4, <2>1, <2>2 DEF TextsAscend
<1>5. IsText(io') => \A i \in 1..n - 1 : IsText(events'[i]) => events'[i].msg < io'.msg
  BY <1>1, <1>2 DEF TextsAscend
<1> QED
  BY <1>1, <1>3, <1>4, <1>5 DEF TextsAscend

LEMMA StepNumbered == TypeOK /\ Numbered /\ [Next]_vars => Numbered'
<1> SUFFICES ASSUME TypeOK, Numbered, [Next]_vars PROVE Numbered'
  OBVIOUS
<1> USE DEF Numbered
<1>1. CASE \E ch \in Channels : LoadCached(ch)
  <2>1. PICK ch \in Channels : LoadCached(ch)
    BY <1>1
  <2>2. HistAscends' /\ received' = received + 1
    BY <2>1, AppendAscends, AppendToIs DEF LoadCached
  <2>3. UNCHANGED <<events, io, current, items>>
    BY <2>1 DEF LoadCached, window
  <2> QED
    BY <2>2, <2>3, StoredTexts DEF SelectedHasItem
<1>2. CASE \E ch \in Channels : EchoStored(ch)
  <2>1. PICK ch \in Channels : EchoStored(ch)
    BY <1>2
  <2>2. HistAscends' /\ received' = received + 1 /\ received' \in Nat
    BY <2>1, AppendAscends, AppendToIs DEF EchoStored
  <2>3. /\ UNCHANGED <<events, current, items>> /\ io = Idle
        /\ IsText(io') /\ io'.msg = received + 1
    BY <2>1, EventIs DEF EchoStored, MayStart, window, IsText
  <2> QED
    BY <2>2, <2>3, StartedTexts DEF SelectedHasItem
<1>3. CASE \E ch \in Channels : HistoryRead(ch)
  <2>1. /\ UNCHANGED <<received, hist, events, current, items>> /\ io = Idle
        /\ ~IsText(io') /\ io'.msg = 0
    BY <1>3, EventIs DEF HistoryRead, MayStart, histories, window, IsText
  <2>2. received' \in Nat
    BY <2>1, PartsAre
  <2> QED
    BY <2>1, <2>2, StartedTexts DEF HistAscends, SelectedHasItem
<1>4. CASE HistoryStored
  <2>1. HistAscends' /\ received' = received + 1
    BY <1>4, HistoryIsOf, AppendAscends, AppendToIs DEF HistoryStored
  <2>2. UNCHANGED <<events, io, current, items>>
    BY <1>4 DEF HistoryStored, window
  <2> QED
    BY <2>1, <2>2, StoredTexts DEF SelectedHasItem
<1>5. CASE Emit
  <2>1. UNCHANGED <<received, hist, current, items>>
    BY <1>5 DEF Emit, histories, window
  <2> QED
    BY <1>5, <2>1, EmittedTexts DEF HistAscends, SelectedHasItem
<1>6. CASE \E ch \in Channels : AddChannel(ch)
  <2>1. PICK ch \in Channels : AddChannel(ch)
    BY <1>6
  <2>2. UNCHANGED <<received, hist, events, io>>
    BY <2>1 DEF AddChannel, histories
  <2>3. items' # << >>
    <3> DEFINE kept == [i \in DOMAIN items |-> DropWidget(items[i], ch)]
               new == [ch |-> ch, live |-> TRUE]
    <3>1. kept \in Seq(Items)
      BY ItemsKept
    <3>2. new \in Items
      BY DEF Items
    <3>3. Len(Append(kept, new)) = Len(kept) + 1 /\ Len(kept) \in Nat
      BY <3>1, <3>2, AppendAt
    <3>4. Len(items') # 0
      BY <2>1, <3>3 DEF AddChannel
    <3> QED
      BY <3>4
  <2> QED
    BY <2>2, <2>3 DEF HistAscends, TextsAscend, Pending, SelectedHasItem
<1>7. CASE \E i \in 1..MaxItems : SelectChannel(i)
  <2>1. PICK i \in 1..MaxItems : SelectChannel(i)
    BY <1>7
  <2>2. UNCHANGED <<received, hist, items, events, io>> /\ i \in DOMAIN items
    BY <2>1 DEF SelectChannel, histories
  <2>3. items # << >>
    BY <2>2
  <2> QED
    BY <2>2, <2>3 DEF HistAscends, TextsAscend, Pending, SelectedHasItem
<1>8. CASE MessageReceived \/ HistoryReceived
  <2>1. TextsAscend'
    BY <1>8, SlotTaken, TakenTexts
  <2> QED
    BY <1>8, <2>1, SlotTaken DEF HistAscends, SelectedHasItem
<1>9. CASE UNCHANGED vars
  BY <1>9 DEF vars, histories, window, HistAscends, TextsAscend, Pending, SelectedHasItem
<1> QED
  BY <1>1, <1>2, <1>3, <1>4, <1>5, <1>6, <1>7, <1>8, <1>9 DEF Next

LEMMA NumberedHolds == Spec => []Numbered
<1>1. Init => Numbered
  BY InitNumbered
<1>2. TypeOK /\ Numbered /\ [Next]_vars => Numbered'
  BY StepNumbered
<1> QED
  BY <1>1, <1>2, TypeCorrect, PTL DEF Spec

-----------------------------------------------------------------------------
(* What each step makes of the outstanding messages                        *)

\* The oldest slot call, if it is for a message, is for the oldest outstanding
\* message, and is the only one for it.
LEMMA HeadIsOldest ==
  ASSUME TypeOK, TextsAscend, events # << >>, events' = Tail(events), io' = io,
         IsText(Head(events))
  PROVE  \A e \in Pending' : IsText(e) => Head(events).msg < e.msg
<1> DEFINE n == Len(events)
<1>1. /\ Head(events) = events[1] /\ n \in Nat \ {0} /\ DOMAIN events' = 1..n - 1
      /\ \A i \in 1..n - 1 : events'[i] = events[i + 1]
  BY TailAt DEF TypeOK
<1>2. \A i \in 1..n - 1 : i + 1 \in 1..n /\ 1 < i + 1
  BY <1>1
<1>3. 1 \in 1..n
  BY <1>1
<1>4. \A i \in 1..n - 1 : IsText(events'[i]) => events[1].msg < events'[i].msg
  BY <1>1, <1>2, <1>3 DEF TextsAscend
<1>5. IsText(io) => events[1].msg < io.msg
  BY <1>1, <1>3 DEF TextsAscend
<1> QED
  BY <1>1, <1>4, <1>5 DEF Pending

LEMMA MessageTaken ==
  ASSUME TypeOK, TextsAscend, MessageReceived, NEW ch \in Channels
  PROVE  Outstanding(ch)' = IF ch = Head(events).ch
                            THEN Outstanding(ch) \ {Head(events).msg}
                            ELSE Outstanding(ch)
<1>1. /\ events # << >> /\ Head(events) \in Slots /\ IsText(Head(events))
      /\ events' = Tail(events) /\ io' = io
  BY SlotTaken DEF MessageReceived, IsText
<1>2. Pending = Pending' \cup {Head(events)}
  BY <1>1, PendingTail
<1>3. Head(events) = Event("text", Head(events).ch, Head(events).msg)
  BY <1>1, SlotIs DEF IsText
<1>4. Head(events) \notin Pending'
  <2>1. Head(events).msg \in Nat
    BY <1>1, SlotIs
  <2> QED
    BY <1>1, <2>1, HeadIsOldest
<1>5. ASSUME NEW m \in 1..MaxMessages
      PROVE  Event("text", ch, m) \in Pending' <=>
                /\ Event("text", ch, m) \in Pending
                /\ ~(ch = Head(events).ch /\ m = Head(events).msg)
  <2>1. Event("text", ch, m) = Head(events) <=> ch = Head(events).ch /\ m = Head(events).msg
    BY <1>3, EventIs
  <2> QED
    BY <1>2, <1>4, <2>1
<1> QED
  BY <1>5 DEF Outstanding

LEMMA HeadOutstanding ==
  ASSUME TypeOK, MessageReceived
  PROVE  Head(events).msg \in Outstanding(Head(events).ch)
<1>1. Head(events) \in Slots /\ Head(events).kind = "text" /\ events # << >>
  BY SlotTaken DEF MessageReceived
<1>2. Head(events).msg \in 1..MaxMessages
      /\ Head(events) = Event("text", Head(events).ch, Head(events).msg)
  BY <1>1, SlotIs
<1>3. Head(events) = events[1] /\ 1 \in DOMAIN events
  BY <1>1, TailAt DEF TypeOK
<1> QED
  BY <1>2, <1>3 DEF Outstanding, Pending

LEMMA HistoryTaken ==
  ASSUME TypeOK, HistoryReceived, NEW ch \in Channels
  PROVE  Outstanding(ch)' = Outstanding(ch)
<1>1. events # << >> /\ events' = Tail(events) /\ io' = io /\ Head(events).kind = "history"
  BY SlotTaken DEF HistoryReceived
<1>2. \A m \in 1..MaxMessages : Event("text", ch, m) # Head(events)
  BY <1>1, EventIs
<1> QED
  BY <1>1, <1>2, PendingTail DEF Outstanding

LEMMA EmitKeeps ==
  ASSUME TypeOK, Emit, NEW ch \in Channels
  PROVE  Outstanding(ch)' = Outstanding(ch)
<1>1. \A m \in 1..MaxMessages : Event("text", ch, m) # Idle
  BY EventIs, IdleIs
<1> QED
  BY <1>1, PendingEmit DEF Outstanding

LEMMA ReadKeeps ==
  ASSUME TypeOK, NEW c \in Channels, HistoryRead(c), NEW ch \in Channels
  PROVE  Outstanding(ch)' = Outstanding(ch)
<1>1. /\ io = Idle /\ events' = events /\ io'.kind = "history"
  BY EventIs DEF HistoryRead, MayStart
<1>2. \A m \in 1..MaxMessages : Event("text", ch, m) # Idle /\ Event("text", ch, m) # io'
  BY <1>1, EventIs, IdleIs
<1> QED
  BY <1>1, <1>2, PendingStarted DEF Outstanding

LEMMA EchoAdds ==
  ASSUME TypeOK, TextsAscend, NEW c \in Channels, EchoStored(c), NEW ch \in Channels
  PROVE  /\ received + 1 \notin Outstanding(ch)
         /\ Outstanding(ch)' = IF ch = c THEN Outstanding(ch) \cup {received + 1}
                               ELSE Outstanding(ch)
<1>1. /\ io = Idle /\ events' = events /\ io' = Event("text", c, received + 1)
      /\ received + 1 \in 1..MaxMessages
  BY AppendToIs DEF EchoStored, MayStart
<1>2. received + 1 \notin Outstanding(ch)
  BY PartsAre, EventIs DEF Outstanding, TextsAscend
<1>3. \A m \in 1..MaxMessages : Event("text", ch, m) # Idle
  BY EventIs, IdleIs
<1>4. \A m \in 1..MaxMessages : Event("text", ch, m) = io' <=> ch = c /\ m = received + 1
  BY <1>1, EventIs
<1>5. \A m \in 1..MaxMessages :
        Event("text", ch, m) \in Pending' <=>
           Event("text", ch, m) \in Pending \/ (ch = c /\ m = received + 1)
  BY <1>1, <1>3, <1>4, PendingStarted
<1> QED
  BY <1>1, <1>2, <1>5 DEF Outstanding

-----------------------------------------------------------------------------
(* Rows and messages                                                       *)

LEMMA StepAccounted == TypeOK /\ Numbered /\ RowsAccounted /\ [Next]_vars => RowsAccounted'
<1> SUFFICES ASSUME TypeOK, Numbered, RowsAccounted, [Next]_vars, current' # NoChannel
             PROVE  rows' + Cardinality(Outstanding(current)') + missed'
                       = Len(hist'[current']) + again'
  BY DEF RowsAccounted
<1> USE DEF Numbered
<1> DEFINE out == Outstanding(current)
<1>0. /\ rows \in Nat /\ again \in Nat /\ missed \in Nat /\ received \in Nat
      /\ IsFiniteSet(out) /\ Cardinality(out) \in Nat
      /\ current # NoChannel => /\ current \in Channels /\ Len(hist[current]) \in Nat
                                /\ rows + Cardinality(out) + missed = Len(hist[current]) + again
  BY PartsAre, OutstandingFinite DEF TypeOK, RowsAccounted
<1>1. CASE \E ch \in Channels : LoadCached(ch)
  BY <1>1 DEF LoadCached, window, SelectedHasItem
<1>2. CASE \E ch \in Channels : EchoStored(ch)
  <2>1. PICK ch \in Channels : EchoStored(ch)
    BY <1>2
  <2>2. UNCHANGED <<rows, current, again, missed>>
    BY <2>1 DEF EchoStored, window, counts
  <2>3. /\ received + 1 \notin out
        /\ Outstanding(current)' = IF current = ch THEN out \cup {received + 1} ELSE out
    BY <1>0, <2>1, <2>2, EchoAdds
  <2>4. /\ Len(hist'[ch]) = Len(hist[ch]) + 1
        /\ \A c \in Channels : c # ch => hist'[c] = hist[c]
    BY <2>1, AppendToIs DEF EchoStored
  <2>5. Cardinality(out \cup {received + 1}) = Cardinality(out) + 1
    BY <1>0, <2>3, FS_AddElement
  <2>6. CASE current = ch
    <3>1. Cardinality(Outstanding(current)') = Cardinality(out) + 1
      BY <2>3, <2>5, <2>6
    <3>2. Len(hist'[current']) = Len(hist[current]) + 1
      BY <2>2, <2>4, <2>6
    <3>3. current # NoChannel
      BY <2>2
    <3>4. rows + (Cardinality(out) + 1) + missed = (Len(hist[current]) + 1) + again
      BY <1>0, <3>3
    <3> QED
      BY <2>2, <3>1, <3>2, <3>4
  <2>7. CASE current # ch
    BY <1>0, <2>2, <2>3, <2>4, <2>7
  <2> QED
    BY <2>6, <2>7
<1>3. CASE \E ch \in Channels : HistoryRead(ch)
  <2>1. UNCHANGED <<rows, current, again, missed, hist>>
    BY <1>3 DEF HistoryRead, window, histories, counts
  <2> QED
    BY <1>0, <1>3, <2>1, ReadKeeps
<1>4. CASE HistoryStored
  <2>1. UNCHANGED <<rows, current, again, events, io>> /\ io.ch \in Channels
        /\ missed' = IF io.ch = current THEN missed + 1 ELSE missed
    BY <1>4, HistoryIsOf DEF HistoryStored, window
  <2>2. Outstanding(current)' = out
    BY <2>1 DEF Outstanding, Pending
  <2>3. /\ Len(hist'[io.ch]) = Len(hist[io.ch]) + 1
        /\ \A c \in Channels : c # io.ch => hist'[c] = hist[c]
    BY <1>4, <2>1, AppendToIs DEF HistoryStored
  <2>4. CASE io.ch = current
    BY <1>0, <2>1, <2>2, <2>3, <2>4
  <2>5. CASE io.ch # current
    BY <1>0, <2>1, <2>2, <2>3, <2>5
  <2> QED
    BY <2>4, <2>5
<1>5. CASE Emit
  <2>1. UNCHANGED <<rows, current, again, missed, hist>>
    BY <1>5 DEF Emit, window, histories, counts
  <2> QED
    BY <1>0, <1>5, <2>1, EmitKeeps
<1>6. CASE (\E ch \in Channels : AddChannel(ch)) \/ UNCHANGED vars
  <2>1. UNCHANGED <<rows, current, again, missed, hist, events, io>>
    BY <1>6 DEF AddChannel, vars, window, histories, counts
  <2>2. Outstanding(current)' = out
    BY <2>1 DEF Outstanding, Pending
  <2> QED
    BY <1>0, <2>1, <2>2
<1>7. CASE \E i \in 1..MaxItems : SelectChannel(i)
  <2>1. PICK i \in 1..MaxItems : SelectChannel(i)
    BY <1>7
  <2>2. UNCHANGED <<hist, events, io>> /\ i \in DOMAIN items
    BY <2>1 DEF SelectChannel, histories
  <2>3. \A ch : Outstanding(ch)' = Outstanding(ch)
    BY <2>2 DEF Outstanding, Pending
  <2>4. CASE items[i].live
    <3>1. /\ current' = items[i].ch /\ rows' = Len(hist[items[i].ch]) /\ missed' = 0
          /\ again' = Cardinality(Outstanding(items[i].ch))
      BY <2>1, <2>4 DEF SelectChannel, RowsFor
    <3>2. items[i].ch \in Channels
      BY <2>2, ListedType DEF Listed
    <3>3. Len(hist[items[i].ch]) \in Nat /\ Cardinality(Outstanding(items[i].ch)) \in Nat
      BY <3>2, PartsAre, OutstandingFinite
    <3>4. Outstanding(current)' = Outstanding(items[i].ch)
      BY <2>2, <3>1 DEF Outstanding, Pending
    <3> QED
      BY <2>2, <3>1, <3>3, <3>4
  <2>5. CASE ~items[i].live
    <3>1. UNCHANGED <<current, rows, again, missed>>
      BY <2>1, <2>5 DEF SelectChannel, counts
    <3>2. Outstanding(current)' = out
      BY <2>2, <3>1 DEF Outstanding, Pending
    <3> QED
      BY <1>0, <2>2, <3>1, <3>2
  <2> QED
    BY <2>4, <2>5
<1>8. CASE MessageReceived
  <2>1. UNCHANGED <<hist, current, again, missed>> /\ current \in Channels
        /\ current # NoChannel
    BY <1>0, <1>8, SlotTaken
  <2>2. Outstanding(current)' = IF current = Head(events).ch
                                THEN out \ {Head(events).msg} ELSE out
    BY <1>8, <2>1, MessageTaken
  <2>3. CASE Head(events).ch = current
    <3>1. rows' = rows + 1
      BY <1>8, <2>3 DEF MessageReceived, ShownNow
    <3>2. Head(events).msg \in out
      BY <1>8, <2>3, HeadOutstanding
    <3>3. Cardinality(out \ {Head(events).msg}) = Cardinality(out) - 1
      BY <1>0, <3>2, FS_RemoveElement
    <3> QED
      BY <1>0, <2>1, <2>2, <2>3, <3>1, <3>3
  <2>4. CASE Head(events).ch # current
    <3>1. rows' = rows
      BY <1>8, <2>4 DEF MessageReceived, ShownNow
    <3> QED
      BY <1>0, <2>1, <2>2, <2>4, <3>1
  <2> QED
    BY <2>3, <2>4
<1>9. CASE HistoryReceived
  <2>1. UNCHANGED <<hist, current, again, missed, rows>>
    BY <1>9, SlotTaken DEF HistoryReceived
  <2> QED
    BY <1>0, <1>9, <2>1, HistoryTaken
<1> QED
  BY <1>1, <1>2, <1>3, <1>4, <1>5, <1>6, <1>7, <1>8, <1>9 DEF Next

\* In every schedule the rows that are shown are accounted for: each message of
\* the selected channel has its row or a slot call to come, but for those that
\* the selection counted too early and those a history has brought since.
THEOREM EveryRowAccounted == Spec => []RowsAccounted
<1>1. Init => RowsAccounted
  BY DEF Init, RowsAccounted
<1>2. TypeOK /\ Numbered /\ RowsAccounted /\ [Next]_vars => RowsAccounted'
  BY StepAccounted
<1> QED
  BY <1>1, <1>2, TypeCorrect, NumberedHolds, PTL DEF Spec

Undisturbed == current # NoChannel /\ again = 0 /\ missed = 0

\* The messages without a row
Unrowed == {hist[current][p] : p \in rows + 1..Len(hist[current])}

Rowed == Undisturbed => Outstanding(current) = Unrowed

Matched == Numbered /\ RowsAccounted /\ Rowed

LEMMA RowsAre ==
  ASSUME TypeOK, RowsAccounted, Undisturbed
  PROVE  /\ current \in Channels /\ rows \in Nat /\ Len(hist[current]) \in Nat
         /\ rows <= Len(hist[current])
  BY PartsAre, OutstandingFinite DEF RowsAccounted, Undisturbed

\* The oldest slot call for the selected channel is for its first message
\* without a row.
LEMMA HeadIsNext ==
  ASSUME TypeOK, Matched, Undisturbed, MessageReceived, Head(events).ch = current
  PROVE  /\ rows + 1 \in 1..Len(hist[current])
         /\ hist[current][rows + 1] = Head(events).msg
<1> DEFINE h == hist[current]
           next == h[rows + 1]
<1>1. /\ events # << >> /\ events' = Tail(events) /\ io' = io /\ IsText(Head(events))
      /\ Head(events) \in Slots
  BY SlotTaken DEF MessageReceived, IsText
<1>2. Head(events).msg \in Unrowed
  BY HeadOutstanding DEF Matched, Rowed
<1>3. PICK p \in rows + 1..Len(h) : h[p] = Head(events).msg
  BY <1>2 DEF Unrowed
<1>4. /\ rows + 1 \in 1..Len(h) /\ rows + 1 \in rows + 1..Len(h) /\ p \in 1..Len(h)
      /\ p = rows + 1 \/ rows + 1 < p
  BY <1>3, RowsAre DEF Matched
<1>5. next \in Outstanding(current)
  BY <1>4 DEF Unrowed, Matched, Rowed
<1>6. Event("text", current, next) \in Pending /\ next \in Nat
  BY <1>4, <1>5, PartsAre, RowsAre DEF Outstanding, Matched
<1>7. Event("text", current, next) = Head(events) \/ Head(events).msg < next
  <2>1. Event("text", current, next) \in Pending' \cup {Head(events)}
    BY <1>1, <1>6, PendingTail
  <2> QED
    BY <1>1, <2>1, HeadIsOldest, EventIs DEF Matched, Numbered, IsText
<1>8. p = rows + 1 \/ next < h[p]
  BY <1>4, RowsAre DEF Matched, Numbered, HistAscends
<1>9. Head(events).msg \in Nat
  BY <1>1, SlotIs
<1> QED
  BY <1>3, <1>4, <1>6, <1>7, <1>8, <1>9, EventIs

LEMMA EchoRowed ==
  ASSUME TypeOK, Matched, NEW ch \in Channels, EchoStored(ch), Undisturbed'
  PROVE  Outstanding(current)' = Unrowed'
<1>1. UNCHANGED <<rows, current, again, missed>>
  BY DEF EchoStored, window, counts
<1>2. Undisturbed /\ Outstanding(current) = Unrowed
  BY <1>1 DEF Undisturbed, Matched, Rowed
<1>3. /\ current \in Channels /\ rows \in Nat /\ Len(hist[current]) \in Nat
      /\ rows <= Len(hist[current])
  BY <1>2, RowsAre DEF Matched
<1>4. Outstanding(current)' = IF current = ch THEN Unrowed \cup {received + 1} ELSE Unrowed
  BY <1>1, <1>2, <1>3, EchoAdds DEF Matched, Numbered
<1>5. /\ Len(hist'[ch]) = Len(hist[ch]) + 1
      /\ \A c \in Channels : c # ch => hist'[c] = hist[c]
      /\ \A i \in 1..Len(hist[ch]) : hist'[ch][i] = hist[ch][i]
      /\ hist'[ch][Len(hist[ch]) + 1] = received + 1
  BY AppendToIs DEF EchoStored
<1>6. CASE current # ch
  BY <1>1, <1>3, <1>4, <1>5, <1>6 DEF Unrowed
<1>7. CASE current = ch
  <2> DEFINE n == Len(hist[ch])
  <2>1. /\ n \in Nat /\ rows + 1..n + 1 = (rows + 1..n) \cup {n + 1}
        /\ rows + 1..n \subseteq 1..n
    BY <1>3, <1>7
  <2>2. /\ Len(hist'[ch]) = n + 1 /\ hist'[ch][n + 1] = received + 1
        /\ \A p \in rows + 1..n : hist'[ch][p] = hist[ch][p]
    BY <1>5, <2>1
  <2> HIDE DEF n
  <2>3. {hist'[ch][p] : p \in rows + 1..n + 1}
           = {hist[ch][p] : p \in rows + 1..n} \cup {received + 1}
    BY <2>1, <2>2
  <2>4. Unrowed = {hist[ch][p] : p \in rows + 1..n}
    BY <1>7 DEF Unrowed, n
  <2>5. Unrowed' = {hist'[ch][p] : p \in rows + 1..n + 1}
    BY <1>1, <1>7, <2>2 DEF Unrowed
  <2> QED
    BY <1>4, <1>7, <2>3, <2>4, <2>5
<1> QED
  BY <1>6, <1>7

LEMMA MessageRowed ==
  ASSUME TypeOK, Matched, MessageReceived, Undisturbed'
  PROVE  Outstanding(current)' = Unrowed'
<1>1. UNCHANGED <<hist, current, again, missed>>
  BY SlotTaken
<1>2. Undisturbed /\ Outstanding(current) = Unrowed
  BY <1>1 DEF Undisturbed, Matched, Rowed
<1>3. /\ current \in Channels /\ rows \in Nat /\ Len(hist[current]) \in Nat
      /\ rows <= Len(hist[current])
  BY <1>2, RowsAre DEF Matched
<1>4. Outstanding(current)' = IF current = Head(events).ch
                              THEN Unrowed \ {Head(events).msg} ELSE Unrowed
  BY <1>1, <1>2, <1>3, MessageTaken DEF Matched, Numbered
<1>5. CASE Head(events).ch # current
  <2>1. rows' = rows
    BY <1>5 DEF MessageReceived, ShownNow
  <2> QED
    BY <1>1, <1>4, <1>5, <2>1 DEF Unrowed
<1>6. CASE Head(events).ch = current
  <2> DEFINE n == Len(hist[current])
             h == hist[current]
  <2>1. rows' = rows + 1
    BY <1>6 DEF MessageReceived, ShownNow
  <2>2. rows + 1 \in 1..n /\ h[rows + 1] = Head(events).msg
    BY <1>2, <1>6, HeadIsNext
  <2>3. \A p \in rows + 2..n : h[rows + 1] < h[p] /\ h[p] \in Nat /\ h[rows + 1] \in Nat
    <3>1. \A p \in rows + 2..n : p \in 1..n /\ rows + 1 < p
      BY <1>3
    <3> QED
      BY <1>3, <2>2, <3>1, PartsAre DEF Matched, Numbered, HistAscends
  <2>4. rows + 1..n = (rows + 2..n) \cup {rows + 1}
    BY <1>3, <2>2
  <2> HIDE DEF n, h
  <2>5. \A p \in rows + 2..n : h[p] # h[rows + 1]
    BY <2>3
  <2>6. {h[p] : p \in rows + 1..n} \ {h[rows + 1]} = {h[p] : p \in rows + 2..n}
    BY <2>4, <2>5
  <2>7. Unrowed = {h[p] : p \in rows + 1..n}
    BY DEF Unrowed, n, h
  <2>8. rows' + 1 = rows + 2
    BY <1>3, <2>1
  <2>9. Unrowed' = {h[p] : p \in rows + 2..n}
    BY <1>1, <2>8 DEF Unrowed, n, h
  <2> QED
    BY <1>4, <1>6, <2>2, <2>6, <2>7, <2>9
<1> QED
  BY <1>5, <1>6

LEMMA StepRowed == TypeOK /\ Matched /\ [Next]_vars => Rowed'
<1> SUFFICES ASSUME TypeOK, Matched, [Next]_vars, Undisturbed'
             PROVE  Outstanding(current)' = Unrowed'
  BY DEF Rowed
<1>0. /\ current # NoChannel => current \in Channels
      /\ missed \in Nat
      /\ Undisturbed => Outstanding(current) = Unrowed
  BY PartsAre DEF Matched, Rowed, TypeOK
<1>1. CASE \E ch \in Channels : LoadCached(ch)
  BY <1>1 DEF LoadCached, window, Matched, Numbered, SelectedHasItem, Undisturbed
<1>2. CASE \E ch \in Channels : EchoStored(ch)
  BY <1>2, EchoRowed
<1>3. CASE \E ch \in Channels : HistoryRead(ch)
  <2>1. UNCHANGED <<rows, current, again, missed, hist>>
    BY <1>3 DEF HistoryRead, window, histories, counts
  <2> QED
    BY <1>0, <1>3, <2>1, ReadKeeps DEF Undisturbed, Unrowed
<1>4. CASE HistoryStored
  <2>1. UNCHANGED <<rows, current, again, events, io>> /\ io.ch \in Channels
        /\ missed' = IF io.ch = current THEN missed + 1 ELSE missed
    BY <1>4, HistoryIsOf DEF HistoryStored, window
  <2>2. io.ch # current /\ missed' = missed
    BY <1>0, <2>1 DEF Undisturbed
  <2>3. current \in Channels /\ hist'[current] = hist[current]
    BY <1>0, <1>4, <2>1, <2>2, AppendToIs DEF HistoryStored, Undisturbed
  <2>4. Outstanding(current)' = Outstanding(current)
    BY <2>1 DEF Outstanding, Pending
  <2> QED
    BY <1>0, <2>1, <2>2, <2>3, <2>4 DEF Undisturbed, Unrowed
<1>5. CASE Emit
  <2>1. UNCHANGED <<rows, current, again, missed, hist>>
    BY <1>5 DEF Emit, window, histories, counts
  <2> QED
    BY <1>0, <1>5, <2>1, EmitKeeps DEF Undisturbed, Unrowed
<1>6. CASE (\E ch \in Channels : AddChannel(ch)) \/ UNCHANGED vars
  <2>1. UNCHANGED <<rows, current, again, missed, hist, events, io>>
    BY <1>6 DEF AddChannel, vars, window, histories, counts
  <2>2. Outstanding(current)' = Outstanding(current)
    BY <2>1 DEF Outstanding, Pending
  <2> QED
    BY <1>0, <2>1, <2>2 DEF Undisturbed, Unrowed
<1>7. CASE \E i \in 1..MaxItems : SelectChannel(i)
  <2>1. PICK i \in 1..MaxItems : SelectChannel(i)
    BY <1>7
  <2>2. UNCHANGED <<hist, events, io>> /\ i \in DOMAIN items
    BY <2>1 DEF SelectChannel, histories
  <2>4. CASE items[i].live
    <3>1. /\ current' = items[i].ch /\ rows' = Len(hist[items[i].ch])
          /\ again' = Cardinality(Outstanding(items[i].ch))
      BY <2>1, <2>4 DEF SelectChannel, RowsFor
    <3>2. items[i].ch \in Channels
      BY <2>2, ListedType DEF Listed
    <3>3. Len(hist[items[i].ch]) \in Nat
      BY <3>2, PartsAre
    <3>4. Outstanding(items[i].ch) = {}
      BY <3>1, OutstandingFinite, FS_EmptySet DEF Undisturbed
    <3>5. Outstanding(current)' = Outstanding(items[i].ch)
      BY <2>2, <3>1 DEF Outstanding, Pending
    <3>6. rows' + 1..Len(hist'[current']) = {}
      BY <2>2, <3>1, <3>3
    <3>7. Unrowed' = {}
      BY <3>6 DEF Unrowed
    <3> QED
      BY <3>4, <3>5, <3>7
  <2>5. CASE ~items[i].live
    <3>1. UNCHANGED <<current, rows, again, missed>>
      BY <2>1, <2>5 DEF SelectChannel, counts
    <3>2. Outstanding(current)' = Outstanding(current)
      BY <2>2, <3>1 DEF Outstanding, Pending
    <3> QED
      BY <1>0, <2>2, <3>1, <3>2 DEF Undisturbed, Unrowed
  <2> QED
    BY <2>4, <2>5
<1>8. CASE MessageReceived
  BY <1>8, MessageRowed
<1>9. CASE HistoryReceived
  <2>1. UNCHANGED <<hist, current, again, missed, rows>>
    BY <1>9, SlotTaken DEF HistoryReceived
  <2> QED
    BY <1>0, <1>9, <2>1, HistoryTaken DEF Undisturbed, Unrowed
<1> QED
  BY <1>1, <1>2, <1>3, <1>4, <1>5, <1>6, <1>7, <1>8, <1>9 DEF Next

LEMMA MatchedHolds == Spec => []Matched
<1>1. Init => Matched
  BY InitNumbered DEF Init, Matched, RowsAccounted, Rowed, Undisturbed
<1>2. TypeOK /\ Matched /\ [Next]_vars => Matched'
  BY StepNumbered, StepAccounted, StepRowed DEF Matched
<1> QED
  BY <1>1, <1>2, TypeCorrect, PTL DEF Spec

\* Unless the selection overtook a slot call of the channel, or a history has
\* come for it since, the row that message_received adds is painted from the
\* message it was called for, in every schedule.
THEOREM RowShowsItsMessage == Spec => UndisturbedRowShowsMessage
<1>1. TypeOK /\ Matched /\ [Next]_vars =>
        [\A m \in 1..MaxMessages :
            AddsRowFor(m) /\ again = 0 /\ missed = 0
               => rows' <= Len(hist[current]) /\ GetMessage(rows') = m]_vars
  <2> SUFFICES ASSUME TypeOK, Matched, NEW m \in 1..MaxMessages,
                      AddsRowFor(m), again = 0, missed = 0
               PROVE  rows' <= Len(hist[current]) /\ GetMessage(rows') = m
    OBVIOUS
  <2>1. MessageReceived /\ Head(events).ch = current /\ Head(events).msg = m
    BY EventIs DEF AddsRowFor
  <2>2. rows' = rows + 1
    BY <2>1 DEF MessageReceived, ShownNow
  <2>3. Undisturbed
    BY <2>1, SlotTaken, NoChannelAssumption DEF Undisturbed
  <2>4. rows + 1 \in 1..Len(hist[current]) /\ hist[current][rows + 1] = Head(events).msg
    BY <2>1, <2>3, HeadIsNext
  <2>5. Len(hist[current]) \in Nat
    BY <2>3, PartsAre DEF Undisturbed
  <2> QED
    BY <2>1, <2>2, <2>4, <2>5 DEF GetMessage
<1> QED
  BY <1>1, TypeCorrect, MatchedHolds, PTL DEF Spec, UndisturbedRowShowsMessage
=============================================================================
