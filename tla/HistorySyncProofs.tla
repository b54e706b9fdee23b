-------------------------- MODULE HistorySyncProofs --------------------------
(***************************************************************************)
(* Theorems about HistorySync for any channels, any number of messages,    *)
(* joins and crashes, any clocks and any schedule.                         *)
(***************************************************************************)
EXTENDS HistorySync, SequenceTheorems, FiniteSetTheorems, TLAPS

-----------------------------------------------------------------------------
(* Facts about sequences, records and the types                            *)

LEMMA AppendAt ==
  ASSUME NEW S, NEW s \in Seq(S), NEW e \in S
  PROVE  /\ Append(s, e) \in Seq(S)
         /\ Append(s, e) # << >>
         /\ Len(Append(s, e)) = Len(s) + 1
         /\ \A i \in 1..Len(s) + 1 : Append(s, e)[i] = IF i <= Len(s) THEN s[i] ELSE e
  OBVIOUS

LEMMA TailAt ==
  ASSUME NEW S, NEW s \in Seq(S), s # << >>
  PROVE  /\ Head(s) \in S /\ Head(s) = s[1]
         /\ Len(s) \in Nat \ {0}
         /\ Tail(s) \in Seq(S)
         /\ Len(Tail(s)) = Len(s) - 1
         /\ \A i \in 1..Len(s) - 1 : Tail(s)[i] = s[i + 1]
  OBVIOUS

\* The channels of a response or of a slot call that names one channel
LEMMA OneChannel ==
  ASSUME NEW chs \in One(Channels)
  PROVE  chs \in Seq(Channels) /\ chs = <<chs[1]>> /\ chs[1] \in Channels /\ DOMAIN chs = {1}
<1>1. PICK ch \in Channels : chs = <<ch>>
  BY DEF One
<1>2. DOMAIN <<ch>> = {1} /\ <<ch>>[1] = ch /\ <<ch>> \in Seq(Channels)
  OBVIOUS
<1> QED
  BY <1>1, <1>2

LEMMA OneIsSeq ==
  ASSUME NEW S, NEW e \in S
  PROVE  <<e>> \in Seq(S)
  OBVIOUS

LEMMA FunctionIsSeq ==
  ASSUME NEW S, NEW n \in Nat, NEW f \in [1..n -> S]
  PROVE  f \in Seq(S)
  BY SeqDef

\* The ascending sequence of some messages
LEMMA AscendingType ==
  ASSUME NEW S, NEW nums \in SUBSET S, IsFiniteSet(nums), NEW f \in Ascending(nums)
  PROVE  f \in Seq(S) /\ f \in Seq(nums)
<1>1. Cardinality(nums) \in Nat
  BY FS_CardinalityType
<1>2. f \in [1..Cardinality(nums) -> nums] /\ f \in [1..Cardinality(nums) -> S]
  BY DEF Ascending
<1> QED
  BY <1>1, <1>2, FunctionIsSeq

\* What is inserted of messages are some of these messages.
LEMMA InsertedType ==
  ASSUME NEW msgs \in Seq(Messages), NEW rows \in Inserted(msgs)
  PROVE  rows \in Seq(Messages)
<1> DEFINE these == {i \in DOMAIN msgs : Insertable(msgs[i])}
<1>1. PICK kept \in Ascending(these) : rows = [i \in DOMAIN kept |-> msgs[kept[i]]]
  BY DEF Inserted
<1>2. DOMAIN msgs = 1..Len(msgs) /\ Len(msgs) \in Nat
  BY LenProperties
<1>3. IsFiniteSet(these) /\ these \in SUBSET (1..Len(msgs))
  BY <1>2, FS_Interval, FS_Subset, 1 \in Int, Len(msgs) \in Int
<1>4. kept \in Seq(1..Len(msgs))
  BY <1>3, AscendingType
<1>5. DOMAIN kept = 1..Len(kept) /\ Len(kept) \in Nat
  BY <1>4, LenProperties
<1>6. \A i \in DOMAIN kept : msgs[kept[i]] \in Messages
  <2> SUFFICES ASSUME NEW i \in 1..Len(kept) PROVE msgs[kept[i]] \in Messages
    BY <1>5
  <2>1. kept[i] \in 1..Len(msgs)
    BY <1>4, ElementOfSeq
  <2> QED
    BY <2>1, ElementOfSeq
<1>7. rows \in [1..Len(kept) -> Messages]
  BY <1>1, <1>5, <1>6
<1> QED
  BY <1>5, <1>7, FunctionIsSeq

\* Whatever is saved leaves the cache well typed.
LEMMA SaveType ==
  ASSUME TypeOK, NEW ch \in Channels, NEW msgs \in Seq(Messages), Save(ch, msgs)
  PROVE  cache' \in [Channels -> Seq(Messages)]
<1>1. PICK rows \in Inserted(msgs) : cache' = [cache EXCEPT ![ch] = cache[ch] \o rows]
  BY DEF Save
<1>2. cache \in [Channels -> Seq(Messages)]
  BY DEF TypeOK
<1>3. cache[ch] \o rows \in Seq(Messages)
  BY <1>2, InsertedType, ConcatProperties
<1> QED
  BY <1>1, <1>2, <1>3

LEMMA SendType ==
  ASSUME TypeOK, NEW reqs \in Seq(Requests), Send(reqs)
  PROVE  toServer' \in Seq(Requests)
<1>1. toServer \in Seq(Requests)
  BY DEF TypeOK
<1>2. toServer \o reqs \in Seq(Requests)
  BY <1>1, ConcatProperties
<1> QED
  BY <1>1, <1>2 DEF Send

LEMMA RequestType ==
  ASSUME NEW ch \in Channels, NEW since \in Nat, idKnown \in BOOLEAN
  PROVE  /\ HistoryRequest(ch, since) \in Requests
         /\ Request("join", ch, since) \in Requests
         /\ Request("channels", "", since) \in Requests
  BY DEF HistoryRequest, Request, Requests

LEMMA ResponseType ==
  ASSUME NEW ch \in Channels, NEW chs \in Seq(Channels), NEW msgs \in Seq(Messages)
  PROVE  /\ Response("authorized", << >>, << >>) \in Responses
         /\ Response("registered", << >>, << >>) \in Responses
         /\ Response("channels", chs, << >>) \in Responses
         /\ Response("joined", <<ch>>, << >>) \in Responses
         /\ Response("history", <<ch>>, msgs) \in Responses
         /\ Response("echo", <<ch>>, msgs) \in Responses
  BY DEF Response, Responses, One

LEMMA DeliveryType ==
  ASSUME NEW to \in {"control", "cacher"}, NEW chs \in Seq(Channels),
         NEW one \in One(Channels), NEW msgs \in Seq(Messages)
  PROVE  /\ Delivery(to, "authorized", << >>, << >>) \in Events
         /\ Delivery(to, "registered", << >>, << >>) \in Events
         /\ Delivery(to, "channels", chs, << >>) \in Events
         /\ Delivery(to, "joined", one, << >>) \in Events
         /\ Delivery(to, "history", one, msgs) \in Events
         /\ Delivery(to, "text", one, msgs) \in Events
  BY DEF Delivery, Events

\* The times a history request starts from are times.
LEMMA SinceType ==
  ASSUME posted \in Seq([ch : Channels, time : Nat, quoted : BOOLEAN]), NEW msgs \in Seq(Messages)
  PROVE  SinceBack(msgs) \in Nat /\ SincesNewest(msgs) \subseteq Nat
<1>1. \A m \in Messages : Time(m) \in Nat
  <2> SUFFICES ASSUME NEW m \in 1..Len(posted) PROVE posted[m].time \in Nat
    BY DEF Messages, Time
  <2>1. posted[m] \in [ch : Channels, time : Nat, quoted : BOOLEAN]
    BY ElementOfSeq
  <2> QED
    BY <2>1
<1>2. \A i \in 1..Len(msgs) : msgs[i] \in Messages
  OBVIOUS
<1>3. SinceBack(msgs) \in Nat
  <2>1. CASE msgs = << >>
    BY <2>1 DEF SinceBack, NoTime
  <2>2. CASE msgs # << >>
    <3>1. Len(msgs) \in 1..Len(msgs)
      BY <2>2
    <3> QED
      BY <1>1, <1>2, <2>2, <3>1 DEF SinceBack
  <2> QED
    BY <2>1, <2>2
<1>4. SincesNewest(msgs) \subseteq Nat
  BY <1>1, <1>2 DEF SincesNewest, NoTime
<1> QED
  BY <1>3, <1>4

-----------------------------------------------------------------------------
(* Type correctness                                                        *)

\* A new message leaves what was well typed well typed.
LEMMA PostType ==
  ASSUME TypeOK, NEW ch \in Channels, Post(ch)
  PROVE  TypeOK'
<1>1. PICK lag \in 0..Skew, quoted \in BOOLEAN :
         /\ lag <= Len(posted)
         /\ posted' = Append(posted, [ch |-> ch, time |-> Len(posted) + 1 - lag,
                                      quoted |-> quoted])
  BY DEF Post
<1>2. Len(posted) \in Nat /\ Len(posted) + 1 - lag \in Nat
  BY <1>1, HistorySyncAssumption DEF TypeOK, HistorySyncAssumption
<1>3. /\ posted' \in Seq([ch : Channels, time : Nat, quoted : BOOLEAN])
      /\ Len(posted') = Len(posted) + 1
  BY <1>1, <1>2 DEF TypeOK
<1>4. Messages \subseteq Messages' /\ Len(posted) + 1 \in Messages'
  BY <1>2, <1>3 DEF Messages
<1>5. \A s \in Seq(Messages) : s \in Seq(Messages')
  BY <1>4, SeqMonotonic
<1>6. Responses \subseteq Responses' /\ Events \subseteq Events'
  BY <1>5 DEF Responses, Events
<1>7. Response("echo", <<ch>>, <<Len(posted) + 1>>) \in Responses'
  BY <1>4 DEF Response, Responses, One
<1>8. toClient' \in Seq(Responses')
  <2>1. toClient \in Seq(Responses')
    BY <1>6, SeqMonotonic DEF TypeOK
  <2> QED
    BY <1>7, <2>1 DEF Post
<1>9. events' \in Seq(Events')
  BY <1>6, SeqMonotonic DEF TypeOK, Post
<1>10. hist' \in [Channels -> Seq(Messages')] /\ cache' \in [Channels -> Seq(Messages')]
  BY <1>5 DEF TypeOK, Post, client
<1>11. Len(posted') <= MaxPosts
  BY <1>2, <1>3, HistorySyncAssumption DEF Post, HistorySyncAssumption
<1> QED
  BY <1>3, <1>8, <1>9, <1>10, <1>11 DEF TypeOK, Post, client, window, counts, Requests

\* What the server answers is well typed.
LEMMA ServerType ==
  ASSUME TypeOK, ServerStep
  PROVE  TypeOK'
<1>1. /\ toServer # << >>
      /\ Head(toServer) \in Requests
      /\ toServer' \in Seq(Requests)
  <2>1. toServer # << >> /\ toServer' = Tail(toServer)
    BY DEF ServerStep, ServeChannels, ServeHistory, ServeJoin, DropUnidentified, Serves
  <2> QED
    BY <2>1, TailAt DEF TypeOK
<1>2. UNCHANGED <<posted, phase, client, window, events, cache, loaded, counts, fault>>
  BY DEF ServerStep, ServeChannels, ServeHistory, ServeJoin, DropUnidentified, server
<1>3. Messages' = Messages /\ Responses' = Responses /\ Events' = Events
  BY <1>2 DEF Messages, Responses, Events
<1>4. \A chs \in Orders(subs) : chs \in Seq(Channels)
  <2>1. Cardinality(subs) \in Nat
    BY FS_Subset, FS_CardinalityType, HistorySyncAssumption DEF HistorySyncAssumption, TypeOK
  <2>2. \A chs \in Orders(subs) : chs \in [1..Cardinality(subs) -> Channels]
    BY DEF Orders, TypeOK
  <2> QED
    BY <2>1, <2>2, FunctionIsSeq
<1>5. ASSUME NEW ch, NEW since, NEW msgs \in Ascending(PostedSince(ch, since))
      PROVE  msgs \in Seq(Messages)
  <2>1. PostedSince(ch, since) \subseteq Messages
    <3>1. DOMAIN posted = 1..Len(posted)
      BY LenProperties DEF TypeOK
    <3> QED
      BY <3>1 DEF PostedSince, Messages
  <2>2. IsFiniteSet(PostedSince(ch, since))
    <3>1. IsFiniteSet(1..Len(posted))
      BY FS_Interval, 1 \in Int, Len(posted) \in Int DEF TypeOK
    <3> QED
      BY <2>1, <3>1, FS_Subset, PostedSince(ch, since) \in SUBSET Messages DEF Messages
  <2> QED
    BY <2>1, <2>2, AscendingType
<1>6. toClient' \in Seq(Responses)
  <2>1. toClient \in Seq(Responses) /\ \A r \in Responses : Append(toClient, r) \in Seq(Responses)
    BY AppendAt DEF TypeOK
  <2>2. CASE ServeChannels
    <3>1. PICK chs \in Orders(subs) : toClient' = Append(toClient, Response("channels", chs, << >>))
      BY <2>2 DEF ServeChannels, Answer
    <3>2. Response("channels", chs, << >>) \in Responses
      BY <1>4 DEF Response, Responses
    <3> QED
      BY <2>1, <3>1, <3>2
  <2>3. CASE ServeHistory
    <3> DEFINE req == Head(toServer)
    <3>1. PICK msgs \in Ascending(PostedSince(req.ch, req.since)) :
            toClient' = Append(toClient, Response("history", <<req.ch>>, msgs))
      BY <2>3 DEF ServeHistory, Answer
    <3>2. req.ch \in Channels
      BY <1>1, <2>3 DEF ServeHistory, Serves, Requests
    <3>3. Response("history", <<req.ch>>, msgs) \in Responses
      BY <1>5, <3>1, <3>2 DEF Response, Responses, One
    <3> QED
      BY <2>1, <3>1, <3>3
  <2>4. CASE ServeJoin
    <3> DEFINE ch == Head(toServer).ch
    <3>1. ch \in Channels
      BY <1>1, <2>4 DEF ServeJoin, Serves, Requests
    <3>2. Response("joined", <<ch>>, << >>) \in Responses
      BY <3>1, << >> \in Seq(Messages) DEF Response, Responses, One
    <3> QED
      BY <2>1, <2>4, <3>2 DEF ServeJoin, Answer
  <2> QED
    BY <2>1, <2>2, <2>3, <2>4 DEF ServerStep, DropUnidentified
<1>7. subs' \in SUBSET Channels
  <2>1. CASE ServeJoin
    BY <1>1, <2>1 DEF ServeJoin, Serves, Requests, TypeOK
  <2> QED
    BY <2>1 DEF ServerStep, ServeChannels, ServeHistory, DropUnidentified, server, TypeOK
<1> QED
  BY <1>1, <1>2, <1>3, <1>6, <1>7 DEF TypeOK, client, window, counts

\* What is emitted is well typed if what goes with the signal is.
LEMMA EmitType ==
  ASSUME TypeOK, NEW kind, NEW chs, NEW msgs, Emit(kind, chs, msgs),
         \A to \in {"control", "cacher"} : Delivery(to, kind, chs, msgs) \in Events
  PROVE  events' \in Seq(Events)
<1> DEFINE d1 == Delivery("control", kind, chs, msgs)
           d2 == Delivery("cacher", kind, chs, msgs)
<1>1. d1 \in Events /\ d2 \in Events
  OBVIOUS
<1>2. events \in Seq(Events) /\ events' = Append(Append(events, d1), d2)
  BY DEF TypeOK, Emit
<1> HIDE DEF d1, d2
<1>3. Append(events, d1) \in Seq(Events)
  BY <1>1, <1>2, AppendAt
<1> QED
  BY <1>1, <1>2, <1>3, AppendAt

\* What the io thread keeps of a response is well typed, and what it emits.
LEMMA IoType ==
  ASSUME TypeOK, IoStep
  PROVE  TypeOK'
<1>1. UNCHANGED <<posted, subs, phase, toServer, loaded, mainShown, widgets, cache, joins, crashes>>
  BY DEF IoStep, ReadAccepted, SetLoginId, ReadChannels, ReadHistory, ReadEcho, ReadJoined,
         server, link, window, counts
<1>2. Messages' = Messages /\ Responses' = Responses /\ Events' = Events
  BY <1>1 DEF Messages, Responses, Events
<1>3. ASSUME NEW kind, Reads(kind)
      PROVE  /\ Head(toClient) \in Responses /\ Head(toClient).kind = kind
             /\ toClient' \in Seq(Responses)
  BY <1>3, TailAt DEF Reads, TypeOK
<1>4. << >> \in Seq(Messages) /\ << >> \in Seq(Channels)
  OBVIOUS
<1>5. CASE ReadAccepted
  <2>1. PICK kind \in {"authorized", "registered"} : Reads(kind) /\ Emit(kind, << >>, << >>)
    BY <1>5 DEF ReadAccepted
  <2>2. \A to \in {"control", "cacher"} : Delivery(to, kind, << >>, << >>) \in Events
    BY <1>4 DEF Delivery, Events
  <2>3. events' \in Seq(Events) /\ toClient' \in Seq(Responses)
    BY <1>3, <2>1, <2>2, EmitType
  <2> QED
    BY <1>1, <1>2, <1>5, <2>3 DEF ReadAccepted, TypeOK
<1>6. CASE SetLoginId
  BY <1>1, <1>2, <1>6 DEF SetLoginId, StoreId, link, TypeOK
<1>7. CASE ReadChannels
  <2> DEFINE chs == Head(toClient).chs
  <2>1. Reads("channels") /\ Emit("channels", chs, << >>)
    BY <1>7 DEF ReadChannels
  <2>2. chs \in Seq(Channels) /\ toClient' \in Seq(Responses)
    <3>1. Head(toClient) \in Responses /\ Head(toClient).kind = "channels"
      BY <1>3, <2>1
    <3>2. toClient' \in Seq(Responses)
      BY <1>3, <2>1
    <3> QED
      BY <3>1, <3>2 DEF Responses
  <2>3. events' \in Seq(Events)
    <3>1. \A to \in {"control", "cacher"} : Delivery(to, "channels", chs, << >>) \in Events
      BY <2>2 DEF Delivery, Events
    <3> QED
      BY <2>1, <3>1, EmitType
  <2> QED
    BY <1>1, <1>2, <1>7, <2>2, <2>3 DEF ReadChannels, TypeOK, client
<1>8. CASE ReadHistory \/ ReadEcho
  <2> DEFINE ch == Head(toClient).chs[1]
             msgs == Head(toClient).msgs
  <2>1. Reads("history") \/ Reads("echo")
    BY <1>8 DEF ReadHistory, ReadEcho
  <2>2. /\ Head(toClient).chs \in One(Channels) /\ msgs \in Seq(Messages)
        /\ toClient' \in Seq(Responses)
    <3>1. Head(toClient) \in Responses /\ Head(toClient).kind \in {"history", "echo"}
      BY <1>3, <2>1
    <3>2. toClient' \in Seq(Responses)
      BY <1>3, <2>1
    <3> QED
      BY <3>1, <3>2 DEF Responses
  <2>3. ch \in Channels /\ <<ch>> \in One(Channels)
    BY <2>2, OneChannel DEF One
  <2>4. hist[ch] \o msgs \in Seq(Messages)
    BY <2>2, <2>3, ConcatProperties DEF TypeOK
  <2>5. [hist EXCEPT ![ch] = hist[ch] \o msgs] \in [Channels -> Seq(Messages)]
    BY <2>4 DEF TypeOK
  <2>6. hist' \in [Channels -> Seq(Messages)]
    BY <1>8, <2>5 DEF ReadHistory, ReadEcho, TypeOK
  <2>7. \A to \in {"control", "cacher"} : /\ Delivery(to, "history", <<ch>>, msgs) \in Events
                                         /\ Delivery(to, "text", <<ch>>, msgs) \in Events
    BY <2>2, <2>3 DEF Delivery, Events
  <2>8. \/ Emit("history", <<ch>>, msgs)
        \/ Emit("text", <<ch>>, msgs)
        \/ UNCHANGED events
    BY <1>8 DEF ReadHistory, ReadEcho
  <2>9. events' \in Seq(Events)
    BY <1>2, <2>7, <2>8, EmitType DEF TypeOK
  <2>10. entries' \in SUBSET Channels /\ fault' \in {"none", "nullHistory", "nullWidget"}
    BY <1>8, <2>3 DEF ReadHistory, ReadEcho, TypeOK
  <2>11. io' = io /\ idKnown' = idKnown
    BY <1>8 DEF ReadHistory, ReadEcho
  <2> QED
    BY <1>1, <1>2, <2>2, <2>6, <2>9, <2>10, <2>11 DEF TypeOK
<1>9. CASE ReadJoined
  <2> DEFINE chs == Head(toClient).chs
  <2>1. Reads("joined") /\ Emit("joined", chs, << >>)
    BY <1>9 DEF ReadJoined
  <2>2. chs \in One(Channels) /\ toClient' \in Seq(Responses)
    BY <1>3, <2>1 DEF Responses
  <2>3. events' \in Seq(Events)
    <3>1. \A to \in {"control", "cacher"} : Delivery(to, "joined", chs, << >>) \in Events
      BY <1>4, <2>2 DEF Delivery, Events
    <3> QED
      BY <2>1, <3>1, EmitType
  <2> QED
    BY <1>1, <1>2, <1>9, <2>2, <2>3 DEF ReadJoined, TypeOK, client
<1> QED
  BY <1>5, <1>6, <1>7, <1>8, <1>9 DEF IoStep

\* The requests that the cacher's slots make
LEMMA ChannelsAsked == TypeOK => <<Request("channels", "", NoTime)>> \in Seq(Requests)
<1> SUFFICES ASSUME TypeOK PROVE Request("channels", "", NoTime) \in Requests
  BY OneIsSeq
<1>1. idKnown \in BOOLEAN
  BY DEF TypeOK
<1> QED
  BY <1>1 DEF Request, Requests, NoTime

LEMMA HistoriesAsked ==
  ASSUME TypeOK, NEW chs \in Seq(Channels)
  PROVE  /\ [i \in DOMAIN chs |-> HistoryRequest(chs[i], SinceBack(cache[chs[i]]))] \in Seq(Requests)
         /\ Len([i \in DOMAIN chs |-> HistoryRequest(chs[i], SinceBack(cache[chs[i]]))]) = Len(chs)
         /\ Len(chs) \in Nat /\ DOMAIN chs = 1..Len(chs)
<1> DEFINE reqs == [i \in DOMAIN chs |-> HistoryRequest(chs[i], SinceBack(cache[chs[i]]))]
<1>1. \A i \in 1..Len(chs) : HistoryRequest(chs[i], SinceBack(cache[chs[i]])) \in Requests
  <2> SUFFICES ASSUME NEW i \in 1..Len(chs)
               PROVE  HistoryRequest(chs[i], SinceBack(cache[chs[i]])) \in Requests
    OBVIOUS
  <2>1. chs[i] \in Channels
    BY ElementOfSeq
  <2>2. SinceBack(cache[chs[i]]) \in Nat
    BY <2>1, SinceType DEF TypeOK
  <2> QED
    BY <2>1, <2>2, RequestType DEF TypeOK
<1>2. Len(chs) \in Nat /\ DOMAIN chs = 1..Len(chs)
  BY LenProperties
<1>3. reqs \in Seq(Requests)
  BY <1>1, <1>2, FunctionIsSeq
<1>4. DOMAIN reqs = 1..Len(reqs) /\ DOMAIN reqs = 1..Len(chs) /\ Len(reqs) \in Nat
  BY <1>2, <1>3, LenProperties
<1> QED
  BY <1>2, <1>3, <1>4

LEMMA HistoryAsked ==
  ASSUME TypeOK, NEW ch \in Channels, NEW since \in SincesNewest(hist[ch])
  PROVE  <<HistoryRequest(ch, since)>> \in Seq(Requests)
<1>1. since \in Nat
  BY SinceType DEF TypeOK
<1>2. idKnown \in BOOLEAN
  BY DEF TypeOK
<1>3. HistoryRequest(ch, since) \in Requests
  BY <1>1, <1>2, RequestType
<1> QED
  BY <1>3, OneIsSeq

LEMMA JoinAsked ==
  ASSUME TypeOK, NEW ch \in Channels
  PROVE  <<Request("join", ch, NoTime)>> \in Seq(Requests)
<1>1. idKnown \in BOOLEAN /\ NoTime \in Nat
  BY DEF TypeOK, NoTime
<1>2. Request("join", ch, NoTime) \in Requests
  BY <1>1, RequestType
<1> QED
  BY <1>2, OneIsSeq

\* What a slot asks for, keeps and saves is well typed.
LEMMA GuiType ==
  ASSUME TypeOK, GuiStep
  PROVE  TypeOK'
<1>1. /\ UNCHANGED <<posted, subs, phase, toClient, io, idKnown, joins, crashes>>
      /\ events # << >> /\ events' = Tail(events)
  BY DEF GuiStep, ChangeWindow, OnAuthorized, OnRegistered, AddChannels, OnChannelsReceived,
         OnJoined, UpdateWidget, SaveMessages, Slot, server, link, client, counts
<1>2. Messages' = Messages /\ Responses' = Responses /\ Events' = Events
  BY <1>1 DEF Messages, Responses, Events
<1>3. Head(events) \in Events /\ events' \in Seq(Events)
  BY <1>1, TailAt DEF TypeOK
<1>4. Head(events).chs \in Seq(Channels) /\ HeadChannels \subseteq Channels
  BY <1>3, OneChannel DEF Events, HeadChannels
<1>5. CASE ChangeWindow
  BY <1>1, <1>2, <1>3, <1>5 DEF ChangeWindow, TypeOK, link, client
<1>6. CASE OnAuthorized
  <2>1. \A ch \in Channels : hist[ch] \o cache[ch] \in Seq(Messages)
    BY ConcatProperties DEF TypeOK
  <2>2. hist' \in [Channels -> Seq(Messages)]
    BY <1>6, <2>1 DEF OnAuthorized, Load
  <2>3. toServer' \in Seq(Requests)
    BY <1>6, ChannelsAsked, SendType DEF OnAuthorized, AskForChannels, ChannelsRequest
  <2>4. entries' \in SUBSET Channels
    BY <1>6 DEF OnAuthorized, GetPtrHistory, Keys, TypeOK
  <2>5. UNCHANGED <<window, cache, fault>> /\ loaded' = TRUE
    BY <1>6 DEF OnAuthorized
  <2> QED
    BY <1>1, <1>2, <1>3, <2>2, <2>3, <2>4, <2>5 DEF TypeOK, window
<1>7. CASE OnRegistered
  BY <1>1, <1>2, <1>3, <1>7 DEF OnRegistered, TypeOK, link, client, window
<1>8. CASE AddChannels
  BY <1>1, <1>2, <1>3, <1>4, <1>8 DEF AddChannels, Added, GetPtrHistory, TypeOK, link
<1>9. CASE OnChannelsReceived
  <2>1. toServer' \in Seq(Requests)
    BY <1>4, <1>9, HistoriesAsked, SendType DEF OnChannelsReceived, Load
  <2> QED
    BY <1>1, <1>2, <1>3, <1>9, <2>1 DEF OnChannelsReceived, TypeOK, client, window
<1>10. CASE OnJoined
  <2> DEFINE ch == Head(events).chs[1]
  <2>1. ch \in Channels
    <3>1. Head(events).chs \in One(Channels)
      BY <1>3, <1>10 DEF OnJoined, Slot, Events
    <3> QED
      BY <3>1, OneChannel
  <2>2. toServer' \in Seq(Requests)
    <3>1. PICK since \in SincesNewest(hist[ch]) : Send(<<HistoryRequest(ch, since)>>)
      BY <1>10 DEF OnJoined
    <3> QED
      BY <2>1, <3>1, HistoryAsked, SendType
  <2>3. entries' \in SUBSET Channels
    BY <1>4, <1>10 DEF OnJoined, GetPtrHistory, TypeOK
  <2>4. UNCHANGED <<hist, window, cache, loaded, fault>>
    BY <1>10 DEF OnJoined
  <2> QED
    BY <1>1, <1>2, <1>3, <2>2, <2>3, <2>4 DEF TypeOK, window
<1>11. CASE UpdateWidget
  BY <1>1, <1>2, <1>3, <1>11 DEF UpdateWidget, TypeOK, link, client, window
<1>12. CASE SaveMessages
  <2> DEFINE ch == Head(events).chs[1]
             msgs == Head(events).msgs
  <2>1. ch \in Channels /\ msgs \in Seq(Messages)
    <3>1. Head(events).chs \in One(Channels) /\ msgs \in Seq(Messages)
      BY <1>3, <1>12 DEF SaveMessages, Slot, Events
    <3> QED
      BY <3>1, OneChannel
  <2>2. cache' \in [Channels -> Seq(Messages)]
    BY <1>12, <2>1, SaveType DEF SaveMessages
  <2> QED
    BY <1>1, <1>2, <1>3, <1>12, <2>2 DEF SaveMessages, TypeOK, link, client, window
<1> QED
  BY <1>5, <1>6, <1>7, <1>8, <1>9, <1>10, <1>11, <1>12 DEF GuiStep

\* What a login brings, and what a cut or a crash leaves, is well typed.
LEMMA RestType ==
  ASSUME TypeOK, Login \/ Register \/ Cut \/ Crash \/ \E ch \in Channels : UserJoins(ch)
  PROVE  TypeOK'
<1>1. UNCHANGED posted /\ Messages' = Messages /\ Responses' = Responses /\ Events' = Events
  BY DEF Login, Register, Connect, Cut, Crash, UserJoins, server, Messages, Responses, Events
<1>2. /\ << >> \in Seq(Messages) /\ << >> \in Seq(Channels)
      /\ << >> \in Seq(Requests) /\ << >> \in Seq(Responses) /\ << >> \in Seq(Events)
  OBVIOUS
<1>3. CASE Login \/ Register
  <2>1. PICK kind \in {"authorized", "registered"} : Connect(kind)
    BY <1>3 DEF Login, Register
  <2>2. Response(kind, << >>, << >>) \in Responses
    BY <1>2 DEF Response, Responses
  <2>3. toClient' \in Seq(Responses)
    BY <2>1, <2>2 DEF Connect
  <2>4. subs' \in SUBSET Channels
    BY <1>3 DEF Login, Register
  <2> QED
    BY <1>1, <2>1, <2>3, <2>4 DEF Connect, TypeOK, client, window, counts
<1>4. CASE \E ch \in Channels : UserJoins(ch)
  <2>1. PICK ch \in Channels : UserJoins(ch)
    BY <1>4
  <2>2. <<Request("join", ch, NoTime)>> \in Seq(Requests)
    BY JoinAsked
  <2>3. toServer' \in Seq(Requests)
    BY <2>1, <2>2, SendType DEF UserJoins, JoinRequest
  <2>4. joins' \in 0..MaxJoins
    BY <2>1, HistorySyncAssumption DEF UserJoins, JoinRequest, TypeOK, HistorySyncAssumption
  <2> QED
    BY <1>1, <2>1, <2>3, <2>4 DEF UserJoins, JoinRequest, TypeOK, server, client, window
<1>5. CASE Cut
  <2>1. toClient' \in Seq(Responses)
    <3>1. \A n \in 0..Len(toClient) : SubSeq(toClient, 1, n) \in Seq(Responses)
      BY DEF TypeOK
    <3> QED
      BY <1>5, <3>1 DEF Cut
  <2>2. toServer' \in Seq(Requests) /\ phase' = "cut"
    BY <1>2, <1>5 DEF Cut
  <2> QED
    BY <1>1, <1>5, <2>1, <2>2 DEF Cut, TypeOK, server, client, window, counts
<1>6. CASE Crash
  <2>1. cache' \in [Channels -> Seq(Messages)]
    <3>1. CASE UNCHANGED cache
      BY <3>1 DEF TypeOK
    <3>2. CASE /\ events # << >>
               /\ Head(events).kind \in {"history", "text"}
               /\ \E n \in 1..Len(Head(events).msgs) :
                     Save(Head(events).chs[1], SubSeq(Head(events).msgs, 1, n))
      <4> DEFINE ch == Head(events).chs[1]
                 msgs == Head(events).msgs
      <4>1. Head(events) \in Events
        BY <3>2, TailAt DEF TypeOK
      <4>2. Head(events).chs \in One(Channels) /\ msgs \in Seq(Messages)
        BY <3>2, <4>1 DEF Events
      <4>3. PICK n \in 1..Len(msgs) : Save(ch, SubSeq(msgs, 1, n))
        BY <3>2
      <4>4. ch \in Channels /\ SubSeq(msgs, 1, n) \in Seq(Messages)
        BY <4>2, OneChannel
      <4> QED
        BY <4>3, <4>4, SaveType
    <3> QED
      BY <1>6, <3>1, <3>2 DEF Crash
  <2>2. crashes' \in 0..MaxCrashes
    <3>1. crashes \in 0..MaxCrashes /\ crashes < MaxCrashes /\ crashes' = crashes + 1
      BY <1>6 DEF Crash, TypeOK
    <3> QED
      BY <3>1, HistorySyncAssumption DEF HistorySyncAssumption
  <2>3. /\ toServer' \in Seq(Requests) /\ toClient' \in Seq(Responses)
        /\ events' \in Seq(Events) /\ hist' \in [Channels -> Seq(Messages)]
    BY <1>2, <1>6 DEF Crash, Forgotten
  <2>4. /\ phase' = "offline" /\ io' = "reading" /\ idKnown' = FALSE /\ entries' = {}
        /\ loaded' = FALSE /\ mainShown' = FALSE /\ widgets' = {}
        /\ UNCHANGED <<subs, joins, fault>>
    BY <1>6 DEF Crash, Forgotten, server
  <2> QED
    BY <1>1, <2>1, <2>2, <2>3, <2>4 DEF TypeOK
<1> QED
  BY <1>3, <1>4, <1>5, <1>6

LEMMA InitType == Init => TypeOK
<1> SUFFICES ASSUME Init PROVE TypeOK
  OBVIOUS
<1>1. posted \in Seq([ch : Channels, time : Nat, quoted : BOOLEAN]) /\ Len(posted) = 0
  BY DEF Init
<1>2. \A S : << >> \in Seq(S)
  OBVIOUS
<1>3. /\ toServer \in Seq(Requests) /\ toClient \in Seq(Responses) /\ events \in Seq(Events)
      /\ hist \in [Channels -> Seq(Messages)] /\ cache \in [Channels -> Seq(Messages)]
  BY <1>2 DEF Init
<1>4. Len(posted) <= MaxPosts /\ joins \in 0..MaxJoins /\ crashes \in 0..MaxCrashes
  BY <1>1, HistorySyncAssumption DEF Init, HistorySyncAssumption
<1> QED
  BY <1>1, <1>3, <1>4 DEF Init, TypeOK

LEMMA StepType ==
  ASSUME TypeOK, [Next]_vars
  PROVE  TypeOK'
<1>1. CASE Next
  BY <1>1, PostType, ServerType, IoType, GuiType, RestType DEF Next, UserStep
<1>2. CASE UNCHANGED vars
  <2>1. Messages' = Messages /\ Responses' = Responses /\ Events' = Events
    BY <1>2 DEF vars, server, Messages, Responses, Events
  <2> QED
    BY <1>2, <2>1 DEF vars, server, link, client, window, counts, TypeOK
<1> QED
  BY <1>1, <1>2

\* Whatever is posted, joined and lost, and whenever, the variables keep their
\* types: a request names a channel and a time that exist, and the client keeps
\* and saves only messages that were posted.
THEOREM TypeCorrect == Spec => []TypeOK
<1>1. TypeOK /\ [Next]_vars => TypeOK'
  BY StepType
<1> QED
  BY <1>1, InitType, PTL DEF Spec

-----------------------------------------------------------------------------
(* A history response finds its widget                                     *)
(*                                                                         *)
(* HistoryHasWidget is about the slot call that is next, and its request   *)
(* was made much earlier.  The inductive invariant follows the channel of  *)
(* a history from there: whoever names it, on the way to the server, back, *)
(* or in the queue of slot calls, names one that has a widget.  What makes *)
(* this true of the request is SlotsPaired: before each of the cacher's    *)
(* calls that make requests stands Control's call for the same signal, or  *)
(* it has run and added the widgets.                                       *)

RequestsHaveWidgets ==
    \A i \in 1..Len(toServer) : toServer[i].kind = "history" => toServer[i].ch \in widgets

ResponsesHaveWidgets ==
    \A i \in 1..Len(toClient) : toClient[i].kind = "history" => toClient[i].chs[1] \in widgets

EventsHaveWidgets ==
    \A i \in 1..Len(events) : events[i].kind = "history" => events[i].chs[1] \in widgets

Named(chs) == {chs[k] : k \in DOMAIN chs}

AddsChannels == {"channels", "joined"}

\* The cacher's call at i comes right after Control's, or after its effect.
PairedAt(i) ==
    events[i].to = "cacher" /\ events[i].kind \in AddsChannels =>
        \/ Named(events[i].chs) \subseteq widgets
        \/ /\ i > 1
           /\ events[i - 1].to = "control"
           /\ events[i - 1].kind = events[i].kind
           /\ events[i - 1].chs = events[i].chs

SlotsPaired == \A i \in 1..Len(events) : PairedAt(i)

WidgetInv == /\ RequestsHaveWidgets /\ ResponsesHaveWidgets
             /\ EventsHaveWidgets /\ SlotsPaired

LEMMA AppendIs ==
  ASSUME NEW S, NEW s \in Seq(S), NEW e
  PROVE  /\ Append(s, e) \in Seq(S \cup {e})
         /\ Len(s) \in Nat /\ Len(Append(s, e)) = Len(s) + 1
         /\ \A i \in 1..Len(s) + 1 : Append(s, e)[i] = IF i <= Len(s) THEN s[i] ELSE e
<1>1. s \in Seq(S \cup {e})
  BY SeqMonotonic, S \subseteq S \cup {e}
<1> QED
  BY <1>1, AppendAt

\* Two slot calls are queued for a signal: Control's, then the cacher's.
LEMMA EmitIs ==
  ASSUME TypeOK, NEW kind, NEW chs, NEW msgs, Emit(kind, chs, msgs)
  PROVE  /\ Len(events) \in Nat /\ Len(events') = Len(events) + 2
         /\ \A i \in 1..Len(events) : events'[i] = events[i]
         /\ events'[Len(events) + 1] = Delivery("control", kind, chs, msgs)
         /\ events'[Len(events) + 2] = Delivery("cacher", kind, chs, msgs)
<1> DEFINE d1 == Delivery("control", kind, chs, msgs)
           d2 == Delivery("cacher", kind, chs, msgs)
           half == Append(events, d1)
<1>1. events \in Seq(Events) /\ events' = Append(half, d2)
  BY DEF TypeOK, Emit
<1> HIDE DEF d1, d2
<1>2. /\ half \in Seq(Events \cup {d1})
      /\ Len(events) \in Nat /\ Len(half) = Len(events) + 1
      /\ \A i \in 1..Len(events) + 1 : half[i] = IF i <= Len(events) THEN events[i] ELSE d1
  BY <1>1, AppendIs
<1> HIDE DEF half
<1>3. /\ Len(events') = Len(half) + 1
      /\ \A i \in 1..Len(half) + 1 : events'[i] = IF i <= Len(half) THEN half[i] ELSE d2
  BY <1>1, <1>2, AppendIs
<1>4. events'[Len(events) + 1] = d1 /\ events'[Len(events) + 2] = d2
  BY <1>2, <1>3
<1> QED
  BY <1>2, <1>3, <1>4 DEF d1, d2

\* A signal is queued in pairs ...
LEMMA EmitPairs ==
  ASSUME TypeOK, SlotsPaired, widgets' = widgets, NEW kind, NEW chs, NEW msgs,
         Emit(kind, chs, msgs)
  PROVE  SlotsPaired'
<1> SUFFICES ASSUME NEW i \in 1..Len(events') PROVE PairedAt(i)'
  BY DEF SlotsPaired
<1>1. /\ Len(events) \in Nat /\ Len(events') = Len(events) + 2
      /\ \A j \in 1..Len(events) : events'[j] = events[j]
      /\ events'[Len(events) + 1] = Delivery("control", kind, chs, msgs)
      /\ events'[Len(events) + 2] = Delivery("cacher", kind, chs, msgs)
  BY EmitIs
<1>2. CASE i \in 1..Len(events)
  <2>1. PairedAt(i)
    BY <1>2 DEF SlotsPaired
  <2>2. i > 1 => i - 1 \in 1..Len(events)
    BY <1>1, <1>2
  <2> QED
    BY <1>1, <1>2, <2>1, <2>2 DEF PairedAt
<1>3. CASE i = Len(events) + 1
  BY <1>1, <1>3 DEF PairedAt, Delivery
<1>4. CASE i = Len(events) + 2
  <2>1. i > 1 /\ i - 1 = Len(events) + 1
    BY <1>1, <1>4
  <2> QED
    BY <1>1, <1>4, <2>1 DEF PairedAt, Delivery
<1> QED
  BY <1>1, <1>2, <1>3, <1>4

\* ... and stays paired until Control's call has had its effect.
LEMMA SlotPairs ==
  ASSUME TypeOK, SlotsPaired, events # << >>, events' = Tail(events), widgets \subseteq widgets',
         Head(events).to = "control" /\ Head(events).kind \in AddsChannels
            => HeadChannels \subseteq widgets'
  PROVE  SlotsPaired'
<1>1. /\ Len(events) \in Nat \ {0} /\ Head(events) = events[1]
      /\ Len(events') = Len(events) - 1
      /\ \A i \in 1..Len(events) - 1 : events'[i] = events[i + 1]
  BY TailAt DEF TypeOK
<1> SUFFICES ASSUME NEW i \in 1..Len(events'), events'[i].to = "cacher",
                    events'[i].kind \in AddsChannels,
                    ~(Named(events'[i].chs) \subseteq widgets')
             PROVE  /\ i > 1
                    /\ events'[i - 1].to = "control"
                    /\ events'[i - 1].kind = events'[i].kind
                    /\ events'[i - 1].chs = events'[i].chs
  BY DEF SlotsPaired, PairedAt
<1>2. i + 1 \in 1..Len(events) /\ events'[i] = events[i + 1] /\ i + 1 - 1 = i
  BY <1>1
<1>3. ~(Named(events[i + 1].chs) \subseteq widgets)
  BY <1>2
<1>4. /\ events[i].to = "control" /\ events[i].kind = events'[i].kind
      /\ events[i].chs = events'[i].chs
  BY <1>2, <1>3 DEF SlotsPaired, PairedAt
<1>5. i # 1
  <2> SUFFICES ASSUME i = 1 PROVE FALSE
    OBVIOUS
  <2>1. HeadChannels = Named(events'[i].chs)
    BY <1>1, <1>4 DEF HeadChannels, Named
  <2> QED
    BY <1>1, <1>4, <2>1
<1>6. i > 1 /\ i - 1 \in 1..Len(events) - 1 /\ events'[i - 1] = events[i]
  BY <1>1, <1>5
<1> QED
  BY <1>4, <1>6

LEMMA EmitHistory ==
  ASSUME TypeOK, EventsHaveWidgets, widgets' = widgets, NEW kind, NEW chs, NEW msgs,
         Emit(kind, chs, msgs), kind = "history" => chs[1] \in widgets
  PROVE  EventsHaveWidgets'
<1> SUFFICES ASSUME NEW i \in 1..Len(events'), events'[i].kind = "history"
             PROVE  events'[i].chs[1] \in widgets
  BY DEF EventsHaveWidgets
<1>1. /\ Len(events) \in Nat /\ Len(events') = Len(events) + 2
      /\ \A j \in 1..Len(events) : events'[j] = events[j]
      /\ events'[Len(events) + 1] = Delivery("control", kind, chs, msgs)
      /\ events'[Len(events) + 2] = Delivery("cacher", kind, chs, msgs)
  BY EmitIs
<1>2. CASE i \in 1..Len(events)
  BY <1>1, <1>2 DEF EventsHaveWidgets
<1>3. CASE i = Len(events) + 1 \/ i = Len(events) + 2
  BY <1>1, <1>3 DEF Delivery
<1> QED
  BY <1>1, <1>2, <1>3

LEMMA SlotHistory ==
  ASSUME TypeOK, EventsHaveWidgets, events # << >>, events' = Tail(events),
         widgets \subseteq widgets'
  PROVE  EventsHaveWidgets'
<1>1. /\ Len(events) \in Nat \ {0} /\ Len(events') = Len(events) - 1
      /\ \A i \in 1..Len(events) - 1 : events'[i] = events[i + 1]
  BY TailAt DEF TypeOK
<1>2. \A i \in 1..Len(events) - 1 : i + 1 \in 1..Len(events)
  BY <1>1
<1> QED
  BY <1>1, <1>2 DEF EventsHaveWidgets

LEMMA ResponseSent ==
  ASSUME TypeOK, ResponsesHaveWidgets, widgets' = widgets, NEW r,
         toClient' = Append(toClient, r), r.kind = "history" => r.chs[1] \in widgets
  PROVE  ResponsesHaveWidgets'
<1>1. /\ Len(toClient) \in Nat /\ Len(toClient') = Len(toClient) + 1
      /\ \A i \in 1..Len(toClient) + 1 :
            toClient'[i] = IF i <= Len(toClient) THEN toClient[i] ELSE r
  BY AppendIs DEF TypeOK
<1>2. \A i \in 1..Len(toClient) + 1 : i <= Len(toClient) => i \in 1..Len(toClient)
  BY <1>1
<1> QED
  BY <1>1, <1>2 DEF ResponsesHaveWidgets

LEMMA ResponseTaken ==
  ASSUME TypeOK, ResponsesHaveWidgets, widgets' = widgets,
         toClient # << >>, toClient' = Tail(toClient)
  PROVE  /\ ResponsesHaveWidgets'
         /\ Head(toClient).kind = "history" => Head(toClient).chs[1] \in widgets
<1>1. /\ Len(toClient) \in Nat \ {0} /\ Head(toClient) = toClient[1]
      /\ Len(toClient') = Len(toClient) - 1
      /\ \A i \in 1..Len(toClient) - 1 : toClient'[i] = toClient[i + 1]
  BY TailAt DEF TypeOK
<1>2. 1 \in 1..Len(toClient) /\ \A i \in 1..Len(toClient) - 1 : i + 1 \in 1..Len(toClient)
  BY <1>1
<1> QED
  BY <1>1, <1>2 DEF ResponsesHaveWidgets

LEMMA RequestsSent ==
  ASSUME TypeOK, RequestsHaveWidgets, widgets' = widgets, NEW reqs \in Seq(Requests), Send(reqs),
         \A i \in 1..Len(reqs) : reqs[i].kind = "history" => reqs[i].ch \in widgets
  PROVE  RequestsHaveWidgets'
<1>1. CASE toServer' = toServer
  BY <1>1 DEF RequestsHaveWidgets
<1>2. CASE toServer' = toServer \o reqs
  <2>1. /\ Len(toServer) \in Nat /\ Len(reqs) \in Nat
        /\ Len(toServer') = Len(toServer) + Len(reqs)
        /\ \A i \in 1..Len(toServer) + Len(reqs) :
              toServer'[i] = IF i <= Len(toServer) THEN toServer[i]
                             ELSE reqs[i - Len(toServer)]
    BY <1>2, ConcatProperties, LenProperties DEF TypeOK
  <2> SUFFICES ASSUME NEW i \in 1..Len(toServer'), toServer'[i].kind = "history"
               PROVE  toServer'[i].ch \in widgets
    BY DEF RequestsHaveWidgets
  <2>2. CASE i <= Len(toServer)
    BY <2>1, <2>2 DEF RequestsHaveWidgets
  <2>3. CASE ~(i <= Len(toServer))
    <3>1. i - Len(toServer) \in 1..Len(reqs)
      BY <2>1, <2>3
    <3> QED
      BY <2>1, <2>3, <3>1
  <2> QED
    BY <2>2, <2>3
<1> QED
  BY <1>1, <1>2 DEF Send

LEMMA OneRequestSent ==
  ASSUME TypeOK, RequestsHaveWidgets, widgets' = widgets, NEW req,
         <<req>> \in Seq(Requests), Send(<<req>>), req.kind = "history" => req.ch \in widgets
  PROVE  RequestsHaveWidgets'
<1>1. \A i \in 1..Len(<<req>>) : <<req>>[i] = req
  OBVIOUS
<1> QED
  BY <1>1, RequestsSent

LEMMA RequestTaken ==
  ASSUME TypeOK, RequestsHaveWidgets, widgets' = widgets,
         toServer # << >>, toServer' = Tail(toServer)
  PROVE  /\ RequestsHaveWidgets'
         /\ Head(toServer).kind = "history" => Head(toServer).ch \in widgets
<1>1. /\ Len(toServer) \in Nat \ {0} /\ Head(toServer) = toServer[1]
      /\ Len(toServer') = Len(toServer) - 1
      /\ \A i \in 1..Len(toServer) - 1 : toServer'[i] = toServer[i + 1]
  BY TailAt DEF TypeOK
<1>2. 1 \in 1..Len(toServer) /\ \A i \in 1..Len(toServer) - 1 : i + 1 \in 1..Len(toServer)
  BY <1>1
<1> QED
  BY <1>1, <1>2 DEF RequestsHaveWidgets

\* The server answers for the channel it was asked about.
LEMMA ServerWidgets ==
  ASSUME TypeOK, WidgetInv, ServerStep
  PROVE  WidgetInv'
<1>1. /\ UNCHANGED <<widgets, events>>
      /\ toServer # << >> /\ toServer' = Tail(toServer)
  BY DEF ServerStep, ServeChannels, ServeHistory, ServeJoin, DropUnidentified, Serves, window
<1>2. /\ RequestsHaveWidgets'
      /\ Head(toServer).kind = "history" => Head(toServer).ch \in widgets
  BY <1>1, RequestTaken DEF WidgetInv
<1>3. ResponsesHaveWidgets'
  <2>1. CASE toClient' = toClient
    BY <1>1, <2>1 DEF WidgetInv, ResponsesHaveWidgets
  <2>2. ASSUME NEW kind, NEW chs, NEW msgs, Answer(kind, chs, msgs),
               kind = "history" => chs[1] \in widgets
        PROVE  ResponsesHaveWidgets'
    <3>1. Response(kind, chs, msgs).kind = kind /\ Response(kind, chs, msgs).chs = chs
      BY DEF Response
    <3> QED
      BY <1>1, <2>2, <3>1, ResponseSent DEF Answer, WidgetInv
  <2>3. CASE ServeHistory
    <3>1. PICK msgs : Answer("history", <<Head(toServer).ch>>, msgs)
      BY <2>3 DEF ServeHistory
    <3>2. <<Head(toServer).ch>>[1] \in widgets
      BY <1>2, <2>3 DEF ServeHistory, Serves
    <3> QED
      BY <2>2, <3>1, <3>2
  <2>4. CASE ServeChannels \/ ServeJoin
    <3>1. \E kind, chs, msgs : Answer(kind, chs, msgs) /\ kind # "history"
      BY <2>4 DEF ServeChannels, ServeJoin
    <3> QED
      BY <2>2, <3>1
  <2> QED
    BY <2>1, <2>3, <2>4 DEF ServerStep, DropUnidentified
<1> QED
  BY <1>1, <1>2, <1>3 DEF WidgetInv, EventsHaveWidgets, SlotsPaired, PairedAt

\* What the io thread emits names the channel of the response.
LEMMA IoWidgets ==
  ASSUME TypeOK, WidgetInv, IoStep
  PROVE  WidgetInv'
<1>1. UNCHANGED <<widgets, toServer>>
  BY DEF IoStep, ReadAccepted, SetLoginId, ReadChannels, ReadHistory, ReadEcho, ReadJoined,
         link, window
<1>2. /\ ResponsesHaveWidgets'
      /\ Head(toClient).kind = "history" /\ toClient' # toClient
            => Head(toClient).chs[1] \in widgets
  <2>1. CASE SetLoginId
    BY <1>1, <2>1 DEF SetLoginId, link, WidgetInv, ResponsesHaveWidgets
  <2>2. CASE toClient # << >> /\ toClient' = Tail(toClient)
    BY <1>1, <2>2, ResponseTaken DEF WidgetInv
  <2> QED
    BY <2>1, <2>2 DEF IoStep, ReadAccepted, ReadChannels, ReadHistory, ReadEcho, ReadJoined, Reads
<1>3. CASE UNCHANGED events
  BY <1>1, <1>2, <1>3 DEF WidgetInv, RequestsHaveWidgets, EventsHaveWidgets, SlotsPaired, PairedAt
<1>4. CASE \E kind, chs, msgs : /\ Emit(kind, chs, msgs)
                                /\ kind = "history" => chs[1] \in widgets
  <2>1. EventsHaveWidgets' /\ SlotsPaired'
    BY <1>1, <1>4, EmitHistory, EmitPairs DEF WidgetInv
  <2> QED
    BY <1>1, <1>2, <2>1 DEF WidgetInv, RequestsHaveWidgets
<1>5. CASE ReadHistory
  <2> DEFINE ch == Head(toClient).chs[1]
  <2>1. /\ toClient # << >> /\ toClient' = Tail(toClient)
        /\ Head(toClient).kind = "history"
        /\ Emit("history", <<ch>>, Head(toClient).msgs)
    BY <1>5 DEF ReadHistory, Reads
  <2>2. ch \in widgets
    BY <1>1, <2>1, ResponseTaken DEF WidgetInv
  <2>3. <<ch>>[1] = ch
    OBVIOUS
  <2> QED
    BY <1>4, <2>1, <2>2, <2>3
<1>6. CASE ReadAccepted \/ ReadChannels \/ ReadJoined
  <2>1. \E kind, chs, msgs : Emit(kind, chs, msgs) /\ kind # "history"
    BY <1>6 DEF ReadAccepted, ReadChannels, ReadJoined
  <2> QED
    BY <1>4, <2>1
<1>7. CASE SetLoginId
  BY <1>3, <1>7 DEF SetLoginId
<1>8. CASE ReadEcho
  <2>1. UNCHANGED events \/ \E chs, msgs : Emit("text", chs, msgs)
    BY <1>8 DEF ReadEcho
  <2> QED
    BY <1>3, <1>4, <2>1
<1> QED
  BY <1>5, <1>6, <1>7, <1>8 DEF IoStep

\* A slot of the cacher asks for the history of channels that have widgets.
LEMMA GuiRequests ==
  ASSUME TypeOK, WidgetInv, GuiStep
  PROVE  RequestsHaveWidgets'
<1>1. Head(events).to = "cacher" /\ Head(events).kind \in AddsChannels /\ events # << >>
         => HeadChannels \subseteq widgets
  <2> SUFFICES ASSUME Head(events).to = "cacher", Head(events).kind \in AddsChannels,
                      events # << >>
               PROVE  HeadChannels \subseteq widgets
    OBVIOUS
  <2>1. 1 \in 1..Len(events) /\ Head(events) = events[1]
    BY TailAt DEF TypeOK
  <2>2. PairedAt(1)
    BY <2>1 DEF WidgetInv, SlotsPaired
  <2> QED
    BY <2>1, <2>2 DEF PairedAt, HeadChannels, Named
<1>2. Head(events) \in Events
  <2>1. events # << >>
    BY DEF GuiStep, ChangeWindow, OnAuthorized, OnRegistered, AddChannels, OnChannelsReceived,
           OnJoined, UpdateWidget, SaveMessages, Slot
  <2> QED
    BY <2>1, TailAt DEF TypeOK
<1>3. CASE OnAuthorized
  <2>1. widgets' = widgets /\ Send(<<Request("channels", "", NoTime)>>)
    BY <1>3 DEF OnAuthorized, AskForChannels, ChannelsRequest, window
  <2>2. Request("channels", "", NoTime).kind # "history"
    BY DEF Request
  <2> QED
    BY <2>1, <2>2, ChannelsAsked, OneRequestSent DEF WidgetInv
<1>4. CASE OnJoined
  <2> DEFINE ch == Head(events).chs[1]
  <2>1. Head(events).chs \in One(Channels)
    BY <1>2, <1>4 DEF OnJoined, Slot, Events
  <2>2. ch \in widgets /\ ch \in Channels
    <3>1. Head(events).to = "cacher" /\ Head(events).kind = "joined" /\ events # << >>
      BY <1>4 DEF OnJoined, Slot
    <3>2. DOMAIN Head(events).chs = {1}
      BY <2>1, OneChannel
    <3>3. ch \in HeadChannels
      BY <3>2 DEF HeadChannels
    <3>4. ch \in Channels
      BY <2>1, OneChannel
    <3> QED
      BY <1>1, <3>1, <3>3, <3>4 DEF AddsChannels
  <2>3. PICK since \in SincesNewest(hist[ch]) : Send(<<HistoryRequest(ch, since)>>)
    BY <1>4 DEF OnJoined
  <2>4. HistoryRequest(ch, since).ch = ch
    BY DEF HistoryRequest, Request
  <2>5. widgets' = widgets
    BY <1>4 DEF OnJoined, window
  <2> QED
    BY <2>2, <2>3, <2>4, <2>5, HistoryAsked, OneRequestSent DEF WidgetInv
<1>5. CASE OnChannelsReceived
  <2> DEFINE chs == Head(events).chs
             requests == [i \in DOMAIN chs |-> HistoryRequest(chs[i], SinceBack(cache[chs[i]]))]
  <2>1. /\ Head(events).to = "cacher" /\ Head(events).kind = "channels" /\ events # << >>
        /\ Send(requests)
        /\ widgets' = widgets
    BY <1>5 DEF OnChannelsReceived, Load, Slot, window
  <2>2. chs \in Seq(Channels)
    BY <1>2, <2>1 DEF Events
  <2>3. \A i \in DOMAIN chs : chs[i] \in widgets
    BY <1>1, <2>1 DEF AddsChannels, HeadChannels
  <2>4. \A i \in DOMAIN chs : requests[i].ch = chs[i]
    BY DEF HistoryRequest, Request
  <2>5. requests \in Seq(Requests) /\ Len(requests) = Len(chs) /\ DOMAIN chs = 1..Len(chs)
    BY <2>2, HistoriesAsked
  <2> HIDE DEF requests
  <2> QED
    BY <2>1, <2>3, <2>4, <2>5, RequestsSent DEF WidgetInv
<1>6. CASE ChangeWindow \/ OnRegistered \/ AddChannels \/ UpdateWidget \/ SaveMessages
  <2>1. UNCHANGED toServer /\ widgets \subseteq widgets'
    BY <1>6 DEF ChangeWindow, OnRegistered, AddChannels, UpdateWidget, SaveMessages, link, window
  <2> QED
    BY <2>1 DEF WidgetInv, RequestsHaveWidgets
<1> QED
  BY <1>3, <1>4, <1>5, <1>6 DEF GuiStep

\* Control's slot for the channels is the one that adds their widgets.
LEMMA GuiWidgets ==
  ASSUME TypeOK, WidgetInv, GuiStep
  PROVE  WidgetInv'
<1>1. events # << >> /\ events' = Tail(events) /\ UNCHANGED toClient /\ widgets \subseteq widgets'
  BY DEF GuiStep, ChangeWindow, OnAuthorized, OnRegistered, AddChannels, OnChannelsReceived,
         OnJoined, UpdateWidget, SaveMessages, Slot, link, window
<1>2. Head(events).to = "control" /\ Head(events).kind \in AddsChannels
         => HeadChannels \subseteq widgets'
  <2>1. CASE AddChannels
    BY <2>1 DEF AddChannels, Added
  <2>2. CASE ~AddChannels
    <3>1. \/ Head(events).to = "cacher"
          \/ Head(events).kind \in {"authorized", "registered", "history", "text"}
      BY <2>2 DEF GuiStep, ChangeWindow, OnAuthorized, OnRegistered, OnChannelsReceived,
                  OnJoined, UpdateWidget, SaveMessages, Slot
    <3> QED
      BY <3>1 DEF AddsChannels
  <2> QED
    BY <2>1, <2>2
<1>3. EventsHaveWidgets' /\ SlotsPaired'
  BY <1>1, <1>2, SlotHistory, SlotPairs DEF WidgetInv
<1>4. ResponsesHaveWidgets'
  BY <1>1 DEF WidgetInv, ResponsesHaveWidgets
<1> QED
  BY <1>3, <1>4, GuiRequests DEF WidgetInv

\* Posts, joins, logins, cuts and crashes
LEMMA RestWidgets ==
  ASSUME TypeOK, WidgetInv, UserStep \/ Cut \/ Crash
  PROVE  WidgetInv'
<1>1. CASE \E ch \in Channels : Post(ch)
  <2>1. PICK ch \in Channels : Post(ch)
    BY <1>1
  <2>2. UNCHANGED <<widgets, toServer, events>>
    BY <2>1 DEF Post, window
  <2>3. ResponsesHaveWidgets'
    <3>1. Response("echo", <<ch>>, <<Len(posted) + 1>>).kind # "history"
      BY DEF Response
    <3>2. CASE UNCHANGED toClient
      BY <2>2, <3>2 DEF WidgetInv, ResponsesHaveWidgets
    <3>3. CASE toClient' = Append(toClient, Response("echo", <<ch>>, <<Len(posted) + 1>>))
      BY <2>2, <3>1, <3>3, ResponseSent DEF WidgetInv
    <3> QED
      BY <2>1, <3>2, <3>3 DEF Post
  <2> QED
    BY <2>2, <2>3 DEF WidgetInv, RequestsHaveWidgets, EventsHaveWidgets, SlotsPaired, PairedAt
<1>2. CASE \E ch \in Channels : UserJoins(ch)
  <2>1. PICK ch \in Channels : UserJoins(ch)
    BY <1>2
  <2>2. /\ UNCHANGED <<widgets, toClient, events>>
        /\ Send(<<Request("join", ch, NoTime)>>)
    BY <2>1 DEF UserJoins, JoinRequest, window
  <2>3. Request("join", ch, NoTime).kind # "history"
    BY DEF Request
  <2>4. <<Request("join", ch, NoTime)>> \in Seq(Requests)
    BY JoinAsked
  <2>5. RequestsHaveWidgets'
    BY <2>2, <2>3, <2>4, OneRequestSent DEF WidgetInv
  <2> QED
    BY <2>2, <2>5 DEF WidgetInv, ResponsesHaveWidgets, EventsHaveWidgets, SlotsPaired, PairedAt
<1>3. CASE Login \/ Register
  <2>1. PICK kind \in {"authorized", "registered"} : Connect(kind)
    BY <1>3 DEF Login, Register
  <2>2. UNCHANGED <<widgets, toServer, events>> /\ toClient' = <<Response(kind, << >>, << >>)>>
    BY <2>1 DEF Connect, window
  <2>3. Response(kind, << >>, << >>).kind # "history"
    BY DEF Response
  <2>4. ResponsesHaveWidgets'
    BY <2>2, <2>3 DEF ResponsesHaveWidgets
  <2> QED
    BY <2>2, <2>4 DEF WidgetInv, RequestsHaveWidgets, EventsHaveWidgets, SlotsPaired, PairedAt
<1>4. CASE Cut
  <2>1. UNCHANGED <<widgets, events>> /\ toServer' = << >>
    BY <1>4 DEF Cut, window
  <2>2. PICK n \in 0..Len(toClient) : toClient' = SubSeq(toClient, 1, n)
    BY <1>4 DEF Cut
  <2>3. /\ Len(toClient') = n /\ n \in Nat /\ n <= Len(toClient)
        /\ \A i \in 1..n : toClient'[i] = toClient[i]
    BY <2>2 DEF TypeOK
  <2>4. ResponsesHaveWidgets'
    BY <2>1, <2>3 DEF WidgetInv, ResponsesHaveWidgets
  <2> QED
    BY <2>1, <2>4 DEF WidgetInv, RequestsHaveWidgets, EventsHaveWidgets, SlotsPaired, PairedAt
<1>5. CASE Crash
  <2>1. toServer' = << >> /\ toClient' = << >> /\ events' = << >>
    BY <1>5 DEF Crash, Forgotten
  <2> QED
    BY <2>1 DEF WidgetInv, RequestsHaveWidgets, ResponsesHaveWidgets, EventsHaveWidgets, SlotsPaired
<1> QED
  BY <1>1, <1>2, <1>3, <1>4, <1>5 DEF UserStep

\* Whatever the schedule, and whatever is posted, joined or lost: the slot call
\* for a history response finds the widget of its channel.
THEOREM WidgetFound == Spec => []HistoryHasWidget
<1>1. Init => WidgetInv
  BY DEF Init, WidgetInv, RequestsHaveWidgets, ResponsesHaveWidgets, EventsHaveWidgets, SlotsPaired
<1>2. TypeOK /\ WidgetInv /\ [Next]_vars => WidgetInv'
  <2> SUFFICES ASSUME TypeOK, WidgetInv, [Next]_vars PROVE WidgetInv'
    OBVIOUS
  <2>1. CASE Next
    BY <2>1, ServerWidgets, IoWidgets, GuiWidgets, RestWidgets DEF Next
  <2>2. CASE UNCHANGED vars
    <3>1. UNCHANGED <<toServer, toClient, events, widgets>>
      BY <2>2 DEF vars, link, window
    <3> QED
      BY <3>1 DEF WidgetInv, RequestsHaveWidgets, ResponsesHaveWidgets, EventsHaveWidgets,
                  SlotsPaired, PairedAt
  <2> QED
    BY <2>1, <2>2
<1>3. TypeOK /\ WidgetInv => HistoryHasWidget
  <2> SUFFICES ASSUME TypeOK, WidgetInv, events # << >>, Head(events).kind = "history"
               PROVE  HeadChannels \subseteq widgets
    BY DEF HistoryHasWidget
  <2>1. 1 \in 1..Len(events) /\ Head(events) = events[1] /\ Head(events) \in Events
    BY TailAt DEF TypeOK
  <2>2. Head(events).chs \in One(Channels)
    BY <2>1 DEF Events
  <2>3. HeadChannels = {Head(events).chs[1]}
    BY <2>2, OneChannel DEF HeadChannels
  <2> QED
    BY <2>1, <2>3 DEF WidgetInv, EventsHaveWidgets
<1> QED
  BY <1>1, <1>2, <1>3, TypeCorrect, PTL DEF Spec

-----------------------------------------------------------------------------
(* A history request carries the identifier                                *)
(*                                                                         *)
(* on_authorized may run before the identifier is stored, so a request for *)
(* the channels can lack it.  The slots that ask for histories can not:    *)
(* their signals come from responses that the io thread reads after it has *)
(* stored the identifier, because the accepted response is the first.      *)

Accepted == {"authorized", "registered"}

Identified == {r \in Requests : r.kind = "history" => r.identified}

AcceptedFirst ==
    /\ phase = "offline" => toClient = << >>
    /\ phase # "online" => toServer = << >>
    /\ phase # "offline" /\ io = "reading" /\ ~idKnown
         => toClient # << >> /\ Head(toClient).kind \in Accepted

AddsAfterId == \A i \in 1..Len(events) : events[i].kind \in AddsChannels => idKnown

IdInv == toServer \in Seq(Identified) /\ AcceptedFirst /\ AddsAfterId

\* The head of a sequence is not what is appended to it.
LEMMA HeadStays ==
  ASSUME NEW S, NEW s \in Seq(S), NEW e
  PROVE  /\ Append(s, e) # << >>
         /\ s # << >> => Head(Append(s, e)) = Head(s)
<1>1. s \in Seq(S \cup {e})
  BY SeqMonotonic, S \subseteq S \cup {e}
<1>2. /\ Append(s, e) \in Seq(S \cup {e}) /\ Append(s, e) # << >>
      /\ Len(s) \in Nat
      /\ \A i \in 1..Len(s) + 1 : Append(s, e)[i] = IF i <= Len(s) THEN s[i] ELSE e
  BY <1>1, AppendAt
<1>3. ASSUME s # << >> PROVE Append(s, e)[1] = s[1]
  <2>1. Len(s) \in Nat \ {0}
    BY <1>3, TailAt
  <2> QED
    BY <1>2, <2>1
<1> QED
  BY <1>2, <1>3, TailAt

LEMMA AcceptedStays ==
  ASSUME TypeOK, AcceptedFirst, NEW r, toClient' = Append(toClient, r), phase # "offline",
         UNCHANGED <<phase, io, idKnown>>, phase # "online" => toServer' = << >>
  PROVE  AcceptedFirst'
<1>1. /\ toClient' # << >>
      /\ toClient # << >> => Head(toClient') = Head(toClient)
  BY HeadStays DEF TypeOK
<1> QED
  BY <1>1 DEF AcceptedFirst

LEMMA ServerIds ==
  ASSUME TypeOK, IdInv, ServerStep
  PROVE  IdInv'
<1>1. toServer # << >> /\ toServer' = Tail(toServer)
  BY DEF ServerStep, ServeChannels, ServeHistory, ServeJoin, DropUnidentified, Serves
<1>2. toServer' \in Seq(Identified)
  BY <1>1, TailAt DEF IdInv
<1>3. UNCHANGED <<phase, io, idKnown, events>> /\ phase = "online"
  BY <1>1 DEF ServerStep, ServeChannels, ServeHistory, ServeJoin, DropUnidentified, client,
              IdInv, AcceptedFirst
<1>4. AcceptedFirst'
  <2>1. CASE toClient' = toClient
    BY <1>3, <2>1 DEF IdInv, AcceptedFirst
  <2>2. CASE \E r : toClient' = Append(toClient, r)
    BY <1>3, <2>2, AcceptedStays DEF IdInv
  <2> QED
    BY <2>1, <2>2 DEF ServerStep, ServeChannels, ServeHistory, ServeJoin, DropUnidentified, Answer
<1> QED
  BY <1>2, <1>3, <1>4 DEF IdInv, AddsAfterId

\* A response that is not the first is read after the identifier is stored.
LEMMA IoIds ==
  ASSUME TypeOK, IdInv, IoStep
  PROVE  IdInv'
<1>1. UNCHANGED <<phase, toServer>>
  BY DEF IoStep, ReadAccepted, SetLoginId, ReadChannels, ReadHistory, ReadEcho, ReadJoined, link
<1>2. CASE SetLoginId
  BY <1>1, <1>2 DEF SetLoginId, StoreId, link, IdInv, AcceptedFirst, AddsAfterId
<1>3. CASE ~SetLoginId
  <2>1. /\ io = "reading" /\ toClient # << >> /\ UNCHANGED idKnown
        /\ ReadAccepted \/ (UNCHANGED io /\ Head(toClient).kind \notin Accepted)
    BY <1>3 DEF IoStep, ReadAccepted, ReadChannels, ReadHistory, ReadEcho, ReadJoined, Reads,
                client, Accepted
  <2>2. phase # "offline"
    BY <2>1 DEF IdInv, AcceptedFirst
  <2>3. ReadAccepted \/ idKnown
    BY <2>1, <2>2 DEF IdInv, AcceptedFirst
  <2>4. AcceptedFirst'
    BY <1>1, <2>1, <2>2, <2>3 DEF ReadAccepted, IdInv, AcceptedFirst
  <2>5. AddsAfterId'
    <3>1. CASE idKnown
      BY <2>1, <3>1 DEF AddsAfterId
    <3>2. CASE ~idKnown
      <4>1. PICK kind \in Accepted : Emit(kind, << >>, << >>)
        BY <2>3, <3>2 DEF ReadAccepted, Accepted
      <4> SUFFICES ASSUME NEW i \in 1..Len(events') PROVE events'[i].kind \notin AddsChannels
        BY <2>1 DEF AddsAfterId
      <4>2. /\ Len(events) \in Nat /\ Len(events') = Len(events) + 2
            /\ \A j \in 1..Len(events) : events'[j] = events[j]
            /\ events'[Len(events) + 1] = Delivery("control", kind, << >>, << >>)
            /\ events'[Len(events) + 2] = Delivery("cacher", kind, << >>, << >>)
        BY <4>1, EmitIs
      <4>3. CASE i \in 1..Len(events)
        BY <3>2, <4>2, <4>3 DEF IdInv, AddsAfterId
      <4>4. CASE i = Len(events) + 1 \/ i = Len(events) + 2
        BY <4>1, <4>2, <4>4 DEF Delivery, Accepted, AddsChannels
      <4> QED
        BY <4>2, <4>3, <4>4
    <3> QED
      BY <3>1, <3>2
  <2> QED
    BY <1>1, <2>4, <2>5 DEF IdInv
<1> QED
  BY <1>2, <1>3

\* Requests are sent after others.
LEMMA IdentifiedSent ==
  ASSUME toServer \in Seq(Identified), NEW reqs \in Seq(Identified), Send(reqs)
  PROVE  toServer' \in Seq(Identified)
<1>1. toServer \o reqs \in Seq(Identified)
  BY ConcatProperties
<1> QED
  BY <1>1 DEF Send

LEMMA GuiIds ==
  ASSUME TypeOK, IdInv, GuiStep
  PROVE  IdInv'
<1>1. /\ events # << >> /\ events' = Tail(events)
      /\ UNCHANGED <<phase, toClient, io, idKnown>>
  BY DEF GuiStep, ChangeWindow, OnAuthorized, OnRegistered, AddChannels, OnChannelsReceived,
         OnJoined, UpdateWidget, SaveMessages, Slot, link, client
<1>2. /\ Head(events) \in Events /\ Head(events) = events[1]
      /\ Len(events) \in Nat \ {0} /\ Len(events') = Len(events) - 1
      /\ \A i \in 1..Len(events) - 1 : events'[i] = events[i + 1]
  BY <1>1, TailAt DEF TypeOK
<1>3. AddsAfterId'
  <2>1. \A i \in 1..Len(events) - 1 : i + 1 \in 1..Len(events)
    BY <1>2
  <2> QED
    BY <1>1, <1>2, <2>1 DEF IdInv, AddsAfterId
<1>4. Head(events).kind \in AddsChannels => idKnown
  BY <1>2, 1 \in 1..Len(events) DEF IdInv, AddsAfterId
<1>5. UNCHANGED toServer \/ \E reqs \in Seq(Identified) : Send(reqs)
  <2>1. CASE OnAuthorized
    <3>1. Request("channels", "", NoTime) \in Requests
      <4>1. idKnown \in BOOLEAN
        BY DEF TypeOK
      <4> QED
        BY <4>1 DEF Request, Requests, NoTime
    <3>2. Request("channels", "", NoTime) \in Identified
      BY <3>1 DEF Request, Identified
    <3>3. <<Request("channels", "", NoTime)>> \in Seq(Identified)
      BY <3>2, OneIsSeq
    <3> QED
      BY <2>1, <3>3 DEF OnAuthorized, AskForChannels, ChannelsRequest
  <2>2. CASE OnJoined
    <3> DEFINE ch == Head(events).chs[1]
    <3>1. Head(events).kind = "joined"
      BY <2>2 DEF OnJoined, Slot
    <3>2. idKnown /\ Head(events).chs \in One(Channels)
      BY <1>2, <1>4, <3>1 DEF AddsChannels, Events
    <3>3. ch \in Channels
      BY <3>2, OneChannel
    <3>4. PICK since \in SincesNewest(hist[ch]) : Send(<<HistoryRequest(ch, since)>>)
      BY <2>2 DEF OnJoined
    <3>5. HistoryRequest(ch, since) \in Requests
      <4>1. since \in Nat /\ idKnown \in BOOLEAN
        BY <3>3, SinceType DEF TypeOK
      <4> QED
        BY <3>3, <4>1, RequestType
    <3>6. HistoryRequest(ch, since).identified
      BY <3>2 DEF HistoryRequest, Request
    <3> QED
      BY <3>4, <3>5, <3>6, OneIsSeq DEF Identified
  <2>3. CASE OnChannelsReceived
    <3> DEFINE chs == Head(events).chs
               reqs == [i \in DOMAIN chs |-> HistoryRequest(chs[i], SinceBack(cache[chs[i]]))]
    <3>1. Head(events).kind = "channels" /\ Send(reqs)
      BY <2>3 DEF OnChannelsReceived, Slot, Load
    <3>2. idKnown /\ chs \in Seq(Channels)
      BY <1>2, <1>4, <3>1 DEF AddsChannels, Events
    <3>3. reqs \in Seq(Requests) /\ Len(reqs) = Len(chs) /\ Len(chs) \in Nat
          /\ DOMAIN chs = 1..Len(chs)
      BY <3>2, HistoriesAsked
    <3>4. \A i \in 1..Len(chs) : reqs[i].identified
      BY <3>2, <3>3 DEF HistoryRequest, Request
    <3>5. \A i \in 1..Len(chs) : reqs[i] \in Requests
      BY <3>3, ElementOfSeq
    <3>6. DOMAIN reqs = 1..Len(chs)
      BY <3>3
    <3>7. reqs \in [1..Len(chs) -> Identified]
      <4>1. \A i \in 1..Len(chs) : reqs[i] \in Identified
        BY <3>4, <3>5 DEF Identified
      <4> QED
        BY <3>6, <4>1
    <3>8. reqs \in Seq(Identified)
      BY <3>3, <3>7, FunctionIsSeq
    <3> QED
      BY <3>1, <3>8
  <2>4. CASE ChangeWindow \/ OnRegistered \/ AddChannels \/ UpdateWidget \/ SaveMessages
    BY <2>4 DEF ChangeWindow, OnRegistered, AddChannels, UpdateWidget, SaveMessages, link
  <2> QED
    BY <2>1, <2>2, <2>3, <2>4 DEF GuiStep
<1>6. toServer' \in Seq(Identified)
  BY <1>5, IdentifiedSent DEF IdInv
<1>7. phase # "online" => toServer' = << >>
  BY <1>5 DEF Send, IdInv, AcceptedFirst
<1>8. AcceptedFirst'
  BY <1>1, <1>7 DEF IdInv, AcceptedFirst
<1> QED
  BY <1>3, <1>6, <1>8 DEF IdInv

LEMMA RestIds ==
  ASSUME TypeOK, IdInv, UserStep \/ Cut \/ Crash
  PROVE  IdInv'
<1>1. CASE \E ch \in Channels : Post(ch)
  <2>1. PICK ch \in Channels : Post(ch)
    BY <1>1
  <2>2. UNCHANGED <<phase, toServer, io, idKnown, events>>
    BY <2>1 DEF Post, client
  <2>3. AcceptedFirst'
    <3>1. CASE toClient' = toClient
      BY <2>2, <3>1 DEF IdInv, AcceptedFirst
    <3>2. CASE phase = "online" /\ \E r : toClient' = Append(toClient, r)
      BY <2>2, <3>2, AcceptedStays DEF IdInv
    <3> QED
      BY <2>1, <3>1, <3>2 DEF Post
  <2> QED
    BY <2>2, <2>3 DEF IdInv, AddsAfterId
<1>2. CASE \E ch \in Channels : UserJoins(ch)
  <2>1. PICK ch \in Channels : UserJoins(ch)
    BY <1>2
  <2>2. /\ UNCHANGED <<phase, toClient, io, idKnown, events>>
        /\ Send(<<Request("join", ch, NoTime)>>)
    BY <2>1 DEF UserJoins, JoinRequest, client
  <2>3. Request("join", ch, NoTime) \in Identified
    <3>1. Request("join", ch, NoTime) \in Requests
      <4>1. idKnown \in BOOLEAN /\ NoTime \in Nat
        BY DEF TypeOK, NoTime
      <4> QED
        BY <4>1, RequestType
    <3> QED
      BY <3>1 DEF Identified, Request
  <2>4. toServer' \in Seq(Identified)
    BY <2>2, <2>3, OneIsSeq, IdentifiedSent DEF IdInv
  <2>5. phase # "online" => toServer' = << >>
    BY <2>2 DEF Send, IdInv, AcceptedFirst
  <2> QED
    BY <2>2, <2>4, <2>5 DEF IdInv, AcceptedFirst, AddsAfterId
<1>3. CASE Login \/ Register
  <2>1. PICK kind \in Accepted : Connect(kind)
    BY <1>3 DEF Login, Register, Accepted
  <2>2. /\ UNCHANGED <<toServer, io, idKnown, events>>
        /\ phase' = "online" /\ toClient' = <<Response(kind, << >>, << >>)>>
    BY <2>1 DEF Connect, client
  <2>3. toClient' # << >> /\ Head(toClient').kind = kind
    BY <2>2 DEF Response
  <2> QED
    BY <2>1, <2>2, <2>3 DEF IdInv, AcceptedFirst, AddsAfterId
<1>4. CASE Cut
  <2>1. /\ UNCHANGED <<io, idKnown, events>> /\ toServer' = << >> /\ phase' = "cut"
        /\ idKnown \/ io = "emitted"
    BY <1>4 DEF Cut, client
  <2>2. toServer' \in Seq(Identified)
    BY <2>1
  <2> QED
    BY <2>1, <2>2 DEF IdInv, AcceptedFirst, AddsAfterId
<1>5. CASE Crash
  <2>1. /\ toServer' = << >> /\ toClient' = << >> /\ events' = << >> /\ phase' = "offline"
    BY <1>5 DEF Crash, Forgotten
  <2>2. toServer' \in Seq(Identified)
    BY <2>1
  <2> QED
    BY <2>1, <2>2 DEF IdInv, AcceptedFirst, AddsAfterId
<1> QED
  BY <1>1, <1>2, <1>3, <1>4, <1>5 DEF UserStep

LEMMA InitIds == Init => IdInv
<1>1. << >> \in Seq(Identified)
  OBVIOUS
<1> QED
  BY <1>1 DEF Init, IdInv, AcceptedFirst, AddsAfterId

LEMMA StepIds ==
  ASSUME TypeOK, IdInv, [Next]_vars
  PROVE  IdInv'
<1>1. CASE Next
  BY <1>1, ServerIds, IoIds, GuiIds, RestIds DEF Next
<1>2. CASE UNCHANGED vars
  <2>1. UNCHANGED <<phase, toServer, toClient, io, idKnown, events>>
    BY <1>2 DEF vars, link, client
  <2> QED
    BY <2>1 DEF IdInv, AcceptedFirst, AddsAfterId
<1> QED
  BY <1>1, <1>2

\* Whatever the schedule, and although AutorOK is emitted before client_id is
\* assigned: a history request carries the identifier the server gave.
THEOREM HistoryRequestsIdentified == Spec => []HistoryIdentified
<1>1. TypeOK /\ IdInv /\ [Next]_vars => IdInv'
  BY StepIds
<1>2. IdInv => HistoryIdentified
  <2> SUFFICES ASSUME toServer \in Seq(Identified), NEW i \in DOMAIN toServer
               PROVE  toServer[i].kind = "history" => toServer[i].identified
    BY DEF IdInv, HistoryIdentified
  <2>1. toServer[i] \in Identified
    BY ElementOfSeq, LenProperties
  <2> QED
    BY <2>1 DEF Identified
<1> QED
  BY <1>1, <1>2, InitIds, TypeCorrect, PTL DEF Spec

-----------------------------------------------------------------------------
(* Only a torn handler lets a request go without the identifier            *)
(*                                                                         *)
(* Slots and users ask, and there is nothing to run and no window to ask   *)
(* from before the io thread has emitted the code of an accepted response; *)
(* from then on it stands before set_login_id or has passed it.            *)

AskedAfterAccept == events # << >> \/ mainShown => idKnown \/ io = "emitted"

LEMMA StepAfterAccept ==
  ASSUME TypeOK, IdInv, AskedAfterAccept, [Next]_vars
  PROVE  AskedAfterAccept'
<1>1. CASE ServerStep
  BY <1>1 DEF ServerStep, ServeChannels, ServeHistory, ServeJoin, DropUnidentified,
              client, window, AskedAfterAccept
<1>2. CASE ReadAccepted
  BY <1>2 DEF ReadAccepted, AskedAfterAccept
<1>3. CASE SetLoginId
  BY <1>3 DEF SetLoginId, StoreId, AskedAfterAccept
<1>4. CASE ReadChannels \/ ReadHistory \/ ReadEcho \/ ReadJoined
  <2>1. /\ io = "reading" /\ toClient # << >> /\ Head(toClient).kind \notin Accepted
        /\ UNCHANGED <<io, idKnown>>
    BY <1>4 DEF ReadChannels, ReadHistory, ReadEcho, ReadJoined, Reads, client, Accepted
  <2>2. idKnown
    BY <2>1 DEF IdInv, AcceptedFirst
  <2> QED
    BY <2>1, <2>2 DEF AskedAfterAccept
<1>5. CASE GuiStep
  <2>1. events # << >> /\ UNCHANGED <<io, idKnown>>
    BY <1>5 DEF GuiStep, ChangeWindow, OnAuthorized, OnRegistered, AddChannels,
       OnChannelsReceived, OnJoined, UpdateWidget, SaveMessages, Slot, client
  <2> QED
    BY <2>1 DEF AskedAfterAccept
<1>6. CASE UserStep \/ Cut
  BY <1>6 DEF UserStep, Login, Register, Connect, Post, UserJoins, Cut, client, window,
              AskedAfterAccept
<1>7. CASE Crash
  BY <1>7 DEF Crash, Forgotten, AskedAfterAccept
<1>8. CASE UNCHANGED vars
  BY <1>8 DEF vars, client, window, AskedAfterAccept
<1> QED
  BY <1>1, <1>2, <1>3, <1>4, <1>5, <1>6, <1>7, <1>8 DEF Next, IoStep

\* The requests of one step carry the identifier if it is known.
LEMMA SentIfKnown ==
  ASSUME TypeOK, NEW reqs \in Seq(Requests), Send(reqs),
         \A j \in 1..Len(reqs) : reqs[j].identified = idKnown,
         NEW i \in Len(toServer) + 1..Len(toServer'), ~toServer'[i].identified
  PROVE  ~idKnown
<1>1. CASE toServer' = toServer
  BY <1>1, LenProperties DEF TypeOK
<1>2. CASE toServer' = toServer \o reqs
  <2>1. /\ Len(toServer) \in Nat /\ Len(reqs) \in Nat
        /\ Len(toServer') = Len(toServer) + Len(reqs)
        /\ \A k \in 1..Len(toServer) + Len(reqs) :
              toServer'[k] = IF k <= Len(toServer) THEN toServer[k]
                             ELSE reqs[k - Len(toServer)]
    BY <1>2, ConcatProperties, LenProperties DEF TypeOK
  <2>2. i - Len(toServer) \in 1..Len(reqs) /\ i \in 1..Len(toServer) + Len(reqs)
    BY <2>1
  <2>3. toServer'[i] = reqs[i - Len(toServer)]
    BY <2>1, <2>2
  <2> QED
    BY <2>2, <2>3
<1> QED
  BY <1>1, <1>2 DEF Send

\* In every schedule a request that lacks the identifier is made while the io
\* thread stands between the emit of the code and the assignment of client_id.
THEOREM OnlyTornIsAnonymous == Spec => AnonymousOnlyWhenTorn
<1>1. TypeOK /\ IdInv /\ AskedAfterAccept /\ [Next]_vars
        => \A i \in Len(toServer) + 1..Len(toServer') :
              ~toServer'[i].identified => io = "emitted"
  <2> SUFFICES ASSUME TypeOK, IdInv, AskedAfterAccept, [Next]_vars,
                      NEW i \in Len(toServer) + 1..Len(toServer'), ~toServer'[i].identified
               PROVE  io = "emitted"
    OBVIOUS
  <2>1. Len(toServer) \in Nat /\ idKnown \in BOOLEAN
    BY LenProperties DEF TypeOK
  <2>2. CASE UNCHANGED toServer
    BY <2>1, <2>2
  <2>3. CASE ServerStep
    <3>1. toServer # << >> /\ toServer' = Tail(toServer)
      BY <2>3 DEF ServerStep, ServeChannels, ServeHistory, ServeJoin, DropUnidentified, Serves
    <3>2. Len(toServer') = Len(toServer) - 1
      BY <3>1, TailAt DEF TypeOK
    <3> QED
      BY <2>1, <3>2
  <2>4. CASE toServer' = << >>
    BY <2>1, <2>4
  <2>5. CASE \E reqs \in Seq(Requests) :
                /\ Send(reqs) /\ \A j \in 1..Len(reqs) : reqs[j].identified = idKnown
                /\ events # << >> \/ mainShown
    <3>1. ~idKnown
      BY <2>5, SentIfKnown
    <3> QED
      BY <2>5, <3>1 DEF AskedAfterAccept
  <2>6. ASSUME NEW q, <<q>> \in Seq(Requests), Send(<<q>>), q.identified = idKnown,
               events # << >> \/ mainShown
        PROVE  io = "emitted"
    <3>1. \A j \in 1..Len(<<q>>) : <<q>>[j] = q
      OBVIOUS
    <3> QED
      BY <2>5, <2>6, <3>1
  <2>7. CASE OnAuthorized
    <3>1. /\ Send(<<Request("channels", "", NoTime)>>) /\ events # << >>
          /\ Request("channels", "", NoTime).identified = idKnown
      BY <2>7 DEF OnAuthorized, AskForChannels, ChannelsRequest, Slot, Request
    <3> QED
      BY <2>6, <3>1, ChannelsAsked
  <2>8. CASE OnJoined \/ OnChannelsReceived
    <3>1. /\ events # << >> /\ Head(events) = events[1] /\ 1 \in 1..Len(events)
          /\ Head(events).kind \in AddsChannels
      BY <2>8, TailAt DEF OnJoined, OnChannelsReceived, Slot, AddsChannels, TypeOK
    <3>2. idKnown
      BY <3>1 DEF IdInv, AddsAfterId
    <3>3. Head(events) \in Events
      BY <3>1, TailAt DEF TypeOK
    <3>4. CASE OnJoined
      <4> DEFINE ch == Head(events).chs[1]
      <4>1. ch \in Channels
        BY <3>3, <3>4, OneChannel DEF OnJoined, Slot, Events
      <4>2. PICK since \in SincesNewest(hist[ch]) : Send(<<HistoryRequest(ch, since)>>)
        BY <3>4 DEF OnJoined
      <4>3. <<HistoryRequest(ch, since)>> \in Seq(Requests)
        BY <4>1, HistoryAsked
      <4>4. HistoryRequest(ch, since).identified = idKnown
        BY DEF HistoryRequest, Request
      <4> QED
        BY <2>6, <3>1, <4>2, <4>3, <4>4
    <3>5. CASE OnChannelsReceived
      <4> DEFINE chs == Head(events).chs
                 reqs == [j \in DOMAIN chs |-> HistoryRequest(chs[j], SinceBack(cache[chs[j]]))]
      <4>1. chs \in Seq(Channels)
        BY <3>3, <3>5 DEF OnChannelsReceived, Slot, Events
      <4>2. reqs \in Seq(Requests) /\ Len(reqs) = Len(chs) /\ DOMAIN chs = 1..Len(chs)
        BY <4>1, HistoriesAsked
      <4>3. \A j \in 1..Len(reqs) : reqs[j].identified = idKnown
        BY <4>2 DEF HistoryRequest, Request
      <4>4. Send(reqs)
        BY <3>5 DEF OnChannelsReceived, Load
      <4> QED
        BY <2>5, <3>1, <4>2, <4>3, <4>4
    <3> QED
      BY <2>8, <3>4, <3>5
  <2>9. CASE \E ch \in Channels : UserJoins(ch)
    <3>1. PICK ch \in Channels : UserJoins(ch)
      BY <2>9
    <3>2. mainShown /\ Send(<<Request("join", ch, NoTime)>>)
      BY <3>1 DEF UserJoins, JoinRequest
    <3>3. Request("join", ch, NoTime).identified = idKnown
      BY DEF Request
    <3> QED
      BY <2>6, <3>2, <3>3, JoinAsked
  <2> QED
    BY <2>2, <2>3, <2>4, <2>7, <2>8, <2>9 DEF Next, vars, link, IoStep, ReadAccepted, SetLoginId,
       ReadChannels, ReadHistory, ReadEcho, ReadJoined, GuiStep, ChangeWindow, OnRegistered,
       AddChannels, UpdateWidget, SaveMessages, UserStep, Login, Register, Connect, Post, Cut, Crash
<1>2. Init => AskedAfterAccept
  BY DEF Init, AskedAfterAccept
<1>3. TypeOK /\ IdInv /\ AskedAfterAccept /\ [Next]_vars => AskedAfterAccept'
  BY StepAfterAccept
<1>4. TypeOK /\ IdInv /\ [Next]_vars => IdInv'
  BY StepIds
<1> QED
  BY <1>1, <1>2, <1>3, <1>4, InitIds, TypeCorrect, PTL DEF Spec, AnonymousOnlyWhenTorn

-----------------------------------------------------------------------------
(* Only an early echo meets a null pointer                                 *)
(*                                                                         *)
(* A widget comes together with the entry of its channel, and neither goes *)
(* before the program ends; a history finds its widget.                    *)

WidgetHasEntry == widgets \subseteq entries

LEMMA StepWidgetHasEntry ==
  ASSUME WidgetHasEntry, [Next]_vars
  PROVE  WidgetHasEntry'
<1>1. CASE UNCHANGED widgets /\ entries \subseteq entries'
  BY <1>1 DEF WidgetHasEntry
<1>2. CASE AddChannels
  BY <1>2 DEF AddChannels, GetPtrHistory, Added, WidgetHasEntry
<1>3. CASE Crash
  BY <1>3 DEF Crash, Forgotten, WidgetHasEntry
<1>4. CASE ServerStep
  BY <1>1, <1>4 DEF ServerStep, ServeChannels, ServeHistory, ServeJoin, DropUnidentified,
                    client, window
<1>5. CASE IoStep
  BY <1>1, <1>5 DEF IoStep, ReadAccepted, SetLoginId, ReadChannels, ReadHistory, ReadEcho,
                    ReadJoined, client, window
<1>6. CASE GuiStep
  BY <1>1, <1>2, <1>6 DEF GuiStep, ChangeWindow, OnAuthorized, OnRegistered,
     OnChannelsReceived, OnJoined, UpdateWidget, SaveMessages, GetPtrHistory, client, window
<1>7. CASE UserStep \/ Cut
  BY <1>1, <1>7 DEF UserStep, Login, Register, Connect, Post, UserJoins, Cut, client, window
<1>8. CASE UNCHANGED vars
  BY <1>1, <1>8 DEF vars, client, window
<1> QED
  BY <1>3, <1>4, <1>5, <1>6, <1>7, <1>8 DEF Next

\* In every schedule the only unchecked pointers that can be null are those of
\* a message echoed in a channel that the window does not have yet.
THEOREM EarlyEchoOnly == Spec => OnlyEarlyEchoFails
<1> DEFINE Early(ch) ==
      \/ /\ toClient # << >>
         /\ Head(toClient).kind = "echo" /\ Head(toClient).chs = <<ch>>
      \/ /\ events # << >>
         /\ Head(events).kind = "text" /\ Head(events).chs = <<ch>>
<1>1. TypeOK /\ HistoryHasWidget /\ WidgetHasEntry /\ [Next]_vars /\ fault' # fault
        => \E ch \in Channels \ widgets : Early(ch)
  <2> SUFFICES ASSUME TypeOK, HistoryHasWidget, WidgetHasEntry, [Next]_vars, fault' # fault
               PROVE  \E ch \in Channels \ widgets : Early(ch)
    OBVIOUS
  <2>1. ReadEcho \/ UpdateWidget
    BY DEF Next, vars, ServerStep, ServeChannels, ServeHistory, ServeJoin, DropUnidentified,
       IoStep, ReadAccepted, SetLoginId, ReadChannels, ReadHistory, ReadJoined, GuiStep,
       ChangeWindow, OnAuthorized, OnRegistered, AddChannels, OnChannelsReceived, OnJoined,
       SaveMessages, UserStep, Login, Register, Connect, Post, UserJoins, Cut, Crash
  <2>2. CASE ReadEcho
    <3> DEFINE ch == Head(toClient).chs[1]
    <3>1. toClient # << >> /\ Head(toClient).kind = "echo" /\ ch \notin entries
      BY <2>2 DEF ReadEcho, Reads
    <3>2. Head(toClient) \in Responses
      BY <3>1, TailAt DEF TypeOK
    <3>3. Head(toClient).chs \in One(Channels)
      BY <3>1, <3>2 DEF Responses
    <3>4. ch \in Channels /\ Head(toClient).chs = <<ch>>
      BY <3>3 DEF One
    <3> QED
      BY <3>1, <3>4 DEF WidgetHasEntry
  <2>3. CASE UpdateWidget
    <3> DEFINE ch == Head(events).chs[1]
    <3>1. /\ events # << >> /\ ~(HeadChannels \subseteq widgets) /\ Head(events).to = "control"
          /\ Head(events).kind \in {"history", "text"}
      BY <2>3 DEF UpdateWidget, Slot
    <3>2. Head(events).kind = "text"
      BY <3>1 DEF HistoryHasWidget
    <3>3. Head(events) \in Events
      BY <3>1, TailAt DEF TypeOK
    <3>4. Head(events).chs \in One(Channels)
      BY <3>2, <3>3 DEF Events
    <3>5. ch \in Channels /\ Head(events).chs = <<ch>>
      BY <3>4 DEF One
    <3>6. HeadChannels = {ch}
      BY <3>4, OneChannel DEF HeadChannels
    <3> QED
      BY <3>1, <3>2, <3>5, <3>6
  <2> QED
    BY <2>1, <2>2, <2>3
<1>2. Init => WidgetHasEntry
  BY DEF Init, WidgetHasEntry
<1>3. WidgetHasEntry /\ [Next]_vars => WidgetHasEntry'
  BY StepWidgetHasEntry
<1> QED
  BY <1>1, <1>2, <1>3, WidgetFound, TypeCorrect, PTL DEF Spec, OnlyEarlyEchoFails

=============================================================================
