---------------------------- MODULE HistoryGapProofs ----------------------------
(***************************************************************************)
(* What the window misses once nothing is under way, for calm schedules,   *)
(* clocks that are at most a turn behind, and a program that nobody        *)
(* registers with.                                                         *)
(*                                                                         *)
(* Of the messages of a channel those that the rows reach are saved or     *)
(* passed over (Gapless), because whatever is on its way to the rows       *)
(* leaves nothing out (Complete).  The others are in memory, or the means  *)
(* by which they will get there is under way (AllComing).                  *)
(***************************************************************************)
EXTENDS HistoryArchiveProofs

\* The messages of a channel
Of(ch) == {m \in Messages : posted[m].ch = ch}

\* A row reaches a message, and accounts for it: the message has a row, or is
\* passed over.
Reached(ch, m) == \E n \in Range(cache[ch]) : Time(m) <= Time(n)

Covered(ch, m) == \E n \in Range(cache[ch]) :
    Time(n) = Time(m) \/ (Time(n) > Time(m) /\ ~Insertable(m))

Gapless == \A ch \in Channels : \A m \in Of(ch) : Reached(ch, m) => Covered(ch, m)

\* Once messages are saved, or those later than a time, no gap is left.
Complete(ch, msgs) == \A m \in Of(ch) : Insertable(m) =>
    \/ Covered(ch, m)
    \/ m \in Range(msgs)
    \/ phase # "online" /\ \A k \in Range(msgs) : Time(k) <= Time(m)

Completes == \A ch \in Channels : \A msgs :
    Arriving(ch, msgs) \/ Saving(ch, msgs) => Complete(ch, msgs)

CompleteFrom(ch, since) == \A m \in Of(ch) :
    Insertable(m) /\ Time(m) <= since => Covered(ch, m)

CompletesFrom == \A ch \in Channels : \A since :
    Asked(ch, since) => CompleteFrom(ch, since)

\* Memory is saved, or about to be; that of the channels of others is.
HistorySaved == loaded => \A ch \in Channels : \A m \in Range(hist[ch]) :
    Insertable(m) => \/ m \in Range(cache[ch])
                     \/ \E msgs : Saving(ch, msgs) /\ m \in Range(msgs)

OthersSaved == loaded => \A ch \in Channels \ subs : Range(hist[ch]) \subseteq Range(cache[ch])

\* The client only hears of channels of its user.
OwnChannels ==
    /\ \A q \in Range(toServer) : q.kind = "history" => q.ch \in subs
    /\ \A r \in Range(toClient) : Range(r.chs) \subseteq subs
    /\ \A e \in Range(events) : Range(e.chs) \subseteq subs

\* A channel is being joined: what memory lacks is later than all it has.
Joining(ch) ==
    \/ \E q \in Range(toServer) : q.kind = "join" /\ q.ch = ch
    \/ \E r \in Range(toClient) : r.kind = "joined" /\ r.chs = <<ch>>
    \/ \E e \in Range(events) : e.to = "cacher" /\ e.kind = "joined" /\ e.chs = <<ch>>

Later(ch, m) == \A k \in Range(hist[ch]) : Time(k) < Time(m)

JoinsAhead == phase = "online" => \A ch \in Channels : Joining(ch) =>
    \A m \in Of(ch) : m \in Range(hist[ch]) \/ Covered(ch, m) \/ Later(ch, m)

\* The client will ask for a message, or has asked, or gets it.
AskedAll == \E q \in Range(toServer) : q.kind = "channels"

Told(ch) == \/ \E r \in Range(toClient) : r.kind \in {"channels", "joined"} /\ ch \in Range(r.chs)
            \/ \E e \in Range(events) : /\ e.to = "cacher" /\ e.kind \in {"channels", "joined"}
                                        /\ ch \in Range(e.chs)

Coming(ch, m) == \/ AskedAll \/ Told(ch)
                 \/ \E since : Asked(ch, since) /\ since < Time(m)
                 \/ \E msgs : Arriving(ch, msgs) /\ m \in Range(msgs)

AllComing == phase = "online" /\ loaded => \A ch \in subs : \A m \in Of(ch) :
    m \in Range(hist[ch]) \/ Covered(ch, m) \/ Coming(ch, m)

NoGap == /\ Gapless /\ Completes /\ CompletesFrom
         /\ HistorySaved /\ OthersSaved /\ OwnChannels
         /\ JoinsAhead /\ AllComing

-----------------------------------------------------------------------------
(* What accounts for a message goes on doing so                            *)

LEMMA CoveredStays ==
  ASSUME NEW ch, NEW m, UNCHANGED posted, Range(cache[ch]) \subseteq Range(cache'[ch]),
         Covered(ch, m)
  PROVE  Covered(ch, m)'
BY DEF Covered, Time, Insertable

\* A row accounts for its own message.
LEMMA RowCovered ==
  ASSUME NEW ch, NEW m \in Range(cache[ch])
  PROVE  Covered(ch, m)
BY DEF Covered

\* What reaches a message was posted no earlier.
LEMMA CompleteStays ==
  ASSUME NEW ch, NEW msgs, UNCHANGED posted, Range(cache[ch]) \subseteq Range(cache'[ch]),
         phase' = "online" => phase = "online", Complete(ch, msgs)
  PROVE  Complete(ch, msgs)'
<1>1. \A m \in Of(ch)' : m \in Of(ch)
  BY DEF Of, Messages
<1>2. \A m \in Of(ch) : Covered(ch, m) => Covered(ch, m)'
  BY CoveredStays
<1> QED
  BY <1>1, <1>2 DEF Complete, Insertable, Time

LEMMA CompleteFromStays ==
  ASSUME NEW ch, NEW since, UNCHANGED posted, Range(cache[ch]) \subseteq Range(cache'[ch]),
         CompleteFrom(ch, since)
  PROVE  CompleteFrom(ch, since)'
<1>1. \A m \in Of(ch)' : m \in Of(ch)
  BY DEF Of, Messages
<1>2. \A m \in Of(ch) : Covered(ch, m) => Covered(ch, m)'
  BY CoveredStays
<1> QED
  BY <1>1, <1>2 DEF CompleteFrom, Insertable, Time

-----------------------------------------------------------------------------
(* What a step of the server moves                                         *)

\* An order of a set lists all of it.
LEMMA OrdersIs ==
  ASSUME NEW chs \in SUBSET Channels, NEW f \in Orders(chs)
  PROVE  Range(f) = chs
<1> DEFINE n == Cardinality(chs)
<1>1. IsFiniteSet(chs)
  BY HistorySyncAssumption, FS_Subset DEF HistorySyncAssumption
<1>2. n \in Nat
  BY <1>1, FS_CardinalityType
<1>3. f \in [1..n -> chs] /\ \A i, j \in 1..n : f[i] = f[j] => i = j
  BY DEF Orders
<1> HIDE DEF n
<1>4. f \in Injection(1..n, chs)
  BY <1>3 DEF Injection, IsInjective
<1>5. \A k \in Nat : Cardinality(1..k) = k /\ IsFiniteSet(1..k)
  BY FS_Interval
<1>6. f \in Surjection(1..n, chs)
  BY <1>1, <1>2, <1>4, <1>5, FS_Injection DEF n
<1> QED
  BY <1>3, <1>6 DEF Surjection, Range

\* A request is answered: all channels, what came later, or a channel joined.
Answers(q, r) ==
    \/ /\ q.kind = "channels" /\ r.kind = "channels" /\ Range(r.chs) = subs
       /\ subs' = subs
    \/ /\ q.kind = "history" /\ r.kind = "history" /\ r.chs = <<q.ch>>
       /\ Range(r.msgs) = PostedSince(q.ch, q.since)
       /\ subs' = subs
    \/ /\ q.kind = "join" /\ r.kind = "joined" /\ r.chs = <<q.ch>>
       /\ subs' = subs \cup {q.ch}

LEMMA ServerMoves ==
  ASSUME TypeOK, AllIdentified, ServerStep
  PROVE  \E q \in Requests : \E r :
            /\ q \in Range(toServer) /\ Range(toServer') \subseteq Range(toServer)
            /\ \A p \in Range(toServer) : p = q \/ p \in Range(toServer')
            /\ Range(toClient') = Range(toClient) \cup {r}
            /\ Answers(q, r)
<1> DEFINE q == Head(toServer)
<1>1. toServer # << >> /\ toServer' = Tail(toServer)
  BY DEF ServerStep, ServeChannels, ServeHistory, ServeJoin, DropUnidentified, Serves
<1>2. q \in Requests /\ q.identified
  <2>1. toServer \in Seq({p \in Requests : p.identified})
    BY DEF AllIdentified
  <2>2. q \in {p \in Requests : p.identified}
    BY <1>1, <2>1, TailAt
  <2> QED
    BY <2>2
<1>3. /\ q \in Range(toServer) /\ Range(toServer') \subseteq Range(toServer)
      /\ \A p \in Range(toServer) : p = q \/ p \in Range(toServer')
  BY <1>1, RangeTail DEF TypeOK
<1>4. ASSUME NEW r, toClient' = Append(toClient, r)
      PROVE  Range(toClient') = Range(toClient) \cup {r}
  BY <1>4, RangeAppend DEF TypeOK
<1>5. CASE ServeChannels
  <2>1. PICK chs \in Orders(subs) : Answer("channels", chs, << >>)
    BY <1>5 DEF ServeChannels
  <2> DEFINE r == Response("channels", chs, << >>)
  <2>2. toClient' = Append(toClient, r) /\ r.kind = "channels" /\ r.chs = chs
    BY <2>1 DEF Answer, Response
  <2> HIDE DEF r
  <2>3. Range(r.chs) = subs
    BY <2>2, OrdersIs DEF TypeOK
  <2>4. q.kind = "channels" /\ subs' = subs
    BY <1>5 DEF ServeChannels, Serves, server
  <2>5. Answers(q, r)
    BY <2>2, <2>3, <2>4 DEF Answers
  <2> QED
    BY <1>2, <1>3, <1>4, <2>2, <2>5
<1>6. CASE ServeHistory
  <2>1. PICK msgs \in Ascending(PostedSince(q.ch, q.since)) : Answer("history", <<q.ch>>, msgs)
    BY <1>6 DEF ServeHistory
  <2> DEFINE r == Response("history", <<q.ch>>, msgs)
  <2>2. toClient' = Append(toClient, r) /\ r.kind = "history" /\ r.chs = <<q.ch>> /\ r.msgs = msgs
    BY <2>1 DEF Answer, Response
  <2> HIDE DEF r
  <2>3. Range(msgs) = PostedSince(q.ch, q.since)
    BY PostedSinceIs, AscendingIs
  <2>4. q.kind = "history" /\ subs' = subs
    BY <1>6 DEF ServeHistory, Serves, server
  <2>5. Answers(q, r)
    BY <2>2, <2>3, <2>4 DEF Answers
  <2> QED
    BY <1>2, <1>3, <1>4, <2>2, <2>5
<1>7. CASE ServeJoin
  <2> DEFINE r == Response("joined", <<q.ch>>, << >>)
  <2>1. toClient' = Append(toClient, r) /\ r.kind = "joined" /\ r.chs = <<q.ch>>
    BY <1>7 DEF ServeJoin, Answer, Response
  <2> HIDE DEF r
  <2>2. q.kind = "join" /\ subs' = subs \cup {q.ch}
    BY <1>7 DEF ServeJoin, Serves
  <2>3. Answers(q, r)
    BY <2>1, <2>2 DEF Answers
  <2> QED
    BY <1>2, <1>3, <1>4, <2>1, <2>3
<1>8. ~DropUnidentified
  BY <1>2 DEF DropUnidentified
<1> QED
  BY <1>5, <1>6, <1>7, <1>8 DEF ServerStep

-----------------------------------------------------------------------------
(* What a step of the io thread moves                                      *)

\* A response becomes a call of the cacher, and what it carries gets into
\* memory.
Becomes(r, e) ==
    /\ e.to = "cacher"
    /\ \/ /\ r.kind \in Accepted /\ e.kind = r.kind /\ e.chs = << >>
          /\ hist' = hist
       \/ /\ r.kind \in {"channels", "joined"} /\ e.kind = r.kind /\ e.chs = r.chs
          /\ hist' = hist
       \/ /\ r.kind \in {"history", "echo"} /\ e.kind \in {"history", "text"}
          /\ e.chs = r.chs
          /\ e.msgs = r.msgs
          /\ \E ch \in Channels :
                /\ r.chs = <<ch>>
                /\ Range(hist'[ch]) = Range(hist[ch]) \cup Range(r.msgs)
                /\ \A c \in Channels : c # ch => hist'[c] = hist[c]

LEMMA IoMoves ==
  ASSUME TypeOK, TypeOK', IoStep, fault' = "none"
  PROVE  \/ SetLoginId
         \/ \E r \in Range(toClient), c, e \in Range(events') :
               /\ Range(toClient') \subseteq Range(toClient)
               /\ \A p \in Range(toClient) : p = r \/ p \in Range(toClient')
               /\ Range(events') = Range(events) \cup {c, e}
               /\ c.to = "control" /\ c.chs = e.chs
               /\ Becomes(r, e)
<1> SUFFICES ASSUME ~SetLoginId
             PROVE  \E r \in Range(toClient), c, e \in Range(events') :
                       /\ Range(toClient') \subseteq Range(toClient)
                       /\ \A p \in Range(toClient) : p = r \/ p \in Range(toClient')
                       /\ Range(events') = Range(events) \cup {c, e}
                       /\ c.to = "control" /\ c.chs = e.chs
                       /\ Becomes(r, e)
  OBVIOUS
<1> DEFINE r == Head(toClient)
<1>1. toClient # << >> /\ toClient' = Tail(toClient)
  BY DEF IoStep, ReadAccepted, ReadChannels, ReadHistory, ReadEcho, ReadJoined, Reads
<1>2. /\ r \in Range(toClient) /\ r \in Responses
      /\ Range(toClient') \subseteq Range(toClient)
      /\ \A p \in Range(toClient) : p = r \/ p \in Range(toClient')
  BY <1>1, RangeTail, TailAt DEF TypeOK
<1>3. ASSUME NEW kind, NEW chs, NEW msgs, Emit(kind, chs, msgs),
             Becomes(r, Delivery("cacher", kind, chs, msgs))
      PROVE  \E c, e \in Range(events') :
                /\ Range(events') = Range(events) \cup {c, e}
                /\ c.to = "control" /\ c.chs = e.chs
                /\ Becomes(r, e)
  <2> DEFINE c == Delivery("control", kind, chs, msgs)
             e == Delivery("cacher", kind, chs, msgs)
  <2>1. c.to = "control" /\ c.chs = chs /\ e.chs = chs
    BY DEF Delivery
  <2> HIDE DEF r
  <2>2. Range(events') = Range(events) \cup {c, e}
    BY <1>3, EmitRange
  <2> QED
    BY <1>3, <2>1, <2>2
<1>4. ASSUME NEW kind, NEW chs, NEW msgs, r.kind = kind, hist' = hist,
             \/ kind \in Accepted /\ chs = << >>
             \/ kind \in {"channels", "joined"} /\ chs = r.chs
      PROVE  Becomes(r, Delivery("cacher", kind, chs, msgs))
  BY <1>4 DEF Becomes, Delivery
<1>5. CASE ReadAccepted
  <2>1. PICK kind \in Accepted : r.kind = kind /\ Emit(kind, << >>, << >>) /\ hist' = hist
    BY <1>5 DEF ReadAccepted, Reads, Accepted
  <2>2. Becomes(r, Delivery("cacher", kind, << >>, << >>))
    BY <1>4, <2>1
  <2> QED
    BY <1>2, <1>3, <2>1, <2>2
<1>6. CASE ReadChannels
  <2>1. r.kind = "channels" /\ Emit("channels", r.chs, << >>) /\ hist' = hist
    BY <1>6 DEF ReadChannels, Reads, client
  <2> HIDE DEF r
  <2> QED
    BY <1>2, <1>3, <1>4, <2>1
<1>7. CASE ReadJoined
  <2>1. r.kind = "joined" /\ Emit("joined", r.chs, << >>) /\ hist' = hist
    BY <1>7 DEF ReadJoined, Reads, client
  <2> HIDE DEF r
  <2> QED
    BY <1>2, <1>3, <1>4, <2>1
<1>8. CASE ReadHistory \/ ReadEcho
  <2> DEFINE ch == r.chs[1]
             msgs == r.msgs
  <2>1. PICK kind \in {"history", "text"} :
           /\ r.kind \in {"history", "echo"}
           /\ hist' = [hist EXCEPT ![ch] = hist[ch] \o msgs]
           /\ Emit(kind, <<ch>>, msgs)
    BY <1>8 DEF ReadHistory, ReadEcho, Reads
  <2>2. r.chs \in One(Channels) /\ msgs \in Seq(Messages)
    BY <1>2, <2>1 DEF Responses
  <2>3. ch \in Channels /\ r.chs = <<ch>>
    BY <2>2, OneChannel
  <2>4. hist \in [Channels -> Seq(Messages)]
    BY DEF TypeOK
  <2> HIDE DEF r, ch, msgs
  <2>5. hist'[ch] = hist[ch] \o msgs /\ \A c \in Channels : c # ch => hist'[c] = hist[c]
    BY <2>1, <2>3, <2>4
  <2>6. Range(hist'[ch]) = Range(hist[ch]) \cup Range(msgs)
    BY <2>2, <2>3, <2>4, <2>5, RangeConcat
  <2>7. Becomes(r, Delivery("cacher", kind, r.chs, msgs))
    BY <2>1, <2>3, <2>5, <2>6 DEF Becomes, Delivery, msgs
  <2>8. Emit(kind, r.chs, msgs)
    BY <2>1, <2>3
  <2> QED
    BY <1>2, <1>3, <2>7, <2>8
<1> QED
  BY <1>5, <1>6, <1>7, <1>8 DEF IoStep

-----------------------------------------------------------------------------
(* What a step of the GUI thread moves                                     *)

\* Requests that are made while the client is online are on their way.
LEMMA SentRange ==
  ASSUME TypeOK, NEW reqs \in Seq(Requests), Send(reqs)
  PROVE  /\ Range(toServer) \subseteq Range(toServer')
         /\ Range(toServer') \subseteq Range(toServer) \cup Range(reqs)
         /\ phase = "online" => Range(reqs) \subseteq Range(toServer')
<1>1. toServer \in Seq(Requests)
  BY DEF TypeOK
<1>2. Range(toServer \o reqs) = Range(toServer) \cup Range(reqs)
  BY <1>1, RangeConcat
<1> QED
  BY <1>2 DEF Send

\* What a call makes the cacher ask for
Asks(e, reqs) ==
    \/ e.kind = "authorized" /\ \E q \in Range(reqs) : q.kind = "channels"
    \/ /\ e.kind = "channels"
       /\ \A ch \in Range(e.chs) : \E q \in Range(reqs) :
             q.kind = "history" /\ q.ch = ch /\ q.since = SinceBack(cache[ch])
    \/ /\ e.kind = "joined"
       /\ \E q \in Range(reqs) : /\ q.kind = "history" /\ e.chs = <<q.ch>>
                                 /\ q.since \in SincesNewest(hist[q.ch])

LEMMA GuiSends ==
  ASSUME TypeOK, GuiStep
  PROVE  \/ /\ UNCHANGED toServer
            /\ Head(events).to = "cacher" =>
                  Head(events).kind \notin {"authorized", "channels", "joined"}
         \/ \E reqs \in Seq(Requests) :
               /\ Send(reqs) /\ Asks(Head(events), reqs)
               /\ \A q \in Range(reqs) : q.kind # "join"
<1>1. events # << >> /\ Head(events) \in Events
  BY GuiTraffic
<1>2. CASE OnAuthorized
  <2> DEFINE q == Request("channels", "", NoTime)
  <2>1. Send(<<q>>) /\ Head(events).kind = "authorized"
    BY <1>2 DEF OnAuthorized, Slot, AskForChannels, ChannelsRequest
  <2>2. <<q>> \in Seq(Requests)
    BY ChannelsAsked
  <2>3. q.kind = "channels"
    BY DEF Request
  <2> HIDE DEF q
  <2>4. Range(<<q>>) = {q}
    BY RangeOne
  <2>5. Asks(Head(events), <<q>>)
    BY <2>1, <2>3, <2>4 DEF Asks
  <2> QED
    BY <2>1, <2>2, <2>3, <2>4, <2>5
<1>3. CASE OnChannelsReceived
  <2> DEFINE chs == Head(events).chs
             reqs == HistoriesOf(chs)
  <2>1. Head(events).kind = "channels" /\ Send(reqs)
    BY <1>3 DEF OnChannelsReceived, Slot, HistoriesOf
  <2>2. chs \in Seq(Channels)
    BY <1>1, <2>1 DEF Events
  <2>3. reqs \in Seq(Requests) /\ Len(reqs) = Len(chs)
    BY <2>2, HistoriesAsked DEF HistoriesOf, Load
  <2>4. \A i \in 1..Len(chs) : reqs[i] = HistoryRequest(chs[i], SinceBack(Load(chs[i])))
    BY <2>2, LenProperties DEF HistoriesOf
  <2> HIDE DEF reqs
  <2>5. \A i \in 1..Len(chs) : /\ reqs[i].kind = "history" /\ reqs[i].ch = chs[i]
                               /\ reqs[i].since = SinceBack(cache[chs[i]])
    <3>1. \A c, t : /\ HistoryRequest(c, t).kind = "history" /\ HistoryRequest(c, t).ch = c
                   /\ HistoryRequest(c, t).since = t
      BY DEF HistoryRequest, Request
    <3> HIDE DEF chs
    <3> QED
      BY <2>4, <3>1 DEF Load
  <2> HIDE DEF chs
  <2>6. /\ \A q : q \in Range(reqs) <=> \E i \in 1..Len(reqs) : reqs[i] = q
        /\ \A ch : ch \in Range(chs) <=> \E i \in 1..Len(chs) : chs[i] = ch
    BY <2>2, <2>3, RangeIs
  <2>7. \A ch \in Range(chs) : \E q \in Range(reqs) :
           q.kind = "history" /\ q.ch = ch /\ q.since = SinceBack(cache[ch])
    BY <2>3, <2>5, <2>6
  <2>8. Asks(Head(events), reqs)
    BY <2>1, <2>7 DEF Asks, chs
  <2>9. \A q \in Range(reqs) : q.kind # "join"
    BY <2>3, <2>5, <2>6
  <2> QED
    BY <2>1, <2>3, <2>8, <2>9
<1>4. CASE OnJoined
  <2> DEFINE ch == Head(events).chs[1]
  <2>1. Head(events).kind = "joined"
    BY <1>4 DEF OnJoined, Slot
  <2>2. PICK since \in SincesNewest(hist[ch]) : Send(<<HistoryRequest(ch, since)>>)
    BY <1>4 DEF OnJoined
  <2>3. ch \in Channels /\ Head(events).chs = <<ch>>
    <3>1. Head(events).chs \in One(Channels)
      BY <1>1, <2>1 DEF Events
    <3> QED
      BY <3>1, OneChannel
  <2> HIDE DEF ch
  <2> DEFINE q == HistoryRequest(ch, since)
  <2>4. <<q>> \in Seq(Requests)
    BY <2>3, HistoryAsked
  <2>5. q.kind = "history" /\ q.ch = ch /\ q.since = since
    BY DEF HistoryRequest, Request
  <2> HIDE DEF q
  <2>6. Range(<<q>>) = {q}
    BY RangeOne
  <2>7. Asks(Head(events), <<q>>)
    BY <2>1, <2>2, <2>3, <2>5, <2>6 DEF Asks
  <2>8. Send(<<q>>)
    BY <2>2 DEF q
  <2> QED
    BY <2>4, <2>5, <2>6, <2>7, <2>8
<1>5. CASE ChangeWindow \/ AddChannels \/ UpdateWidget
  BY <1>5 DEF ChangeWindow, AddChannels, UpdateWidget, Slot, link
<1>6. CASE OnRegistered \/ SaveMessages
  BY <1>6 DEF OnRegistered, SaveMessages, Slot, link
<1> QED
  BY <1>2, <1>3, <1>4, <1>5, <1>6 DEF GuiStep

\* A call goes, and what the cacher asks for because of it comes.
LEMMA GuiMoves ==
  ASSUME TypeOK, GuiStep
  PROVE  \E e \in Events :
            /\ e = Head(events) /\ e \in Range(events)
            /\ Range(events') \subseteq Range(events)
            /\ \A p \in Range(events) : p = e \/ p \in Range(events')
            /\ Range(toServer) \subseteq Range(toServer')
            /\ \A q \in Range(toServer') : q.kind = "join" => q \in Range(toServer)
            /\ e.to = "cacher" /\ e.kind \in {"authorized", "channels", "joined"}
                  /\ phase = "online" => Asks(e, toServer')
<1> DEFINE e == Head(events)
<1>1. events # << >> /\ events' = Tail(events) /\ e \in Range(events) /\ e \in Events
  BY GuiTraffic
<1>2. /\ Range(events') \subseteq Range(events)
      /\ \A p \in Range(events) : p = e \/ p \in Range(events')
  BY <1>1, RangeTail DEF TypeOK
<1>3. CASE /\ UNCHANGED toServer
           /\ e.to = "cacher" => e.kind \notin {"authorized", "channels", "joined"}
  BY <1>1, <1>2, <1>3
<1>4. ASSUME NEW reqs \in Seq(Requests), Send(reqs), Asks(e, reqs),
             \A q \in Range(reqs) : q.kind # "join"
      PROVE  /\ Range(toServer) \subseteq Range(toServer')
             /\ \A q \in Range(toServer') : q.kind = "join" => q \in Range(toServer)
             /\ phase = "online" => Asks(e, toServer')
  <2> HIDE DEF e
  <2>1. /\ Range(toServer) \subseteq Range(toServer')
        /\ Range(toServer') \subseteq Range(toServer) \cup Range(reqs)
        /\ phase = "online" => Range(reqs) \subseteq Range(toServer')
    BY <1>4, SentRange
  <2> QED
    BY <1>4, <2>1 DEF Asks
<1> QED
  BY <1>1, <1>2, <1>3, <1>4, GuiSends

-----------------------------------------------------------------------------
(* Only channels of the user are under way                                 *)

LEMMA ServerOwn ==
  ASSUME TypeOK, AllIdentified, OwnChannels, ServerStep
  PROVE  OwnChannels'
<1>1. PICK q, r : /\ q \in Requests
                  /\ q \in Range(toServer) /\ Range(toServer') \subseteq Range(toServer)
                  /\ Range(toClient') = Range(toClient) \cup {r}
                  /\ Answers(q, r)
  BY ServerMoves
<1>2. events' = events
  BY ServerTraffic
<1>3. subs \subseteq subs'
  BY <1>1 DEF Answers
<1>4. \A c : Range(<<c>>) = {c}
  BY RangeOne
<1>5. Range(r.chs) \subseteq subs'
  <2>1. CASE Range(r.chs) = subs
    BY <1>3, <2>1
  <2>2. CASE r.chs = <<q.ch>> /\ q.kind \in {"history", "join"}
    <3>1. Range(r.chs) = {q.ch}
      BY <1>4, <2>2
    <3>2. q.ch \in subs'
      BY <1>1, <2>2 DEF Answers, OwnChannels
    <3> QED
      BY <3>1, <3>2
  <2> QED
    BY <1>1, <2>1, <2>2 DEF Answers
<1> QED
  BY <1>1, <1>2, <1>3, <1>5 DEF OwnChannels

LEMMA IoOwn ==
  ASSUME TypeOK, TypeOK', OwnChannels, IoStep, fault' = "none"
  PROVE  OwnChannels'
<1>1. UNCHANGED <<subs, toServer>>
  BY IoTraffic
<1>2. CASE SetLoginId
  BY <1>1, <1>2 DEF SetLoginId, link, OwnChannels
<1>3. CASE ~SetLoginId
  <2>1. PICK r, c, e : /\ r \in Range(toClient)
                       /\ Range(toClient') \subseteq Range(toClient)
                       /\ Range(events') = Range(events) \cup {c, e}
                       /\ c.chs = e.chs
                       /\ Becomes(r, e)
    BY <1>3, IoMoves
  <2>2. Range(e.chs) \subseteq Range(r.chs)
    BY <2>1, RangeOne DEF Becomes
  <2>3. Range(r.chs) \subseteq subs
    BY <2>1 DEF OwnChannels
  <2> QED
    BY <1>1, <2>1, <2>2, <2>3 DEF OwnChannels
<1> QED
  BY <1>2, <1>3

LEMMA GuiOwn ==
  ASSUME TypeOK, OwnChannels, GuiStep
  PROVE  OwnChannels'
<1>1. /\ UNCHANGED <<subs, toClient>> /\ Range(events') \subseteq Range(events)
      /\ Head(events) \in Range(events)
  BY GuiTraffic
<1>2. ASSUME NEW q \in Range(toServer'), q.kind = "history"
      PROVE  q.ch \in subs
  <2>1. Asked(q.ch, q.since)'
    BY <1>2 DEF Asked
  <2>2. CASE Asked(q.ch, q.since)
    BY <2>2 DEF Asked, OwnChannels
  <2>3. CASE ~Asked(q.ch, q.since)
    <3>1. q.ch \in Range(Head(events).chs) \/ Head(events).chs = <<q.ch>>
      BY <2>1, <2>3, GuiAsks
    <3>2. q.ch \in Range(<<q.ch>>)
      BY RangeOne
    <3> QED
      BY <1>1, <3>1, <3>2 DEF OwnChannels
  <2> QED
    BY <2>2, <2>3
<1> QED
  BY <1>1, <1>2 DEF OwnChannels

LEMMA RestOwn ==
  ASSUME TypeOK, IdInv, Flow, OwnChannels, UserStep \/ Cut \/ Crash
  PROVE  OwnChannels'
<1>1. CASE \E ch \in Channels : Post(ch)
  <2>1. PICK ch \in Channels : Post(ch)
    BY <1>1
  <2> DEFINE r == Response("echo", <<ch>>, <<Len(posted) + 1>>)
  <2>2. \/ toClient' = toClient
        \/ toClient' = Append(toClient, r) /\ ch \in subs
    BY <2>1 DEF Post
  <2>3. UNCHANGED <<subs, toServer, events>>
    BY <2>1 DEF Post
  <2>4. Range(r.chs) = {ch}
    BY RangeOne DEF Response
  <2> HIDE DEF r
  <2>5. Range(Append(toClient, r)) = Range(toClient) \cup {r}
    BY RangeAppend DEF TypeOK
  <2> QED
    BY <2>2, <2>3, <2>4, <2>5 DEF OwnChannels
<1>2. CASE \E ch \in Channels : UserJoins(ch)
  <2>1. PICK ch \in Channels : UserJoins(ch)
    BY <1>2
  <2>2. UNCHANGED <<subs, toClient, events>>
    BY <2>1 DEF UserJoins, server
  <2>3. \A q \in Range(toServer') : q.kind = "history" => q.ch \in subs
    <3> SUFFICES ASSUME NEW q \in Range(toServer'), q.kind = "history" PROVE q.ch \in subs
      OBVIOUS
    <3>1. Asked(q.ch, q.since)'
      BY DEF Asked
    <3>2. Asked(q.ch, q.since)
      BY <2>1, <3>1, RestTraffic
    <3> QED
      BY <3>2 DEF Asked, OwnChannels
  <2> QED
    BY <2>2, <2>3 DEF OwnChannels
<1>3. CASE Cut
  <2>1. PICK n \in 0..Len(toClient) : toClient' = SubSeq(toClient, 1, n)
    BY <1>3 DEF Cut
  <2>2. Range(SubSeq(toClient, 1, n)) \subseteq Range(toClient)
    BY RangePrefix DEF TypeOK
  <2>3. toServer' = << >> /\ UNCHANGED <<subs, events>>
    BY <1>3 DEF Cut, server
  <2> QED
    BY <2>1, <2>2, <2>3, RangeOne DEF OwnChannels
<1>4. CASE Crash
  BY <1>4, RangeOne DEF Crash, Forgotten, OwnChannels
<1>5. CASE Login \/ Register
  <2>1. PICK kind \in Accepted : Connect(kind)
    BY <1>5 DEF Login, Register, Accepted
  <2> DEFINE r == Response(kind, << >>, << >>)
  <2>2. toClient' = <<r>> /\ UNCHANGED <<toServer, events>> /\ phase = "offline"
    BY <2>1 DEF Connect
  <2>3. r.chs = << >>
    BY DEF Response
  <2> HIDE DEF r
  <2>4. toServer = << >> /\ events = << >>
    BY <2>2 DEF IdInv, AcceptedFirst, Flow, NotRunning
  <2>5. Range(<<r>>) = {r} /\ Range(<< >>) = {}
    BY RangeOne
  <2> QED
    BY <2>2, <2>3, <2>4, <2>5 DEF OwnChannels
<1> QED
  BY <1>1, <1>2, <1>3, <1>4, <1>5 DEF UserStep

-----------------------------------------------------------------------------
(* No gap is made                                                          *)

\* What is later than what was asked for leaves nothing out.
LEMMA AnswerCompletes ==
  ASSUME TypeOK, Clock, NEW ch, NEW since \in Nat, CompleteFrom(ch, since),
         NEW msgs \in Ascending(PostedSince(ch, since))
  PROVE  Complete(ch, msgs)
<1>1. /\ Range(msgs) = PostedSince(ch, since)
      /\ \A m : m \in PostedSince(ch, since) <=>
                   m \in Messages /\ posted[m].ch = ch /\ Time(m) > since
  BY PostedSinceIs, AscendingIs
<1>2. \A m \in Of(ch) : Time(m) \in Nat
  BY DEF Clock, Of
<1>3. \A m \in Of(ch) : Time(m) > since \/ Time(m) <= since
  BY <1>2
<1> QED
  BY <1>1, <1>3 DEF Complete, CompleteFrom, Of

\* The time of the last row is one to ask from, if no row leaves a gap.
LEMMA BackCompletes ==
  ASSUME TypeOK, Clock, Gapless, NEW ch \in Channels
  PROVE  /\ CompleteFrom(ch, SinceBack(cache[ch]))
         /\ \A m \in Of(ch) : Time(m) <= SinceBack(cache[ch]) => Covered(ch, m)
<1>1. ASSUME NEW m \in Of(ch), Time(m) <= SinceBack(cache[ch])
      PROVE  Covered(ch, m)
  <2>1. CASE cache[ch] = << >>
    BY <1>1, <2>1 DEF SinceBack, NoTime, Clock, Of
  <2>2. CASE cache[ch] # << >>
    <3> DEFINE last == cache[ch][Len(cache[ch])]
    <3>1. SinceBack(cache[ch]) = Time(last)
      BY <2>2 DEF SinceBack
    <3>2. last \in Range(cache[ch])
      <4>1. cache[ch] \in Seq(Messages)
        BY RangesTyped
      <4>2. Len(cache[ch]) \in 1..Len(cache[ch]) /\ DOMAIN cache[ch] = 1..Len(cache[ch])
        BY <2>2, <4>1, LenProperties, TailAt
      <4> QED
        BY <4>2 DEF Range
    <3> QED
      BY <1>1, <3>1, <3>2 DEF Gapless, Reached
  <2> QED
    BY <2>1, <2>2
<1> QED
  BY <1>1 DEF CompleteFrom

\* The latest time in memory is before what is later than memory ...
LEMMA NewestBefore ==
  ASSUME Clock, NEW ch, NEW since \in SincesNewest(hist[ch]), NEW m \in Of(ch), Later(ch, m)
  PROVE  since < Time(m)
<1>1. CASE hist[ch] = << >>
  BY <1>1 DEF SincesNewest, NoTime, Clock, Of
<1>2. CASE hist[ch] # << >>
  <2>1. PICK i \in DOMAIN hist[ch] : since = Time(hist[ch][i])
    BY <1>2 DEF SincesNewest
  <2> QED
    BY <2>1 DEF Later, Range
<1> QED
  BY <1>1, <1>2

\* ... and one to ask from, if memory is saved and what it lacks later.
LEMMA NewestCompletes ==
  ASSUME TypeOK, Clock, NEW ch \in Channels, NEW since \in SincesNewest(hist[ch]),
         \A m \in Of(ch) : m \in Range(hist[ch]) \/ Covered(ch, m) \/ Later(ch, m),
         \A m \in Range(hist[ch]) : Insertable(m) => Covered(ch, m)
  PROVE  /\ CompleteFrom(ch, since)
         /\ \A m \in Of(ch) : m \in Range(hist[ch]) \/ Covered(ch, m) \/ since < Time(m)
<1>1. \A m \in Of(ch) : Later(ch, m) => since < Time(m)
  BY NewestBefore
<1>2. since \in Nat
  <2>1. posted \in Seq([ch : Channels, time : Nat, quoted : BOOLEAN])
    BY DEF TypeOK
  <2>2. hist[ch] \in Seq(Messages)
    BY RangesTyped
  <2> QED
    BY <2>1, <2>2, SinceType
<1>3. \A m \in Of(ch) : Time(m) \in Nat
  BY DEF Of, Clock
<1>4. \A m \in Of(ch) : ~(since < Time(m) /\ Time(m) <= since)
  BY <1>2, <1>3
<1> QED
  BY <1>1, <1>4 DEF CompleteFrom

\* Rows that are a beginning of complete messages make no gap.
LEMMA SaveGapless ==
  ASSUME TypeOK, Clock, Gapless, UNCHANGED posted, NEW ch \in Channels,
         NEW msgs \in Seq(Messages), Complete(ch, msgs),
         NEW part \in Seq(Messages), Range(part) \subseteq Range(msgs),
         \A x \in Range(part), m \in Range(msgs) : m < x => m \in Range(part),
         Save(ch, part)
  PROVE  Gapless'
<1>1. /\ \A other \in Channels : other # ch => cache'[other] = cache[other]
      /\ Range(cache'[ch]) = Range(cache[ch]) \cup {m \in Range(part) : Insertable(m)}
  BY SaveIs
<1>2. Range(part) \subseteq Messages /\ Range(cache[ch]) \subseteq Messages /\ Len(posted) \in Nat
  BY RangeIs, RangesTyped, LenProperties DEF TypeOK
<1>3. \A m : Time(m)' = Time(m) /\ (Insertable(m)' <=> Insertable(m))
  BY DEF Time, Insertable
<1>4. \A c : Of(c)' = Of(c)
  BY DEF Of, Messages
<1> SUFFICES ASSUME NEW c \in Channels, NEW m \in Of(c), Reached(c, m)'
             PROVE  Covered(c, m)'
  BY <1>4 DEF Gapless
<1>5. CASE c # ch
  <2>1. Reached(c, m)
    BY <1>1, <1>3, <1>5 DEF Reached
  <2>2. Covered(c, m)
    BY <2>1 DEF Gapless
  <2> QED
    BY <1>1, <1>5, <2>2, CoveredStays
<1>6. CASE c = ch
  <2>1. Covered(ch, m) => Covered(ch, m)'
    BY <1>1, CoveredStays
  <2>2. PICK n \in Range(cache'[ch]) : Time(m) <= Time(n)
    BY <1>3, <1>6 DEF Reached
  <2>3. CASE n \in Range(cache[ch])
    BY <1>6, <2>1, <2>2, <2>3 DEF Gapless, Reached
  <2>4. CASE n \notin Range(cache[ch])
    <3>1. n \in Range(part) /\ Insertable(n)
      BY <1>1, <2>4
    <3>2. /\ m \in Messages /\ n \in Messages /\ Time(m) \in Nat /\ Time(n) \in Nat
      BY <1>2, <3>1 DEF Of, Clock
    <3>3. CASE Time(m) = Time(n) \/ ~Insertable(m)
      <4>1. Time(n) = Time(m) \/ (Time(n) > Time(m) /\ ~Insertable(m))
        BY <2>2, <3>2, <3>3
      <4> QED
        BY <1>3, <1>6, <4>1 DEF Covered
    <3>4. CASE Time(m) < Time(n) /\ Insertable(m)
      <4>1. ~(Time(n) <= Time(m))
        BY <3>2, <3>4
      <4>2. Covered(ch, m) \/ m \in Range(msgs)
        BY <1>6, <3>1, <3>4, <4>1 DEF Complete
      <4>3. m < n
        BY <1>2, <3>2, <3>4, LaterTime
      <4>4. m \in Range(msgs) => m \in Range(cache'[ch])
        BY <1>1, <3>1, <3>4, <4>3
      <4>5. m \in Range(cache'[ch]) => Covered(ch, m)'
        BY <1>3 DEF Covered
      <4> QED
        BY <1>6, <2>1, <4>2, <4>4, <4>5
    <3> QED
      BY <2>2, <3>2, <3>3, <3>4
  <2> QED
    BY <2>3, <2>4
<1> QED
  BY <1>5, <1>6

\* What comes before a message of a beginning is in the beginning.
LEMMA PrefixDown ==
  ASSUME NEW s \in Seq(Nat), Ascends(s), NEW n \in 0..Len(s)
  PROVE  /\ Range(SubSeq(s, 1, n)) \subseteq Range(s)
         /\ \A x \in Range(SubSeq(s, 1, n)), m \in Range(s) :
               m < x => m \in Range(SubSeq(s, 1, n))
<1> DEFINE part == SubSeq(s, 1, n)
<1>1. /\ part \in Seq(Nat) /\ Len(part) = n
      /\ \A i \in 1..n : i \in 1..Len(s) /\ part[i] = s[i]
  BY PrefixIs
<1>2. Range(part) \subseteq Range(s)
  BY RangePrefix
<1> HIDE DEF part
<1>3. /\ \A x : x \in Range(part) <=> \E i \in 1..Len(part) : part[i] = x
      /\ \A x : x \in Range(s) <=> \E i \in 1..Len(s) : s[i] = x
      /\ Len(s) \in Nat
  BY <1>1, RangeIs
<1>4. ASSUME NEW i \in 1..n, NEW j \in 1..Len(s), s[j] < part[i]
      PROVE  s[j] \in Range(part)
  <2>1. i \in 1..Len(s) /\ part[i] = s[i] /\ s[i] \in Nat /\ s[j] \in Nat
    BY <1>1, LenProperties
  <2>2. ~(i < j) /\ i # j
    BY <1>4, <2>1 DEF Ascends
  <2>3. j \in 1..n /\ part[j] = s[j]
    BY <1>1, <2>2
  <2> QED
    BY <1>1, <1>3, <2>3
<1>5. \A x \in Range(part), m \in Range(s) : m < x => m \in Range(part)
  <2> SUFFICES ASSUME NEW x \in Range(part), NEW m \in Range(s), m < x PROVE m \in Range(part)
    OBVIOUS
  <2>1. PICK i \in 1..n : part[i] = x
    BY <1>1, <1>3
  <2>2. PICK j \in 1..Len(s) : s[j] = m
    BY <1>3
  <2> QED
    BY <1>4, <2>1, <2>2
<1> QED
  BY <1>2, <1>5 DEF part

\* Messages on their way are complete and in order.
LEMMA TrafficReady ==
  ASSUME TypeOK, Ordered, Completes, NEW ch \in Channels, NEW msgs,
         Arriving(ch, msgs) \/ Saving(ch, msgs)
  PROVE  /\ Complete(ch, msgs) /\ Ascends(msgs)
         /\ msgs \in Seq(Messages) /\ msgs \in Seq(Nat)
<1>1. msgs \in Seq(Messages)
  BY TrafficTyped
<1>2. Messages \subseteq Nat
  BY DEF Messages
<1>3. msgs \in Seq(Nat)
  BY <1>1, <1>2, SeqMonotonic
<1> QED
  BY <1>1, <1>3 DEF Completes, Ordered, ArrivalsFollow, Follows, InOrder

LEMMA ServerComplete ==
  ASSUME TypeOK, Ordered, NoGap, AllIdentified, ServerStep
  PROVE  (Gapless /\ Completes /\ CompletesFrom /\ HistorySaved /\ OthersSaved)'
<1>1. /\ UNCHANGED <<posted, phase, cache, events, hist, loaded>>
      /\ \A ch, since : Asked(ch, since)' => Asked(ch, since)
      /\ \A ch, msgs : Arriving(ch, msgs)' =>
            \/ Arriving(ch, msgs)
            \/ \E since \in Nat : Asked(ch, since) /\ msgs \in Ascending(PostedSince(ch, since))
  BY ServerTraffic
<1>2. subs \subseteq subs'
  BY ServerMoves DEF Answers
<1>3. Gapless'
  BY <1>1 DEF NoGap, Gapless, Of, Messages, Reached, Covered, Time, Insertable
<1>4. CompletesFrom'
  <2> SUFFICES ASSUME NEW ch \in Channels, NEW since, Asked(ch, since)'
               PROVE  CompleteFrom(ch, since)'
    BY DEF CompletesFrom
  <2>1. CompleteFrom(ch, since)
    BY <1>1 DEF NoGap, CompletesFrom
  <2> QED
    BY <1>1, <2>1, CompleteFromStays
<1>5. Completes'
  <2> SUFFICES ASSUME NEW ch \in Channels, NEW msgs, (Arriving(ch, msgs) \/ Saving(ch, msgs))'
               PROVE  Complete(ch, msgs)'
    BY DEF Completes
  <2>1. Saving(ch, msgs)' => Saving(ch, msgs)
    BY <1>1 DEF Saving
  <2>2. CASE Arriving(ch, msgs) \/ Saving(ch, msgs)
    <3>1. Complete(ch, msgs)
      BY <2>2 DEF NoGap, Completes
    <3> QED
      BY <1>1, <3>1, CompleteStays
  <2>3. ASSUME NEW since \in Nat, Asked(ch, since), msgs \in Ascending(PostedSince(ch, since))
        PROVE  Complete(ch, msgs)'
    <3>1. CompleteFrom(ch, since)
      BY <2>3 DEF NoGap, CompletesFrom
    <3>2. Complete(ch, msgs)
      BY <2>3, <3>1, AnswerCompletes DEF Ordered
    <3> QED
      BY <1>1, <3>2, CompleteStays
  <2> QED
    BY <1>1, <2>1, <2>2, <2>3
<1>6. HistorySaved' /\ OthersSaved'
  BY <1>1, <1>2 DEF NoGap, HistorySaved, OthersSaved, Insertable, Saving
<1> QED
  BY <1>3, <1>4, <1>5, <1>6

LEMMA IoComplete ==
  ASSUME TypeOK, TypeOK', NoGap, IoStep, fault' = "none"
  PROVE  (Gapless /\ Completes /\ CompletesFrom /\ HistorySaved /\ OthersSaved)'
<1>1. /\ UNCHANGED <<posted, subs, phase, toServer, cache, loaded>>
      /\ Range(toClient') \subseteq Range(toClient)
      /\ \A ch \in Channels : \A msgs : Saving(ch, msgs)' => Saving(ch, msgs) \/ Arriving(ch, msgs)
  BY IoTraffic
<1>2. Gapless'
  BY <1>1 DEF NoGap, Gapless, Of, Messages, Reached, Covered, Time, Insertable
<1>3. CompletesFrom'
  <2> SUFFICES ASSUME NEW ch \in Channels, NEW since, Asked(ch, since)'
               PROVE  CompleteFrom(ch, since)'
    BY DEF CompletesFrom
  <2>1. CompleteFrom(ch, since)
    BY <1>1 DEF NoGap, CompletesFrom, Asked
  <2> QED
    BY <1>1, <2>1, CompleteFromStays
<1>4. Completes'
  <2> SUFFICES ASSUME NEW ch \in Channels, NEW msgs, (Arriving(ch, msgs) \/ Saving(ch, msgs))'
               PROVE  Complete(ch, msgs)'
    BY DEF Completes
  <2>1. Arriving(ch, msgs)' => Arriving(ch, msgs)
    BY <1>1 DEF Arriving
  <2>2. Complete(ch, msgs)
    BY <1>1, <2>1 DEF NoGap, Completes
  <2> QED
    BY <1>1, <2>2, CompleteStays
<1>5. CASE SetLoginId
  <2>1. UNCHANGED <<hist, events>>
    BY <1>5 DEF SetLoginId
  <2> QED
    BY <1>1, <1>2, <1>3, <1>4, <2>1 DEF NoGap, HistorySaved, OthersSaved, Insertable, Saving
<1>6. CASE ~SetLoginId
  <2>1. PICK r, e : /\ r \in Range(toClient) /\ e \in Range(events')
                    /\ Range(events) \subseteq Range(events')
                    /\ Becomes(r, e)
    BY <1>6, IoMoves
  <2>2. \A ch \in Channels : \A msgs : Saving(ch, msgs) => Saving(ch, msgs)'
    BY <2>1 DEF Saving
  <2>3. CASE hist' = hist
    BY <1>1, <1>2, <1>3, <1>4, <2>2, <2>3 DEF NoGap, HistorySaved, OthersSaved, Insertable
  <2>4. CASE r.kind \in {"history", "echo"}
    <3>1. PICK ch \in Channels :
             /\ e.to = "cacher" /\ e.kind \in {"history", "text"} /\ e.chs = <<ch>>
             /\ r.chs = <<ch>> /\ e.msgs = r.msgs
             /\ Range(hist'[ch]) = Range(hist[ch]) \cup Range(r.msgs)
             /\ \A c \in Channels : c # ch => hist'[c] = hist[c]
      BY <2>1, <2>4 DEF Becomes, Accepted
    <3>2. Saving(ch, r.msgs)'
      BY <2>1, <3>1 DEF Saving
    <3>3. ch \in subs
      <4>1. Range(<<ch>>) = {ch}
        BY RangeOne
      <4> QED
        BY <2>1, <3>1, <4>1 DEF NoGap, OwnChannels
    <3>4. HistorySaved'
      <4> SUFFICES ASSUME loaded, NEW c \in Channels, NEW m \in Range(hist'[c]), Insertable(m)
                   PROVE  \/ m \in Range(cache[c])
                          \/ \E msgs : Saving(c, msgs)' /\ m \in Range(msgs)
        BY <1>1 DEF HistorySaved, Insertable
      <4>1. CASE m \in Range(hist[c])
        BY <2>2, <4>1 DEF NoGap, HistorySaved
      <4>2. CASE m \notin Range(hist[c])
        BY <3>1, <3>2, <4>2
      <4> QED
        BY <4>1, <4>2
    <3>5. OthersSaved'
      BY <1>1, <3>1, <3>3 DEF NoGap, OthersSaved
    <3> QED
      BY <1>2, <1>3, <1>4, <3>4, <3>5
  <2> QED
    BY <2>1, <2>3, <2>4 DEF Becomes
<1> QED
  BY <1>5, <1>6

LEMMA SaveComplete ==
  ASSUME TypeOK, Flow, Ordered, NoGap, SaveMessages
  PROVE  /\ Gapless' /\ HistorySaved' /\ OthersSaved'
         /\ \A ch \in Channels : Range(cache[ch]) \subseteq Range(cache'[ch])
<1>1. GuiStep /\ UNCHANGED <<posted, subs, hist, loaded>>
  BY DEF GuiStep, SaveMessages, server, client
<1>2. PICK ch \in Channels, msgs \in Seq(Messages) :
         /\ Saving(ch, msgs) /\ Save(ch, msgs)
         /\ Head(events).chs = <<ch>> /\ Head(events).msgs = msgs
  BY SavedIs
<1>3. /\ \A other \in Channels : other # ch => cache'[other] = cache[other]
      /\ Range(cache'[ch]) = Range(cache[ch]) \cup {m \in Range(msgs) : Insertable(m)}
  BY <1>2, SaveIs
<1>4. \A c \in Channels : Range(cache[c]) \subseteq Range(cache'[c])
  BY <1>3
<1>5. Gapless'
  <2>1. Complete(ch, msgs)
    BY <1>2 DEF NoGap, Completes
  <2> QED
    BY <1>1, <1>2, <2>1, SaveGapless DEF Ordered, NoGap
<1>6. HistorySaved'
  <2> SUFFICES ASSUME loaded, NEW c \in Channels, NEW m \in Range(hist[c]), Insertable(m),
                      m \notin Range(cache'[c])
               PROVE  \E ms : Saving(c, ms)' /\ m \in Range(ms)
    BY <1>1 DEF HistorySaved, Insertable
  <2>1. PICK ms : Saving(c, ms) /\ m \in Range(ms)
    BY <1>4 DEF NoGap, HistorySaved
  <2>2. PICK e \in Range(events) : /\ e.to = "cacher" /\ e.kind \in {"history", "text"}
                                   /\ e.chs = <<c>> /\ e.msgs = ms
    BY <2>1 DEF Saving
  <2>3. e = Head(events) \/ e \in Range(events')
    <3>1. events # << >> /\ events' = Tail(events) /\ events \in Seq(Events)
      BY <1>1, GuiTraffic DEF TypeOK
    <3> QED
      BY <3>1, RangeTail
  <2>4. e # Head(events)
    <3> SUFFICES ASSUME e = Head(events) PROVE FALSE
      OBVIOUS
    <3>1. <<c>> = <<ch>> /\ ms = msgs
      BY <1>2, <2>2
    <3>2. c = ch
      BY <3>1, <<c>>[1] = c, <<ch>>[1] = ch
    <3> QED
      BY <1>3, <2>1, <3>1, <3>2
  <2>5. Saving(c, ms)'
    BY <2>2, <2>3, <2>4 DEF Saving
  <2> QED
    BY <2>1, <2>5
<1>7. OthersSaved'
  BY <1>1, <1>4 DEF NoGap, OthersSaved
<1> QED
  BY <1>4, <1>5, <1>6, <1>7

LEMMA LoadComplete ==
  ASSUME TypeOK, Remembered, NoGap, OnAuthorized
  PROVE  Gapless' /\ HistorySaved' /\ OthersSaved'
<1>1. UNCHANGED <<posted, subs, cache>>
  BY DEF OnAuthorized, server
<1>2. Gapless'
  BY <1>1 DEF NoGap, Gapless, Of, Messages, Reached, Covered, Time, Insertable
<1>3. \A c \in Channels : \A m \in Range(hist'[c]) : m \in Range(cache[c]) \/ m \in Range(hist[c])
  <2> SUFFICES ASSUME NEW c \in Channels
               PROVE  Range(hist'[c]) = Range(hist[c]) \cup Range(cache[c])
    OBVIOUS
  <2>1. hist'[c] = hist[c] \o cache[c]
    BY DEF OnAuthorized, Load
  <2>2. hist[c] \in Seq(Messages) /\ cache[c] \in Seq(Messages)
    BY RangesTyped
  <2>3. Range(hist[c] \o cache[c]) = Range(hist[c]) \cup Range(cache[c])
    BY <2>2, RangeConcat
  <2> QED
    BY <2>1, <2>3
<1>4. \A c \in Channels : hist[c] = << >> => Range(hist[c]) = {}
  BY RangeOne
<1>5. ~loaded => \A c \in Channels : Range(hist[c]) = {}
  BY <1>4 DEF Remembered, NotLoaded
<1>6. \A c : \A ms : Saving(c, ms) => Saving(c, ms)'
  <2> SUFFICES ASSUME NEW e \in Range(events), e.kind \in {"history", "text"}
               PROVE  e \in Range(events')
    BY DEF Saving
  <2>1. GuiStep /\ Head(events).kind = "authorized"
    BY DEF GuiStep, OnAuthorized, Slot
  <2>2. events # << >> /\ events' = Tail(events) /\ events \in Seq(Events)
    BY <2>1, GuiTraffic DEF TypeOK
  <2>3. e = Head(events) \/ e \in Range(events')
    BY <2>2, RangeTail
  <2> QED
    BY <2>1, <2>3
<1>7. HistorySaved'
  <2> SUFFICES ASSUME NEW c \in Channels, NEW m \in Range(hist'[c]), Insertable(m),
                      m \notin Range(cache[c])
               PROVE  \E ms : Saving(c, ms)' /\ m \in Range(ms)
    BY <1>1 DEF HistorySaved, Insertable
  <2>1. loaded /\ m \in Range(hist[c])
    BY <1>3, <1>5
  <2>2. \E ms : Saving(c, ms) /\ m \in Range(ms)
    BY <2>1 DEF NoGap, HistorySaved
  <2> QED
    BY <1>6, <2>2
<1>8. OthersSaved'
  BY <1>1, <1>3, <1>5 DEF NoGap, OthersSaved
<1> QED
  BY <1>2, <1>7, <1>8

\* The other calls leave memory and rows alone.
LEMMA OtherCalls ==
  ASSUME TypeOK, NoGap, GuiStep, ~SaveMessages, ~OnAuthorized
  PROVE  Gapless' /\ HistorySaved' /\ OthersSaved' /\ UNCHANGED <<hist, cache, loaded>>
<1>1. UNCHANGED <<posted, subs>> /\ events # << >> /\ events' = Tail(events)
  BY GuiTraffic
<1>2. UNCHANGED <<hist, cache, loaded>>
  BY DEF GuiStep, ChangeWindow, OnRegistered, AddChannels, OnChannelsReceived, OnJoined,
         UpdateWidget, client
<1>3. Gapless'
  BY <1>1, <1>2 DEF NoGap, Gapless, Of, Messages, Reached, Covered, Time, Insertable
<1>4. Head(events).to = "cacher" => Head(events).kind \notin {"history", "text"}
  BY DEF GuiStep, ChangeWindow, OnRegistered, AddChannels, OnChannelsReceived, OnJoined,
         UpdateWidget, Slot
<1>5. \A e \in Range(events) : e = Head(events) \/ e \in Range(events')
  BY <1>1, RangeTail DEF TypeOK
<1>6. \A c : \A ms : Saving(c, ms) => Saving(c, ms)'
  BY <1>4, <1>5 DEF Saving
<1>7. HistorySaved' /\ OthersSaved'
  BY <1>1, <1>2, <1>6 DEF NoGap, HistorySaved, OthersSaved, Insertable
<1> QED
  BY <1>2, <1>3, <1>7

\* What the cacher asks for leaves nothing out.
LEMMA AsksCompletely ==
  ASSUME TypeOK, IdInv', Flow, Remembered, Ordered, NoGap, GuiStep,
         NEW ch, NEW since, Asked(ch, since)', ~Asked(ch, since)
  PROVE  CompleteFrom(ch, since)
<1>1. /\ ch \in Channels
      /\ events # << >> /\ Head(events).to = "cacher"
      /\ \/ /\ Head(events).kind = "channels" /\ ch \in Range(Head(events).chs)
            /\ since = SinceBack(cache[ch])
         \/ /\ Head(events).kind = "joined" /\ Head(events).chs = <<ch>>
            /\ since \in SincesNewest(hist[ch])
  BY GuiAsks
<1>2. phase = "online"
  <2>1. toServer' # << >>
    BY RangeOne DEF Asked
  <2>2. phase' = phase
    BY GuiTraffic
  <2> QED
    BY <2>1, <2>2 DEF IdInv, AcceptedFirst
<1>3. CASE Head(events).kind = "channels"
  BY <1>1, <1>3, BackCompletes DEF NoGap, Ordered
<1>4. CASE Head(events).kind = "joined"
  <2>1. Head(events) \in Range(events) /\ events' = Tail(events)
    BY GuiTraffic
  <2>2. loaded /\ Joining(ch)
    BY <1>1, <1>4, <2>1 DEF Remembered, NotLoaded, Joining
  <2>3. \A m \in Of(ch) : m \in Range(hist[ch]) \/ Covered(ch, m) \/ Later(ch, m)
    BY <1>1, <1>2, <2>2 DEF NoGap, JoinsAhead
  <2>4. \A msgs : ~Saving(ch, msgs)
    <3> SUFFICES ASSUME NEW msgs, Saving(ch, msgs) PROVE FALSE
      OBVIOUS
    <3>1. ~Saving(ch, msgs)'
      BY <1>1, <1>4, <2>1, SavedAlone
    <3>2. PICK e \in Range(events) : /\ e.to = "cacher" /\ e.kind \in {"history", "text"}
                                     /\ e.chs = <<ch>> /\ e.msgs = msgs
      BY DEF Saving
    <3>3. e = Head(events) \/ e \in Range(events')
      BY <1>1, <2>1, RangeTail DEF TypeOK
    <3> QED
      BY <1>4, <3>1, <3>2, <3>3 DEF Saving
  <2>5. \A m \in Range(hist[ch]) : Insertable(m) => Covered(ch, m)
    BY <1>1, <2>2, <2>4, RowCovered DEF NoGap, HistorySaved
  <2> QED
    BY <1>1, <1>4, <2>3, <2>5, NewestCompletes DEF Ordered
<1> QED
  BY <1>1, <1>3, <1>4

LEMMA CallsComplete ==
  ASSUME TypeOK, Flow, Remembered, Ordered, NoGap, GuiStep
  PROVE  /\ Gapless' /\ HistorySaved' /\ OthersSaved'
         /\ \A ch \in Channels : Range(cache[ch]) \subseteq Range(cache'[ch])
<1>1. CASE SaveMessages
  BY <1>1, SaveComplete
<1>2. CASE OnAuthorized
  BY <1>2, LoadComplete DEF OnAuthorized
<1>3. CASE ~SaveMessages /\ ~OnAuthorized
  BY <1>3, OtherCalls
<1> QED
  BY <1>1, <1>2, <1>3

LEMMA GuiComplete ==
  ASSUME TypeOK, IdInv', Flow, Remembered, Ordered, NoGap, GuiStep
  PROVE  (Gapless /\ Completes /\ CompletesFrom /\ HistorySaved /\ OthersSaved)'
<1>1. /\ UNCHANGED <<posted, subs, phase, toClient>>
      /\ \A ch \in Channels : \A msgs : Saving(ch, msgs)' => Saving(ch, msgs)
  BY GuiTraffic
<1>2. /\ Gapless' /\ HistorySaved' /\ OthersSaved'
      /\ \A ch \in Channels : Range(cache[ch]) \subseteq Range(cache'[ch])
  BY CallsComplete
<1>3. Completes'
  <2> SUFFICES ASSUME NEW ch \in Channels, NEW msgs, (Arriving(ch, msgs) \/ Saving(ch, msgs))'
               PROVE  Complete(ch, msgs)'
    BY DEF Completes
  <2>1. Complete(ch, msgs)
    BY <1>1 DEF NoGap, Completes, Arriving
  <2> QED
    BY <1>1, <1>2, <2>1, CompleteStays
<1>4. CompletesFrom'
  <2> SUFFICES ASSUME NEW ch \in Channels, NEW since, Asked(ch, since)'
               PROVE  CompleteFrom(ch, since)'
    BY DEF CompletesFrom
  <2>1. CompleteFrom(ch, since)
    BY AsksCompletely DEF NoGap, CompletesFrom
  <2> QED
    BY <1>1, <1>2, <2>1, CompleteFromStays
<1> QED
  BY <1>2, <1>3, <1>4

\* A message that is posted is the latest; the others stay what they were.
LEMMA PostAdds ==
  ASSUME TypeOK, Ordered', NEW here \in Channels, Post(here), NEW new, new = Len(posted) + 1
  PROVE  /\ \A m \in Messages : /\ m \in Messages' /\ Time(m)' = Time(m)
                                /\ (Insertable(m)' <=> Insertable(m))
                                /\ (Time(m) <= Time(new))'
         /\ \A c : \A m \in Of(c)' : m \in Of(c) \/ (m = new /\ c = here)
         /\ new \in Of(here)'
<1>1. /\ Len(posted) \in Nat /\ Len(posted') = Len(posted) + 1
      /\ \A m \in 1..Len(posted) : posted'[m] = posted[m]
      /\ posted'[Len(posted) + 1].ch = here
  BY PostGrows
<1>2. /\ \A m \in Messages : m \in Messages' /\ posted'[m] = posted[m] /\ m \in Nat /\ m <= new - 1
      /\ \A m \in Messages' : m \in Messages \/ m = new
      /\ new \in Messages' /\ new \in Nat
  BY <1>1 DEF Messages
<1>3. \A m \in Messages' : Time(m)' \in Nat /\ (m - 1 <= Time(m))' /\ (Time(m) <= m)'
  BY DEF Ordered, Clock
<1>4. ASSUME NEW m \in Messages PROVE (Time(m) <= Time(new))'
  <2>1. /\ Time(m)' \in Nat /\ (Time(m) <= m)' /\ Time(new)' \in Nat /\ (new - 1 <= Time(new))'
        /\ m \in Nat /\ m <= new - 1
    BY <1>2, <1>3
  <2> QED
    BY <2>1
<1>5. \A m \in Messages : Time(m)' = Time(m) /\ (Insertable(m)' <=> Insertable(m))
  BY <1>2 DEF Time, Insertable
<1>6. \A c : \A m \in Of(c)' : m \in Of(c) \/ (m = new /\ c = here)
  BY <1>1, <1>2 DEF Of
<1>7. new \in Of(here)'
  BY <1>1, <1>2 DEF Of
<1> QED
  BY <1>2, <1>4, <1>5, <1>6, <1>7

LEMMA PostCovered ==
  ASSUME TypeOK, Ordered', NEW here \in Channels, Post(here), NEW ch \in Channels,
         NEW m \in Messages, Covered(ch, m)
  PROVE  Covered(ch, m)'
<1>1. \A k \in Messages : Time(k)' = Time(k) /\ (Insertable(k)' <=> Insertable(k))
  BY PostAdds
<1>2. Range(cache[ch]) \subseteq Messages /\ cache' = cache
  BY RangesTyped DEF Post
<1> QED
  BY <1>1, <1>2 DEF Covered

\* A row of the same second is all that can lie beyond a new message.
LEMMA PostReached ==
  ASSUME TypeOK, Ordered', NEW here \in Channels, Post(here),
         NEW new, new = Len(posted) + 1, NEW ch \in Channels, Reached(ch, new)'
  PROVE  Covered(ch, new)'
<1>1. \A k \in Messages : (Time(k) <= Time(new))'
  BY PostAdds
<1>2. Range(cache[ch]) \subseteq Messages /\ cache' = cache /\ new \in Messages'
  BY RangesTyped, PostAdds DEF Post, Of
<1>3. PICK n \in Range(cache[ch]) : (Time(new) <= Time(n))'
  BY <1>2 DEF Reached
<1>4. Time(new)' \in Nat /\ Time(n)' \in Nat
  BY <1>2, PostAdds DEF Ordered, Clock
<1>5. Time(n)' = Time(new)'
  BY <1>1, <1>2, <1>3, <1>4
<1> QED
  BY <1>2, <1>5 DEF Covered

\* When the client is online and nothing is under way, memory has what no row
\* makes the client pass over.
LEMMA SettledHas ==
  ASSUME Remembered, NoGap, Settled
  PROVE  /\ loaded /\ \A ch \in subs : \A m \in Of(ch) : m \in Range(hist[ch]) \/ Covered(ch, m)
         /\ \A ch : \A msgs : ~Arriving(ch, msgs) /\ ~Saving(ch, msgs)
         /\ \A ch : ~Joining(ch) /\ \A since : ~Asked(ch, since)
<1>1. toServer = << >> /\ toClient = << >> /\ events = << >> /\ phase = "online" /\ mainShown
  BY DEF Settled
<1>2. Range(toServer) = {} /\ Range(toClient) = {} /\ Range(events) = {}
  BY <1>1, RangeOne
<1>3. loaded
  BY <1>1 DEF Remembered, ShownLoaded
<1>4. \A ch : \A m : ~Coming(ch, m)
  BY <1>2 DEF Coming, AskedAll, Told, Asked, Arriving
<1> QED
  BY <1>1, <1>2, <1>3, <1>4 DEF NoGap, AllComing, Arriving, Saving, Joining, Asked

LEMMA PostComplete ==
  ASSUME Calm, TypeOK, IdInv, Remembered, Ordered, Ordered', NoGap,
         NEW here \in Channels, Post(here)
  PROVE  (Gapless /\ Completes /\ CompletesFrom /\ HistorySaved /\ OthersSaved)'
<1>0. PICK new : new = Len(posted) + 1
  OBVIOUS
<1>1. /\ \A m \in Messages : /\ m \in Messages' /\ Time(m)' = Time(m)
                             /\ (Insertable(m)' <=> Insertable(m))
                             /\ (Time(m) <= Time(new))'
      /\ \A c : \A m \in Of(c)' : m \in Of(c) \/ (m = new /\ c = here)
  BY <1>0, PostAdds
<1>2. UNCHANGED <<subs, phase, toServer, hist, events, cache, loaded>>
  BY DEF Post, client
<1>3. \A c : \A m \in Of(c) : m \in Messages
  BY DEF Of
<1>4. \A c \in Channels : Range(cache[c]) \subseteq Messages /\ Range(hist[c]) \subseteq Messages
  BY RangesTyped
<1>5. \A c \in Channels : \A m \in Messages : Covered(c, m) => Covered(c, m)'
  BY PostCovered
<1>6. phase = "online" /\ here \in subs => Settled
  BY DEF Post
<1>7. Gapless'
  <2> SUFFICES ASSUME NEW ch \in Channels, NEW m \in Of(ch)', Reached(ch, m)'
               PROVE  Covered(ch, m)'
    BY DEF Gapless
  <2>1. CASE m \in Of(ch)
    <3>1. Reached(ch, m)
      BY <1>1, <1>2, <1>3, <1>4, <2>1 DEF Reached
    <3> QED
      BY <1>3, <1>5, <2>1, <3>1 DEF NoGap, Gapless
  <2>2. CASE m = new
    BY <1>0, <2>2, PostReached
  <2> QED
    BY <1>1, <2>1, <2>2
<1>8. CompletesFrom'
  <2> SUFFICES ASSUME NEW ch \in Channels, NEW since, Asked(ch, since),
                      NEW m \in Of(ch)', Insertable(m)', Time(m)' <= since
               PROVE  Covered(ch, m)'
    BY <1>2 DEF CompletesFrom, CompleteFrom, Asked
  <2>1. CASE m \in Of(ch)
    <3>1. Covered(ch, m)
      BY <1>1, <1>3, <2>1 DEF NoGap, CompletesFrom, CompleteFrom
    <3> QED
      BY <1>3, <1>5, <2>1, <3>1
  <2>2. ~(ch = here)
    <3> SUFFICES ASSUME ch = here PROVE FALSE
      OBVIOUS
    <3>1. here \in subs
      BY DEF Asked, NoGap, OwnChannels
    <3>2. phase = "online"
      BY RangeOne DEF Asked, IdInv, AcceptedFirst
    <3> QED
      BY <1>6, <3>1, <3>2, SettledHas
  <2> QED
    BY <1>1, <2>1, <2>2
<1>9. Completes'
  <2> SUFFICES ASSUME NEW ch \in Channels, NEW msgs, (Arriving(ch, msgs) \/ Saving(ch, msgs))',
                      NEW m \in Of(ch)', Insertable(m)'
               PROVE  \/ Covered(ch, m)' \/ m \in Range(msgs)
                      \/ phase # "online" /\ \A k \in Range(msgs) : Time(k)' <= Time(m)'
    BY <1>2 DEF Completes, Complete
  <2>1. CASE Arriving(ch, msgs) \/ Saving(ch, msgs)
    <3>1. Range(msgs) \subseteq Messages
      BY <2>1, TrafficTyped
    <3>2. Complete(ch, msgs)
      BY <2>1 DEF NoGap, Completes
    <3>3. CASE m \in Of(ch)
      <4>1. Insertable(m) /\ m \in Messages
        BY <1>1, <1>3, <3>3
      <4> QED
        BY <1>1, <1>5, <3>1, <3>2, <3>3, <4>1 DEF Complete
    <3>4. CASE m = new /\ ch = here
      <4>1. here \in subs
        <5>1. Range(<<ch>>) = {ch}
          BY RangeOne
        <5> QED
          BY <2>1, <3>4, <5>1 DEF Arriving, Saving, NoGap, OwnChannels
      <4>2. phase # "online"
        BY <1>6, <2>1, <4>1, SettledHas
      <4> QED
        BY <1>1, <3>1, <3>4, <4>2
    <3> QED
      BY <1>1, <3>3, <3>4
  <2>2. CASE ~(Arriving(ch, msgs) \/ Saving(ch, msgs))
    <3>1. Saving(ch, msgs)' => Saving(ch, msgs)
      BY <1>2 DEF Saving
    <3>2. /\ ch = here /\ msgs = <<new>>
          /\ phase = "online" /\ here \in subs
      BY <1>0, <2>2, <3>1, PostTraffic
    <3>3. Range(msgs) = {new}
      BY <3>2, RangeOne
    <3>4. CASE m \in Of(ch)
      <4>1. m \in Range(hist[ch]) \/ Covered(ch, m)
        BY <1>6, <3>2, <3>4, SettledHas
      <4>2. Covered(ch, m)
        <5>1. loaded /\ \A ms : ~Saving(ch, ms)
          BY <1>6, <3>2, SettledHas
        <5>2. Insertable(m)
          BY <1>1, <1>3, <3>4
        <5> QED
          BY <4>1, <5>1, <5>2, RowCovered DEF NoGap, HistorySaved
      <4> QED
        BY <1>3, <1>5, <3>4, <4>2
    <3> QED
      BY <1>1, <3>3, <3>4
  <2> QED
    BY <2>1, <2>2
<1>10. HistorySaved' /\ OthersSaved'
  <2>1. HistorySaved'
    BY <1>1, <1>2, <1>4 DEF NoGap, HistorySaved, Saving
  <2>2. OthersSaved'
    BY <1>2 DEF NoGap, OthersSaved
  <2> QED
    BY <2>1, <2>2
<1> QED
  BY <1>7, <1>8, <1>9, <1>10

LEMMA CrashComplete ==
  ASSUME TypeOK, Ordered, NoGap, Crash
  PROVE  (Gapless /\ Completes /\ CompletesFrom /\ HistorySaved /\ OthersSaved)'
<1>1. /\ toServer' = << >> /\ toClient' = << >> /\ events' = << >> /\ UNCHANGED posted
      /\ ~loaded'
  BY DEF Crash, Forgotten, server
<1>2. Range(<< >>) = {}
  BY RangeOne
<1>3. (Completes /\ CompletesFrom /\ HistorySaved /\ OthersSaved)'
  BY <1>1, <1>2 DEF Completes, CompletesFrom, Arriving, Saving, Asked, HistorySaved, OthersSaved
<1>4. CASE UNCHANGED cache
  <2>1. Gapless'
    BY <1>1, <1>4 DEF NoGap, Gapless, Of, Messages, Reached, Covered, Time, Insertable
  <2> QED
    BY <1>3, <2>1
<1>5. ASSUME NEW ch \in Channels, NEW msgs \in Seq(Messages), NEW n \in 0..Len(msgs),
             Saving(ch, msgs), Save(ch, SubSeq(msgs, 1, n))
      PROVE  Gapless'
  <2>1. Complete(ch, msgs) /\ Ascends(msgs) /\ msgs \in Seq(Nat)
    BY <1>5, TrafficReady DEF NoGap
  <2> DEFINE part == SubSeq(msgs, 1, n)
  <2>2. part \in Seq(Messages)
    BY RangePrefix
  <2>3. /\ Range(part) \subseteq Range(msgs)
        /\ \A x \in Range(part), m \in Range(msgs) : m < x => m \in Range(part)
    BY <2>1, PrefixDown
  <2>4. Save(ch, part)
    BY <1>5
  <2> HIDE DEF part
  <2> QED
    BY <1>1, <2>1, <2>2, <2>3, <2>4, SaveGapless DEF Ordered, NoGap
<1> QED
  BY <1>3, <1>4, <1>5, CrashSaves

LEMMA RestComplete ==
  ASSUME TypeOK, Flow, Remembered, NoGap,
         Cut \/ Login \/ Register \/ \E ch \in Channels : UserJoins(ch)
  PROVE  (Gapless /\ Completes /\ CompletesFrom /\ HistorySaved /\ OthersSaved)'
<1>1. /\ UNCHANGED posted
      /\ \A ch, msgs : Arriving(ch, msgs)' => Arriving(ch, msgs)
      /\ \A ch, msgs : Saving(ch, msgs)' => Saving(ch, msgs)
      /\ \A ch, since : Asked(ch, since)' => Asked(ch, since)
  BY RestTraffic
<1>2. UNCHANGED <<hist, events, cache, loaded>>
  BY DEF Cut, Login, Register, Connect, UserJoins, client
<1>3. Gapless'
  BY <1>1, <1>2 DEF NoGap, Gapless, Of, Messages, Reached, Covered, Time, Insertable
<1>4. CompletesFrom'
  <2> SUFFICES ASSUME NEW ch \in Channels, NEW since, Asked(ch, since)'
               PROVE  CompleteFrom(ch, since)'
    BY DEF CompletesFrom
  <2>1. CompleteFrom(ch, since)
    BY <1>1 DEF NoGap, CompletesFrom
  <2> QED
    BY <1>1, <1>2, <2>1, CompleteFromStays
<1>5. Completes'
  <2> SUFFICES ASSUME NEW ch \in Channels, NEW msgs, (Arriving(ch, msgs) \/ Saving(ch, msgs))'
               PROVE  Complete(ch, msgs)'
    BY DEF Completes
  <2>1. Complete(ch, msgs)
    BY <1>1 DEF NoGap, Completes
  <2>2. phase' = "online" => phase = "online"
    <3>1. CASE Login \/ Register
      <4>1. PICK kind \in Accepted : Connect(kind)
        BY <3>1 DEF Login, Register, Accepted
      <4> DEFINE r == Response(kind, << >>, << >>)
      <4>2. toClient' = <<r>> /\ phase = "offline" /\ r.kind = kind
        BY <4>1 DEF Connect, Response
      <4> HIDE DEF r
      <4>3. Range(<<r>>) = {r} /\ Range(<< >>) = {}
        BY RangeOne
      <4>4. ~Arriving(ch, msgs)'
        BY <4>2, <4>3 DEF Arriving, Accepted
      <4>5. events' = << >>
        BY <1>2, <4>2 DEF Flow, NotRunning
      <4> QED
        BY <4>3, <4>4, <4>5 DEF Saving
    <3>2. CASE Cut \/ \E c \in Channels : UserJoins(c)
      BY <3>2 DEF Cut, UserJoins
    <3> QED
      BY <3>1, <3>2
  <2> QED
    BY <1>1, <1>2, <2>1, <2>2, CompleteStays
<1>6. HistorySaved'
  BY <1>1, <1>2 DEF NoGap, HistorySaved, Insertable, Saving
<1>7. OthersSaved'
  <2>1. subs' = subs \/ phase = "offline"
    BY DEF Cut, Login, Register, Connect, UserJoins, server
  <2> QED
    BY <1>2, <2>1 DEF NoGap, OthersSaved, Remembered
<1> QED
  BY <1>3, <1>4, <1>5, <1>6, <1>7

-----------------------------------------------------------------------------
(* What memory lacks when a channel is joined                              *)

\* While a channel is being joined, nothing gets into memory.
LEMMA JoiningAlone ==
  ASSUME TypeOK, Flow, NEW ch, Joining(ch)
  PROVE  /\ \A r \in Range(toClient) : r.kind = "joined"
         /\ \A e \in Range(events) : e.kind = "joined"
<1>1. ~Histories
  <2> SUFFICES ASSUME Histories PROVE FALSE
    OBVIOUS
  <2>1. /\ Range(toServer) \subseteq HistoryRequests
        /\ Range(toClient) \subseteq HistoryResponses
        /\ Range(events) \subseteq HistoryCalls
    BY RangeIs DEF Histories
  <2> QED
    BY <2>1 DEF Joining, HistoryRequests, HistoryResponses, HistoryCalls
<1>2. Range(<< >>) = {}
  BY RangeOne
<1>3. CASE LoneRequest
  BY <1>2, <1>3 DEF LoneRequest
<1>4. CASE LoneResponse
  <2>1. PICK r : toServer = << >> /\ toClient = <<r>> /\ events = << >>
    BY <1>4 DEF LoneResponse
  <2>2. Range(<<r>>) = {r}
    BY RangeOne
  <2> QED
    BY <1>2, <2>1, <2>2 DEF Joining
<1>5. CASE LoneSignal
  <2>1. PICK e \in Events : /\ e.to = "cacher" /\ toServer = << >> /\ toClient = << >>
                            /\ events = Pair(e) \/ events = <<e>>
    BY <1>5 DEF LoneSignal
  <2>2. Range(events) \subseteq {Delivery("control", e.kind, e.chs, e.msgs), e}
    <3> DEFINE c == Delivery("control", e.kind, e.chs, e.msgs)
    <3>1. Pair(e) = <<c, e>>
      BY DEF Pair
    <3> HIDE DEF c
    <3>2. DOMAIN <<c, e>> = {1, 2} /\ <<c, e>>[1] = c /\ <<c, e>>[2] = e
      OBVIOUS
    <3>3. Range(<<c, e>>) = {c, e} /\ Range(<<e>>) = {e}
      BY <3>2, RangeOne DEF Range
    <3> QED
      BY <2>1, <3>1, <3>3 DEF c
  <2>3. Delivery("control", e.kind, e.chs, e.msgs).to = "control"
        /\ Delivery("control", e.kind, e.chs, e.msgs).kind = e.kind
    BY DEF Delivery
  <2>4. e.kind = "joined"
    BY <1>2, <2>1, <2>2, <2>3 DEF Joining
  <2> QED
    BY <1>2, <2>1, <2>2, <2>3, <2>4
<1> QED
  BY <1>1, <1>3, <1>4, <1>5 DEF Flow, OneKind

\* A step that adds no joining, and nothing to the messages or to memory
LEMMA JoinsStay ==
  ASSUME NoGap, UNCHANGED posted, phase' = "online" => phase = "online",
         \A ch \in Channels : /\ Range(cache[ch]) \subseteq Range(cache'[ch])
                              /\ Joining(ch)' => Joining(ch) /\ hist'[ch] = hist[ch]
  PROVE  JoinsAhead'
<1> SUFFICES ASSUME phase' = "online", NEW ch \in Channels, Joining(ch)', NEW m \in Of(ch)'
             PROVE  m \in Range(hist'[ch]) \/ Covered(ch, m)' \/ Later(ch, m)'
  BY DEF JoinsAhead
<1>1. m \in Of(ch) /\ Joining(ch) /\ hist'[ch] = hist[ch]
  BY DEF Of, Messages
<1>2. m \in Range(hist[ch]) \/ Covered(ch, m) \/ Later(ch, m)
  BY <1>1 DEF NoGap, JoinsAhead
<1>3. Covered(ch, m) => Covered(ch, m)'
  BY CoveredStays
<1> QED
  BY <1>1, <1>2, <1>3 DEF Later, Time

LEMMA ServerAhead ==
  ASSUME TypeOK, AllIdentified, NoGap, ServerStep
  PROVE  JoinsAhead'
<1>1. PICK q, r : /\ q \in Requests
                  /\ q \in Range(toServer) /\ Range(toServer') \subseteq Range(toServer)
                  /\ Range(toClient') = Range(toClient) \cup {r}
                  /\ Answers(q, r)
  BY ServerMoves
<1>2. UNCHANGED <<posted, phase, cache, events, hist>>
  BY ServerTraffic
<1>3. ASSUME NEW ch, Joining(ch)', ~Joining(ch) PROVE FALSE
  <2>1. r.kind = "joined" /\ r.chs = <<ch>>
    BY <1>1, <1>2, <1>3 DEF Joining
  <2>2. q.kind = "join" /\ <<q.ch>> = <<ch>>
    BY <1>1, <2>1 DEF Answers
  <2>3. q.ch = ch
    BY <2>2, <<q.ch>>[1] = q.ch, <<ch>>[1] = ch
  <2> QED
    BY <1>1, <1>3, <2>2, <2>3 DEF Joining
<1> QED
  BY <1>2, <1>3, JoinsStay

LEMMA IoAhead ==
  ASSUME TypeOK, TypeOK', Flow, NoGap, IoStep, fault' = "none"
  PROVE  JoinsAhead'
<1>1. UNCHANGED <<posted, phase, toServer, cache>>
  BY IoTraffic
<1>2. CASE SetLoginId
  BY <1>1, <1>2, JoinsStay DEF SetLoginId, link, Joining
<1>3. CASE ~SetLoginId
  <2>1. PICK r, c, e : /\ r \in Range(toClient)
                       /\ Range(toClient') \subseteq Range(toClient)
                       /\ Range(events') = Range(events) \cup {c, e}
                       /\ c.to = "control"
                       /\ Becomes(r, e)
    BY <1>3, IoMoves
  <2>2. ASSUME NEW ch, Joining(ch)' PROVE Joining(ch)
    BY <1>1, <2>1, <2>2 DEF Joining, Becomes, Accepted
  <2>3. ASSUME NEW ch, Joining(ch) PROVE hist' = hist
    <3>1. r.kind = "joined"
      BY <2>1, <2>3, JoiningAlone
    <3> QED
      BY <2>1, <3>1 DEF Becomes
  <2> QED
    BY <1>1, <2>2, <2>3, JoinsStay
<1> QED
  BY <1>2, <1>3

LEMMA GuiAhead ==
  ASSUME TypeOK, Flow, Remembered, Ordered, NoGap, GuiStep
  PROVE  JoinsAhead'
<1>1. /\ UNCHANGED <<posted, phase, toClient>> /\ Range(events') \subseteq Range(events)
      /\ Head(events) \in Range(events)
  BY GuiTraffic
<1>2. \A q \in Range(toServer') : q.kind = "join" => q \in Range(toServer)
  BY GuiMoves
<1>3. \A ch : Joining(ch)' => Joining(ch)
  BY <1>1, <1>2 DEF Joining
<1>4. ASSUME NEW ch, Joining(ch) PROVE hist' = hist
  <2>1. ~OnAuthorized
    BY <1>1, <1>4, JoiningAlone DEF OnAuthorized, Slot
  <2>2. CASE SaveMessages
    BY <2>2 DEF SaveMessages, client
  <2>3. CASE ~SaveMessages
    BY <2>1, <2>3, OtherCalls
  <2> QED
    BY <2>2, <2>3
<1>5. \A ch \in Channels : Range(cache[ch]) \subseteq Range(cache'[ch])
  BY CallsComplete
<1> QED
  BY <1>1, <1>3, <1>4, <1>5, JoinsStay

\* Memory that is saved is earlier than what no row reaches.
LEMMA SavedIsEarlier ==
  ASSUME TypeOK, Clock, Gapless, NEW ch \in Channels, Range(hist[ch]) \subseteq Range(cache[ch]),
         NEW m \in Of(ch)
  PROVE  Covered(ch, m) \/ Later(ch, m)
<1> SUFFICES ASSUME NEW k \in Range(hist[ch]), ~(Time(k) < Time(m)) PROVE Covered(ch, m)
  BY DEF Later
<1>1. k \in Messages /\ m \in Messages
  BY RangesTyped DEF Of
<1>2. Time(k) \in Nat /\ Time(m) \in Nat
  BY <1>1 DEF Clock
<1>3. Time(m) <= Time(k)
  BY <1>2
<1>4. Reached(ch, m)
  BY <1>3 DEF Reached
<1> QED
  BY <1>4 DEF Gapless

LEMMA PostAhead ==
  ASSUME Calm, TypeOK, TypeOK', Remembered, Ordered, Ordered', NoGap, Gapless',
         NEW here \in Channels, Post(here)
  PROVE  JoinsAhead'
<1>0. PICK new : new = Len(posted) + 1
  OBVIOUS
<1>1. /\ \A m \in Messages : /\ m \in Messages' /\ Time(m)' = Time(m)
                             /\ (Insertable(m)' <=> Insertable(m))
                             /\ (Time(m) <= Time(new))'
      /\ \A c : \A m \in Of(c)' : m \in Of(c) \/ (m = new /\ c = here)
  BY <1>0, PostAdds
<1>2. UNCHANGED <<subs, phase, toServer, hist, events, cache, loaded>>
  BY DEF Post, client
<1>3. ASSUME NEW ch, Joining(ch)' PROVE Joining(ch)
  <2> DEFINE r == Response("echo", <<here>>, <<Len(posted) + 1>>)
  <2>1. toClient' = toClient \/ toClient' = Append(toClient, r)
    BY DEF Post
  <2>2. r.kind = "echo"
    BY DEF Response
  <2> HIDE DEF r
  <2>3. Range(Append(toClient, r)) = Range(toClient) \cup {r}
    BY RangeAppend DEF TypeOK
  <2> QED
    BY <1>2, <1>3, <2>1, <2>2, <2>3 DEF Joining
<1> SUFFICES ASSUME phase = "online", NEW ch \in Channels, Joining(ch), NEW m \in Of(ch)'
             PROVE  m \in Range(hist[ch]) \/ Covered(ch, m)' \/ Later(ch, m)'
  BY <1>2, <1>3 DEF JoinsAhead
<1>4. Range(hist[ch]) \subseteq Messages
  BY RangesTyped
<1>5. CASE m \in Of(ch)
  <2>1. m \in Messages
    BY <1>5 DEF Of
  <2>2. m \in Range(hist[ch]) \/ Covered(ch, m) \/ Later(ch, m)
    BY <1>5 DEF NoGap, JoinsAhead
  <2>3. Covered(ch, m) => Covered(ch, m)'
    BY <2>1, PostCovered
  <2>4. Later(ch, m) => Later(ch, m)'
    BY <1>1, <1>2, <1>4, <2>1 DEF Later
  <2> QED
    BY <2>2, <2>3, <2>4
<1>6. CASE ch = here /\ here \notin subs
  <2>1. loaded
    <3> SUFFICES ASSUME ~loaded PROVE FALSE
      OBVIOUS
    <3>1. /\ Range(toServer) = {}
          /\ \A r \in Range(toClient) : r.kind = "authorized"
          /\ \A e \in Range(events) : e.kind = "authorized"
      BY RangeOne DEF Remembered, NotLoaded
    <3> QED
      BY <3>1 DEF Joining
  <2>2. Range(hist[ch]) \subseteq Range(cache[ch])
    BY <1>6, <2>1 DEF NoGap, OthersSaved
  <2>3. (Range(hist[ch]) \subseteq Range(cache[ch]))'
    BY <1>2, <2>2
  <2> SUFFICES ASSUME m = new, NEW k \in Range(hist[ch]), ~(Time(k) < Time(m))' PROVE Covered(ch, m)'
    BY <1>1, <1>2, <1>5 DEF Later
  <2>4. k \in Range(cache'[ch]) /\ k \in Messages'
    BY <1>1, <1>4, <2>3, <1>2
  <2>5. m \in Messages'
    BY DEF Of
  <2>6. (Time(k) \in Nat)' /\ (Time(m) \in Nat)'
    BY <2>4, <2>5 DEF Ordered, Clock
  <2>7. (Time(m) <= Time(k))'
    BY <2>6
  <2>8. Reached(ch, m)'
    BY <2>4, <2>7 DEF Reached
  <2> QED
    BY <2>8 DEF Gapless
<1>7. CASE ch = here /\ here \in subs
  <2>1. Settled
    BY <1>7 DEF Post
  <2> QED
    BY <2>1, SettledHas
<1> QED
  BY <1>1, <1>5, <1>6, <1>7

LEMMA RestAhead ==
  ASSUME Calm, TypeOK, IdInv, Flow, Remembered, Ordered, NoGap,
         Cut \/ Crash \/ Login \/ Register \/ \E ch \in Channels : UserJoins(ch)
  PROVE  JoinsAhead'
<1>1. CASE Cut \/ Crash
  BY <1>1 DEF Cut, Crash, JoinsAhead
<1>2. CASE Login \/ Register
  <2>1. PICK kind \in Accepted : Connect(kind)
    BY <1>2 DEF Login, Register, Accepted
  <2> DEFINE r == Response(kind, << >>, << >>)
  <2>2. /\ toClient' = <<r>> /\ r.kind = kind /\ UNCHANGED <<toServer, events>>
        /\ phase = "offline"
    BY <2>1 DEF Connect, Response
  <2> HIDE DEF r
  <2>3. toServer = << >> /\ events = << >>
    BY <2>2 DEF IdInv, AcceptedFirst, Flow, NotRunning
  <2>4. Range(<<r>>) = {r} /\ Range(<< >>) = {}
    BY RangeOne
  <2>5. \A ch : ~Joining(ch)'
    BY <2>2, <2>3, <2>4 DEF Joining, Accepted
  <2> QED
    BY <2>5 DEF JoinsAhead
<1>3. ASSUME NEW here \in Channels, UserJoins(here)
      PROVE  JoinsAhead'
  <2>1. UNCHANGED <<posted, subs, phase, toClient, hist, events, cache>>
    BY <1>3 DEF UserJoins, server, client
  <2>2. Settled
    BY <1>3 DEF UserJoins
  <2>3. ASSUME NEW ch, Joining(ch)' PROVE ch = here
    <3> DEFINE q == Request("join", here, NoTime)
    <3>1. Send(<<q>>)
      BY <1>3 DEF UserJoins, JoinRequest
    <3>2. <<q>> \in Seq(Requests)
      BY JoinAsked
    <3>3. q.ch = here
      BY DEF Request
    <3> HIDE DEF q
    <3>4. Range(<<q>>) = {q}
      BY RangeOne
    <3>5. Range(toServer') \subseteq Range(toServer) \cup {q}
      BY <3>1, <3>2, <3>4, SentRange
    <3>6. ~Joining(ch)
      BY <2>2, SettledHas
    <3> QED
      BY <2>1, <2>3, <3>3, <3>5, <3>6 DEF Joining
  <2> SUFFICES ASSUME NEW m \in Of(here)
               PROVE  m \in Range(hist[here]) \/ Covered(here, m) \/ Later(here, m)
    BY <2>1, <2>3 DEF JoinsAhead, Of, Messages, Covered, Later, Time, Insertable
  <2>4. CASE here \in subs
    BY <2>2, <2>4, SettledHas
  <2>5. CASE here \notin subs
    <3>1. Range(hist[here]) \subseteq Range(cache[here])
      BY <2>2, <2>5, SettledHas DEF NoGap, OthersSaved
    <3> QED
      BY <3>1, SavedIsEarlier DEF NoGap, Ordered
  <2> QED
    BY <2>4, <2>5
<1> QED
  BY <1>1, <1>2, <1>3

-----------------------------------------------------------------------------
(* What memory lacks is on its way                                         *)

LEMMA ServerComing ==
  ASSUME TypeOK, AllIdentified, NoGap, ServerStep
  PROVE  AllComing'
<1>1. PICK q, r : /\ q \in Requests /\ q \in Range(toServer)
                  /\ \A p \in Range(toServer) : p = q \/ p \in Range(toServer')
                  /\ Range(toClient') = Range(toClient) \cup {r}
                  /\ Answers(q, r)
  BY ServerMoves
<1>2. UNCHANGED <<posted, phase, cache, events, hist, loaded>>
  BY ServerTraffic
<1>3. \A c : c \in Range(<<c>>)
  BY RangeOne
<1> SUFFICES ASSUME phase = "online", loaded, NEW ch \in Channels, ch \in subs', NEW m \in Of(ch),
                    m \notin Range(hist[ch]), ~Covered(ch, m)
             PROVE  Coming(ch, m)'
  <2>1. \A c : Of(c)' = Of(c) /\ \A n : Covered(c, n)' <=> Covered(c, n)
    BY <1>2 DEF Of, Messages, Covered, Time, Insertable
  <2>2. subs' \subseteq Channels
    <3>1. q.kind = "join" => q.ch \in Channels
      BY <1>1 DEF Requests
    <3> QED
      BY <1>1, <3>1 DEF Answers, TypeOK
  <2> QED
    BY <1>2, <2>1, <2>2 DEF AllComing
<1>4. CASE ch \notin subs
  <2>1. r.kind = "joined" /\ r.chs = <<ch>>
    BY <1>1, <1>4 DEF Answers
  <2> QED
    BY <1>1, <1>3, <2>1 DEF Coming, Told
<1>5. CASE ch \in subs
  <2>1. Coming(ch, m)
    BY <1>5 DEF NoGap, AllComing
  <2>2. CASE AskedAll
    <3>1. PICK p \in Range(toServer) : p.kind = "channels"
      BY <2>2 DEF AskedAll
    <3>2. CASE p = q
      BY <1>1, <1>5, <3>1, <3>2 DEF Answers, Coming, Told
    <3> QED
      BY <1>1, <3>1, <3>2 DEF Coming, AskedAll
  <2>3. CASE Told(ch)
    BY <1>1, <1>2, <2>3 DEF Coming, Told
  <2>4. ASSUME NEW since, Asked(ch, since), since < Time(m)
        PROVE  Coming(ch, m)'
    <3>1. PICK p \in Range(toServer) : p.kind = "history" /\ p.ch = ch /\ p.since = since
      BY <2>4 DEF Asked
    <3>2. CASE p = q
      <4>1. r.kind = "history" /\ r.chs = <<ch>> /\ Range(r.msgs) = PostedSince(ch, since)
        BY <1>1, <3>1, <3>2 DEF Answers
      <4>2. m \in PostedSince(ch, since)
        <5>1. p.since \in Nat /\ Time(m) > since
          BY <2>4, <3>1, RangesTyped DEF Requests
        <5> QED
          BY <5>1, PostedSinceIs DEF Of
      <4>3. Arriving(ch, r.msgs)'
        BY <1>1, <4>1 DEF Arriving
      <4> QED
        BY <4>1, <4>2, <4>3 DEF Coming
    <3>3. CASE p # q
      <4>1. Asked(ch, since)'
        BY <1>1, <3>1, <3>3 DEF Asked
      <4>2. (since < Time(m))'
        BY <1>2, <2>4 DEF Time
      <4> QED
        BY <4>1, <4>2 DEF Coming
    <3> QED
      BY <3>2, <3>3
  <2>5. CASE \E msgs : Arriving(ch, msgs) /\ m \in Range(msgs)
    BY <1>1, <2>5 DEF Coming, Arriving
  <2> QED
    BY <2>1, <2>2, <2>3, <2>4, <2>5 DEF Coming
<1> QED
  BY <1>4, <1>5

LEMMA IoComing ==
  ASSUME TypeOK, TypeOK', NoGap, IoStep, fault' = "none"
  PROVE  AllComing'
<1>1. /\ UNCHANGED <<posted, subs, phase, toServer, cache, loaded>>
      /\ \A ch \in Channels : Range(hist[ch]) \subseteq Range(hist'[ch])
  BY IoTraffic
<1>2. \A ch : Of(ch)' = Of(ch) /\ \A m : Covered(ch, m)' <=> Covered(ch, m)
  BY <1>1 DEF Of, Messages, Covered, Time, Insertable
<1> SUFFICES ASSUME phase = "online", loaded, NEW ch \in subs, NEW m \in Of(ch), Coming(ch, m)
             PROVE  m \in Range(hist'[ch]) \/ Coming(ch, m)'
  <2>1. \A c \in subs : c \in Channels
    BY DEF TypeOK
  <2> QED
    BY <1>1, <1>2, <2>1 DEF NoGap, AllComing
<1>3. CASE SetLoginId
  <2>1. UNCHANGED <<toClient, events>>
    BY <1>3 DEF SetLoginId, link
  <2> QED
    BY <1>1, <2>1 DEF Coming, AskedAll, Told, Asked, Arriving, Time
<1>4. CASE ~SetLoginId
  <2>1. PICK r, c, e : /\ r \in Range(toClient)
                       /\ \A p \in Range(toClient) : p = r \/ p \in Range(toClient')
                       /\ Range(events') = Range(events) \cup {c, e}
                       /\ Becomes(r, e)
    BY <1>4, IoMoves
  <2>2. AskedAll => AskedAll'
    BY <1>1 DEF AskedAll
  <2>3. ASSUME Told(ch) PROVE Told(ch)'
    <3>1. ASSUME NEW p \in Range(toClient), p.kind \in {"channels", "joined"}, ch \in Range(p.chs)
          PROVE  Told(ch)'
      <4>1. CASE p = r
        BY <2>1, <3>1, <4>1 DEF Becomes, Told, Accepted
      <4> QED
        BY <2>1, <3>1, <4>1 DEF Told
    <3> QED
      BY <2>1, <2>3, <3>1 DEF Told
  <2>4. \A since : Asked(ch, since) /\ since < Time(m) => (Asked(ch, since) /\ since < Time(m))'
    BY <1>1 DEF Asked, Time
  <2>5. ASSUME NEW msgs, Arriving(ch, msgs), m \in Range(msgs)
        PROVE  m \in Range(hist'[ch]) \/ Arriving(ch, msgs)'
    <3>1. PICK p \in Range(toClient) : /\ p.kind \in {"history", "echo"} /\ p.chs = <<ch>>
                                       /\ p.msgs = msgs
      BY <2>5 DEF Arriving
    <3>2. CASE p = r
      <4>1. PICK d \in Channels : r.chs = <<d>> /\ Range(hist'[d]) = Range(hist[d]) \cup Range(r.msgs)
        BY <2>1, <3>1, <3>2 DEF Becomes, Accepted
      <4>2. <<d>>[1] = d /\ <<ch>>[1] = ch
        OBVIOUS
      <4>3. d = ch
        BY <3>1, <3>2, <4>1, <4>2
      <4> QED
        BY <2>5, <3>1, <3>2, <4>1, <4>3
    <3> QED
      BY <2>1, <3>1, <3>2 DEF Arriving
  <2> QED
    BY <2>2, <2>3, <2>4, <2>5 DEF Coming
<1> QED
  BY <1>3, <1>4

\* Channels that are told of are asked for, from a time before what is missing.
LEMMA TellsAsks ==
  ASSUME TypeOK, Ordered, NoGap, phase = "online", NEW ch \in Channels, NEW m \in Of(ch),
         NEW e \in Range(events), e.to = "cacher", e.kind \in {"channels", "joined"},
         ch \in Range(e.chs), Asks(e, toServer')
  PROVE  m \in Range(hist[ch]) \/ Covered(ch, m) \/ \E since : Asked(ch, since)' /\ since < Time(m)
<1>1. m \in Messages /\ Time(m) \in Nat
  BY DEF Of, Ordered, Clock
<1>2. hist[ch] \in Seq(Messages) /\ cache[ch] \in Seq(Messages)
  BY RangesTyped
<1>3. CASE e.kind = "channels"
  <2>0. PICK since : since = SinceBack(cache[ch])
    OBVIOUS
  <2>1. Asked(ch, since)'
    BY <1>3, <2>0 DEF Asks, Asked
  <2>2. since \in Nat
    BY <1>2, <2>0, SinceType DEF TypeOK
  <2>3. Time(m) <= since => Covered(ch, m)
    BY <2>0, BackCompletes DEF NoGap, Ordered
  <2>4. Covered(ch, m) \/ since < Time(m)
    BY <1>1, <2>2, <2>3
  <2> QED
    BY <2>1, <2>4
<1>4. CASE e.kind = "joined"
  <2>1. PICK q \in Range(toServer') : /\ q.kind = "history" /\ e.chs = <<q.ch>>
                                      /\ q.since \in SincesNewest(hist[q.ch])
    BY <1>4 DEF Asks
  <2>2. q.ch = ch
    <3>1. Range(<<q.ch>>) = {q.ch}
      BY RangeOne
    <3> QED
      BY <2>1, <3>1
  <2>3. Asked(ch, q.since)'
    BY <2>1, <2>2 DEF Asked
  <2>4. m \in Range(hist[ch]) \/ Covered(ch, m) \/ Later(ch, m)
    BY <1>4, <2>1, <2>2 DEF NoGap, JoinsAhead, Joining
  <2>5. Later(ch, m) => q.since < Time(m)
    BY <2>1, <2>2, NewestBefore DEF Ordered
  <2> QED
    BY <2>3, <2>4, <2>5
<1> QED
  BY <1>3, <1>4

LEMMA GuiComing ==
  ASSUME TypeOK, Flow, Remembered, Ordered, NoGap, GuiStep
  PROVE  AllComing'
<1>1. /\ UNCHANGED <<posted, subs, phase, toClient>>
      /\ \A ch \in Channels : Range(hist[ch]) \subseteq Range(hist'[ch])
  BY GuiTraffic
<1>2. \A ch \in Channels : Range(cache[ch]) \subseteq Range(cache'[ch])
  BY CallsComplete
<1>3. PICK e \in Events : /\ e = Head(events) /\ e \in Range(events)
                          /\ \A p \in Range(events) : p = e \/ p \in Range(events')
                          /\ Range(toServer) \subseteq Range(toServer')
                          /\ e.to = "cacher" /\ e.kind \in {"authorized", "channels", "joined"}
                                /\ phase = "online" => Asks(e, toServer')
  BY GuiMoves
<1>4. \A ch : Of(ch)' = Of(ch)
  BY <1>1 DEF Of, Messages
<1>5. \A ch \in Channels : \A m : Covered(ch, m) => Covered(ch, m)'
  BY <1>1, <1>2, CoveredStays
<1>6. \A ch \in subs : ch \in Channels
  BY DEF TypeOK
<1> SUFFICES ASSUME phase = "online", loaded', NEW ch \in subs, NEW m \in Of(ch),
                    m \notin Range(hist'[ch]), ~Covered(ch, m)'
             PROVE  Coming(ch, m)'
  BY <1>1, <1>4 DEF AllComing
<1>7. CASE ~loaded
  <2>1. OnAuthorized
    BY <1>7, OtherCalls DEF SaveMessages
  <2>2. e.kind = "authorized" /\ e.to = "cacher"
    BY <1>3, <2>1 DEF OnAuthorized, Slot
  <2>3. AskedAll'
    BY <1>3, <2>2 DEF Asks, AskedAll
  <2> QED
    BY <2>3 DEF Coming
<1>8. CASE loaded
  <2>1. m \notin Range(hist[ch]) /\ ~Covered(ch, m)
    BY <1>1, <1>5, <1>6
  <2>2. Coming(ch, m)
    BY <1>8, <2>1 DEF NoGap, AllComing
  <2>3. AskedAll => AskedAll'
    BY <1>3 DEF AskedAll
  <2>4. \A since : Asked(ch, since) => Asked(ch, since)'
    BY <1>3 DEF Asked
  <2>5. Time(m)' = Time(m) /\ \A msgs : Arriving(ch, msgs) => Arriving(ch, msgs)'
    BY <1>1 DEF Time, Arriving
  <2>6. CASE Told(ch)
    <3>1. CASE \E r \in Range(toClient) : r.kind \in {"channels", "joined"} /\ ch \in Range(r.chs)
      BY <1>1, <3>1 DEF Told, Coming
    <3>2. ASSUME NEW p \in Range(events), p.to = "cacher", p.kind \in {"channels", "joined"},
                 ch \in Range(p.chs)
          PROVE  Coming(ch, m)'
      <4>1. CASE p = e
        <5>1. Asks(e, toServer')
          BY <1>3, <3>2, <4>1
        <5>2. \E since : Asked(ch, since)' /\ since < Time(m)
          BY <1>3, <1>6, <2>1, <3>2, <4>1, <5>1, TellsAsks
        <5> QED
          BY <2>5, <5>2 DEF Coming
      <4>2. CASE p # e
        BY <1>3, <3>2, <4>2 DEF Told, Coming
      <4> QED
        BY <4>1, <4>2
    <3> QED
      BY <2>6, <3>1, <3>2 DEF Told
  <2> QED
    BY <2>2, <2>3, <2>4, <2>5, <2>6 DEF Coming
<1> QED
  BY <1>7, <1>8

LEMMA PostComing ==
  ASSUME TypeOK, Ordered', NoGap, NEW here \in Channels, Post(here)
  PROVE  AllComing'
<1>0. PICK new : new = Len(posted) + 1
  OBVIOUS
<1>1. /\ \A m \in Messages : Time(m)' = Time(m)
      /\ \A c : \A m \in Of(c)' : m \in Of(c) \/ (m = new /\ c = here)
  BY <1>0, PostAdds
<1>2. UNCHANGED <<subs, phase, toServer, hist, events, cache, loaded>>
  BY DEF Post, client
<1> DEFINE r == Response("echo", <<here>>, <<Len(posted) + 1>>)
<1>3. toClient' = IF phase = "online" /\ here \in subs THEN Append(toClient, r) ELSE toClient
  BY DEF Post
<1>4. r.kind = "echo" /\ r.chs = <<here>> /\ r.msgs = <<new>>
  BY <1>0 DEF Response
<1> HIDE DEF r
<1>5. Range(Append(toClient, r)) = Range(toClient) \cup {r}
  BY RangeAppend DEF TypeOK
<1>6. Range(toClient) \subseteq Range(toClient')
  BY <1>3, <1>5
<1> SUFFICES ASSUME phase = "online", loaded, NEW ch \in subs, NEW m \in Of(ch)',
                    m \notin Range(hist[ch]), ~Covered(ch, m)'
             PROVE  Coming(ch, m)'
  BY <1>2 DEF AllComing
<1>7. ch \in Channels
  BY DEF TypeOK
<1>8. CASE m \in Of(ch)
  <2>1. m \in Messages
    BY <1>8 DEF Of
  <2>2. ~Covered(ch, m)
    BY <1>7, <2>1, PostCovered
  <2>3. Coming(ch, m)
    BY <1>8, <2>2 DEF NoGap, AllComing
  <2>4. Time(m)' = Time(m)
    BY <1>1, <2>1
  <2>5. Told(ch) => Told(ch)'
    BY <1>2, <1>6 DEF Told
  <2>6. \A msgs : Arriving(ch, msgs) => Arriving(ch, msgs)'
    BY <1>6 DEF Arriving
  <2> QED
    BY <1>2, <2>3, <2>4, <2>5, <2>6 DEF Coming, AskedAll, Asked
<1>9. CASE m = new /\ ch = here
  <2>1. r \in Range(toClient')
    BY <1>3, <1>5, <1>9
  <2>2. Arriving(ch, <<new>>)'
    BY <1>4, <1>9, <2>1 DEF Arriving
  <2>3. m \in Range(<<new>>)
    BY <1>9, RangeOne
  <2> QED
    BY <2>2, <2>3 DEF Coming
<1> QED
  BY <1>1, <1>8, <1>9

LEMMA RestComing ==
  ASSUME TypeOK, Remembered, NoGap,
         Cut \/ Crash \/ Login \/ Register \/ \E ch \in Channels : UserJoins(ch)
  PROVE  AllComing'
<1>1. CASE Cut \/ Crash
  BY <1>1 DEF Cut, Crash, AllComing
<1>2. CASE Login \/ Register
  <2>1. PICK kind \in Accepted : Connect(kind)
    BY <1>2 DEF Login, Register, Accepted
  <2>2. ~loaded'
    BY <2>1 DEF Connect, Remembered
  <2> QED
    BY <2>2 DEF AllComing
<1>3. ASSUME NEW here \in Channels, UserJoins(here)
      PROVE  AllComing'
  <2>1. UNCHANGED <<posted, subs, phase, toClient, hist, events, cache, loaded>>
    BY <1>3 DEF UserJoins, server, client
  <2>2. <<JoinRequest(here)>> \in Seq(Requests) /\ Send(<<JoinRequest(here)>>)
    BY <1>3, JoinAsked DEF UserJoins, JoinRequest
  <2>3. Range(toServer) \subseteq Range(toServer')
    BY <2>2, SentRange
  <2>4. \A ch : \A m : Coming(ch, m) => Coming(ch, m)'
    BY <2>1, <2>3 DEF Coming, AskedAll, Told, Asked, Arriving, Time
  <2> QED
    BY <2>1, <2>4 DEF NoGap, AllComing, Of, Messages, Covered, Time, Insertable
<1> QED
  BY <1>1, <1>2, <1>3

-----------------------------------------------------------------------------
(* What the window misses                                                  *)

LEMMA InitNoGap == Init => NoGap
<1> SUFFICES ASSUME Init PROVE NoGap
  OBVIOUS
<1>1. /\ toServer = << >> /\ toClient = << >> /\ events = << >> /\ posted = << >>
      /\ phase = "offline" /\ ~loaded /\ \A ch \in Channels : cache[ch] = << >>
  BY DEF Init
<1>2. Range(toServer) = {} /\ Range(toClient) = {} /\ Range(events) = {}
  BY <1>1, RangeOne
<1>3. \A ch : \A m : m \notin Of(ch)
  BY <1>1 DEF Of, Messages
<1> QED
  BY <1>1, <1>2, <1>3
     DEF NoGap, Gapless, Completes, Complete, CompletesFrom, CompleteFrom, HistorySaved,
         OthersSaved, OwnChannels, JoinsAhead, AllComing

LEMMA StepNoGap ==
  ASSUME Calm, ~Newcomers, TypeOK, TypeOK', IdInv, IdInv', Flow, AllIdentified, Remembered,
         Ordered, Ordered', fault' = "none", NoGap, [Next]_vars
  PROVE  NoGap'
<1>1. CASE ServerStep
  BY <1>1, ServerComplete, ServerOwn, ServerAhead, ServerComing DEF NoGap
<1>2. CASE IoStep
  BY <1>2, IoComplete, IoOwn, IoAhead, IoComing DEF NoGap
<1>3. CASE GuiStep
  BY <1>3, GuiComplete, GuiOwn, GuiAhead, GuiComing DEF NoGap
<1>4. CASE \E ch \in Channels : Post(ch)
  <2>1. PICK ch \in Channels : Post(ch)
    BY <1>4
  <2>2. (Gapless /\ Completes /\ CompletesFrom /\ HistorySaved /\ OthersSaved)'
    BY <2>1, PostComplete
  <2>3. OwnChannels'
    BY <1>4, RestOwn DEF UserStep, NoGap
  <2>4. JoinsAhead'
    BY <2>1, <2>2, PostAhead
  <2>5. AllComing'
    BY <2>1, PostComing
  <2> QED
    BY <2>2, <2>3, <2>4, <2>5 DEF NoGap
<1>5. CASE Cut \/ Crash \/ Login \/ Register \/ \E ch \in Channels : UserJoins(ch)
  <2>1. (Gapless /\ Completes /\ CompletesFrom /\ HistorySaved /\ OthersSaved)'
    BY <1>5, RestComplete, CrashComplete
  <2>2. OwnChannels'
    BY <1>5, RestOwn DEF UserStep, NoGap
  <2>3. JoinsAhead' /\ AllComing'
    BY <1>5, RestAhead, RestComing
  <2> QED
    BY <2>1, <2>2, <2>3 DEF NoGap
<1>6. CASE UNCHANGED vars
  <2>1. UNCHANGED <<posted, subs, phase, toServer, toClient, hist, events, cache, loaded>>
    BY <1>6 DEF vars, server, link, client
  <2>2. \A ch : Of(ch)' = Of(ch) /\ (Told(ch)' <=> Told(ch)) /\ (Joining(ch)' <=> Joining(ch))
    BY <2>1 DEF Of, Messages, Told, Joining
  <2>3. \A ch : \A m : /\ Covered(ch, m)' <=> Covered(ch, m)
                       /\ Reached(ch, m)' <=> Reached(ch, m)
                       /\ Later(ch, m)' <=> Later(ch, m)
    BY <2>1 DEF Covered, Reached, Later, Time, Insertable
  <2>4. \A ch : \A x : /\ Arriving(ch, x)' <=> Arriving(ch, x)
                       /\ Saving(ch, x)' <=> Saving(ch, x)
                       /\ Asked(ch, x)' <=> Asked(ch, x)
    BY <2>1 DEF Arriving, Saving, Asked
  <2>5. (Gapless /\ Completes /\ CompletesFrom)'
    BY <2>1, <2>2, <2>3, <2>4
       DEF NoGap, Gapless, Completes, Complete, CompletesFrom, CompleteFrom, Time, Insertable
  <2>6. (HistorySaved /\ OthersSaved /\ OwnChannels /\ JoinsAhead)'
    BY <2>1, <2>2, <2>3, <2>4
       DEF NoGap, HistorySaved, OthersSaved, OwnChannels, JoinsAhead, Insertable
  <2>7. \A ch : \A m : Coming(ch, m)' <=> Coming(ch, m)
    BY <2>1, <2>2, <2>4 DEF Coming, AskedAll, Time
  <2>8. AllComing'
    BY <2>1, <2>2, <2>3, <2>7 DEF NoGap, AllComing
  <2> QED
    BY <2>5, <2>6, <2>8 DEF NoGap
<1> QED
  BY <1>1, <1>2, <1>3, <1>4, <1>5, <1>6 DEF Next, UserStep

\* What memory lacks when nothing is under way has no row, and is passed over.
LEMMA MissingPassedOver ==
  ASSUME TypeOK, Remembered, NoGap
  PROVE  OnlyPassedOverMissing
<1> SUFFICES ASSUME Settled, NEW ch \in subs, NEW m \in Missing(ch)
             PROVE  PassedOver(ch, m)
  BY DEF OnlyPassedOverMissing
<1>1. ch \in Channels /\ DOMAIN posted = Messages
  BY LenProperties DEF TypeOK, Messages
<1>2. m \in Of(ch) /\ m \notin Range(hist[ch])
  BY <1>1 DEF Missing, Of, Range
<1>3. loaded /\ Covered(ch, m)
  BY <1>2, SettledHas
<1>4. m \notin Range(cache[ch])
  BY <1>1, <1>2, <1>3 DEF Remembered, RowsKept
<1>5. \A i \in DOMAIN cache[ch] : cache[ch][i] # m
  BY <1>4 DEF Range
<1>6. \E i \in DOMAIN cache[ch] : \/ Time(cache[ch][i]) = Time(m)
                                  \/ Time(cache[ch][i]) > Time(m) /\ ~Insertable(m)
  BY <1>3 DEF Covered, Range
<1> QED
  BY <1>5, <1>6 DEF PassedOver

\* For calm schedules, clocks at most a turn behind and users that log in, a
\* client with nothing under way has every message of every channel of its user
\* in memory but those without a row that a row lies beyond: on_authorized,
\* on_channels_received and on_joined between them ask for the rest, and
\* on_history_received and on_message_received save what comes.
THEOREM CatchesUp ==
  ASSUME Calm, Skew <= 1, ~Newcomers
  PROVE  Spec => []OnlyPassedOverMissing
<1>1. TypeOK /\ TypeOK' /\ IdInv /\ IdInv' /\ Flow /\ AllIdentified /\ Remembered
         /\ Ordered /\ Ordered' /\ (fault = "none")' /\ NoGap /\ [Next]_vars => NoGap'
  BY StepNoGap
<1>2. TypeOK /\ Flow /\ Remembered /\ Ordered /\ [Next]_vars => Ordered'
  BY StepOrdered
<1>3. TypeOK /\ Flow /\ Remembered /\ [Next]_vars => Remembered'
  BY StepRemembers
<1>4. TypeOK /\ TypeOK' /\ IdInv /\ Flow /\ AllIdentified /\ [Next]_vars => AllIdentified'
  BY StepIdentified
<1>5. TypeOK /\ TypeOK' /\ IdInv /\ Flow /\ [Next]_vars => Flow'
  BY StepFlow
<1>6. TypeOK /\ IdInv /\ [Next]_vars => IdInv'
  BY StepIds
<1>7. Init => AllIdentified
  BY DEF Init, AllIdentified
<1>8. TypeOK /\ Remembered /\ NoGap => OnlyPassedOverMissing
  BY MissingPassedOver
<1>9. Spec => [](fault = "none")
  BY CalmFindsPointers
<1> QED
  BY <1>1, <1>2, <1>3, <1>4, <1>5, <1>6, <1>7, <1>8, <1>9, InitIds, InitFlow, InitRemembers,
     InitOrdered, InitNoGap, TypeCorrect, PTL DEF Spec

=============================================================================
