-------------------------- MODULE HistoryCalmProofs --------------------------
(***************************************************************************)
(* What holds in HistorySync for calm schedules, for any channels, users,  *)
(* clocks, lost connections and crashes, and what the theorems about the   *)
(* cache and the memory in such schedules rest on: every request carries   *)
(* the identifier and no null pointer is dereferenced.                     *)
(*                                                                         *)
(* What calm schedules have in common is Flow: the client is either busy   *)
(* with histories, of which each channel has at most one on the way, or    *)
(* with exactly one other request, response or signal.                     *)
(***************************************************************************)
EXTENDS HistorySyncProofs

HistoryRequests == {q \in Requests : q.kind = "history"}
HistoryResponses == {r \in Responses : r.kind = "history"}
HistoryCalls == {e \in Events : e.kind = "history"}

\* Only histories are under way, or nothing is.
Histories == /\ toServer \in Seq(HistoryRequests)
             /\ toClient \in Seq(HistoryResponses)
             /\ events \in Seq(HistoryCalls)

\* One request, one response or the slot calls of one signal, and nothing else
LoneRequest == \E q \in Requests :
    toServer = <<q>> /\ toClient = << >> /\ events = << >>

LoneResponse == \E r \in Responses :
    toServer = << >> /\ toClient = <<r>> /\ events = << >>

Pair(e) == <<Delivery("control", e.kind, e.chs, e.msgs), e>>

LoneSignal == \E e \in Events :
    /\ e.to = "cacher"
    /\ toServer = << >> /\ toClient = << >>
    /\ events = Pair(e) \/ events = <<e>>

OneKind == Histories \/ LoneRequest \/ LoneResponse \/ LoneSignal

Unrepeated(chs) == \A i, j \in DOMAIN chs : chs[i] = chs[j] => i = j

\* A channel is named by at most one request, response or call of the cacher.
OneRequest(srv) == \A i, j \in 1..Len(srv) : srv[i].ch = srv[j].ch => i = j

OneResponse(cli) == \A i, j \in 1..Len(cli) : cli[i].chs = cli[j].chs => i = j

OneCall(evs) == \A i, j \in 1..Len(evs) :
    evs[i].to = "cacher" /\ evs[j].to = "cacher" /\ evs[i].chs = evs[j].chs => i = j

Unanswered(srv, cli) == \A i \in 1..Len(srv), j \in 1..Len(cli) : cli[j].chs # <<srv[i].ch>>

Unheard(srv, evs) == \A i \in 1..Len(srv), j \in 1..Len(evs) :
    evs[j].to = "cacher" => evs[j].chs # <<srv[i].ch>>

Unsignalled(cli, evs) == \A i \in 1..Len(cli), j \in 1..Len(evs) :
    evs[j].to = "cacher" => evs[j].chs # cli[i].chs

Apart(srv, cli, evs) == /\ OneRequest(srv) /\ OneResponse(cli) /\ OneCall(evs)
                        /\ Unanswered(srv, cli) /\ Unheard(srv, evs) /\ Unsignalled(cli, evs)

\* The channels of a list are listed once.
Listed(r) == r.kind = "channels" => Unrepeated(r.chs)

ListedOnce == /\ toClient \in Seq({r \in Responses : Listed(r)})
              /\ events \in Seq({e \in Events : Listed(e)})

NotRunning == phase = "offline" => events = << >>

Flow == /\ OneKind
        /\ Apart(toServer, toClient, events)
        /\ ListedOnce
        /\ NotRunning

-----------------------------------------------------------------------------
(* Keeping apart                                                           *)

LEMMA ServedApart ==
  ASSUME NEW srv \in Seq(Requests), NEW cli \in Seq(Responses), NEW evs \in Seq(Events),
         Apart(srv, cli, evs), srv # << >>, NEW r, r.chs = <<Head(srv).ch>>
  PROVE  Apart(Tail(srv), Append(cli, r), evs) /\ Apart(Tail(srv), cli, evs)
<1> DEFINE rest == Tail(srv)  more == Append(cli, r)
<1>1. /\ Head(srv) = srv[1] /\ Len(srv) \in Nat \ {0} /\ Len(rest) = Len(srv) - 1
      /\ \A i \in 1..Len(srv) - 1 : rest[i] = srv[i + 1]
  BY TailAt
<1>2. /\ Len(cli) \in Nat /\ Len(more) = Len(cli) + 1
      /\ \A i \in 1..Len(cli) + 1 : more[i] = IF i <= Len(cli) THEN cli[i] ELSE r
  BY AppendIs
<1>3. 1 \in 1..Len(srv) /\ \A i \in 1..Len(rest) : i + 1 \in 1..Len(srv) /\ i + 1 # 1
  BY <1>1
<1> HIDE DEF rest, more
<1>4. \A i \in 1..Len(rest) : \E k \in 1..Len(srv) : k = i + 1 /\ rest[i] = srv[k]
  BY <1>1, <1>3
<1>5. \A i \in 1..Len(rest) : rest[i].ch # srv[1].ch
  BY <1>3, <1>4 DEF Apart, OneRequest
<1>6. \A j \in 1..Len(more) : (j \in 1..Len(cli) /\ more[j] = cli[j])
                              \/ (j = Len(cli) + 1 /\ more[j].chs = <<srv[1].ch>>)
  BY <1>1, <1>2
<1>7. OneRequest(rest)
  <2> SUFFICES ASSUME NEW i \in 1..Len(rest), NEW j \in 1..Len(rest), rest[i].ch = rest[j].ch
               PROVE  i = j
    BY DEF OneRequest
  <2>1. PICK k \in 1..Len(srv), m \in 1..Len(srv) :
           k = i + 1 /\ m = j + 1 /\ srv[k].ch = srv[m].ch
    BY <1>4
  <2>2. k = m
    BY <2>1 DEF Apart, OneRequest
  <2> QED
    BY <2>1, <2>2
<1>8. Unanswered(rest, cli) /\ Unheard(rest, evs)
  <2>1. Unanswered(rest, cli)
    BY <1>4 DEF Apart, Unanswered
  <2>2. Unheard(rest, evs)
    BY <1>4 DEF Apart, Unheard
  <2> QED
    BY <2>1, <2>2
<1>9. OneResponse(more)
  <2>1. \A j \in 1..Len(cli) : cli[j].chs # <<srv[1].ch>>
    BY <1>3 DEF Apart, Unanswered
  <2> QED
    BY <1>6, <2>1 DEF Apart, OneResponse
<1>10. Unanswered(rest, more)
  <2> SUFFICES ASSUME NEW i \in 1..Len(rest), NEW j \in 1..Len(more)
               PROVE  more[j].chs # <<rest[i].ch>>
    BY DEF Unanswered
  <2>1. CASE j \in 1..Len(cli) /\ more[j] = cli[j]
    BY <1>8, <2>1 DEF Unanswered
  <2>2. CASE more[j].chs = <<srv[1].ch>>
    <3>1. <<srv[1].ch>>[1] = srv[1].ch /\ <<rest[i].ch>>[1] = rest[i].ch
      OBVIOUS
    <3> QED
      BY <1>5, <2>2, <3>1
  <2> QED
    BY <1>6, <2>1, <2>2
<1>11. Unsignalled(more, evs)
  <2>1. \A j \in 1..Len(evs) : evs[j].to = "cacher" => evs[j].chs # <<srv[1].ch>>
    BY <1>3 DEF Apart, Unheard
  <2> QED
    BY <1>6, <2>1 DEF Apart, Unsignalled
<1> QED
  BY <1>7, <1>8, <1>9, <1>10, <1>11 DEF Apart, rest, more

\* The calls of a signal have been queued.
Signalled(evs, more, kind, chs, msgs) ==
    /\ Len(more) = Len(evs) + 2
    /\ \A i \in 1..Len(evs) : more[i] = evs[i]
    /\ more[Len(evs) + 1] = Delivery("control", kind, chs, msgs)
    /\ more[Len(evs) + 2] = Delivery("cacher", kind, chs, msgs)

LEMMA ReadApart ==
  ASSUME NEW srv \in Seq(Requests), NEW cli \in Seq(Responses), NEW evs \in Seq(Events),
         Apart(srv, cli, evs), cli # << >>, NEW kind, NEW msgs, NEW more,
         Signalled(evs, more, kind, Head(cli).chs, msgs)
  PROVE  Apart(srv, Tail(cli), more)
<1> DEFINE rest == Tail(cli)
<1>1. /\ Head(cli) = cli[1] /\ Len(cli) \in Nat \ {0} /\ Len(rest) = Len(cli) - 1
      /\ \A i \in 1..Len(cli) - 1 : rest[i] = cli[i + 1]
  BY TailAt
<1>2. 1 \in 1..Len(cli) /\ \A i \in 1..Len(rest) : i + 1 \in 1..Len(cli) /\ i + 1 # 1
  BY <1>1
<1> HIDE DEF rest
<1>3. /\ \A i \in 1..Len(rest) : \E k \in 1..Len(cli) : k = i + 1 /\ rest[i] = cli[k]
      /\ \A i \in 1..Len(rest) : rest[i].chs # cli[1].chs
  <2>1. \A i \in 1..Len(rest) : \E k \in 1..Len(cli) : k = i + 1 /\ rest[i] = cli[k]
    BY <1>1, <1>2
  <2> QED
    BY <1>2, <2>1 DEF Apart, OneResponse
<1>4. Len(evs) \in Nat
  OBVIOUS
<1>5. \A j \in 1..Len(more) : more[j].to = "cacher" =>
         \/ j \in 1..Len(evs) /\ more[j] = evs[j]
         \/ j = Len(evs) + 2 /\ more[j].chs = cli[1].chs
  <2>1. more[Len(evs) + 1].to = "control" /\ more[Len(evs) + 2].chs = cli[1].chs
    BY <1>1 DEF Delivery, Signalled
  <2> QED
    BY <1>4, <2>1 DEF Signalled
<1>6. OneCall(more)
  <2> SUFFICES ASSUME NEW i \in 1..Len(more), NEW j \in 1..Len(more), more[i].to = "cacher",
                      more[j].to = "cacher", more[i].chs = more[j].chs
               PROVE  i = j
    BY DEF OneCall
  <2>1. \A k \in 1..Len(evs) : evs[k].to = "cacher" => evs[k].chs # cli[1].chs
    BY <1>2 DEF Apart, Unsignalled
  <2>2. CASE /\ i \in 1..Len(evs) /\ more[i] = evs[i]
             /\ j \in 1..Len(evs) /\ more[j] = evs[j]
    BY <2>2 DEF Apart, OneCall
  <2> QED
    BY <1>5, <2>1, <2>2
<1>7. Unheard(srv, more)
  <2>1. \A i \in 1..Len(srv) : cli[1].chs # <<srv[i].ch>>
    BY <1>2 DEF Apart, Unanswered
  <2>2. \A i \in 1..Len(srv), j \in 1..Len(evs) : evs[j].to = "cacher" => evs[j].chs # <<srv[i].ch>>
    BY DEF Apart, Unheard
  <2> SUFFICES ASSUME NEW i \in 1..Len(srv), NEW j \in 1..Len(more), more[j].to = "cacher"
               PROVE  more[j].chs # <<srv[i].ch>>
    BY DEF Unheard
  <2>3. \/ j \in 1..Len(evs) /\ more[j] = evs[j]
        \/ more[j].chs = cli[1].chs
    BY <1>5
  <2> QED
    BY <2>1, <2>2, <2>3
<1>8. Unsignalled(rest, more)
  <2> SUFFICES ASSUME NEW i \in 1..Len(rest), NEW j \in 1..Len(more), more[j].to = "cacher"
               PROVE  more[j].chs # rest[i].chs
    BY DEF Unsignalled
  <2>1. PICK k \in 1..Len(cli) : rest[i] = cli[k]
    BY <1>3
  <2>2. CASE j \in 1..Len(evs) /\ more[j] = evs[j]
    BY <2>1, <2>2 DEF Apart, Unsignalled
  <2>3. CASE more[j].chs = cli[1].chs
    BY <1>3, <2>3
  <2> QED
    BY <1>5, <2>2, <2>3
<1>9. OneResponse(rest) /\ Unanswered(srv, rest)
  <2>1. OneResponse(rest)
    <3> SUFFICES ASSUME NEW i \in 1..Len(rest), NEW j \in 1..Len(rest), rest[i].chs = rest[j].chs
                 PROVE  i = j
      BY DEF OneResponse
    <3>1. PICK k \in 1..Len(cli), m \in 1..Len(cli) :
             k = i + 1 /\ m = j + 1 /\ cli[k].chs = cli[m].chs
      BY <1>3
    <3>2. k = m
      BY <3>1 DEF Apart, OneResponse
    <3> QED
      BY <3>1, <3>2
  <2>2. Unanswered(srv, rest)
    BY <1>3 DEF Apart, Unanswered
  <2> QED
    BY <2>1, <2>2
<1> QED
  BY <1>6, <1>7, <1>8, <1>9 DEF Apart, rest

LEMMA CalledApart ==
  ASSUME NEW srv, NEW cli, NEW evs \in Seq(Events), Apart(srv, cli, evs), evs # << >>
  PROVE  Apart(srv, cli, Tail(evs))
<1> DEFINE rest == Tail(evs)
<1>1. /\ Len(evs) \in Nat \ {0} /\ Len(rest) = Len(evs) - 1
      /\ \A i \in 1..Len(evs) - 1 : rest[i] = evs[i + 1]
  BY TailAt
<1>2. \A i \in 1..Len(rest) : i + 1 \in 1..Len(evs) /\ rest[i] = evs[i + 1]
  BY <1>1
<1> HIDE DEF rest
<1>3. \A i, j \in 1..Len(rest) : i + 1 = j + 1 => i = j
  OBVIOUS
<1>4. OneCall(rest)
  BY <1>2, <1>3 DEF Apart, OneCall
<1>5. Unheard(srv, rest)
  BY <1>2 DEF Apart, Unheard
<1>6. Unsignalled(cli, rest)
  BY <1>2 DEF Apart, Unsignalled
<1>7. Apart(srv, cli, rest)
  BY <1>4, <1>5, <1>6 DEF Apart
<1> QED
  BY <1>7 DEF rest

LEMMA PrefixIs ==
  ASSUME NEW S, NEW s \in Seq(S), NEW n \in 0..Len(s)
  PROVE  /\ Len(SubSeq(s, 1, n)) = n
         /\ \A i \in 1..n : i \in 1..Len(s) /\ SubSeq(s, 1, n)[i] = s[i]
  OBVIOUS

LEMMA CutApart ==
  ASSUME NEW srv, NEW cli \in Seq(Responses), NEW evs, Apart(srv, cli, evs),
         NEW n \in 0..Len(cli)
  PROVE  Apart(<< >>, SubSeq(cli, 1, n), evs)
<1> DEFINE part == SubSeq(cli, 1, n)
<1>1. /\ Len(part) = n
      /\ \A i \in 1..n : i \in 1..Len(cli) /\ part[i] = cli[i]
  BY PrefixIs
<1> HIDE DEF part
<1>2. OneResponse(part)
  BY <1>1 DEF Apart, OneResponse
<1>3. Unsignalled(part, evs)
  BY <1>1 DEF Apart, Unsignalled
<1>4. OneRequest(<< >>) /\ Unanswered(<< >>, part) /\ Unheard(<< >>, evs)
  BY DEF OneRequest, Unanswered, Unheard
<1> QED
  BY <1>2, <1>3, <1>4 DEF Apart, part

LEMMA NothingApart == Apart(<< >>, << >>, << >>)
  BY DEF Apart, OneRequest, OneResponse, OneCall, Unanswered, Unheard, Unsignalled

LEMMA OneApart ==
  ASSUME NEW q, NEW r
  PROVE  /\ Apart(<<q>>, << >>, << >>)
         /\ Apart(<< >>, <<r>>, << >>)
  BY DEF Apart, OneRequest, OneResponse, OneCall, Unanswered, Unheard, Unsignalled

LEMMA SignalApart ==
  ASSUME NEW e \in Events, e.to = "cacher"
  PROVE  Apart(<< >>, << >>, Pair(e))
<1>1. /\ Len(Pair(e)) = 2 /\ Pair(e)[1].to = "control" /\ Pair(e)[2] = e
      /\ \A i \in 1..2 : i = 1 \/ i = 2
  BY DEF Pair, Delivery
<1> HIDE DEF Pair
<1>2. OneCall(Pair(e))
  BY <1>1 DEF OneCall
<1>3. OneRequest(<< >>) /\ OneResponse(<< >>)
  BY DEF OneRequest, OneResponse
<1>4. Unanswered(<< >>, << >>) /\ Unheard(<< >>, Pair(e)) /\ Unsignalled(<< >>, Pair(e))
  BY DEF Unanswered, Unheard, Unsignalled
<1> QED
  BY <1>2, <1>3, <1>4 DEF Apart

-----------------------------------------------------------------------------
(* What is not a history is alone                                          *)

LEMMA LoneServed ==
  ASSUME TypeOK, OneKind, toServer # << >>, Head(toServer).kind # "history"
  PROVE  toServer = <<Head(toServer)>> /\ toClient = << >> /\ events = << >>
<1>1. ~Histories
  <2>1. Histories => Head(toServer) \in HistoryRequests
    BY TailAt DEF Histories
  <2> QED
    BY <2>1 DEF HistoryRequests
<1>2. LoneRequest
  BY <1>1 DEF OneKind, LoneResponse, LoneSignal
<1> QED
  BY <1>2 DEF LoneRequest

LEMMA LoneRead ==
  ASSUME TypeOK, OneKind, toClient # << >>, Head(toClient).kind # "history"
  PROVE  toServer = << >> /\ toClient = <<Head(toClient)>> /\ events = << >>
<1>1. ~Histories
  <2>1. Histories => Head(toClient) \in HistoryResponses
    BY TailAt DEF Histories
  <2> QED
    BY <2>1 DEF HistoryResponses
<1>2. LoneResponse
  BY <1>1 DEF OneKind, LoneRequest, LoneSignal
<1> QED
  BY <1>2 DEF LoneResponse

\* The calls of a signal alone are followed by nothing but the cacher's.
SecondHalf(calls, rest) ==
    \/ Head(calls).to = "cacher" /\ rest = << >>
    \/ /\ Head(calls).to = "control"
       /\ \E e \in Events : /\ rest = <<e>> /\ e.to = "cacher"
                            /\ e.kind = Head(calls).kind
                            /\ e.chs = Head(calls).chs /\ e.msgs = Head(calls).msgs

LEMMA SignalHalves ==
  ASSUME LoneSignal
  PROVE  SecondHalf(events, Tail(events)) /\ events # << >>
<1>1. PICK e \in Events : e.to = "cacher" /\ (events = Pair(e) \/ events = <<e>>)
  BY DEF LoneSignal
<1>2. CASE events = <<e>>
  BY <1>1, <1>2 DEF SecondHalf
<1>3. CASE events = Pair(e)
  <2>1. Head(events) = Delivery("control", e.kind, e.chs, e.msgs) /\ Tail(events) = <<e>>
        /\ events # << >>
    BY <1>3 DEF Pair
  <2> QED
    BY <1>1, <2>1 DEF SecondHalf, Delivery
<1> QED
  BY <1>1, <1>2, <1>3

LEMMA LoneCalled ==
  ASSUME TypeOK, OneKind, events # << >>, Head(events).kind # "history"
  PROVE  toServer = << >> /\ toClient = << >> /\ SecondHalf(events, Tail(events))
<1>1. ~Histories
  <2>1. Histories => Head(events) \in HistoryCalls
    BY TailAt DEF Histories
  <2> QED
    BY <2>1 DEF HistoryCalls
<1>2. LoneSignal
  BY <1>1 DEF OneKind, LoneRequest, LoneResponse
<1> QED
  BY <1>2, SignalHalves DEF LoneSignal

\* What was added last is of the type of the sequence.
LEMMA LastIn ==
  ASSUME NEW S, NEW T, NEW s \in Seq(S), NEW e, Append(s, e) \in Seq(T)
  PROVE  e \in T
<1>1. /\ Len(s) \in Nat /\ Len(Append(s, e)) = Len(s) + 1
      /\ Append(s, e)[Len(s) + 1] = e
  BY AppendIs
<1> QED
  BY <1>1, ElementOfSeq

LEMMA TwoQueued ==
  ASSUME NEW a, NEW b
  PROVE  Append(Append(<< >>, a), b) = <<a, b>>
<1> DEFINE one == <<a>>  two == <<a, b>>  S == {a, b}
<1>1. Append(<< >>, a) = one
  OBVIOUS
<1>2. one \in Seq(S) /\ Len(one) = 1 /\ one[1] = a
  OBVIOUS
<1>3. two \in Seq(S) /\ Len(two) = 2 /\ two[1] = a /\ two[2] = b
  OBVIOUS
<1> HIDE DEF one, two, S
<1>4. /\ Append(one, b) \in Seq(S) /\ Len(Append(one, b)) = 2
      /\ Append(one, b)[1] = a /\ Append(one, b)[2] = b
  <2>1. b \in S
    BY DEF S
  <2>2. Append(one, b) \in Seq(S)
    BY <1>2, <2>1, AppendAt
  <2>3. /\ Len(Append(one, b)) = Len(one) + 1
        /\ \A i \in 1..Len(one) + 1 : Append(one, b)[i] = IF i <= Len(one) THEN one[i] ELSE b
    BY <1>2, <2>1, AppendAt, ZenonT(30)
  <2>4. 1 \in 1..Len(one) + 1 /\ 2 \in 1..Len(one) + 1 /\ 1 <= Len(one) /\ ~(2 <= Len(one))
    BY <1>2
  <2>5. Append(one, b)[1] = one[1]
    BY <2>3, <2>4
  <2>6. Append(one, b)[2] = b
    BY <2>3, <2>4
  <2>7. Len(Append(one, b)) = 2
    BY <1>2, <2>3
  <2> QED
    BY <1>2, <2>2, <2>5, <2>6, <2>7
<1>5. \A i \in 1..2 : Append(one, b)[i] = two[i]
  BY <1>3, <1>4
<1>6. Append(one, b) = two
  BY <1>3, <1>4, <1>5, SeqEqual
<1> QED
  BY <1>1, <1>6 DEF two

-----------------------------------------------------------------------------
(* Flow is invariant                                                       *)

LEMMA ServerFlow ==
  ASSUME TypeOK, TypeOK', IdInv, Flow, ServerStep
  PROVE  Flow'
<1>1. /\ toServer # << >> /\ Head(toServer) \in Requests /\ toServer' = Tail(toServer)
      /\ UNCHANGED <<phase, events>> /\ phase # "offline"
  <2>1. /\ toServer # << >> /\ toServer' = Tail(toServer) /\ UNCHANGED <<phase, events>>
    BY DEF ServerStep, ServeChannels, ServeHistory, ServeJoin, DropUnidentified, Serves
  <2> QED
    BY <2>1, TailAt DEF TypeOK, IdInv, AcceptedFirst
<1>2. Messages' = Messages /\ Responses' = Responses /\ Events' = Events
  BY DEF ServerStep, ServeChannels, ServeHistory, ServeJoin, DropUnidentified, server,
         Messages, Responses, Events
<1>3. NotRunning'
  BY <1>1 DEF Flow, NotRunning
<1>4. CASE ServeChannels
  <2>1. toServer = <<Head(toServer)>> /\ toClient = << >> /\ events = << >>
    BY <1>1, <1>4, LoneServed DEF ServeChannels, Serves, Flow
  <2>2. PICK chs \in Orders(subs) : toClient' = Append(toClient, Response("channels", chs, << >>))
    BY <1>4 DEF ServeChannels, Answer
  <2> DEFINE r == Response("channels", chs, << >>)
  <2>3. r \in Responses /\ Listed(r)
    <3>1. r \in Responses
      BY <1>2, <2>2, LastIn DEF TypeOK
    <3>2. Unrepeated(chs)
      BY DEF Orders, Unrepeated
    <3> QED
      BY <3>1, <3>2 DEF Listed, Response
  <2> HIDE DEF r
  <2>4. toServer' = << >> /\ toClient' = <<r>> /\ events' = << >>
    BY <1>1, <2>1, <2>2 DEF r
  <2>5. LoneResponse' /\ ListedOnce'
    BY <1>2, <2>3, <2>4 DEF LoneResponse, ListedOnce
  <2>6. Apart(toServer', toClient', events')
    <3>1. Apart(<< >>, <<r>>, << >>)
      BY OneApart
    <3> QED
      BY <2>4, <3>1
  <2> QED
    BY <1>3, <2>5, <2>6 DEF Flow, OneKind
<1>5. CASE ServeHistory \/ ServeJoin
  <2> DEFINE ch == Head(toServer).ch
  <2>1. PICK kind, msgs :
           /\ kind \in {"history", "joined"}
           /\ toClient' = Append(toClient, Response(kind, <<ch>>, msgs))
           /\ Head(toServer).kind = "history" <=> kind = "history"
    BY <1>5 DEF ServeHistory, ServeJoin, Answer, Serves
  <2> DEFINE r == Response(kind, <<ch>>, msgs)
  <2>2. r \in Responses /\ Listed(r) /\ r.kind = kind /\ r.chs = <<ch>>
    <3>1. r \in Responses
      BY <1>2, <2>1, LastIn DEF TypeOK
    <3> QED
      BY <2>1, <3>1 DEF Listed, Response
  <2> HIDE DEF r
  <2>3. toClient' = Append(toClient, r)
    BY <2>1 DEF r
  <2>4. Apart(toServer', toClient', events')
    BY <1>1, <2>2, <2>3, ServedApart DEF Flow, TypeOK
  <2>5. ListedOnce'
    BY <1>1, <1>2, <2>2, <2>3, AppendAt DEF Flow, ListedOnce
  <2>6. OneKind'
    <3>1. CASE LoneRequest
      <4>1. toServer' = << >> /\ toClient' = <<r>> /\ events' = << >>
        BY <1>1, <2>3, <3>1 DEF LoneRequest
      <4> QED
        BY <1>2, <2>2, <4>1 DEF OneKind, LoneResponse
    <3>2. CASE Histories
      <4>1. Head(toServer) \in HistoryRequests /\ Tail(toServer) \in Seq(HistoryRequests)
        BY <1>1, <3>2, TailAt DEF Histories
      <4>2. r \in HistoryResponses
        BY <2>1, <2>2, <4>1 DEF HistoryRequests, HistoryResponses
      <4>3. Append(toClient, r) \in Seq(HistoryResponses)
        BY <3>2, <4>2, AppendAt DEF Histories
      <4> QED
        BY <1>1, <1>2, <2>3, <3>2, <4>1, <4>3 DEF OneKind, Histories, HistoryRequests,
           HistoryResponses, HistoryCalls
    <3> QED
      BY <1>1, <3>1, <3>2 DEF Flow, OneKind, LoneResponse, LoneSignal
  <2> QED
    BY <1>3, <2>4, <2>5, <2>6 DEF Flow
<1>6. CASE DropUnidentified
  <2>1. toClient' = toClient
    BY <1>6 DEF DropUnidentified
  <2>2. Apart(toServer', toClient', events')
    <3> DEFINE r == Response("history", <<Head(toServer).ch>>, << >>)
    <3>1. r.chs = <<Head(toServer).ch>>
      BY DEF Response
    <3> QED
      BY <1>1, <2>1, <3>1, ServedApart DEF Flow, TypeOK
  <2>3. ListedOnce'
    BY <1>1, <1>2, <2>1 DEF Flow, ListedOnce
  <2>4. OneKind'
    <3>1. CASE LoneRequest
      <4>1. toServer' = << >> /\ toClient' = << >> /\ events' = << >>
        BY <1>1, <2>1, <3>1 DEF LoneRequest
      <4> QED
        BY <4>1 DEF OneKind, Histories
    <3>2. CASE Histories
      <4>1. Tail(toServer) \in Seq(HistoryRequests)
        BY <1>1, <3>2, TailAt DEF Histories
      <4> QED
        BY <1>1, <1>2, <2>1, <3>2, <4>1 DEF OneKind, Histories, HistoryRequests,
           HistoryResponses, HistoryCalls
    <3> QED
      BY <1>1, <3>1, <3>2 DEF Flow, OneKind, LoneResponse, LoneSignal
  <2> QED
    BY <1>3, <2>2, <2>3, <2>4 DEF Flow
<1> QED
  BY <1>4, <1>5, <1>6 DEF ServerStep

\* The calls of what is read are queued behind the others.
LEMMA EmitSignals ==
  ASSUME TypeOK, NEW kind, NEW chs, NEW msgs, Emit(kind, chs, msgs)
  PROVE  Signalled(events, events', kind, chs, msgs)
  BY EmitIs DEF Signalled

\* What is read is gone, and its calls are queued.
LEMMA ReadFlow ==
  ASSUME TypeOK, TypeOK', Flow, UNCHANGED <<posted, phase, toServer>>,
         toClient # << >>, toClient' = Tail(toClient), phase # "offline",
         NEW kind, NEW msgs, Emit(kind, Head(toClient).chs, msgs),
         Head(toClient).kind = "history" <=> kind = "history",
         kind = "channels" => Head(toClient).kind = "channels"
  PROVE  Flow'
<1> DEFINE chs == Head(toClient).chs
           d1 == Delivery("control", kind, chs, msgs)
           d2 == Delivery("cacher", kind, chs, msgs)
<1>1. Messages' = Messages /\ Responses' = Responses /\ Events' = Events
  BY DEF Messages, Responses, Events
<1>2. Head(toClient) \in Responses /\ Tail(toClient) \in Seq(Responses)
  BY TailAt DEF TypeOK
<1>3. events' = Append(Append(events, d1), d2)
  BY DEF Emit
<1>4. /\ d1.to = "control" /\ d1.kind = kind /\ d1.chs = chs /\ d1.msgs = msgs
      /\ d2.to = "cacher" /\ d2.kind = kind /\ d2.chs = chs /\ d2.msgs = msgs
      /\ Delivery("control", d2.kind, d2.chs, d2.msgs) = d1
  BY DEF Delivery
<1> HIDE DEF d1, d2
<1>5. d1 \in Events /\ d2 \in Events
  <2>1. Append(events, d1) \in Seq(Events \cup {d1})
    BY AppendIs DEF TypeOK
  <2>2. /\ d2 \in Events
        /\ \A i \in 1..Len(events') : events'[i] \in Events
    BY <1>1, <1>3, <2>1, LastIn, ElementOfSeq DEF TypeOK
  <2>3. Len(events') = Len(events) + 2 /\ events'[Len(events) + 1] = d1 /\ Len(events) \in Nat
    BY EmitIs DEF d1
  <2> QED
    BY <2>2, <2>3
<1>6. NotRunning'
  BY DEF NotRunning
<1>7. Apart(toServer', toClient', events')
  <2>1. Signalled(events, events', kind, Head(toClient).chs, msgs)
    BY EmitSignals
  <2> QED
    BY <2>1, ReadApart DEF Flow, TypeOK
<1>8. ListedOnce'
  <2>1. Listed(Head(toClient)) /\ Tail(toClient) \in Seq({r \in Responses : Listed(r)})
    BY TailAt DEF Flow, ListedOnce
  <2>2. Listed(d1) /\ Listed(d2)
    BY <1>4, <2>1 DEF Listed
  <2>3. events' \in Seq({e \in Events : Listed(e)})
    <3> DEFINE E == {e \in Events : Listed(e)}
    <3>1. events \in Seq(E) /\ d1 \in E /\ d2 \in E
      BY <1>5, <2>2 DEF Flow, ListedOnce
    <3> HIDE DEF E
    <3>2. Append(events, d1) \in Seq(E)
      BY <3>1, AppendAt
    <3>3. Append(Append(events, d1), d2) \in Seq(E)
      BY <3>1, <3>2, AppendAt
    <3> QED
      BY <1>3, <3>3 DEF E
  <2> QED
    BY <1>1, <2>1, <2>3 DEF ListedOnce
<1>9. CASE Histories /\ kind = "history"
  <2>1. Tail(toClient) \in Seq(HistoryResponses)
    BY <1>9, TailAt DEF Histories
  <2>2. d1 \in HistoryCalls /\ d2 \in HistoryCalls /\ events \in Seq(HistoryCalls)
    BY <1>4, <1>5, <1>9 DEF HistoryCalls, Histories
  <2>3. Append(events, d1) \in Seq(HistoryCalls)
    BY <2>2, AppendAt
  <2>4. events' \in Seq(HistoryCalls)
    BY <1>3, <2>2, <2>3, AppendAt
  <2>5. Histories'
    BY <1>1, <1>9, <2>1, <2>4 DEF Histories, HistoryRequests, HistoryResponses, HistoryCalls
  <2> QED
    BY <1>6, <1>7, <1>8, <2>5 DEF Flow, OneKind
<1>10. CASE LoneResponse
  <2>1. toServer' = << >> /\ toClient' = << >>
    BY <1>10 DEF LoneResponse
  <2>2. events' = <<d1, d2>>
    BY <1>3, <1>10, TwoQueued DEF LoneResponse
  <2>3. events' = Pair(d2)
    BY <1>4, <2>2 DEF Pair
  <2>4. LoneSignal'
    BY <1>1, <1>4, <1>5, <2>1, <2>3 DEF LoneSignal
  <2> QED
    BY <1>6, <1>7, <1>8, <2>4 DEF Flow, OneKind
<1>11. Histories => kind = "history"
  <2>1. Histories => Head(toClient) \in HistoryResponses
    BY TailAt DEF Histories
  <2> QED
    BY <2>1 DEF HistoryResponses
<1> QED
  BY <1>9, <1>10, <1>11 DEF Flow, OneKind, LoneRequest, LoneSignal

LEMMA IoFlow ==
  ASSUME TypeOK, TypeOK', IdInv, Flow, IoStep
  PROVE  Flow'
<1>1. UNCHANGED <<posted, phase, toServer>>
  BY DEF IoStep, ReadAccepted, SetLoginId, ReadChannels, ReadHistory, ReadEcho, ReadJoined,
         server, link
<1>2. Messages' = Messages /\ Responses' = Responses /\ Events' = Events
  BY <1>1 DEF Messages, Responses, Events
<1>3. toClient # << >> => Head(toClient) \in Responses /\ phase # "offline"
  BY TailAt DEF TypeOK, IdInv, AcceptedFirst
<1>4. CASE ReadAccepted
  <2>1. PICK kind \in Accepted : Reads(kind) /\ Emit(kind, << >>, << >>)
    BY <1>4 DEF ReadAccepted, Accepted
  <2>2. toClient # << >> /\ toClient' = Tail(toClient) /\ Head(toClient).kind = kind
    BY <2>1 DEF Reads
  <2>3. toServer = << >> /\ toClient = <<Head(toClient)>> /\ events = << >>
    BY <2>1, <2>2, LoneRead DEF Flow, Accepted
  <2> DEFINE d1 == Delivery("control", kind, << >>, << >>)
             d2 == Delivery("cacher", kind, << >>, << >>)
  <2>4. toServer' = << >> /\ toClient' = << >> /\ events' = <<d1, d2>>
    BY <1>1, <2>1, <2>2, <2>3, TwoQueued, SMTT(30) DEF Emit
  <2>5. /\ d1.to = "control" /\ d1.kind = kind
        /\ d2.to = "cacher" /\ d2.kind = kind
        /\ Pair(d2) = <<d1, d2>>
    BY DEF Delivery, Pair
  <2>6. d1 \in Events /\ d2 \in Events
    BY <2>1 DEF Delivery, Events, Accepted
  <2> HIDE DEF d1, d2
  <2>7. OneKind'
    BY <1>2, <2>4, <2>5, <2>6 DEF OneKind, LoneSignal
  <2>8. Apart(toServer', toClient', events')
    BY <2>4, <2>5, <2>6, SignalApart
  <2>9. ListedOnce'
    <3>1. Listed(d1) /\ Listed(d2)
      BY <2>1, <2>5 DEF Listed, Accepted
    <3> QED
      BY <1>2, <2>4, <2>6, <3>1 DEF ListedOnce
  <2>10. NotRunning'
    BY <1>1, <1>3, <2>2 DEF NotRunning
  <2> QED
    BY <2>7, <2>8, <2>9, <2>10 DEF Flow
<1>5. CASE SetLoginId
  BY <1>2, <1>5 DEF SetLoginId, link, Flow, OneKind, Histories, LoneRequest, LoneResponse,
     LoneSignal, ListedOnce, NotRunning, HistoryRequests, HistoryResponses, HistoryCalls
<1>6. CASE ReadChannels \/ ReadJoined
  <2>1. PICK kind \in {"channels", "joined"} :
           Reads(kind) /\ Emit(kind, Head(toClient).chs, << >>)
    BY <1>6 DEF ReadChannels, ReadJoined
  <2> QED
    BY <1>1, <1>3, <2>1, ReadFlow DEF Reads
<1>7. ASSUME ReadHistory \/ ReadEcho,
             NEW kind \in {"history", "text"}, NEW msgs,
             Emit(kind, <<Head(toClient).chs[1]>>, msgs),
             Reads("history") <=> kind = "history", Reads("history") \/ Reads("echo")
      PROVE  Flow'
  <2>1. toClient # << >> /\ Head(toClient).kind \in {"history", "echo"} /\ toClient' = Tail(toClient)
    BY <1>7 DEF Reads
  <2>2. Head(toClient).chs \in One(Channels)
    BY <1>3, <2>1 DEF Responses
  <2>3. <<Head(toClient).chs[1]>> = Head(toClient).chs
    BY <2>2, OneChannel
  <2>4. Emit(kind, Head(toClient).chs, msgs)
    BY <1>7, <2>3
  <2>5. Head(toClient).kind = "history" <=> kind = "history"
    BY <1>7 DEF Reads
  <2> QED
    BY <1>1, <1>3, <2>1, <2>4, <2>5, ReadFlow
<1>8. CASE ReadHistory
  BY <1>7, <1>8 DEF ReadHistory
<1>9. CASE ReadEcho /\ Head(toClient).chs[1] \in entries
  BY <1>7, <1>9 DEF ReadEcho, Reads
<1>10. CASE ReadEcho /\ Head(toClient).chs[1] \notin entries
  <2>1. /\ toClient # << >> /\ Head(toClient).kind = "echo"
        /\ toClient' = Tail(toClient) /\ UNCHANGED events
    BY <1>10 DEF ReadEcho, Reads
  <2>2. toServer = << >> /\ toClient = <<Head(toClient)>> /\ events = << >>
    BY <2>1, LoneRead DEF Flow
  <2>3. toServer' = << >> /\ toClient' = << >> /\ events' = << >>
    BY <1>1, <2>1, <2>2
  <2> QED
    BY <2>3, NothingApart DEF Flow, OneKind, Histories, ListedOnce, NotRunning
<1> QED
  BY <1>4, <1>5, <1>6, <1>8, <1>9, <1>10 DEF IoStep

\* The requests for the histories of a list of channels
HistoriesOf(chs) == [i \in DOMAIN chs |-> HistoryRequest(chs[i], SinceBack(Load(chs[i])))]

\* They are for different channels.
LEMMA HistoriesFlow ==
  ASSUME TypeOK, NEW chs \in Seq(Channels), Unrepeated(chs)
  PROVE  /\ HistoriesOf(chs) \in Seq(HistoryRequests)
         /\ Len(HistoriesOf(chs)) = Len(chs)
         /\ \A i \in 1..Len(chs) : HistoriesOf(chs)[i] = HistoryRequest(chs[i], SinceBack(Load(chs[i])))
         /\ Apart(HistoriesOf(chs), << >>, << >>)
<1> DEFINE reqs == HistoriesOf(chs)
<1>1. reqs \in Seq(Requests) /\ Len(reqs) = Len(chs) /\ Len(chs) \in Nat /\ DOMAIN chs = 1..Len(chs)
  BY HistoriesAsked DEF HistoriesOf, Load
<1>2. \A i \in 1..Len(chs) : reqs[i] = HistoryRequest(chs[i], SinceBack(Load(chs[i])))
  BY <1>1 DEF HistoriesOf
<1> HIDE DEF reqs
<1>3. \A i \in 1..Len(chs) : reqs[i].kind = "history" /\ reqs[i].ch = chs[i]
  <2> SUFFICES ASSUME NEW i \in 1..Len(chs) PROVE reqs[i].kind = "history" /\ reqs[i].ch = chs[i]
    OBVIOUS
  <2>1. reqs[i] = HistoryRequest(chs[i], SinceBack(Load(chs[i])))
    BY <1>2
  <2> QED
    BY <2>1 DEF HistoryRequest, Request
<1>4. \A i \in 1..Len(chs) : reqs[i] \in HistoryRequests
  BY <1>1, <1>3, ElementOfSeq DEF HistoryRequests
<1>5. reqs \in [1..Len(chs) -> HistoryRequests]
  BY <1>1, <1>4
<1>6. reqs \in Seq(HistoryRequests)
  BY <1>1, <1>5, FunctionIsSeq
<1>7. Apart(reqs, << >>, << >>)
  <2>1. OneRequest(reqs)
    BY <1>1, <1>3 DEF OneRequest, Unrepeated
  <2>2. OneResponse(<< >>) /\ OneCall(<< >>)
    BY DEF OneResponse, OneCall
  <2>3. Unanswered(reqs, << >>) /\ Unheard(reqs, << >>) /\ Unsignalled(<< >>, << >>)
    BY DEF Unanswered, Unheard, Unsignalled
  <2> QED
    BY <2>1, <2>2, <2>3 DEF Apart
<1> QED
  BY <1>1, <1>2, <1>6, <1>7 DEF reqs

LEMMA GuiFlow ==
  ASSUME TypeOK, TypeOK', IdInv, Flow, GuiStep
  PROVE  Flow'
<1>1. /\ events # << >> /\ events' = Tail(events)
      /\ UNCHANGED <<posted, phase, toClient>>
  BY DEF GuiStep, ChangeWindow, OnAuthorized, OnRegistered, AddChannels, OnChannelsReceived,
         OnJoined, UpdateWidget, SaveMessages, Slot, server, link
<1>2. Messages' = Messages /\ Responses' = Responses /\ Events' = Events
  BY <1>1 DEF Messages, Responses, Events
<1>3. NotRunning'
  BY <1>1 DEF Flow, NotRunning
<1>4. Head(events) \in Events /\ Listed(Head(events))
  BY <1>1, TailAt DEF TypeOK, Flow, ListedOnce
<1>5. ListedOnce'
  BY <1>1, <1>2, TailAt DEF Flow, ListedOnce
<1>6. CASE UNCHANGED toServer
  <2>1. Apart(toServer', toClient', events')
    BY <1>1, <1>6, CalledApart DEF Flow, TypeOK
  <2>2. OneKind'
    <3>1. CASE Histories
      <4>1. Tail(events) \in Seq(HistoryCalls)
        BY <1>1, <3>1, TailAt DEF Histories
      <4> QED
        BY <1>1, <1>2, <1>6, <3>1, <4>1 DEF OneKind, Histories, HistoryRequests,
           HistoryResponses, HistoryCalls
    <3>2. CASE LoneSignal
      <4>1. toServer' = << >> /\ toClient' = << >>
        BY <1>1, <1>6, <3>2 DEF LoneSignal
      <4>2. SecondHalf(events, events')
        BY <1>1, <3>2, SignalHalves
      <4>3. CASE events' = << >>
        BY <4>1, <4>3 DEF OneKind, Histories
      <4>4. CASE \E e \in Events : events' = <<e>> /\ e.to = "cacher"
        BY <1>2, <4>1, <4>4 DEF OneKind, LoneSignal
      <4> QED
        BY <4>2, <4>3, <4>4 DEF SecondHalf
    <3> QED
      BY <1>1, <3>1, <3>2 DEF Flow, OneKind, LoneRequest, LoneResponse
  <2> QED
    BY <1>3, <1>5, <2>1, <2>2 DEF Flow
<1>7. ASSUME NEW reqs, Send(reqs), Head(events).to = "cacher", Head(events).kind # "history",
             reqs \in Seq(HistoryRequests) \/ (\E q \in Requests : reqs = <<q>>),
             Apart(reqs, << >>, << >>)
      PROVE  Flow'
  <2>1. toServer = << >> /\ toClient' = << >> /\ events' = << >>
    BY <1>1, <1>7, LoneCalled DEF Flow, SecondHalf
  <2>2. CASE phase # "online"
    <3>1. toServer' = << >>
      BY <1>7, <2>1, <2>2 DEF Send
    <3> QED
      BY <1>3, <1>5, <2>1, <3>1, NothingApart DEF Flow, OneKind, Histories
  <2>3. CASE phase = "online"
    <3>1. toServer' = reqs
      <4>1. << >> \o reqs = reqs
        BY <1>7, ConcatEmptySeq
      <4> QED
        BY <1>7, <2>1, <2>3, <4>1 DEF Send
    <3>2. OneKind'
      <4>1. CASE reqs \in Seq(HistoryRequests)
        <5>1. toServer' \in Seq(HistoryRequests)
          BY <3>1, <4>1
        <5>2. toClient' \in Seq(HistoryResponses') /\ events' \in Seq(HistoryCalls')
          BY <2>1
        <5> QED
          BY <5>1, <5>2 DEF OneKind, Histories, HistoryRequests
      <4>2. CASE \E q \in Requests : reqs = <<q>>
        BY <2>1, <3>1, <4>2 DEF OneKind, LoneRequest, Requests
      <4> QED
        BY <1>7, <4>1, <4>2
    <3> QED
      BY <1>3, <1>5, <1>7, <2>1, <3>1, <3>2 DEF Flow
  <2> QED
    BY <2>2, <2>3
<1>8. CASE OnAuthorized
  <2>1. Request("channels", "", NoTime) \in Requests
    BY NoTime \in Nat DEF TypeOK, Request, Requests, NoTime
  <2>2. Apart(<<Request("channels", "", NoTime)>>, << >>, << >>)
    BY OneApart
  <2> QED
    BY <1>7, <1>8, <2>1, <2>2 DEF OnAuthorized, AskForChannels, ChannelsRequest, Slot
<1>9. CASE OnJoined
  <2> DEFINE ch == Head(events).chs[1]
  <2>1. PICK since \in SincesNewest(hist[ch]) : Send(<<HistoryRequest(ch, since)>>)
    BY <1>9 DEF OnJoined
  <2>2. ch \in Channels
    <3>1. Head(events).chs \in One(Channels)
      BY <1>4, <1>9 DEF OnJoined, Slot, Events
    <3> QED
      BY <3>1, OneChannel
  <2>3. HistoryRequest(ch, since) \in Requests
    BY <2>2, HistoryAsked, ElementOfSeq, 1 \in 1..1, Len(<<HistoryRequest(ch, since)>>) = 1,
       <<HistoryRequest(ch, since)>>[1] = HistoryRequest(ch, since)
  <2>4. Apart(<<HistoryRequest(ch, since)>>, << >>, << >>)
    BY OneApart
  <2> QED
    BY <1>7, <1>9, <2>1, <2>3, <2>4 DEF OnJoined, Slot
<1>10. CASE OnChannelsReceived
  <2> DEFINE chs == Head(events).chs
  <2>1. Head(events).kind = "channels" /\ Head(events).to = "cacher" /\ Send(HistoriesOf(chs))
    BY <1>10 DEF OnChannelsReceived, Slot, HistoriesOf
  <2>2. chs \in Seq(Channels) /\ Unrepeated(chs)
    BY <1>4, <2>1 DEF Events, Listed
  <2>3. HistoriesOf(chs) \in Seq(HistoryRequests) /\ Apart(HistoriesOf(chs), << >>, << >>)
    BY <2>2, HistoriesFlow
  <2> QED
    BY <1>7, <2>1, <2>3
<1>11. CASE ChangeWindow \/ OnRegistered \/ AddChannels \/ UpdateWidget \/ SaveMessages
  BY <1>6, <1>11 DEF ChangeWindow, OnRegistered, AddChannels, UpdateWidget, SaveMessages, link
<1> QED
  BY <1>8, <1>9, <1>10, <1>11 DEF GuiStep

\* A new message adds to what there can be.
LEMMA PostGrows ==
  ASSUME TypeOK, NEW ch \in Channels, Post(ch)
  PROVE  /\ Responses \subseteq Responses' /\ Events \subseteq Events'
         /\ Len(posted) \in Nat /\ Len(posted') = Len(posted) + 1
         /\ \A m \in 1..Len(posted) : posted'[m] = posted[m]
         /\ posted'[Len(posted) + 1].ch = ch
<1>1. PICK lag \in 0..Skew, quoted \in BOOLEAN :
         posted' = Append(posted, [ch |-> ch, time |-> Len(posted) + 1 - lag, quoted |-> quoted])
  BY DEF Post
<1>2. /\ Len(posted) \in Nat /\ Len(posted') = Len(posted) + 1
      /\ \A m \in 1..Len(posted) + 1 :
            posted'[m] = IF m <= Len(posted) THEN posted[m]
                         ELSE [ch |-> ch, time |-> Len(posted) + 1 - lag, quoted |-> quoted]
  BY <1>1, AppendIs DEF TypeOK
<1>3. \A s \in Seq(Messages) : s \in Seq(Messages')
  <2>1. Messages \subseteq Messages'
    BY <1>2 DEF Messages
  <2> QED
    BY <2>1, SeqMonotonic
<1>4. Responses \subseteq Responses' /\ Events \subseteq Events'
  BY <1>3 DEF Responses, Events
<1> QED
  BY <1>2, <1>4

LEMMA RestFlow ==
  ASSUME Calm, TypeOK, TypeOK', IdInv, Flow, UserStep \/ Cut \/ Crash
  PROVE  Flow'
<1>1. CASE \E ch \in Channels : Post(ch)
  <2>1. PICK ch \in Channels : Post(ch)
    BY <1>1
  <2>2. UNCHANGED <<phase, toServer, events>>
    BY <2>1 DEF Post
  <2>3. Responses \subseteq Responses' /\ Events \subseteq Events'
    BY <2>1, PostGrows
  <2>4. NotRunning'
    BY <2>2 DEF Flow, NotRunning
  <2>5. CASE UNCHANGED toClient
    <3>1. /\ {r \in Responses : Listed(r)} \subseteq {r \in Responses : Listed(r)}'
          /\ {e \in Events : Listed(e)} \subseteq {e \in Events : Listed(e)}'
          /\ HistoryResponses \subseteq HistoryResponses' /\ HistoryCalls \subseteq HistoryCalls'
      BY <2>3 DEF HistoryResponses, HistoryCalls
    <3>2. ListedOnce'
      BY <2>2, <2>5, <3>1, SeqMonotonic DEF Flow, ListedOnce
    <3>3. CASE Histories
      <4>1. Histories'
        BY <2>2, <2>5, <3>1, <3>3, SeqMonotonic DEF Histories, HistoryRequests
      <4> QED
        BY <2>2, <2>4, <2>5, <3>2, <4>1 DEF Flow, OneKind
    <3>4. CASE LoneRequest \/ LoneResponse \/ LoneSignal
      <4>1. (LoneRequest \/ LoneResponse \/ LoneSignal)'
        BY <2>2, <2>3, <2>5, <3>4 DEF LoneRequest, LoneResponse, LoneSignal, Requests
      <4> QED
        BY <2>2, <2>4, <2>5, <3>2, <4>1 DEF Flow, OneKind
    <3> QED
      BY <3>3, <3>4 DEF Flow, OneKind
  <2>6. CASE phase = "online" /\ ch \in subs
    <3>1. toServer = << >> /\ toClient = << >> /\ events = << >>
      BY <2>1, <2>6 DEF Post, Settled
    <3> DEFINE r == Response("echo", <<ch>>, <<Len(posted) + 1>>)
    <3>2. toClient' = <<r>>
      BY <2>1, <2>6, <3>1 DEF Post
    <3>3. r \in Responses' /\ Listed(r)
      <4>1. r \in Responses'
        BY <3>2, ElementOfSeq, 1 \in 1..Len(toClient'), toClient'[1] = r DEF TypeOK
      <4> QED
        BY <4>1 DEF Listed, Response
    <3> HIDE DEF r
    <3>4. LoneResponse' /\ ListedOnce'
      BY <2>2, <3>1, <3>2, <3>3 DEF LoneResponse, ListedOnce
    <3>5. Apart(<< >>, <<r>>, << >>)
      BY OneApart
    <3> QED
      BY <2>2, <2>4, <3>1, <3>2, <3>4, <3>5 DEF Flow, OneKind
  <2> QED
    BY <2>1, <2>5, <2>6 DEF Post
<1>2. CASE ~\E ch \in Channels : Post(ch)
  <2>1. Messages' = Messages /\ Responses' = Responses /\ Events' = Events
    BY <1>2 DEF UserStep, Login, Register, Connect, UserJoins, Cut, Crash, server, Messages,
       Responses, Events
  <2>2. CASE \E ch \in Channels : UserJoins(ch)
    <3>1. PICK ch \in Channels : UserJoins(ch)
      BY <2>2
    <3>2. /\ toServer = << >> /\ toClient = << >> /\ events = << >> /\ phase = "online"
          /\ UNCHANGED <<phase, toClient, events>> /\ Send(<<Request("join", ch, NoTime)>>)
      BY <3>1 DEF UserJoins, Settled, JoinRequest
    <3>3. Request("join", ch, NoTime) \in Requests
      BY RequestType, NoTime \in Nat DEF TypeOK, NoTime
    <3> DEFINE q == Request("join", ch, NoTime)
    <3> HIDE DEF q
    <3>4. toServer' = <<q>> /\ toClient' = << >> /\ events' = << >>
      <4>1. << >> \o <<q>> = <<q>>
        OBVIOUS
      <4> QED
        BY <3>2, <4>1 DEF Send, q
    <3>5. LoneRequest'
      BY <3>3, <3>4 DEF LoneRequest, Requests, q
    <3> QED
      BY <3>2, <3>4, <3>5, OneApart DEF Flow, OneKind, ListedOnce, NotRunning
  <2>3. CASE Login \/ Register
    <3>1. PICK kind \in Accepted : Connect(kind)
      BY <2>3 DEF Login, Register, Accepted
    <3> DEFINE r == Response(kind, << >>, << >>)
    <3>2. toServer' = << >> /\ toClient' = <<r>> /\ events' = << >> /\ phase' = "online"
      BY <3>1 DEF Connect, Flow, NotRunning, IdInv, AcceptedFirst
    <3>3. r \in Responses /\ Listed(r)
      BY DEF Response, Responses, Listed, Accepted
    <3> HIDE DEF r
    <3>4. LoneResponse' /\ ListedOnce'
      BY <2>1, <3>2, <3>3 DEF LoneResponse, ListedOnce
    <3>5. Apart(<< >>, <<r>>, << >>)
      BY OneApart
    <3> QED
      BY <3>2, <3>4, <3>5 DEF Flow, OneKind, NotRunning
  <2>4. CASE Cut
    <3>1. /\ toServer' = << >> /\ events' = events /\ phase' = "cut"
      BY <2>4 DEF Cut
    <3>2. PICK n \in 0..Len(toClient) : toClient' = SubSeq(toClient, 1, n)
      BY <2>4 DEF Cut
    <3>3. Apart(toServer', toClient', events')
      BY <3>1, <3>2, CutApart DEF Flow, TypeOK
    <3>4. \A S : toClient \in Seq(S) => toClient' \in Seq(S)
      BY <3>2
    <3>5. ListedOnce' /\ NotRunning'
      BY <2>1, <3>1, <3>4 DEF Flow, ListedOnce, NotRunning
    <3>6. CASE Histories
      BY <2>1, <3>1, <3>3, <3>4, <3>5, <3>6 DEF Flow, OneKind, Histories, HistoryRequests,
         HistoryResponses, HistoryCalls
    <3>7. CASE LoneRequest
      <4>1. toClient' = << >>
        BY <3>2, <3>7, SubSeqEmpty DEF LoneRequest
      <4> QED
        BY <3>1, <3>3, <3>5, <3>7, <4>1 DEF Flow, OneKind, Histories, LoneRequest
    <3>8. CASE LoneResponse
      <4>1. PICK r \in Responses : toClient = <<r>> /\ events = << >>
        BY <3>8 DEF LoneResponse
      <4>2. Len(<<r>>) = 1 /\ SubSeq(<<r>>, 1, 1) = <<r>>
        <5>1. <<r>> \in Seq(Responses) /\ Len(<<r>>) = 1
          BY <4>1
        <5> QED
          BY <5>1, SubSeqFull
      <4>3. toClient' = << >> \/ toClient' = <<r>>
        <5>1. n = 0 \/ n = 1
          BY <4>1, <4>2
        <5>2. CASE n = 0
          BY <3>2, <5>2, SubSeqEmpty
        <5>3. CASE n = 1
          BY <3>2, <4>1, <4>2, <5>3
        <5> QED
          BY <5>1, <5>2, <5>3
      <4>4. CASE toClient' = << >>
        BY <3>1, <3>3, <3>5, <4>1, <4>4 DEF Flow, OneKind, Histories
      <4>5. CASE toClient' = <<r>>
        <5>1. LoneResponse'
          BY <2>1, <3>1, <4>1, <4>5 DEF LoneResponse
        <5> QED
          BY <3>3, <3>5, <5>1 DEF Flow, OneKind
      <4> QED
        BY <4>3, <4>4, <4>5
    <3>9. CASE LoneSignal
      <4>1. toClient' = << >>
        BY <3>2, <3>9, SubSeqEmpty DEF LoneSignal
      <4> QED
        BY <2>1, <3>1, <3>3, <3>5, <3>9, <4>1 DEF Flow, OneKind, LoneSignal
    <3> QED
      BY <3>6, <3>7, <3>8, <3>9 DEF Flow, OneKind
  <2>5. CASE Crash
    <3>1. toServer' = << >> /\ toClient' = << >> /\ events' = << >>
      BY <2>5 DEF Crash, Forgotten
    <3> QED
      BY <3>1, NothingApart DEF Flow, OneKind, Histories, ListedOnce, NotRunning
  <2> QED
    BY <1>2, <2>2, <2>3, <2>4, <2>5 DEF UserStep
<1> QED
  BY <1>1, <1>2

LEMMA InitFlow == Init => Flow
  BY NothingApart DEF Init, Flow, OneKind, Histories, ListedOnce, NotRunning

LEMMA StepFlow ==
  ASSUME Calm, TypeOK, TypeOK', IdInv, Flow, [Next]_vars
  PROVE  Flow'
<1>1. CASE Next
  BY <1>1, ServerFlow, IoFlow, GuiFlow, RestFlow DEF Next
<1>2. CASE UNCHANGED vars
  <2>1. UNCHANGED <<posted, phase, toServer, toClient, events>>
    BY <1>2 DEF vars, server, link
  <2>2. Messages' = Messages /\ Responses' = Responses /\ Events' = Events
    BY <2>1 DEF Messages, Responses, Events
  <2>3. OneKind'
    BY <2>1, <2>2 DEF Flow, OneKind, Histories, LoneRequest, LoneResponse, LoneSignal,
       HistoryRequests, HistoryResponses, HistoryCalls, Requests
  <2> QED
    BY <2>1, <2>2, <2>3 DEF Flow, ListedOnce, NotRunning
<1> QED
  BY <1>1, <1>2

-----------------------------------------------------------------------------
(* Every request carries the identifier                                    *)

\* A slot that runs has been queued by a response that was read when the
\* identifier was stored, or by the accepted one, which is alone.
LEMMA KnownByNow ==
  ASSUME TypeOK, IdInv, Flow, phase # "offline", io = "reading",
         toClient = << >> \/ events # << >>
  PROVE  idKnown
<1> SUFFICES ASSUME ~idKnown PROVE FALSE
  BY DEF TypeOK
<1>1. toClient # << >> /\ Head(toClient).kind \in Accepted
  BY DEF IdInv, AcceptedFirst
<1> QED
  BY <1>1, LoneRead DEF Flow, Accepted

AllIdentified == toServer \in Seq({q \in Requests : q.identified})

LEMMA SentIdentified ==
  ASSUME TypeOK, TypeOK', AllIdentified, NEW reqs \in Seq({q \in Requests : q.identified}),
         Send(reqs)
  PROVE  AllIdentified'
<1>1. toServer \o reqs \in Seq({q \in Requests : q.identified})
  BY ConcatProperties DEF AllIdentified
<1> QED
  BY <1>1 DEF Send, AllIdentified, Requests

LEMMA GuiIdentified ==
  ASSUME Calm, TypeOK, TypeOK', IdInv, Flow, AllIdentified, GuiStep
  PROVE  AllIdentified'
<1> DEFINE S == {q \in Requests : q.identified}
<1>1. /\ events # << >> /\ io = "reading" /\ UNCHANGED idKnown
      /\ Head(events) \in Events /\ Listed(Head(events))
  <2>1. events # << >> /\ io = "reading" /\ UNCHANGED idKnown
    BY DEF GuiStep, ChangeWindow, OnAuthorized, OnRegistered, AddChannels, OnChannelsReceived,
           OnJoined, UpdateWidget, SaveMessages, Slot, client
  <2> QED
    BY <2>1, TailAt DEF TypeOK, Flow, ListedOnce
<1>2. idKnown = TRUE
  BY <1>1, KnownByNow DEF Flow, NotRunning, TypeOK
<1>3. \A q \in Requests : \A kind, ch, since : q = Request(kind, ch, since) => q \in S
  BY <1>2 DEF Request
<1>4. CASE UNCHANGED toServer
  BY <1>4 DEF AllIdentified, Requests
<1>5. CASE OnAuthorized
  <2>1. Request("channels", "", NoTime) \in Requests
    BY NoTime \in Nat DEF TypeOK, Request, Requests, NoTime
  <2>2. <<Request("channels", "", NoTime)>> \in Seq(S)
    BY <1>3, <2>1, OneIsSeq
  <2> QED
    BY <1>5, <2>2, SentIdentified DEF OnAuthorized, AskForChannels, ChannelsRequest
<1>6. CASE OnJoined
  <2> DEFINE ch == Head(events).chs[1]
  <2>1. PICK since \in SincesNewest(hist[ch]) : Send(<<HistoryRequest(ch, since)>>)
    BY <1>6 DEF OnJoined
  <2>2. ch \in Channels
    <3>1. Head(events).chs \in One(Channels)
      BY <1>1, <1>6 DEF OnJoined, Slot, Events
    <3> QED
      BY <3>1, OneChannel
  <2>3. HistoryRequest(ch, since) \in Requests
    BY <2>2, HistoryAsked, ElementOfSeq, 1 \in 1..1, Len(<<HistoryRequest(ch, since)>>) = 1,
       <<HistoryRequest(ch, since)>>[1] = HistoryRequest(ch, since)
  <2>4. HistoryRequest(ch, since) \in S
    BY <1>3, <2>3 DEF HistoryRequest
  <2>5. <<HistoryRequest(ch, since)>> \in Seq(S)
    BY <2>4, OneIsSeq
  <2> QED
    BY <2>1, <2>5, SentIdentified
<1>7. CASE OnChannelsReceived
  <2> DEFINE chs == Head(events).chs
             reqs == HistoriesOf(chs)
  <2>1. Head(events).kind = "channels" /\ Send(reqs)
    BY <1>7 DEF OnChannelsReceived, Slot, HistoriesOf
  <2>2. chs \in Seq(Channels) /\ Unrepeated(chs)
    BY <1>1, <2>1 DEF Events, Listed
  <2>3. /\ reqs \in Seq(HistoryRequests) /\ Len(reqs) = Len(chs)
        /\ \A i \in 1..Len(chs) : reqs[i] = HistoryRequest(chs[i], SinceBack(Load(chs[i])))
    BY <2>2, HistoriesFlow
  <2> HIDE DEF reqs
  <2>4. \A i \in 1..Len(reqs) : reqs[i] \in S
    <3> SUFFICES ASSUME NEW i \in 1..Len(reqs) PROVE reqs[i] \in S
      OBVIOUS
    <3>1. reqs[i] \in Requests
      BY <2>3, ElementOfSeq DEF HistoryRequests
    <3> QED
      BY <1>3, <2>3, <3>1 DEF HistoryRequest
  <2> HIDE DEF S
  <2>5. reqs \in [1..Len(reqs) -> S]
    BY <2>3, <2>4
  <2>6. reqs \in Seq(S)
    BY <2>3, <2>5, FunctionIsSeq
  <2> QED
    BY <2>1, <2>6, SentIdentified DEF S
<1> QED
  BY <1>4, <1>5, <1>6, <1>7 DEF GuiStep, ChangeWindow, OnRegistered, AddChannels,
     UpdateWidget, SaveMessages, link

LEMMA StepIdentified ==
  ASSUME Calm, TypeOK, TypeOK', IdInv, Flow, AllIdentified, [Next]_vars
  PROVE  AllIdentified'
<1>1. CASE GuiStep
  BY <1>1, GuiIdentified
<1>2. CASE ServerStep
  <2>1. toServer # << >> /\ toServer' = Tail(toServer)
    BY <1>2 DEF ServerStep, ServeChannels, ServeHistory, ServeJoin, DropUnidentified, Serves
  <2> QED
    BY <2>1, TailAt DEF AllIdentified, Requests
<1>3. CASE \E ch \in Channels : UserJoins(ch)
  <2>1. PICK ch \in Channels : UserJoins(ch)
    BY <1>3
  <2> DEFINE q == Request("join", ch, NoTime)
  <2>2. Send(<<q>>) /\ Settled
    BY <2>1 DEF UserJoins, JoinRequest
  <2>3. idKnown = TRUE
    BY <2>2, KnownByNow DEF Settled, TypeOK
  <2>4. q \in Requests /\ q.identified
    <3>1. q \in Requests
      BY RequestType, NoTime \in Nat DEF TypeOK, NoTime
    <3> QED
      BY <2>3, <3>1 DEF Request
  <2> HIDE DEF q
  <2>5. <<q>> \in Seq({r \in Requests : r.identified})
    BY <2>4, OneIsSeq
  <2> QED
    BY <2>2, <2>5, SentIdentified
<1>4. CASE UNCHANGED toServer
  BY <1>4 DEF AllIdentified, Requests
<1>5. CASE toServer' = << >>
  BY <1>5 DEF AllIdentified
<1> QED
  BY <1>1, <1>2, <1>3, <1>4, <1>5 DEF Next, vars, link, IoStep, ReadAccepted, SetLoginId,
     ReadChannels, ReadHistory, ReadEcho, ReadJoined, UserStep, Login, Register, Connect, Post,
     Cut, Crash

-----------------------------------------------------------------------------
(* No null pointer is dereferenced                                         *)
(*                                                                         *)
(* A widget is added together with the entry, and nobody posts until the   *)
(* channels of the user have theirs.                                       *)

EchoesWelcome == \A i \in 1..Len(toClient) :
    toClient[i].kind = "echo" => toClient[i].chs[1] \in widgets

TextsWelcome == \A i \in 1..Len(events) :
    events[i].kind = "text" => events[i].chs[1] \in widgets

NoHarm == /\ widgets \subseteq entries
          /\ EchoesWelcome /\ TextsWelcome
          /\ fault = "none"

\* What is read is gone, and no echo comes in its place.
LEMMA EchoTaken ==
  ASSUME TypeOK, EchoesWelcome, toClient # << >>, toClient' = Tail(toClient),
         UNCHANGED widgets
  PROVE  EchoesWelcome'
<1>1. /\ Len(toClient) \in Nat \ {0} /\ Len(toClient') = Len(toClient) - 1
      /\ \A i \in 1..Len(toClient) - 1 : toClient'[i] = toClient[i + 1]
  BY TailAt DEF TypeOK
<1>2. \A i \in 1..Len(toClient') : i + 1 \in 1..Len(toClient) /\ toClient'[i] = toClient[i + 1]
  BY <1>1
<1> QED
  BY <1>2 DEF EchoesWelcome

LEMMA ResponseWelcome ==
  ASSUME TypeOK, EchoesWelcome, NEW r, toClient' = Append(toClient, r), UNCHANGED widgets,
         r.kind = "echo" => r.chs[1] \in widgets
  PROVE  EchoesWelcome'
<1>1. /\ Len(toClient) \in Nat /\ Len(toClient') = Len(toClient) + 1
      /\ \A i \in 1..Len(toClient) + 1 :
            toClient'[i] = IF i <= Len(toClient) THEN toClient[i] ELSE r
  BY AppendIs DEF TypeOK
<1>2. \A i \in 1..Len(toClient') : \/ i \in 1..Len(toClient) /\ toClient'[i] = toClient[i]
                                   \/ toClient'[i] = r
  BY <1>1
<1> QED
  BY <1>2 DEF EchoesWelcome

LEMMA TextsQueued ==
  ASSUME TypeOK, TextsWelcome, UNCHANGED widgets, NEW kind, NEW chs, NEW msgs,
         Emit(kind, chs, msgs), kind = "text" => chs[1] \in widgets
  PROVE  TextsWelcome'
<1>1. /\ Len(events) \in Nat /\ Len(events') = Len(events) + 2
      /\ \A i \in 1..Len(events) : events'[i] = events[i]
      /\ events'[Len(events) + 1] = Delivery("control", kind, chs, msgs)
      /\ events'[Len(events) + 2] = Delivery("cacher", kind, chs, msgs)
  BY EmitIs
<1>2. \A i \in 1..Len(events') : \/ i \in 1..Len(events) /\ events'[i] = events[i]
                                 \/ events'[i].kind = kind /\ events'[i].chs = chs
  BY <1>1 DEF Delivery
<1> QED
  BY <1>2 DEF TextsWelcome

LEMMA GuiNoHarm ==
  ASSUME TypeOK, NoHarm, HistoryHasWidget, GuiStep
  PROVE  NoHarm'
<1>1. events # << >> /\ events' = Tail(events) /\ UNCHANGED toClient
  BY DEF GuiStep, ChangeWindow, OnAuthorized, OnRegistered, AddChannels, OnChannelsReceived,
         OnJoined, UpdateWidget, SaveMessages, Slot, link
<1>2. widgets \subseteq widgets'
  BY DEF GuiStep, ChangeWindow, OnAuthorized, OnRegistered, AddChannels, OnChannelsReceived,
         OnJoined, UpdateWidget, SaveMessages, window
<1>3. EchoesWelcome'
  BY <1>1, <1>2 DEF NoHarm, EchoesWelcome
<1>4. /\ Len(events) \in Nat \ {0} /\ Len(events') = Len(events) - 1
      /\ \A i \in 1..Len(events) - 1 : events'[i] = events[i + 1]
      /\ Head(events) = events[1] /\ Head(events) \in Events
  BY <1>1, TailAt DEF TypeOK
<1>5. TextsWelcome'
  <2>1. \A i \in 1..Len(events') : i + 1 \in 1..Len(events) /\ events'[i] = events[i + 1]
    BY <1>4
  <2> QED
    BY <1>2, <2>1 DEF NoHarm, TextsWelcome
<1>6. widgets' \subseteq entries'
  BY DEF NoHarm, GuiStep, ChangeWindow, OnAuthorized, OnRegistered, AddChannels,
     OnChannelsReceived, OnJoined, UpdateWidget, SaveMessages, window, client, GetPtrHistory, Added
<1>7. fault' = "none"
  <2>1. CASE UpdateWidget
    <3>1. CASE Head(events).kind = "history"
      BY <2>1, <3>1 DEF UpdateWidget, Slot, HistoryHasWidget, NoHarm
    <3>2. CASE Head(events).kind = "text"
      <4>1. Head(events).chs \in One(Channels)
        BY <1>4, <3>2 DEF Events
      <4>2. HeadChannels = {Head(events).chs[1]}
        BY <4>1, OneChannel DEF HeadChannels
      <4>3. Head(events).chs[1] \in widgets
        BY <1>4, <3>2, 1 \in 1..Len(events) DEF NoHarm, TextsWelcome
      <4> QED
        BY <2>1, <4>2, <4>3 DEF UpdateWidget, NoHarm
    <3> QED
      BY <2>1, <3>1, <3>2 DEF UpdateWidget, Slot
  <2> QED
    BY <2>1 DEF NoHarm, GuiStep, ChangeWindow, OnAuthorized, OnRegistered, AddChannels,
       OnChannelsReceived, OnJoined, SaveMessages
<1> QED
  BY <1>3, <1>5, <1>6, <1>7 DEF NoHarm

LEMMA IoNoHarm ==
  ASSUME TypeOK, NoHarm, IoStep
  PROVE  NoHarm'
<1>1. UNCHANGED widgets
  BY DEF IoStep, ReadAccepted, SetLoginId, ReadChannels, ReadHistory, ReadEcho, ReadJoined, window
<1>2. EchoesWelcome'
  <2>1. CASE UNCHANGED toClient
    BY <1>1, <2>1 DEF NoHarm, EchoesWelcome
  <2> QED
    BY <1>1, <2>1, EchoTaken DEF NoHarm, IoStep, ReadAccepted, SetLoginId, ReadChannels,
       ReadHistory, ReadEcho, ReadJoined, Reads, link
<1>3. widgets' \subseteq entries'
  BY <1>1 DEF NoHarm, IoStep, ReadAccepted, SetLoginId, ReadChannels, ReadHistory, ReadEcho,
     ReadJoined, client
<1>4. CASE ReadEcho
  <2>1. toClient # << >> /\ Head(toClient).kind = "echo"
    BY <1>4 DEF ReadEcho, Reads
  <2>2. Head(toClient) = toClient[1] /\ 1 \in 1..Len(toClient) /\ Head(toClient) \in Responses
    BY <2>1, TailAt DEF TypeOK
  <2>3. Head(toClient).chs[1] \in widgets
    BY <2>1, <2>2 DEF NoHarm, EchoesWelcome
  <2>4. PICK msgs : Emit("text", <<Head(toClient).chs[1]>>, msgs) /\ fault' = fault
    BY <1>4, <2>3 DEF ReadEcho, NoHarm
  <2>5. TextsWelcome'
    BY <1>1, <2>3, <2>4, TextsQueued DEF NoHarm
  <2> QED
    BY <1>2, <1>3, <2>4, <2>5 DEF NoHarm
<1>5. CASE ReadAccepted \/ ReadChannels \/ ReadHistory \/ ReadJoined
  <2>1. fault' = fault /\ \E kind, chs, msgs : kind # "text" /\ Emit(kind, chs, msgs)
    BY <1>5 DEF ReadAccepted, ReadChannels, ReadHistory, ReadJoined
  <2>2. TextsWelcome'
    BY <1>1, <2>1, TextsQueued DEF NoHarm
  <2> QED
    BY <1>2, <1>3, <2>1, <2>2 DEF NoHarm
<1>6. CASE SetLoginId
  BY <1>1, <1>2, <1>3, <1>6 DEF SetLoginId, NoHarm, TextsWelcome
<1> QED
  BY <1>4, <1>5, <1>6 DEF IoStep

LEMMA RestNoHarm ==
  ASSUME Calm, TypeOK, NoHarm, ServerStep \/ UserStep \/ Cut \/ Crash
  PROVE  NoHarm'
<1>1. CASE Crash
  BY <1>1 DEF Crash, Forgotten, NoHarm, EchoesWelcome, TextsWelcome
<1>2. CASE ~Crash
  <2>1. UNCHANGED <<events, widgets, entries, fault>>
    BY <1>2 DEF ServerStep, ServeChannels, ServeHistory, ServeJoin, DropUnidentified, UserStep,
       Login, Register, Connect, Post, UserJoins, Cut, client, window
  <2>2. TextsWelcome' /\ widgets' \subseteq entries' /\ fault' = "none"
    BY <2>1 DEF NoHarm, TextsWelcome
  <2>3. CASE UNCHANGED toClient
    BY <2>1, <2>2, <2>3 DEF NoHarm, EchoesWelcome
  <2>4. CASE ServeChannels \/ ServeHistory \/ ServeJoin
    <3>1. ASSUME NEW kind, NEW chs, NEW msgs, Answer(kind, chs, msgs), kind # "echo"
          PROVE  NoHarm'
      <4>1. Response(kind, chs, msgs).kind # "echo"
        BY <3>1 DEF Response
      <4>2. toClient' = Append(toClient, Response(kind, chs, msgs))
        BY <3>1 DEF Answer
      <4> QED
        BY <2>1, <2>2, <4>1, <4>2, ResponseWelcome DEF NoHarm
    <3>2. CASE ServeChannels
      BY <3>1, <3>2 DEF ServeChannels
    <3>3. CASE ServeHistory
      BY <3>1, <3>3 DEF ServeHistory
    <3>4. CASE ServeJoin
      BY <3>1, <3>4 DEF ServeJoin
    <3> QED
      BY <2>4, <3>2, <3>3, <3>4
  <2>5. ASSUME NEW ch \in Channels, Post(ch), phase = "online", ch \in subs PROVE NoHarm'
    <3> DEFINE r == Response("echo", <<ch>>, <<Len(posted) + 1>>)
    <3>1. toClient' = Append(toClient, r) /\ ch \in widgets
      BY <2>5 DEF Post, Settled
    <3>2. r.chs[1] \in widgets
      BY <3>1 DEF Response
    <3> HIDE DEF r
    <3> QED
      BY <2>1, <2>2, <3>1, <3>2, ResponseWelcome DEF NoHarm
  <2>6. CASE Login \/ Register
    <3>1. PICK kind \in Accepted : toClient' = <<Response(kind, << >>, << >>)>>
      BY <2>6 DEF Login, Register, Connect, Accepted
    <3>2. /\ Len(<<Response(kind, << >>, << >>)>>) = 1
          /\ <<Response(kind, << >>, << >>)>>[1].kind # "echo"
      BY DEF Response, Accepted
    <3>3. EchoesWelcome'
      BY <3>1, <3>2 DEF EchoesWelcome
    <3> QED
      BY <2>2, <3>3 DEF NoHarm
  <2>7. CASE Cut
    <3>1. PICK n \in 0..Len(toClient) : toClient' = SubSeq(toClient, 1, n)
      BY <2>7 DEF Cut
    <3>2. Len(toClient') = n /\ \A i \in 1..n : i \in 1..Len(toClient) /\ toClient'[i] = toClient[i]
      <4>1. toClient \in Seq(Responses)
        BY DEF TypeOK
      <4>2. /\ Len(SubSeq(toClient, 1, n)) = n
            /\ \A i \in 1..n : i \in 1..Len(toClient) /\ SubSeq(toClient, 1, n)[i] = toClient[i]
        BY <4>1, PrefixIs
      <4> QED
        BY <3>1, <4>2
    <3>3. EchoesWelcome'
      BY <2>1, <3>1, <3>2 DEF NoHarm, EchoesWelcome, TypeOK
    <3> QED
      BY <2>2, <3>3 DEF NoHarm
  <2> QED
    BY <1>2, <2>3, <2>4, <2>5, <2>6, <2>7 DEF ServerStep, DropUnidentified, UserStep, Post, UserJoins
<1> QED
  BY <1>1, <1>2

\* When the GUI thread runs no slot while the io thread is in the middle of a
\* handler, and nobody posts to the channels of the user before the window shows
\* them, no null pointer is dereferenced, wherever the connection or the program
\* ends.
LEMMA CalmFindsPointers ==
  ASSUME Calm
  PROVE  Spec => [](fault = "none")
<1>1. Init => NoHarm
  BY DEF Init, NoHarm, EchoesWelcome, TextsWelcome
<1>2. TypeOK /\ NoHarm /\ HistoryHasWidget /\ [Next]_vars => NoHarm'
  <2> SUFFICES ASSUME TypeOK, NoHarm, HistoryHasWidget, [Next]_vars PROVE NoHarm'
    OBVIOUS
  <2>1. CASE Next
    BY <2>1, GuiNoHarm, IoNoHarm, RestNoHarm DEF Next
  <2>2. CASE UNCHANGED vars
    BY <2>2 DEF vars, client, window, link, NoHarm, EchoesWelcome, TextsWelcome
  <2> QED
    BY <2>1, <2>2
<1>3. NoHarm => fault = "none"
  BY DEF NoHarm
<1> QED
  BY <1>1, <1>2, <1>3, TypeCorrect, WidgetFound, PTL DEF Spec

=============================================================================
