------------------------------ MODULE HistorySync ------------------------------
(***************************************************************************)
(* How the history of the channels gets to the memory, the window and the  *)
(* cache of a client: the read handlers of Client on the io thread, the    *)
(* slots of Control and HistoryCacher on the GUI thread, the rows of       *)
(* SqliteCache that survive a crash, the widgets of MainWindow, and the    *)
(* server as far as its answers show it.                                   *)
(*                                                                         *)
(* A message is the position it has in posted.  The outgoing queue is the  *)
(* ordered link of FifoLink, and the connection is that of one accepted    *)
(* attempt (LoginSessions has the rest).  The program may be started again *)
(* by another user of the machine: the cache is one file for all of them.  *)
(***************************************************************************)
EXTENDS Integers, Sequences, FiniteSets, SequencesExt

CONSTANTS
    Channels,
    MaxPosts,   \* bound: messages posted, over all channels
    MaxQuoted,  \* bound: those whose text has an apostrophe
    MaxJoins,   \* bound: how many times the user joins a channel
    MaxCrashes, \* bound: how many times the program ends or dies
    Skew,       \* how far a message's time may lie behind its turn: 0 is a
                \* new second each, 1 lets two share a second, 2 turns times
                \* back
    Newcomers,  \* TRUE: users register as well as log in
    Calm        \* TRUE: the GUI thread runs no slot while the io thread is in
                \* the middle of a handler; and while the client is catching
                \* up, nobody posts to its channels and the user joins none

ASSUME HistorySyncAssumption ==
    /\ IsFiniteSet(Channels)
    /\ MaxPosts \in Nat /\ MaxQuoted \in Nat /\ MaxJoins \in Nat
    /\ MaxCrashes \in Nat /\ Skew \in Nat
    /\ Newcomers \in BOOLEAN /\ Calm \in BOOLEAN

VARIABLES
    \* the server
    posted,     \* every message ever posted: its channel, its time, and
                \* whether its text has an apostrophe
    subs,       \* the channels the user has joined
    \* the connection
    phase,      \* offline, online, or cut: lost with the window shown
    toServer,   \* requests in the client's queue or under way: kind, channel,
                \* since, and whether they carry the identifier the server gave
    toClient,   \* responses under way: kind, channels, messages
    \* the client's memory
    io,         \* reading, or inside the handler of a login or registration
                \* response after its emit
    idKnown,    \* client_id has been assigned
    entries,    \* the keys of m_channels_history
    hist,       \* m_channels_history, by channel
    events,     \* the queued slot calls of the GUI thread, oldest first
    mainShown,  \* the main window has replaced the login form
    widgets,    \* the keys of MainWindow::channels_
    \* the disk
    cache,      \* the rows of table history, by channel, in insertion order
    \* bookkeeping
    loaded,     \* on_authorized has loaded the cache into the memory
    joins,
    crashes,
    fault       \* the null pointer that was dereferenced, if any

server == <<posted, subs>>
link == <<phase, toServer, toClient>>
client == <<io, idKnown, entries, hist>>
window == <<mainShown, widgets>>
counts == <<joins, crashes>>
vars == <<server, link, client, window, events, cache, loaded, counts, fault>>

Forgotten == /\ io' = "reading"
             /\ idKnown' = FALSE
             /\ entries' = {}
             /\ hist' = [ch \in Channels |-> << >>]
             /\ events' = << >>
             /\ mainShown' = FALSE
             /\ widgets' = {}
             /\ loaded' = FALSE

Init == /\ posted = << >>
        /\ subs = {}
        /\ phase = "offline"
        /\ toServer = << >>
        /\ toClient = << >>
        /\ io = "reading"
        /\ idKnown = FALSE
        /\ entries = {}
        /\ hist = [ch \in Channels |-> << >>]
        /\ events = << >>
        /\ mainShown = FALSE
        /\ widgets = {}
        /\ cache = [ch \in Channels |-> << >>]
        /\ loaded = FALSE
        /\ joins = 0
        /\ crashes = 0
        /\ fault = "none"

-----------------------------------------------------------------------------

Time(m) == posted[m].time

\* goodok::DateTime{}
NoTime == 0

\* The time a history request starts from: the (one) latest time of the
\* messages at hand, or the time of the last of them
SincesNewest(msgs) ==
    IF msgs = << >> THEN {NoTime}
    ELSE {t \in {Time(msgs[i]) : i \in DOMAIN msgs} :
             \A i \in DOMAIN msgs : Time(msgs[i]) <= t}

\* Mutants: the first message, the next second, a time before the first one
SinceFront(msgs) == IF msgs = << >> THEN NoTime ELSE Time(msgs[1])
SinceAfter(msgs) == IF msgs = << >> THEN NoTime ELSE Time(msgs[Len(msgs)]) + 1
SinceBefore(msgs) == IF msgs = << >> THEN NoTime - 1 ELSE Time(msgs[Len(msgs)])

SinceBack(msgs) == IF msgs = << >> THEN NoTime ELSE Time(msgs[Len(msgs)])

Request(kind, ch, since) ==
    [kind |-> kind, ch |-> ch, since |-> since, identified |-> idKnown]

\* Mutant: the identifier is not set in the request.
AnonymousRequest(ch, since) == [Request("history", ch, since) EXCEPT !.identified = FALSE]

HistoryRequest(ch, since) == Request("history", ch, since)
ChannelsRequest == Request("channels", "", NoTime)
JoinRequest(ch) == Request("join", ch, NoTime)

\* Client::add_msg_to_send: a request goes behind those that are still queued;
\* when the connection has been lost it goes nowhere.  Whether the queue ever
\* moves on is SendQueue's business: here nothing makes the server take it.
Send(reqs) == toServer' = IF phase = "online" THEN toServer \o reqs ELSE toServer

Response(kind, chs, msgs) == [kind |-> kind, chs |-> chs, msgs |-> msgs]

Delivery(to, kind, chs, msgs) == [to |-> to, kind |-> kind, chs |-> chs, msgs |-> msgs]

\* A signal is queued for the slots in the order they were connected.
Emit(kind, chs, msgs) ==
    events' = Append(Append(events, Delivery("control", kind, chs, msgs)),
                     Delivery("cacher", kind, chs, msgs))

\* Mutant: the history that is made is not kept.
GetPtrHistoryLost(chs) == UNCHANGED entries

\* Client::get_ptr_history makes an entry where there is none.
GetPtrHistory(chs) == entries' = entries \cup chs

\* SqliteCache: rows are kept and loaded in the order they were inserted; a
\* key is a channel that has a row.
Load(ch) == cache[ch]

Keys == {ch \in Channels : cache[ch] # << >>}

\* An apostrophe ends the statement early: the insert fails, and nobody looks
\* at save's result.
Insertable(m) == ~posted[m].quoted

\* The one ascending sequence of a set of numbers
Ascending(nums) == {f \in [1..Cardinality(nums) -> nums] :
                       \A i, j \in 1..Cardinality(nums) : i < j => f[i] < f[j]}

\* The (one) sequence of the rows that a sequence of messages leaves
Inserted(msgs) == {[i \in DOMAIN kept |-> msgs[kept[i]]] :
                      kept \in Ascending({i \in DOMAIN msgs : Insertable(msgs[i])})}

\* Mutant: only the first message of a response is saved.
SaveFirst(ch, msgs) ==
    \E rows \in Inserted(IF msgs = << >> THEN << >> ELSE <<Head(msgs)>>) :
        cache' = [cache EXCEPT ![ch] = @ \o rows]

Save(ch, msgs) == \E rows \in Inserted(msgs) : cache' = [cache EXCEPT ![ch] = @ \o rows]

\* Nothing is under way, and every channel of the user is in the window.
Settled == /\ phase = "online"
           /\ toServer = << >> /\ toClient = << >> /\ events = << >>
           /\ io = "reading"
           /\ mainShown /\ widgets = subs

-----------------------------------------------------------------------------
(* The server (external), as far as the client's requests and handlers     *)
(* tell: it answers in order, remembers the channels a user has joined,    *)
(* sends every new message of those to the user's connection, its author's *)
(* own included, and answers a history request with the messages later     *)
(* than its time.  A request without the identifier it gave is dropped.    *)

\* The messages of a channel later than a time
PostedSince(ch, since) ==
    {m \in DOMAIN posted : posted[m].ch = ch /\ posted[m].time > since}

Orders(chs) == {f \in [1..Cardinality(chs) -> chs] :
                   \A i, j \in 1..Cardinality(chs) : f[i] = f[j] => i = j}

Quoted == {m \in DOMAIN posted : posted[m].quoted}

\* A user, this one or another, posts; the time is the author's clock.
Post(ch) ==
    /\ Len(posted) < MaxPosts
    /\ Calm => phase # "online" \/ ch \notin subs \/ Settled
    /\ \E lag \in 0..Skew, quoted \in BOOLEAN :
          /\ lag <= Len(posted)
          /\ quoted => Cardinality(Quoted) < MaxQuoted
          /\ posted' = Append(posted, [ch |-> ch, time |-> Len(posted) + 1 - lag,
                                       quoted |-> quoted])
    /\ toClient' = IF phase = "online" /\ ch \in subs
                   THEN Append(toClient, Response("echo", <<ch>>, <<Len(posted) + 1>>))
                   ELSE toClient
    /\ UNCHANGED <<subs, phase, toServer, client, window, events, cache, loaded, counts, fault>>

Serves(kind) == /\ toServer # << >> /\ Head(toServer).kind = kind
                /\ Head(toServer).identified
                /\ toServer' = Tail(toServer)

Answer(kind, chs, msgs) == toClient' = Append(toClient, Response(kind, chs, msgs))

ServeChannels ==
    /\ Serves("channels")
    /\ \E chs \in Orders(subs) : Answer("channels", chs, << >>)
    /\ UNCHANGED <<server, phase, client, window, events, cache, loaded, counts, fault>>

ServeHistory ==
    /\ Serves("history")
    /\ LET req == Head(toServer)
       IN  \E msgs \in Ascending(PostedSince(req.ch, req.since)) :
              Answer("history", <<req.ch>>, msgs)
    /\ UNCHANGED <<server, phase, client, window, events, cache, loaded, counts, fault>>

ServeJoin ==
    /\ Serves("join")
    /\ subs' = subs \cup {Head(toServer).ch}
    /\ Answer("joined", <<Head(toServer).ch>>, << >>)
    /\ UNCHANGED <<posted, phase, client, window, events, cache, loaded, counts, fault>>

DropUnidentified ==
    /\ toServer # << >> /\ ~Head(toServer).identified
    /\ toServer' = Tail(toServer)
    /\ UNCHANGED <<server, phase, toClient, client, window, events, cache, loaded, counts, fault>>

-----------------------------------------------------------------------------
(* The io thread: one response read and handled at a time                  *)

Reads(kind) == /\ io = "reading"
               /\ toClient # << >> /\ Head(toClient).kind = kind
               /\ toClient' = Tail(toClient)

\* do_read_input_response and do_read_reg_response emit the code ...
ReadAccepted ==
    /\ \E kind \in {"authorized", "registered"} : Reads(kind) /\ Emit(kind, << >>, << >>)
    /\ io' = "emitted"
    /\ UNCHANGED <<server, phase, toServer, idKnown, entries, hist, window, cache, loaded,
                   counts, fault>>

\* Mutant: the identifier is not stored.
IdForgotten == UNCHANGED idKnown

StoreId == idKnown' = TRUE

\* ... before they store the identifier and read on.
SetLoginId ==
    /\ io = "emitted"
    /\ io' = "reading"
    /\ StoreId
    /\ UNCHANGED <<server, link, entries, hist, window, events, cache, loaded, counts, fault>>

ReadChannels ==
    /\ Reads("channels")
    /\ Emit("channels", Head(toClient).chs, << >>)
    /\ UNCHANGED <<server, phase, toServer, client, window, cache, loaded, counts, fault>>

\* do_read_history_response creates the entry with the first message.
ReadHistory ==
    /\ Reads("history")
    /\ LET ch == Head(toClient).chs[1]
           msgs == Head(toClient).msgs
       IN  /\ hist' = [hist EXCEPT ![ch] = @ \o msgs]
           /\ entries' = IF msgs = << >> THEN entries ELSE entries \cup {ch}
           /\ Emit("history", <<ch>>, msgs)
    /\ UNCHANGED <<server, phase, toServer, io, idKnown, window, cache, loaded, counts, fault>>

\* do_read_echo_response dereferences the entry without creating one.
ReadEcho ==
    /\ Reads("echo")
    /\ LET ch == Head(toClient).chs[1]
           msgs == Head(toClient).msgs
       IN  \/ /\ ch \in entries
              /\ hist' = [hist EXCEPT ![ch] = @ \o msgs]
              /\ Emit("text", <<ch>>, msgs)
              /\ UNCHANGED fault
           \/ /\ ch \notin entries
              /\ fault' = "nullHistory"
              /\ UNCHANGED <<hist, events>>
    /\ UNCHANGED <<server, phase, toServer, io, idKnown, entries, window, cache, loaded, counts>>

ReadJoined ==
    /\ Reads("joined")
    /\ Emit("joined", Head(toClient).chs, << >>)
    /\ UNCHANGED <<server, phase, toServer, client, window, cache, loaded, counts, fault>>

-----------------------------------------------------------------------------
(* The GUI thread: one queued slot call at a time                          *)

Slot(to, kind) == /\ events # << >>
                  /\ Head(events).to = to /\ Head(events).kind = kind
                  /\ events' = Tail(events)
                  /\ Calm => io = "reading"

HeadChannels == {Head(events).chs[i] : i \in DOMAIN Head(events).chs}

\* Control::change_window
ChangeWindow ==
    /\ Slot("control", "authorized") \/ Slot("control", "registered")
    /\ mainShown' = TRUE
    /\ UNCHANGED <<server, link, client, widgets, cache, loaded, counts, fault>>

\* Mutant: the channels are only asked for when the cache has some.
AskIfCached == IF Keys = {} THEN UNCHANGED toServer ELSE Send(<<ChannelsRequest>>)

AskForChannels == Send(<<ChannelsRequest>>)

\* HistoryCacher::on_authorized
OnAuthorized ==
    /\ Slot("cacher", "authorized")
    /\ hist' = [ch \in Channels |-> hist[ch] \o Load(ch)]
    /\ GetPtrHistory(Keys)
    /\ AskForChannels
    /\ loaded' = TRUE
    /\ UNCHANGED <<server, phase, toClient, io, idKnown, window, cache, counts, fault>>

\* ... returns at once for the code of a registration.
OnRegistered ==
    /\ Slot("cacher", "registered")
    /\ UNCHANGED <<server, link, client, window, cache, loaded, counts, fault>>

\* Mutant: only the first channel gets a widget.
AddFirst == IF HeadChannels = {} THEN {} ELSE {Head(events).chs[1]}

\* The channels that Control::channels_received hands to add_channel
Added == HeadChannels

\* Control::channels_received and Control::joined: an entry and a widget for
\* each channel
AddChannels ==
    /\ Slot("control", "channels") \/ Slot("control", "joined")
    /\ GetPtrHistory(HeadChannels)
    /\ widgets' = widgets \cup Added
    /\ UNCHANGED <<server, link, io, idKnown, hist, mainShown, cache, loaded, counts, fault>>

\* HistoryCacher::on_channels_received starts from the last cached row ...
OnChannelsReceived ==
    /\ Slot("cacher", "channels")
    /\ LET chs == Head(events).chs
       IN  Send([i \in DOMAIN chs |-> HistoryRequest(chs[i], SinceBack(Load(chs[i])))])
    /\ UNCHANGED <<server, phase, toClient, client, window, cache, loaded, counts, fault>>

\* ... HistoryCacher::on_joined from the newest message in memory.
OnJoined ==
    /\ Slot("cacher", "joined")
    /\ LET ch == Head(events).chs[1]
       IN  \E since \in SincesNewest(hist[ch]) : Send(<<HistoryRequest(ch, since)>>)
    /\ GetPtrHistory(HeadChannels)
    /\ UNCHANGED <<server, phase, toClient, io, idKnown, hist, window, cache, loaded,
                   counts, fault>>

\* MainWindow::history_received and MainWindow::message_received dereference
\* the widget of the channel.
UpdateWidget ==
    /\ Slot("control", "history") \/ Slot("control", "text")
    /\ fault' = IF HeadChannels \subseteq widgets THEN fault ELSE "nullWidget"
    /\ UNCHANGED <<server, link, client, window, cache, loaded, counts>>

\* HistoryCacher::on_history_received and on_message_received
SaveMessages ==
    /\ Slot("cacher", "history") \/ Slot("cacher", "text")
    /\ Save(Head(events).chs[1], Head(events).msgs)
    /\ UNCHANGED <<server, link, client, window, loaded, counts, fault>>

UserJoins(ch) ==
    /\ mainShown
    /\ joins < MaxJoins
    /\ Calm => Settled
    /\ joins' = joins + 1
    /\ Send(<<JoinRequest(ch)>>)
    /\ UNCHANGED <<server, phase, toClient, client, window, events, cache, loaded, crashes, fault>>

-----------------------------------------------------------------------------
(* Starting and dying                                                      *)

Connect(kind) ==
    /\ phase = "offline"
    /\ phase' = "online"
    /\ toClient' = <<Response(kind, << >>, << >>)>>
    /\ UNCHANGED <<posted, toServer, client, window, events, cache, loaded, counts, fault>>

\* A user logs in and is accepted, with the channels he has joined before,
\* on this machine or another.
Login == Connect("authorized") /\ subs' \in SUBSET Channels

\* A user registers and is accepted.
Register == Newcomers /\ Connect("registered") /\ subs' = {}

\* The connection ends: no request gets through and no response after some
\* point.  An accepted attempt has no successor in this program.
Cut ==
    /\ phase = "online"
    /\ idKnown \/ io = "emitted"
    /\ phase' = "cut"
    /\ toServer' = << >>
    /\ \E n \in 0..Len(toClient) : toClient' = SubSeq(toClient, 1, n)
    /\ UNCHANGED <<server, client, window, events, cache, loaded, counts, fault>>

\* The program ends or dies.  Each row is a statement of its own: that may
\* fall between the rows that on_history_received saves.
Crash ==
    /\ phase # "offline"
    /\ crashes < MaxCrashes
    /\ crashes' = crashes + 1
    /\ phase' = "offline"
    /\ toServer' = << >>
    /\ toClient' = << >>
    /\ Forgotten
    /\ \/ UNCHANGED cache
       \/ /\ events # << >>
          /\ Head(events).to = "cacher" /\ Head(events).kind \in {"history", "text"}
          /\ \E n \in 1..Len(Head(events).msgs) :
                Save(Head(events).chs[1], SubSeq(Head(events).msgs, 1, n))
    /\ UNCHANGED <<server, joins, fault>>

-----------------------------------------------------------------------------

ServerStep == ServeChannels \/ ServeHistory \/ ServeJoin \/ DropUnidentified

IoStep == \/ ReadAccepted \/ SetLoginId \/ ReadChannels \/ ReadHistory
          \/ ReadEcho \/ ReadJoined

GuiStep == \/ ChangeWindow \/ OnAuthorized \/ OnRegistered \/ AddChannels
           \/ OnChannelsReceived \/ OnJoined \/ UpdateWidget \/ SaveMessages

UserStep == Login \/ Register \/ \E ch \in Channels : Post(ch) \/ UserJoins(ch)

Next == /\ fault = "none"
        /\ ServerStep \/ IoStep \/ GuiStep \/ UserStep \/ Cut \/ Crash

Spec == Init /\ [][Next]_vars

\* Both threads run on.  Users do as they please, and a request may never get
\* to the server.
Fairness == /\ WF_vars(fault = "none" /\ IoStep)
            /\ WF_vars(fault = "none" /\ GuiStep)

FairSpec == Spec /\ Fairness

-----------------------------------------------------------------------------
(* Properties                                                              *)

Messages == 1..Len(posted)

One(chs) == {<<ch>> : ch \in chs}

Requests ==
    [kind : {"channels"}, ch : {""}, since : Nat, identified : BOOLEAN] \cup
    [kind : {"history", "join"}, ch : Channels, since : Nat, identified : BOOLEAN]

Responses ==
    [kind : {"authorized", "registered", "channels"}, chs : Seq(Channels), msgs : {<< >>}] \cup
    [kind : {"joined", "history", "echo"}, chs : One(Channels), msgs : Seq(Messages)]

Events ==
    [to : {"control", "cacher"}, kind : {"authorized", "registered", "channels"},
     chs : Seq(Channels), msgs : {<< >>}] \cup
    [to : {"control", "cacher"}, kind : {"joined", "history", "text"},
     chs : One(Channels), msgs : Seq(Messages)]

TypeOK ==
    /\ posted \in Seq([ch : Channels, time : Nat, quoted : BOOLEAN])
    /\ Len(posted) <= MaxPosts
    /\ subs \in SUBSET Channels
    /\ phase \in {"offline", "online", "cut"}
    /\ toServer \in Seq(Requests)
    /\ toClient \in Seq(Responses)
    /\ io \in {"reading", "emitted"}
    /\ idKnown \in BOOLEAN
    /\ entries \in SUBSET Channels
    /\ hist \in [Channels -> Seq(Messages)]
    /\ events \in Seq(Events)
    /\ mainShown \in BOOLEAN
    /\ widgets \in SUBSET Channels
    /\ cache \in [Channels -> Seq(Messages)]
    /\ loaded \in BOOLEAN
    /\ joins \in 0..MaxJoins
    /\ crashes \in 0..MaxCrashes
    /\ fault \in {"none", "nullHistory", "nullWidget"}

\* A history response finds the widget of its channel, whatever the schedule:
\* MainWindow::history_received dereferences it unchecked.  The request was
\* made by a slot of the cacher, and by the time the answer's own slot runs the
\* slot of Control for the same signal has added the widget.
HistoryHasWidget ==
    events # << >> /\ Head(events).to = "control" /\ Head(events).kind = "history"
        => HeadChannels \subseteq widgets

\* The messages that a queued slot call makes the cacher save in a channel
SavedBy(e, ch) ==
    IF e.to = "cacher" /\ e.kind \in {"history", "text"} /\ e.chs = <<ch>>
    THEN e.msgs ELSE << >>

\* The messages of a channel that the cacher has still to save
Unsaved(ch) == FlattenSeq([i \in DOMAIN events |-> SavedBy(events[i], ch)])

\* The memory of a channel is what has been saved and after it what the cacher
\* has still to save.  Of the former each message but those with an apostrophe
\* has a row, in that order, after older rows, of which there are none once
\* on_authorized has loaded the cache: the window and the next start see the
\* same history.
CacheMirrorsHistory == \A ch \in Channels :
    \E saved \in 0..Len(hist[ch]) :
        /\ SubSeq(hist[ch], saved + 1, Len(hist[ch])) = Unsaved(ch)
        /\ \E rows \in Inserted(SubSeq(hist[ch], 1, saved)), older \in 0..Len(cache[ch]) :
              /\ SubSeq(cache[ch], older + 1, Len(cache[ch])) = rows
              /\ loaded => older = 0

\* Every history request carries the identifier the server gave.
HistoryIdentified == \A i \in DOMAIN toServer :
    toServer[i].kind = "history" => toServer[i].identified

\* A request can lack the identifier only while the io thread stands between
\* the emit of the code and set_login_id: whatever is asked later, by a slot
\* queued long before or by the user, reads an identifier that was assigned.
AnonymousOnlyWhenTorn ==
    [][\A i \in Len(toServer) + 1..Len(toServer') :
          ~toServer'[i].identified => io = "emitted"]_vars

\* A null pointer is met only by a message that is echoed in a channel before
\* the window has it: by the read handler, or by the slot that shows it.  Once
\* Control has added a channel its messages find both pointers, and a history
\* response always finds them.
OnlyEarlyEchoFails ==
    [][fault' # fault => \E ch \in Channels \ widgets :
          \/ /\ toClient # << >>
             /\ Head(toClient).kind = "echo" /\ Head(toClient).chs = <<ch>>
          \/ /\ events # << >>
             /\ Head(events).kind = "text" /\ Head(events).chs = <<ch>>]_vars

\* The cache implements the archive: whoever uses the machine, and wherever
\* the connection or the program ends, a start from the last cached row of a
\* channel neither repeats nor reorders rows, and none is ever lost.
Disk == INSTANCE Archive WITH posted <- [m \in DOMAIN posted |-> posted[m].ch],
                              rows <- cache

ImplementsArchive == Disk!Spec

\* The messages of a channel that the window does not have
Missing(ch) == {m \in DOMAIN posted : /\ posted[m].ch = ch
                                      /\ \A i \in DOMAIN hist[ch] : hist[ch][i] # m}

\* "get not cached history" (history_cacher.cpp): once nothing is under way,
\* the window has every message of every channel of the user.
NothingMissing == Settled => \A ch \in subs : Missing(ch) = {}

\* A request from the last cached row passes over a message of the same second,
\* and over an earlier one that could not be inserted.
PassedOver(ch, m) ==
    /\ \A i \in DOMAIN cache[ch] : cache[ch][i] # m
    /\ \E i \in DOMAIN cache[ch] : \/ Time(cache[ch][i]) = Time(m)
                                   \/ Time(cache[ch][i]) > Time(m) /\ ~Insertable(m)

\* Once nothing is under way, the window has every message of every channel of
\* the user but those the last cached row makes the client pass over.
OnlyPassedOverMissing == Settled =>
    \A ch \in subs : \A m \in Missing(ch) : PassedOver(ch, m)

\* "get not cached history" (history_cacher.cpp): what is cached is not fetched
\* and saved again, so no message has two rows.
NothingTwice == \A ch \in Channels :
    \A i, j \in DOMAIN cache[ch] : cache[ch][i] = cache[ch][j] => i = j

\* "Notify UI about received message" (control.h): a received message finds
\* the history and the widget of its channel.
EchoFindsChannel == fault \notin {"nullHistory", "nullWidget"}

\* A client whose requests all get through catches up as long as it stays
\* connected.  (Whether they get through is SendQueue's EveryMessageLeaves.)
SyncCompletes ==
    []<>(toServer = << >>) =>
        ((phase = "online") ~> (Settled \/ phase # "online" \/ fault # "none"))
=============================================================================
