------------------------------ MODULE MessageList ------------------------------
(***************************************************************************)
(* The lists of the main window: one item per channel, whose widget shares *)
(* the channel's history with the Client, and one row per message of the   *)
(* selected channel.  A row carries nothing: ChatDelegate paints row i from*)
(* whatever is message i of the history at that moment.  The io thread     *)
(* appends to the histories and queues the slot calls that add rows, in    *)
(* two steps; the user selects channels before, between and after them.    *)
(***************************************************************************)
EXTENDS Naturals, Sequences, FiniteSets

CONSTANTS
    Channels,
    MaxMessages,    \* bound: messages received, over all channels
    MaxItems,       \* bound: items in the channel list
    MaxQueued       \* bound: slot calls queued when a handler starts

ASSUME MessageListAssumption ==
    MaxMessages \in Nat /\ MaxItems \in Nat /\ MaxQueued \in Nat

NoChannel == "none"

ASSUME NoChannelAssumption == NoChannel \notin Channels

VARIABLES
    received,   \* how many messages have come in; the i-th is i
    hist,       \* the history of each channel, shared by Client and widget
    items,      \* lwChannels: each item's channel, and whether its widget lives
    label,      \* the last message each channel's widget displays; 0 when none
    current,    \* lChannelName: the selected channel
    rows,       \* how many rows lwMessages has
    io,         \* the slot call that the handler the io thread is in will queue
    events,     \* queued slot calls of MainWindow, oldest first
    fault,      \* a null widget was dereferenced
    again,      \* history variable: messages of the selected channel that its
                \* selection counted, and whose slot call was still to come
    missed      \* history variable: messages that histories have brought the
                \* selected channel since it was selected

histories == <<received, hist>>
window == <<items, label, current, rows>>
counts == <<again, missed>>
vars == <<histories, window, io, events, fault, counts>>

Event(kind, ch, msg) == [kind |-> kind, ch |-> ch, msg |-> msg]

\* The io thread is in none of the two handlers.
Idle == Event("idle", NoChannel, 0)

Init == /\ received = 0
        /\ hist = [ch \in Channels |-> << >>]
        /\ items = << >>
        /\ label = [ch \in Channels |-> 0]
        /\ current = NoChannel
        /\ rows = 0
        /\ io = Idle
        /\ events = << >>
        /\ fault = FALSE
        /\ again = 0
        /\ missed = 0

Listed == {items[i].ch : i \in DOMAIN items}

\* The slot calls that are queued, and the one that is about to be
Pending == {events[i] : i \in DOMAIN events} \cup {io}

\* The messages that are in the history of a channel, and whose slot call has
\* not run
Outstanding(ch) == {m \in 1..MaxMessages : Event("text", ch, m) \in Pending}

\* update_displayed_msg of a widget that displays old: the back of the history,
\* unless that is empty
Displayed(ch, old) == IF hist[ch] = << >> THEN old ELSE hist[ch][Len(hist[ch])]

UpdateDisplayed(ch) == label' = [label EXCEPT ![ch] = Displayed(ch, @)]

-----------------------------------------------------------------------------
(* The histories                                                           *)

\* Message received + 1 becomes the back of a history.
AppendTo(ch) ==
    /\ received < MaxMessages
    /\ received' = received + 1
    /\ hist' = [hist EXCEPT ![ch] = Append(@, received + 1)]

\* on_authorized, one cached row: it runs before the channels are asked for,
\* so before any is listed, and tells the window nothing.
LoadCached(ch) ==
    /\ items = << >>
    /\ AppendTo(ch)
    /\ UNCHANGED <<window, io, events, fault, counts>>

\* A response about a channel is read by one handler at a time, and after the
\* channel is listed; the ones before it are in HistorySync.
MayStart(ch) == io = Idle /\ ch \in Listed /\ Len(events) < MaxQueued

\* do_read_echo_response on the io thread, up to push_back
EchoStored(ch) ==
    /\ MayStart(ch)
    /\ AppendTo(ch)
    /\ io' = Event("text", ch, received + 1)
    /\ UNCHANGED <<window, events, fault, counts>>

\* do_read_history_response on the io thread, up to the loop
HistoryRead(ch) ==
    /\ MayStart(ch)
    /\ io' = Event("history", ch, 0)
    /\ UNCHANGED <<histories, window, events, fault, counts>>

\* One message of the loop
HistoryStored ==
    /\ io.kind = "history"
    /\ AppendTo(io.ch)
    /\ missed' = IF io.ch = current THEN missed + 1 ELSE missed
    /\ UNCHANGED <<window, io, events, fault, again>>

\* The emit that ends either handler
Emit ==
    /\ io # Idle
    /\ events' = Append(events, io)
    /\ io' = Idle
    /\ UNCHANGED <<histories, window, fault, counts>>

-----------------------------------------------------------------------------
(* The GUI thread                                                          *)

\* channels_[name] = make_unique destroys the widget that an earlier item of
\* the channel showed; the item stays.
KeepWidget(item, ch) == item                        \* mutant
DropWidget(item, ch) == [ch |-> item.ch, live |-> item.live /\ item.ch # ch]

\* set_channel of the new widget, whose label is empty
ShownLater(ch) == 0                                 \* mutant
SetChannel(ch) == Displayed(ch, 0)

\* add_channel
AddChannel(ch) ==
    /\ Len(items) < MaxItems
    /\ items' = Append([i \in DOMAIN items |-> DropWidget(items[i], ch)],
                       [ch |-> ch, live |-> TRUE])
    /\ label' = [label EXCEPT ![ch] = SetChannel(ch)]
    /\ UNCHANGED <<histories, current, rows, io, events, fault, counts>>

\* lwMessages is cleared, and a row added for each message of the history; the
\* mutants forget to clear it and leave out one message.
RowsKept(ch) == rows + Len(hist[ch])                \* mutant
RowsBut1(ch) == Len(hist[ch]) - 1                   \* mutant
RowsFor(ch) == Len(hist[ch])

\* channel_selected
SelectChannel(i) ==
    /\ i \in DOMAIN items
    /\ \/ /\ items[i].live
          /\ current' = items[i].ch
          /\ rows' = RowsFor(items[i].ch)
          /\ again' = Cardinality(Outstanding(items[i].ch))
          /\ missed' = 0
          /\ UNCHANGED fault
       \/ /\ ~items[i].live
          /\ fault' = TRUE
          /\ UNCHANGED <<current, rows, counts>>
    /\ UNCHANGED <<histories, items, label, io, events>>

\* Whether add_message follows
ShownAlways(ch) == TRUE                             \* mutant
ShownNow(ch) == ch = current

\* message_received: the channel's widget is updated, and a row is added if the
\* message is for the selected channel.
MessageReceived ==
    /\ events # << >> /\ Head(events).kind = "text"
    /\ events' = Tail(events)
    /\ UpdateDisplayed(Head(events).ch)
    /\ rows' = IF ShownNow(Head(events).ch) THEN rows + 1 ELSE rows
    /\ UNCHANGED <<histories, items, current, io, fault, counts>>

\* history_received only updates the channel's widget.
HistoryReceived ==
    /\ events # << >> /\ Head(events).kind = "history"
    /\ events' = Tail(events)
    /\ UpdateDisplayed(Head(events).ch)
    /\ UNCHANGED <<histories, items, current, rows, io, fault, counts>>

-----------------------------------------------------------------------------

Next == /\ ~fault
        /\ \/ \E ch \in Channels : \/ LoadCached(ch)
                                   \/ EchoStored(ch)
                                   \/ HistoryRead(ch)
                                   \/ AddChannel(ch)
           \/ HistoryStored
           \/ Emit
           \/ \E i \in 1..MaxItems : SelectChannel(i)
           \/ MessageReceived
           \/ HistoryReceived

Spec == Init /\ [][Next]_vars

-----------------------------------------------------------------------------
(* Properties                                                              *)

Items == [ch : Channels, live : BOOLEAN]

Slots == [kind : {"text"}, ch : Channels, msg : 1..MaxMessages]
            \cup [kind : {"history"}, ch : Channels, msg : {0}]

\* Every variable keeps its type.
TypeOK ==
    /\ received \in 0..MaxMessages
    /\ hist \in [Channels -> Seq(1..MaxMessages)]
    /\ items \in Seq(Items)
    /\ label \in [Channels -> 0..MaxMessages]
    /\ current \in Channels \cup {NoChannel}
    /\ rows \in Nat
    /\ io \in Slots \cup {Idle}
    /\ events \in Seq(Slots)
    /\ fault \in BOOLEAN
    /\ again \in Nat
    /\ missed \in Nat

\* Whenever a channel is selected, the rows it is shown with are its messages
\* less those whose slot call is still to come, more those that the selection
\* counted before their slot call, less those a history has brought since.
\* Nothing else makes a row too many, which get_message indexes unchecked, or
\* leaves a message without one.
RowsAccounted ==
    current # NoChannel =>
        rows + Cardinality(Outstanding(current)) + missed = Len(hist[current]) + again

\* What ChatDelegate::get_message indexes for a row
GetMessage(row) == hist[current][row]

\* message_received adds a row for message m of the selected channel.
AddsRowFor(m) == MessageReceived /\ Head(events) = Event("text", current, m)

\* "Show reveived message" (control.h): the row that message_received adds for
\* a message of the selected channel is painted from that message.
NewRowShowsMessage ==
    [][\A m \in 1..MaxMessages :
         AddsRowFor(m) => rows' <= Len(hist[current]) /\ GetMessage(rows') = m]_vars

\* The row that message_received adds is painted from the message it is for
\* unless the selection overtook a slot call of the channel or a history has
\* come for it since: no other order of the two threads' steps puts them out
\* of step.
UndisturbedRowShowsMessage ==
    [][\A m \in 1..MaxMessages :
         AddsRowFor(m) /\ again = 0 /\ missed = 0
            => rows' <= Len(hist[current]) /\ GetMessage(rows') = m]_vars

\* What the channel list shows as a channel's last message is the back of its
\* history, unless a slot call that will refresh it is queued or about to be:
\* also for a channel whose history was loaded from the cache before it was
\* listed.
ItemShowsLast ==
    \A ch \in Listed :
        \/ hist[ch] # << >> => label[ch] = hist[ch][Len(hist[ch])]
        \/ \E e \in Pending : e.ch = ch

\* Of the items of a channel exactly the newest has a widget: the channel can
\* always be selected, but not by every item that shows its name.
NewestItemLives == \A i \in DOMAIN items :
    items[i].live <=> \A j \in DOMAIN items : j > i => items[j].ch # items[i].ch
=============================================================================
