----------------------------- MODULE LoginSessions -----------------------------
(***************************************************************************)
(* Login attempts and the connections they make: Control::connect_to_server*)
(* on a detached thread per attempt, the chain of asynchronous operations  *)
(* of each Client on the thread that runs that attempt's io_service, and   *)
(* the GUI thread that starts attempts, handles the codes the server sent  *)
(* and sends on whatever client Control holds at that moment.              *)
(*                                                                         *)
(* Attempt s makes Client s and io_service s.  Control::client and         *)
(* HistoryCacher::client_ are shared by all attempts, with no lock.        *)
(***************************************************************************)
EXTENDS Integers, Sequences, FiniteSets

CONSTANTS
    NSessions,  \* bound: how many times the user pushes a login button
    MaxReads,   \* bound: how many responses one server sends
    MaxSends    \* bound: how many requests wait on one client

ASSUME LoginSessionsAssumption ==
    NSessions \in Nat /\ MaxReads \in Nat /\ MaxSends \in Nat

Sessions == 1..NSessions

NoClient == 0

\* The responses async_read_pb_msg reads a body for
Responses == {"input", "reg", "join", "echo", "history", "channels"}

\* What a client can have outstanding: the three first operations of its chain,
\* and the reading of a body of each kind
Ops == {"connect", "login", "header"} \cup Responses

\* What the body of a response can turn out to be.  Only three kinds carry a
\* status that can be a refusal.
Payloads(cmd) == {"unparsed", "missing", "ok"} \cup
                 (IF cmd \in {"input", "reg", "join"} THEN {"refused"} ELSE {})

\* A body that makes its handler call close_connection() and return
BadBody(cmd, payload) == \/ payload = "unparsed" /\ cmd # "echo"
                         \/ payload = "missing" /\ cmd \in {"history", "channels"}

\* Mutant: a refusal does not close.
ClosesUnlessRefused(cmd, payload) == BadBody(cmd, payload)

\* A refusal does so as well ...
Closes(cmd, payload) == BadBody(cmd, payload) \/ payload = "refused"

\* ... and an accepted or harmless response is followed by the next header.  A
\* response without its field is neither closed on nor followed by a read.
Rearms(cmd, payload) == payload = "ok"

\* An echo is not tested: one that does not parse has no channel, and there is
\* no history of that name.
NullHistory(cmd, payload) == cmd = "echo" /\ payload # "ok"

\* The code send_input_code carries, if the handler emits it
Code(cmd, payload) ==
    CASE cmd = "input" /\ payload = "ok"      -> "AutorOK"
      [] cmd = "input" /\ payload = "refused" -> "IncorrectAutor"
      [] cmd = "reg" /\ payload = "ok"        -> "RegistrOK"
      [] cmd = "reg" /\ payload = "refused"   -> "BusyRegistr"
      [] OTHER                                -> "none"

VARIABLES
    worker,     \* per attempt: where its thread is in connect_to_server
    client,     \* Control::client
    cacher,     \* HistoryCacher::client_
    ahead,      \* per client: how many times its codes are connected to Control's
                \* slot and were so before they were connected to the cacher's
    behind,     \* per client: how many times they have been since
    open,       \* per client: the socket has been opened and not closed since
    ops,        \* per client: outstanding asynchronous operations, by kind
    reads,      \* per client: how many responses it has read
    queued,     \* per client: how many requests are in msg_to_server
    writing,    \* per client: the write of the first of them
    refused,    \* the clients whose login or registration was refused
    events,     \* the queued slot calls of the GUI thread, oldest first
    shown,      \* the client whose acceptance has replaced the login form by the
                \* main window, if any
    author,     \* MainWindow::login_: the attempt whose login the messages bear
    control,    \* Control exists or has been destroyed
    fault,      \* the misuse of an object that was reached, if any: of a client
                \* or an io_service that is gone, of a history that is not there
    apart       \* history variable: no two attempts have been between lines 62
                \* and 86 of connect_to_server at a time, as with a lock there

connection == <<open, ops, reads, queued, writing, refused>>
slots == <<ahead, behind>>
pointers == <<client, cacher, slots>>
gui == <<events, shown, control>>
vars == <<worker, pointers, connection, gui, author, fault, apart>>

Init == /\ worker = [s \in Sessions |-> "unborn"]
        /\ client = NoClient
        /\ cacher = NoClient
        /\ ahead = [s \in Sessions |-> 0]
        /\ behind = [s \in Sessions |-> 0]
        /\ open = [s \in Sessions |-> FALSE]
        /\ ops = [s \in Sessions |-> [k \in Ops |-> 0]]
        /\ reads = [s \in Sessions |-> 0]
        /\ queued = [s \in Sessions |-> 0]
        /\ writing = [s \in Sessions |-> "none"]
        /\ refused = {}
        /\ events = << >>
        /\ shown = NoClient
        /\ author = NoClient
        /\ control = "alive"
        /\ fault = "none"
        /\ apart = TRUE

-----------------------------------------------------------------------------

\* The Client object of an attempt lives while one of the two pointers or an
\* outstanding read (bound to shared_from_this()) refers to it.  The connect,
\* login and write handlers hold a bare pointer and keep nothing alive.
Reading(c) == \E k \in {"header"} \cup Responses : ops[c][k] > 0
Created(c) == worker[c] \notin {"unborn", "resolving", "failed"}

Alive(c) == client = c \/ cacher = c \/ Reading(c)
Destroyed(c) == Created(c) /\ ~Alive(c)

\* Destroying the Client closes its socket.
IsOpen(c) == open[c] /\ ~Destroyed(c)

\* The io_service of an attempt is a local variable of its worker.  A socket
\* that is still open then can not even be closed.
ServiceGone(c) == worker[c] = "returned"
Orphaned(c) == IsOpen(c) /\ ServiceGone(c)

\* The destructor of a client closes its socket.
Drop == fault' = IF \E c \in Sessions : Orphaned(c) /\ Destroyed(c)'
                 THEN "deadService" ELSE fault

\* Handlers of client c run while io_service c is being run.
Runs(c) == worker[c] = "joining"

\* The chain of client c has an operation outstanding.  io_service.run()
\* returns as soon as the last operation has been handled, whatever is posted
\* later; the worker has then joined its thread.
Busy(c) == \E k \in Ops : ops[c][k] > 0
Idle(c) == writing[c] = "none" /\ ~Busy(c)
AfterRun(c) == IF Idle(c) THEN "closing" ELSE "joining"

\* Replace outstanding operation k of client c by operation l, or by none.
Complete(c, k) == ops' = [ops EXCEPT ![c][k] = @ - 1]
Replace(c, k, l) == ops' = [ops EXCEPT ![c][k] = @ - 1, ![c][l] = @ + 1]

Close(c) == open' = [open EXCEPT ![c] = FALSE]

\* The queued deliveries of a code to a slot that is connected n times
Deliver(n, to, c, code) == [i \in 1..n |-> [to |-> to, from |-> c, code |-> code]]

ToCacher(c, code) == Deliver(IF c = cacher THEN 1 ELSE 0, "cacher", c, code)

\* Mutant: set_client comes before the connects.
EmitCacherFirst(c, code) ==
    events' = events \o ToCacher(c, code) \o Deliver(ahead[c] + behind[c], "control", c, code)

\* Slots are called in the order in which they were connected.
Emit(c, code) ==
    events' = events \o Deliver(ahead[c], "control", c, code) \o ToCacher(c, code)
                     \o Deliver(behind[c], "control", c, code)

-----------------------------------------------------------------------------
(* The login form and the worker thread: Control::autorisation,            *)
(* Control::registration and Control::connect_to_server                    *)

\* The user pushes a button of the form, whatever became of earlier attempts.
Start(s) ==
    /\ shown = NoClient
    /\ worker[s] = "unborn"
    /\ \A t \in Sessions : t < s => worker[t] # "unborn"
    /\ worker' = [worker EXCEPT ![s] = "resolving"]
    /\ UNCHANGED <<pointers, connection, gui, author, fault, apart>>

\* resolver.resolve throws and the caller's try block swallows it.
ResolveFails(s) ==
    /\ worker[s] = "resolving"
    /\ worker' = [worker EXCEPT ![s] = "failed"]
    /\ UNCHANGED <<pointers, connection, gui, author, fault, apart>>

\* Between the assignment of client and the end of connect_to_server
Inside == {"created", "connected", "wired", "joining", "closing", "closed"}

Create(s) ==
    /\ worker[s] = "resolving"
    /\ worker' = [worker EXCEPT ![s] = "created"]
    /\ client' = s
    /\ apart' = (apart /\ \A t \in Sessions : worker[t] \notin Inside)
    /\ UNCHANGED <<cacher, slots, connection, gui, author>>
    /\ Drop

\* The connects to Control's slots, on the client that Control holds by now.  Of
\* the signals only send_input_code matters here.
Connect(s) ==
    /\ worker[s] = "created"
    /\ worker' = [worker EXCEPT ![s] = "connected"]
    /\ IF client = cacher
       THEN behind' = [behind EXCEPT ![client] = @ + 1] /\ UNCHANGED ahead
       ELSE ahead' = [ahead EXCEPT ![client] = @ + 1] /\ UNCHANGED behind
    /\ UNCHANGED <<client, cacher, connection, gui, author, fault, apart>>

\* HistoryCacher::set_client, with the client that Control holds by now.  All
\* connections of the old client to the cacher end, but slot calls that are
\* queued already are delivered all the same; the new one comes last.
SetClient(s) ==
    /\ worker[s] = "connected"
    /\ worker' = [worker EXCEPT ![s] = "wired"]
    /\ cacher' = client
    /\ ahead' = [c \in Sessions |-> IF c \in {cacher, client} THEN ahead[c] + behind[c]
                                    ELSE ahead[c]]
    /\ behind' = [c \in Sessions |-> IF c \in {cacher, client} THEN 0 ELSE behind[c]]
    /\ UNCHANGED <<client, connection, gui, author, apart>>
    /\ Drop

\* client->do_connect on the client that Control holds by now, whatever it has
\* outstanding; set_login; and the thread that runs io_service s.  A socket
\* that was open is closed and opened again: what was outstanding on it ends
\* with an error, unless it had come to its end before.
Launch(s) ==
    /\ worker[s] = "wired"
    /\ \/ /\ ServiceGone(client)
          /\ fault' = "deadService"
          /\ UNCHANGED <<open, ops>>
       \/ /\ ~ServiceGone(client)
          /\ open' = [open EXCEPT ![client] = TRUE]
          /\ ops' = [ops EXCEPT ![client]["connect"] = @ + 1]
          /\ UNCHANGED fault
    /\ author' = s
    /\ UNCHANGED <<pointers, reads, queued, writing, refused, gui, apart>>
    /\ worker' = [worker EXCEPT ![s] = AfterRun(s)']

\* Mutant: the socket is left to the operating system.
CloseHeldNot == UNCHANGED <<open, fault>>

\* if (client) client->close_connection();
CloseHeld ==
    IF client = NoClient
    THEN UNCHANGED <<open, fault>>
    ELSE /\ Close(client)
         /\ fault' = IF Orphaned(client) THEN "deadService" ELSE fault

\* io_service s has no more to do and its thread has been joined.
CloseAfterJoin(s) ==
    /\ worker[s] = "closing"
    /\ worker' = [worker EXCEPT ![s] = "closed"]
    /\ CloseHeld
    /\ UNCHANGED <<pointers, ops, reads, queued, writing, refused, gui, author, apart>>

\* The end of connect_to_server destroys io_service s, with the handlers that
\* another attempt has given it since its run() returned.
Return(s) ==
    /\ worker[s] = "closed"
    /\ worker' = [worker EXCEPT ![s] = "returned"]
    /\ ops' = [ops EXCEPT ![s] = [k \in Ops |-> 0]]
    /\ writing' = [writing EXCEPT ![s] = "none"]
    /\ UNCHANGED <<pointers, open, reads, queued, refused, gui, author, fault, apart>>

-----------------------------------------------------------------------------
(* The handlers of Client c, on the thread that runs io_service c          *)

\* Mutant: the first header is read while the login is still being sent.
LoginAndRead(c) == ops' = [ops EXCEPT ![c]["connect"] = @ - 1, ![c]["login"] = @ + 1,
                                      ![c]["header"] = @ + 1]

\* do_connect goes on with send_login_request.
SendLogin(c) == Replace(c, "connect", "login")

ConnectOk(c) ==
    /\ Runs(c) /\ ops[c]["connect"] > 0
    /\ IsOpen(c)
    /\ SendLogin(c)
    /\ UNCHANGED <<pointers, open, reads, queued, writing, refused, gui, author, fault, apart>>

\* The error branch of do_connect's handler touches nothing of the object.
ConnectFails(c) ==
    /\ Runs(c) /\ ops[c]["connect"] > 0
    /\ Complete(c, "connect")
    /\ UNCHANGED <<pointers, open, reads, queued, writing, refused, gui, author, fault, apart>>

LoginSent(c) ==
    /\ Runs(c) /\ ops[c]["login"] > 0
    /\ IsOpen(c)
    /\ Replace(c, "login", "header")
    /\ UNCHANGED <<pointers, open, reads, queued, writing, refused, gui, author, fault, apart>>

\* Handlers that hold a bare pointer close through it.
CloseThroughThis(c) ==
    /\ Close(c)
    /\ fault' = IF Destroyed(c) THEN "useAfterFree" ELSE fault

LoginFails(c) ==
    /\ Runs(c) /\ ops[c]["login"] > 0
    /\ Complete(c, "login")
    /\ CloseThroughThis(c)
    /\ UNCHANGED <<pointers, reads, queued, writing, refused, gui, author, apart>>

\* do_read_pb_header and async_read_pb_msg
HeaderRead(c) ==
    /\ Runs(c) /\ ops[c]["header"] > 0
    /\ IsOpen(c)
    /\ reads[c] < MaxReads
    /\ reads' = [reads EXCEPT ![c] = @ + 1]
    /\ \/ \E cmd \in Responses : Replace(c, "header", cmd)
       \* a header that does not parse, an unknown command, a SendTextRequest
       \/ Complete(c, "header")
    /\ UNCHANGED <<pointers, open, queued, writing, refused, gui, author, fault, apart>>

\* The handler of a response whose body has been read
BodyRead(c) ==
    /\ Runs(c)
    /\ IsOpen(c)
    /\ \E cmd \in Responses : \E payload \in Payloads(cmd) :
          LET code == Code(cmd, payload)
          IN  /\ ops[c][cmd] > 0
              /\ IF Rearms(cmd, payload) THEN Replace(c, cmd, "header") ELSE Complete(c, cmd)
              /\ IF Closes(cmd, payload) THEN Close(c) ELSE UNCHANGED open
              /\ IF code # "none" THEN Emit(c, code) ELSE UNCHANGED events
              /\ refused' = IF code \in {"IncorrectAutor", "BusyRegistr"}
                            THEN refused \cup {c} ELSE refused
              /\ fault' = IF NullHistory(cmd, payload) THEN "nullHistory" ELSE fault
    /\ UNCHANGED <<pointers, reads, queued, writing, shown, control, author, apart>>

\* Every read handler closes on an error, whatever it was reading.
ReadFails(c) ==
    /\ Runs(c)
    /\ \E k \in {"header"} \cup Responses : ops[c][k] > 0 /\ Complete(c, k)
    /\ Close(c)
    /\ UNCHANGED <<pointers, reads, queued, writing, refused, gui, author, fault, apart>>

\* Mutant: the queue is not tested before the next write.
MoreAlways(c) == TRUE

\* if (!msg_to_server.empty()) after the pop
More(c) == queued[c] > 1

RequestWritten(c) ==
    /\ Runs(c) /\ writing[c] = "running"
    /\ IsOpen(c)
    /\ queued' = [queued EXCEPT ![c] = @ - 1]
    /\ writing' = [writing EXCEPT ![c] = IF More(c) THEN "running" ELSE "none"]
    /\ UNCHANGED <<pointers, open, ops, reads, refused, gui, author, fault, apart>>

\* Mutant: a failed write is tried again.
GiveUpNot(c) == writing' = [writing EXCEPT ![c] = "failing"]

\* start_send_msgs' handler pops nothing and starts nothing after an error.
GiveUp(c) == writing' = [writing EXCEPT ![c] = "none"]

RequestFails(c) ==
    /\ Runs(c) /\ writing[c] # "none"
    /\ GiveUp(c)
    /\ CloseThroughThis(c)
    /\ UNCHANGED <<pointers, ops, reads, queued, refused, gui, author, apart>>

-----------------------------------------------------------------------------
(* The GUI thread                                                          *)

\* add_msg_to_send on client c: only the first request of the queue starts a
\* write, which fails at once on a socket that is not connected.
Post(c) ==
    /\ queued[c] < MaxSends
    /\ queued' = [queued EXCEPT ![c] = @ + 1]
    /\ \/ /\ queued[c] > 0
          /\ UNCHANGED <<writing, fault>>
       \/ /\ queued[c] = 0 /\ ServiceGone(c)
          /\ fault' = "deadSend"
          /\ UNCHANGED writing
       \/ /\ queued[c] = 0 /\ ~ServiceGone(c)
          /\ writing' = [writing EXCEPT ![c] =
                            IF IsOpen(c) /\ ops[c]["connect"] = 0 THEN "running"
                            ELSE "failing"]
          /\ UNCHANGED fault

\* Control::get_text_from_gui and Control::join_to_channel
UserSends ==
    /\ shown # NoClient
    /\ Post(client)
    /\ UNCHANGED <<worker, pointers, open, ops, reads, refused, gui, author, apart>>

Accepted == {"AutorOK", "RegistrOK"}

\* Control::change_window: a refusal is reported in the login form.
ChangeWindow ==
    /\ events # << >>
    /\ Head(events).to = "control"
    /\ events' = Tail(events)
    /\ shown' = IF Head(events).code \in Accepted THEN Head(events).from ELSE shown
    /\ UNCHANGED <<worker, pointers, connection, control, author, fault, apart>>

\* HistoryCacher::on_authorized asks for the channels on the client it holds
\* now, which need not be the one that was authorized.
OnAuthorized ==
    /\ events # << >>
    /\ Head(events).to = "cacher"
    /\ events' = Tail(events)
    /\ \/ Head(events).code = "AutorOK" /\ Post(cacher)
       \/ Head(events).code # "AutorOK" /\ UNCHANGED <<queued, writing, fault>>
    /\ UNCHANGED <<worker, pointers, open, ops, reads, refused, shown, control, author, apart>>

\* ~Control, when the application quits
DestroyControl ==
    /\ control' = "destroyed"
    /\ CloseHeld
    /\ UNCHANGED <<worker, pointers, ops, reads, queued, writing, refused, events,
                   shown, author, apart>>

-----------------------------------------------------------------------------

WorkerStep(s) == \/ ResolveFails(s) \/ Create(s) \/ Connect(s) \/ SetClient(s)
                 \/ Launch(s) \/ CloseAfterJoin(s) \/ Return(s)

Handler(c) == \/ ConnectOk(c) \/ ConnectFails(c) \/ LoginSent(c) \/ LoginFails(c)
              \/ HeaderRead(c) \/ BodyRead(c) \/ ReadFails(c)
              \/ RequestWritten(c) \/ RequestFails(c)

\* A handler runs, and run() returns if it was the last.
IoStep(c) == Handler(c) /\ worker' = [worker EXCEPT ![c] = AfterRun(c)']

GuiStep == UserSends \/ ChangeWindow \/ OnAuthorized

\* Nothing is followed past such a misuse or the end of the program.
Going == fault = "none" /\ control = "alive"

Next == /\ Going
        /\ \/ \E s \in Sessions : Start(s) \/ WorkerStep(s) \/ IoStep(s)
           \/ GuiStep
           \/ DestroyControl

Spec == Init /\ [][Next]_vars

\* The threads run on, and an operation on a closed socket completes with an
\* error.  Nothing forces a server to answer on an open one.
Fairness ==
    \A s \in Sessions :
        /\ WF_vars(Going /\ WorkerStep(s))
        /\ WF_vars(Going /\ ~IsOpen(s) /\ IoStep(s))

FairSpec == Spec /\ Fairness

-----------------------------------------------------------------------------
(* Properties                                                              *)

\* Every variable keeps its type.
TypeOK ==
    /\ worker \in [Sessions -> {"unborn", "resolving", "failed", "returned"} \cup Inside]
    /\ client \in Sessions \cup {NoClient}
    /\ cacher \in Sessions \cup {NoClient}
    /\ ahead \in [Sessions -> Nat]
    /\ behind \in [Sessions -> Nat]
    /\ open \in [Sessions -> BOOLEAN]
    /\ ops \in [Sessions -> [Ops -> Nat]]
    /\ reads \in [Sessions -> 0..MaxReads]
    /\ queued \in [Sessions -> 0..MaxSends]
    /\ writing \in [Sessions -> {"none", "running", "failing"}]
    /\ refused \in SUBSET Sessions
    /\ events \in Seq([to : {"control", "cacher"}, from : Sessions,
                      code : {"AutorOK", "IncorrectAutor", "RegistrOK", "BusyRegistr"}])
    /\ shown \in Sessions \cup {NoClient}
    /\ author \in Sessions \cup {NoClient}
    /\ control \in {"alive", "destroyed"}
    /\ fault \in {"none", "deadService", "deadSend", "useAfterFree", "nullHistory"}
    /\ apart \in BOOLEAN

\* A client has at most one operation of its connect-login-read chain
\* outstanding, so that bin_buffer and __read_buffer are never the target of two
\* reads, and no read overlaps the login.
OneChain == \A c \in Sessions : \A k, l \in Ops :
    ops[c][k] > 0 /\ ops[c][l] > 0 => k = l /\ ops[c][k] = 1

\* It is so as long as attempts have kept apart.
OneChainApart == apart => OneChain

\* Whatever the attempts do to each other's client, the slot of Control sees
\* every authorization the cacher sees, and first: the main window has replaced
\* the login form before the channels are asked for.
ControlFirst == \A i \in 1..Len(events) :
    events[i].to = "cacher" /\ events[i].code = "AutorOK" =>
        \/ shown # NoClient
        \/ \E j \in 1..(i - 1) : events[j] = [events[i] EXCEPT !.to = "control"]

\* As long as attempts have kept apart, a refused client is quiet: closed, with
\* nothing more to read, although later attempts find it in the pointers.
RefusedStaysQuiet == apart => \A c \in refused : ~IsOpen(c) /\ ~Busy(c)

\* As long as attempts have kept apart, the close after the join and that of
\* ~Control reach the sockets they are meant for: when an attempt's worker has
\* returned, and its io_service with it, and when Control is destroyed in the
\* middle of an attempt, no client is left with an open socket.
NoSocketLeft == apart => \A s \in Sessions :
    worker[s] = "returned" \/ control = "destroyed" => ~IsOpen(s)

\* "Send message, sender's login" (control.h): the main window works on the
\* attempt that was accepted.  Control sends and the cacher asks on its client,
\* and the messages bear its login.
WindowServesAccepted ==
    shown # NoClient => client = shown /\ cacher = shown /\ author = shown

\* "Send message" (control.h): what is sent from the main window is given to a
\* client whose io_service still exists.
SendsOnLiveService == fault # "deadSend"

\* A connection whose chain has ended without a close (a header that does not
\* parse, a response without its field) is closed in the end: by its worker, or
\* with the client, when other attempts have taken its place in both pointers.
DeadChainCloses == \A c \in Sessions : (worker[c] = "closing") ~> (~IsOpen(c) \/ ~Going)

\* A refused attempt that has kept apart ends, with all that was queued on it, so
\* that the user can make another that is apart from it.
RefusedAttemptEnds == \A c \in Sessions :
    (c \in refused) ~> (worker[c] = "returned" \/ ~Going \/ ~apart)
=============================================================================
