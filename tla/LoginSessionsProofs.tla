-------------------------- MODULE LoginSessionsProofs --------------------------
(***************************************************************************)
(* Theorems about LoginSessions for any number of attempts, responses and  *)
(* requests.  The types of the state and the order of the two slots hold   *)
(* in any overlap of the attempts; the single chain of a client and the    *)
(* end of an attempt hold for as long as attempts have kept apart.         *)
(***************************************************************************)
EXTENDS LoginSessions, SequenceTheorems, TLAPS

USE LoginSessionsAssumption

-----------------------------------------------------------------------------
(* The attempts and the client that Control holds                          *)

Stages == {"unborn", "resolving", "failed", "returned"} \cup Inside

\* An attempt that connects signals, or connects to the server, finds a client,
\* though not always its own.
AttemptTypes ==
    /\ worker \in [Sessions -> Stages]
    /\ client \in Sessions \cup {NoClient}
    /\ \A s \in Sessions : worker[s] \in {"created", "connected", "wired"} => client \in Sessions

LEMMA StageType == \A s \in Sessions : AfterRun(s)' \in {"closing", "joining"}
  BY DEF AfterRun

\* What a handler leaves alone
LEMMA IoIs ==
  ASSUME NEW c \in Sessions, IoStep(c)
  PROVE  /\ worker[c] = "joining" /\ worker' = [worker EXCEPT ![c] = AfterRun(c)']
         /\ UNCHANGED <<client, cacher, ahead, behind, author, shown, control, apart>>
         /\ UNCHANGED <<events, refused>> \/ BodyRead(c)
  BY DEF IoStep, Handler, Runs, ConnectOk, ConnectFails, LoginSent, LoginFails, HeaderRead,
         BodyRead, ReadFails, RequestWritten, RequestFails, pointers, slots, gui

\* What the GUI thread leaves alone
LEMMA GuiIs ==
  ASSUME GuiStep \/ DestroyControl \/ UNCHANGED vars
  PROVE  /\ UNCHANGED <<worker, client, cacher, ahead, behind, author, ops, reads, refused, apart>>
         /\ UNCHANGED <<events, shown>> \/ ChangeWindow \/ OnAuthorized
         /\ UNCHANGED <<open, control>> \/ DestroyControl
  BY DEF GuiStep, UserSends, ChangeWindow, OnAuthorized, DestroyControl, pointers, slots, connection,
         gui, vars

LEMMA StepAttempts == AttemptTypes /\ [Next]_vars => AttemptTypes'
<1> SUFFICES ASSUME AttemptTypes, [Next]_vars PROVE AttemptTypes'
  OBVIOUS
<1> USE DEF AttemptTypes, Stages, Inside
<1>1. CASE \E s \in Sessions : Start(s)
  BY <1>1 DEF Start, pointers
<1>2. CASE \E s \in Sessions : ResolveFails(s)
  BY <1>2 DEF ResolveFails, pointers
<1>3. CASE \E s \in Sessions : Create(s)
  BY <1>3 DEF Create
<1>4. CASE \E s \in Sessions : Connect(s) \/ SetClient(s)
  BY <1>4 DEF Connect, SetClient
<1>5. CASE \E s \in Sessions : Launch(s)
  BY <1>5, StageType DEF Launch, pointers
<1>6. CASE \E s \in Sessions : CloseAfterJoin(s)
  BY <1>6 DEF CloseAfterJoin, pointers
<1>7. CASE \E s \in Sessions : Return(s)
  BY <1>7 DEF Return, pointers
<1>8. CASE \E s \in Sessions : IoStep(s)
  BY <1>8, IoIs, StageType
<1>9. CASE GuiStep \/ DestroyControl \/ UNCHANGED vars
  BY <1>9, GuiIs
<1> QED
  BY <1>1, <1>2, <1>3, <1>4, <1>5, <1>6, <1>7, <1>8, <1>9 DEF Next, WorkerStep

-----------------------------------------------------------------------------
(* The operations of a client                                              *)

ChainTypes == ops \in [Sessions -> [Ops -> Nat]]

\* A handler takes one outstanding operation off, and may put another on.
LEMMA HandlerOps ==
  ASSUME NEW c \in Sessions, Handler(c)
  PROVE  \/ UNCHANGED ops
         \/ \E k \in Ops : /\ ops[c][k] > 0
                           /\ Complete(c, k) \/ \E l \in Ops \ {k} : Replace(c, k, l)
<1>1. CASE ConnectOk(c) \/ ConnectFails(c)
  <2>1. ops[c]["connect"] > 0 /\ (Complete(c, "connect") \/ Replace(c, "connect", "login"))
    BY <1>1 DEF ConnectOk, ConnectFails, SendLogin
  <2>2. "connect" \in Ops /\ "login" \in Ops \ {"connect"}
    BY DEF Ops
  <2> QED
    BY <2>1, <2>2
<1>2. CASE LoginSent(c) \/ LoginFails(c)
  <2>1. ops[c]["login"] > 0 /\ (Complete(c, "login") \/ Replace(c, "login", "header"))
    BY <1>2 DEF LoginSent, LoginFails
  <2>2. "login" \in Ops /\ "header" \in Ops \ {"login"}
    BY DEF Ops
  <2> QED
    BY <2>1, <2>2
<1>3. CASE HeaderRead(c)
  <2>1. /\ ops[c]["header"] > 0
        /\ Complete(c, "header") \/ \E cmd \in Responses : Replace(c, "header", cmd)
    BY <1>3 DEF HeaderRead
  <2>2. "header" \in Ops /\ Responses \subseteq Ops \ {"header"}
    BY DEF Ops, Responses
  <2> QED
    BY <2>1, <2>2
<1>4. CASE BodyRead(c)
  <2>1. PICK cmd \in Responses :
           ops[c][cmd] > 0 /\ (Complete(c, cmd) \/ Replace(c, cmd, "header"))
    BY <1>4 DEF BodyRead
  <2>2. cmd \in Ops /\ "header" \in Ops \ {cmd}
    BY DEF Ops, Responses
  <2> QED
    BY <2>1, <2>2
<1>5. CASE ReadFails(c)
  BY <1>5 DEF ReadFails, Ops
<1>6. CASE RequestWritten(c) \/ RequestFails(c)
  BY <1>6 DEF RequestWritten, RequestFails
<1> QED
  BY <1>1, <1>2, <1>3, <1>4, <1>5, <1>6 DEF Handler

LEMMA OpTaken ==
  ASSUME ChainTypes, NEW c \in Sessions, NEW k \in Ops, ops[c][k] > 0, Complete(c, k)
  PROVE  /\ ChainTypes'
         /\ \A d \in Sessions \ {c} : ops'[d] = ops[d]
         /\ \A l \in Ops : ops'[c][l] = IF l = k THEN ops[c][k] - 1 ELSE ops[c][l]
<1>1. ops[c] \in [Ops -> Nat] /\ ops[c][k] - 1 \in Nat
  BY DEF ChainTypes
<1> QED
  BY <1>1 DEF Complete, ChainTypes

LEMMA OpReplaced ==
  ASSUME ChainTypes, NEW c \in Sessions, NEW k \in Ops, ops[c][k] > 0,
         NEW l \in Ops \ {k}, Replace(c, k, l)
  PROVE  /\ ChainTypes'
         /\ \A d \in Sessions \ {c} : ops'[d] = ops[d]
         /\ \A n \in Ops : ops'[c][n] = IF n = k THEN ops[c][k] - 1
                                       ELSE IF n = l THEN ops[c][l] + 1 ELSE ops[c][n]
<1>1. /\ ops[c] \in [Ops -> Nat] /\ ops[c][k] - 1 \in Nat /\ ops[c][l] + 1 \in Nat
  BY DEF ChainTypes
<1>2. ops' = [ops EXCEPT ![c] = [ops[c] EXCEPT ![k] = ops[c][k] - 1, ![l] = ops[c][l] + 1]]
  BY <1>1 DEF Replace, ChainTypes
<1> QED
  BY <1>1, <1>2 DEF ChainTypes

LEMMA StepChain == AttemptTypes /\ ChainTypes /\ [Next]_vars => ChainTypes'
<1> SUFFICES ASSUME AttemptTypes, ChainTypes, [Next]_vars PROVE ChainTypes'
  OBVIOUS
<1>1. CASE \E s \in Sessions : Launch(s)
  <2>1. CASE UNCHANGED ops
    BY <2>1 DEF ChainTypes
  <2>2. CASE ops' = [ops EXCEPT ![client]["connect"] = @ + 1]
    <3>1. client \in Sessions
      BY <1>1 DEF Launch, AttemptTypes
    <3>2. ops[client] \in [Ops -> Nat] /\ "connect" \in Ops
      BY <3>1 DEF ChainTypes, Ops
    <3>3. [ops[client] EXCEPT !["connect"] = @ + 1] \in [Ops -> Nat]
      BY <3>2
    <3> QED
      BY <2>2, <3>1, <3>3 DEF ChainTypes
  <2> QED
    BY <1>1, <2>1, <2>2 DEF Launch
<1>2. CASE \E c \in Sessions : IoStep(c)
  <2>1. PICK c \in Sessions : Handler(c)
    BY <1>2 DEF IoStep
  <2>2. CASE UNCHANGED ops
    BY <2>2 DEF ChainTypes
  <2> QED
    BY <2>1, <2>2, HandlerOps, OpTaken, OpReplaced
<1>3. CASE \E s \in Sessions : Return(s)
  BY <1>3, 0 \in Nat DEF Return, ChainTypes
<1>4. CASE ~(\E s \in Sessions : Launch(s) \/ IoStep(s) \/ Return(s))
  <2>1. UNCHANGED ops
    BY <1>4 DEF Next, Start, WorkerStep, ResolveFails, Create, Connect, SetClient,
                CloseAfterJoin, GuiStep, UserSends, ChangeWindow, OnAuthorized, DestroyControl,
                connection, vars
  <2> QED
    BY <2>1 DEF ChainTypes
<1> QED
  BY <1>1, <1>2, <1>3, <1>4

-----------------------------------------------------------------------------
(* What the attempts share                                                 *)

SharedTypes ==
    /\ cacher \in Sessions \cup {NoClient}
    /\ author \in Sessions \cup {NoClient}
    /\ ahead \in [Sessions -> Nat]
    /\ behind \in [Sessions -> Nat]

LEMMA StepShared == AttemptTypes /\ SharedTypes /\ [Next]_vars => SharedTypes'
<1> SUFFICES ASSUME AttemptTypes, SharedTypes, [Next]_vars PROVE SharedTypes'
  OBVIOUS
<1>1. CASE \E s \in Sessions : Connect(s)
  BY <1>1 DEF Connect, AttemptTypes, SharedTypes
<1>2. CASE \E s \in Sessions : SetClient(s)
  <2>1. \A c \in Sessions : ahead[c] \in Nat /\ behind[c] \in Nat
    BY DEF SharedTypes
  <2>2. /\ cacher' = client /\ author' = author
        /\ ahead' = [c \in Sessions |-> IF c \in {cacher, client} THEN ahead[c] + behind[c]
                                        ELSE ahead[c]]
        /\ behind' = [c \in Sessions |-> IF c \in {cacher, client} THEN 0 ELSE behind[c]]
    BY <1>2 DEF SetClient
  <2>3. ahead' \in [Sessions -> Nat] /\ behind' \in [Sessions -> Nat]
    BY <2>1, <2>2
  <2> QED
    BY <2>2, <2>3 DEF SharedTypes, AttemptTypes
<1>3. CASE \E s \in Sessions : Launch(s)
  BY <1>3 DEF Launch, SharedTypes, pointers, slots
<1>4. CASE ~(\E s \in Sessions : Connect(s) \/ SetClient(s) \/ Launch(s))
  <2>1. UNCHANGED <<cacher, author, ahead, behind>>
    BY <1>4, IoIs, GuiIs DEF Next, Start, WorkerStep, ResolveFails, Create, CloseAfterJoin, Return,
                pointers, slots
  <2> QED
    BY <2>1 DEF SharedTypes
<1> QED
  BY <1>1, <1>2, <1>3, <1>4

-----------------------------------------------------------------------------
(* Requests that wait to be written                                        *)

\* What is being written is still in the queue.
SendTypes ==
    /\ queued \in [Sessions -> 0..MaxSends]
    /\ writing \in [Sessions -> {"none", "running", "failing"}]
    /\ \A c \in Sessions : writing[c] # "none" => queued[c] >= 1

LEMMA Posted ==
  ASSUME SendTypes, NEW c, Post(c)
  PROVE  SendTypes'
<1>1. CASE c \notin Sessions
  <2>1. queued' = queued
    BY <1>1 DEF Post, SendTypes
  <2>2. writing' = writing
    BY <1>1 DEF Post, SendTypes
  <2> QED
    BY <2>1, <2>2 DEF SendTypes
<1>2. CASE c \in Sessions
  <2>1. queued[c] \in 0..MaxSends /\ queued[c] < MaxSends
    BY <1>2 DEF Post, SendTypes
  <2>2. queued' = [queued EXCEPT ![c] = queued[c] + 1] /\ queued[c] + 1 \in 1..MaxSends
    BY <2>1 DEF Post
  <2>3. queued' \in [Sessions -> 0..MaxSends] /\ queued'[c] >= 1
        /\ \A d \in Sessions : d # c => queued'[d] = queued[d]
    BY <1>2, <2>2 DEF SendTypes
  <2>4. writing' \in [Sessions -> {"none", "running", "failing"}]
        /\ \A d \in Sessions : d # c => writing'[d] = writing[d]
    BY <1>2 DEF Post, SendTypes
  <2> QED
    BY <1>2, <2>3, <2>4 DEF SendTypes
<1> QED
  BY <1>1, <1>2

LEMMA StepSends == SendTypes /\ [Next]_vars => SendTypes'
<1> SUFFICES ASSUME SendTypes, [Next]_vars PROVE SendTypes'
  OBVIOUS
<1>1. CASE \E c \in Sessions : RequestWritten(c)
  <2>1. PICK c \in Sessions : RequestWritten(c)
    BY <1>1
  <2>2. queued[c] \in 1..MaxSends
    BY <2>1 DEF RequestWritten, SendTypes
  <2>3. /\ queued' = [queued EXCEPT ![c] = queued[c] - 1] /\ queued[c] - 1 \in 0..MaxSends
        /\ writing' = [writing EXCEPT ![c] = IF queued[c] > 1 THEN "running" ELSE "none"]
    BY <2>1, <2>2 DEF RequestWritten, More
  <2>4. queued' \in [Sessions -> 0..MaxSends] /\ queued'[c] = queued[c] - 1
        /\ \A d \in Sessions \ {c} : queued'[d] = queued[d]
    BY <2>3 DEF SendTypes
  <2>5. /\ writing' \in [Sessions -> {"none", "running", "failing"}]
        /\ \A d \in Sessions \ {c} : writing'[d] = writing[d]
        /\ writing'[c] = IF queued[c] > 1 THEN "running" ELSE "none"
    BY <2>3 DEF SendTypes
  <2>6. writing'[c] # "none" => queued'[c] >= 1
    BY <2>2, <2>4, <2>5
  <2>7. \A d \in Sessions \ {c} : writing'[d] # "none" => queued'[d] >= 1
    BY <2>4, <2>5 DEF SendTypes
  <2> QED
    BY <2>4, <2>5, <2>6, <2>7 DEF SendTypes
<1>2. CASE \E c \in Sessions : RequestFails(c)
  BY <1>2 DEF RequestFails, GiveUp, SendTypes
<1>3. CASE UserSends \/ OnAuthorized
  <2>1. CASE \E c \in {client, cacher} : Post(c)
    BY <2>1, Posted
  <2>2. CASE UNCHANGED <<queued, writing>>
    BY <2>2 DEF SendTypes
  <2> QED
    BY <1>3, <2>1, <2>2 DEF UserSends, OnAuthorized
<1>4. CASE \E c \in Sessions : IoStep(c) /\ ~RequestWritten(c) /\ ~RequestFails(c)
  BY <1>4 DEF IoStep, Handler, ConnectOk, ConnectFails, LoginSent, LoginFails, HeaderRead,
              BodyRead, ReadFails, SendTypes
<1>5. CASE \/ \E s \in Sessions : Start(s) \/ (WorkerStep(s) /\ ~Return(s))
           \/ ChangeWindow \/ DestroyControl \/ UNCHANGED vars
  <2>1. UNCHANGED <<queued, writing>>
    BY <1>5 DEF Start, WorkerStep, ResolveFails, Create, Connect, SetClient, Launch,
                CloseAfterJoin, ChangeWindow, DestroyControl, connection, vars
  <2> QED
    BY <2>1 DEF SendTypes
<1>6. CASE \E s \in Sessions : Return(s)
  BY <1>6 DEF Return, SendTypes
<1> QED
  BY <1>1, <1>2, <1>3, <1>4, <1>5, <1>6 DEF Next, GuiStep, IoStep

-----------------------------------------------------------------------------
(* Sockets and what is read from them                                      *)

ReadTypes ==
    /\ open \in [Sessions -> BOOLEAN]
    /\ reads \in [Sessions -> 0..MaxReads]

LEMMA StepReads == ReadTypes /\ [Next]_vars => ReadTypes'
<1> SUFFICES ASSUME ReadTypes, [Next]_vars PROVE ReadTypes'
  OBVIOUS
<1>1. open' \in [Sessions -> BOOLEAN]
  <2>1. \/ \E c \in Sessions : IoStep(c)
        \/ \E s \in Sessions : Launch(s) \/ CloseAfterJoin(s)
        \/ DestroyControl \/ UNCHANGED open
    BY DEF Next, Start, WorkerStep, ResolveFails, Create, Connect, SetClient, Return,
           GuiStep, UserSends, ChangeWindow, OnAuthorized, connection, vars
  <2>2. CASE \E c \in Sessions : IoStep(c)
    BY <2>2 DEF IoStep, Handler, ConnectOk, ConnectFails, LoginSent, LoginFails, HeaderRead,
                BodyRead, ReadFails, RequestWritten, RequestFails, CloseThroughThis, Close,
                ReadTypes
  <2>3. CASE (\E s \in Sessions : Launch(s) \/ CloseAfterJoin(s)) \/ DestroyControl
    BY <2>3 DEF Launch, CloseAfterJoin, DestroyControl, CloseHeld, Close, ReadTypes
  <2> QED
    BY <2>1, <2>2, <2>3 DEF ReadTypes
<1>2. reads' \in [Sessions -> 0..MaxReads]
  <2>1. CASE \E c \in Sessions : HeaderRead(c)
    <3>1. PICK c \in Sessions : HeaderRead(c)
      BY <2>1
    <3>2. reads[c] + 1 \in 0..MaxReads
      BY <3>1 DEF HeaderRead, ReadTypes
    <3> QED
      BY <3>1, <3>2 DEF HeaderRead, ReadTypes
  <2>2. CASE ~ \E c \in Sessions : HeaderRead(c)
    <3>1. UNCHANGED reads
      BY <2>2, GuiIs DEF Next, IoStep, Handler, ConnectOk, ConnectFails, LoginSent, LoginFails,
                  BodyRead, ReadFails, RequestWritten, RequestFails, Start, WorkerStep,
                  ResolveFails, Create, Connect, SetClient, Launch, CloseAfterJoin, Return,
                  connection
    <3> QED
      BY <3>1 DEF ReadTypes
  <2> QED
    BY <2>1, <2>2
<1> QED
  BY <1>1, <1>2 DEF ReadTypes

-----------------------------------------------------------------------------
(* Queued slot calls                                                       *)

Codes == {"AutorOK", "IncorrectAutor", "RegistrOK", "BusyRegistr"}

Calls == [to : {"control", "cacher"}, from : Sessions, code : Codes]

CallTypes ==
    /\ events \in Seq(Calls)
    /\ shown \in Sessions \cup {NoClient}
    /\ refused \in SUBSET Sessions

LEMMA CodeType ==
  ASSUME NEW cmd, NEW payload, Code(cmd, payload) # "none"
  PROVE  Code(cmd, payload) \in Codes
  BY DEF Code, Codes

LEMMA DeliverType ==
  ASSUME NEW n \in Nat, NEW to \in {"control", "cacher"}, NEW c \in Sessions, NEW code \in Codes
  PROVE  Deliver(n, to, c, code) \in Seq(Calls)
<1>1. [to |-> to, from |-> c, code |-> code] \in Calls
  BY DEF Calls
<1> QED
  BY <1>1 DEF Deliver

LEMMA ConcatType ==
  ASSUME NEW S, NEW p \in Seq(S), NEW q \in Seq(S)
  PROVE  p \o q \in Seq(S)
  OBVIOUS

LEMMA EmitType ==
  ASSUME SharedTypes, CallTypes, NEW c \in Sessions, NEW code \in Codes, Emit(c, code)
  PROVE  events' \in Seq(Calls)
<1>1. ahead[c] \in Nat /\ behind[c] \in Nat /\ events \in Seq(Calls)
  BY DEF SharedTypes, CallTypes
<1>2. /\ Deliver(ahead[c], "control", c, code) \in Seq(Calls)
      /\ Deliver(behind[c], "control", c, code) \in Seq(Calls)
  BY <1>1, DeliverType
<1>3. ToCacher(c, code) \in Seq(Calls)
  BY DeliverType, 0 \in Nat, 1 \in Nat DEF ToCacher
<1>4. events \o Deliver(ahead[c], "control", c, code) \in Seq(Calls)
  BY <1>1, <1>2, ConcatType
<1>5. events \o Deliver(ahead[c], "control", c, code) \o ToCacher(c, code) \in Seq(Calls)
  BY <1>3, <1>4, ConcatType
<1>6. events \o Deliver(ahead[c], "control", c, code) \o ToCacher(c, code)
             \o Deliver(behind[c], "control", c, code) \in Seq(Calls)
  BY <1>2, <1>5, ConcatType
<1> QED
  BY <1>6 DEF Emit

LEMMA BodyCalls ==
  ASSUME NEW c \in Sessions, BodyRead(c)
  PROVE  /\ UNCHANGED events \/ \E code \in Codes : Emit(c, code)
         /\ refused' \in {refused, refused \cup {c}}
         /\ UNCHANGED shown
  BY CodeType DEF BodyRead

\* Only the handler of a body queues slot calls, and only two slots take them.
LEMMA CallsKept ==
  ASSUME [Next]_vars
  PROVE  \/ UNCHANGED <<events, shown, refused>>
         \/ \E c \in Sessions : BodyRead(c)
         \/ ChangeWindow
         \/ OnAuthorized
<1>1. CASE \E c \in Sessions : IoStep(c)
  BY <1>1, IoIs
<1>2. CASE ~ \E c \in Sessions : IoStep(c)
  BY <1>2 DEF Next, Start, WorkerStep, ResolveFails, Create, Connect, SetClient, Launch,
              CloseAfterJoin, Return, GuiStep, UserSends, DestroyControl, connection, gui, vars
<1> QED
  BY <1>1, <1>2

LEMMA TailCall ==
  ASSUME NEW s \in Seq(Calls), s # << >>
  PROVE  /\ Head(s) \in Calls /\ Head(s) = s[1]
         /\ Len(s) \in Nat \ {0} /\ Tail(s) \in Seq(Calls) /\ Len(Tail(s)) = Len(s) - 1
         /\ \A i \in 1..Len(s) - 1 : Tail(s)[i] = s[i + 1]
  OBVIOUS

LEMMA StepCalls == SharedTypes /\ CallTypes /\ [Next]_vars => CallTypes'
<1> SUFFICES ASSUME SharedTypes, CallTypes, [Next]_vars PROVE CallTypes'
  OBVIOUS
<1>1. CASE \E c \in Sessions : BodyRead(c)
  <2>1. PICK c \in Sessions : BodyRead(c)
    BY <1>1
  <2>2. events' \in Seq(Calls)
    BY <2>1, BodyCalls, EmitType DEF CallTypes
  <2>3. refused' \in SUBSET Sessions /\ shown' = shown
    BY <2>1, BodyCalls DEF CallTypes
  <2> QED
    BY <2>2, <2>3 DEF CallTypes
<1>2. CASE ChangeWindow \/ OnAuthorized
  <2>1. /\ events # << >> /\ events' = Tail(events) /\ refused' = refused
        /\ shown' \in {shown, Head(events).from}
    BY <1>2 DEF ChangeWindow, OnAuthorized, connection
  <2>2. Tail(events) \in Seq(Calls) /\ Head(events) \in Calls
    BY <2>1, TailCall DEF CallTypes
  <2>3. Head(events).from \in Sessions
    BY <2>2 DEF Calls
  <2> QED
    BY <2>1, <2>2, <2>3 DEF CallTypes
<1>3. CASE UNCHANGED <<events, shown, refused>>
  BY <1>3 DEF CallTypes
<1> QED
  BY <1>1, <1>2, <1>3, CallsKept

-----------------------------------------------------------------------------
(* The types of the whole state                                            *)

EndTypes ==
    /\ control \in {"alive", "destroyed"}
    /\ fault \in {"none", "deadService", "deadSend", "useAfterFree", "nullHistory"}
    /\ apart \in BOOLEAN

LEMMA StepEnds == EndTypes /\ [Next]_vars => EndTypes'
<1> SUFFICES ASSUME EndTypes, [Next]_vars PROVE EndTypes'
  OBVIOUS
<1> USE DEF EndTypes
<1>1. CASE \E c \in Sessions : IoStep(c)
  BY <1>1 DEF IoStep, Handler, ConnectOk, ConnectFails, LoginSent, LoginFails, HeaderRead,
              BodyRead, ReadFails, RequestWritten, RequestFails, CloseThroughThis, gui
<1>2. CASE GuiStep \/ DestroyControl \/ UNCHANGED vars
  BY <1>2 DEF GuiStep, UserSends, ChangeWindow, OnAuthorized, Post, DestroyControl, CloseHeld,
              gui, vars
<1>3. CASE \E s \in Sessions : Start(s) \/ ResolveFails(s) \/ Connect(s) \/ Launch(s) \/ Return(s)
  BY <1>3 DEF Start, ResolveFails, Connect, Launch, Return, gui
<1>4. CASE \E s \in Sessions : Create(s) \/ SetClient(s)
  BY <1>4 DEF Create, SetClient, Drop, gui
<1>5. CASE \E s \in Sessions : CloseAfterJoin(s)
  BY <1>5 DEF CloseAfterJoin, CloseHeld, gui
<1> QED
  BY <1>1, <1>2, <1>3, <1>4, <1>5 DEF Next, WorkerStep

AllTypes == AttemptTypes /\ ChainTypes /\ SharedTypes /\ SendTypes /\ ReadTypes /\ CallTypes
            /\ EndTypes

LEMMA InitTypes == Init => AllTypes
<1> SUFFICES ASSUME Init PROVE AllTypes
  OBVIOUS
<1>1. AttemptTypes /\ SharedTypes /\ EndTypes
  BY DEF Init, AttemptTypes, Stages, SharedTypes, EndTypes
<1>2. SendTypes /\ ReadTypes /\ ChainTypes
  BY DEF Init, SendTypes, ReadTypes, ChainTypes
<1>3. CallTypes
  BY DEF Init, CallTypes
<1> QED
  BY <1>1, <1>2, <1>3 DEF AllTypes

LEMMA AllTypesHold == Spec => []AllTypes
<1>1. AllTypes /\ [Next]_vars => AllTypes'
  BY StepAttempts, StepChain, StepShared, StepSends, StepReads, StepCalls, StepEnds DEF AllTypes
<1> QED
  BY <1>1, InitTypes, PTL DEF Spec

\* In every overlap of the attempts the state keeps its types; the counts of
\* what is outstanding and of the requests that wait never fall below zero.
THEOREM TypeCorrect == Spec => []TypeOK
<1>1. AllTypes => TypeOK
  BY DEF AllTypes, AttemptTypes, Stages, ChainTypes, SharedTypes, SendTypes, ReadTypes,
         CallTypes, Calls, Codes, EndTypes, TypeOK
<1> QED
  BY <1>1, AllTypesHold, PTL

-----------------------------------------------------------------------------
(* Attempts that keep apart                                                *)

Early == {"unborn", "resolving", "failed", "created"}

OneInside == \A s, t \in Sessions : worker[s] \in Inside /\ worker[t] \in Inside => s = t

\* From each step of connect_to_server on, a shared pointer is the attempt's,
\* and until then the cacher holds the client of an earlier one.
OwnPointers ==
    /\ \A s \in Sessions :
          /\ worker[s] \in Inside => client = s
          /\ worker[s] \in Inside \ {"created", "connected"} => cacher = s
    /\ cacher # NoClient => worker[cacher] \notin Early \cup {"connected"}

Turns == OneInside /\ OwnPointers

\* Attempts are found to be apart only as long as they have been.
LEMMA ApartBefore == [Next]_vars /\ apart' => apart
<1> SUFFICES ASSUME [Next]_vars, apart' PROVE apart
  OBVIOUS
<1>1. CASE \E s \in Sessions : Create(s)
  BY <1>1 DEF Create
<1>2. CASE ~ \E s \in Sessions : Create(s)
  BY <1>2, IoIs, GuiIs DEF Next, Start, WorkerStep, ResolveFails, Connect, SetClient, Launch,
              CloseAfterJoin, Return
<1> QED
  BY <1>1, <1>2

\* A step of an attempt that is inside already, or does not get there, and
\* leaves the pointers alone
LEMMA TurnKept ==
  ASSUME AllTypes, Turns, UNCHANGED <<client, cacher>>, NEW s \in Sessions,
         NEW stage \in Stages, worker' = [worker EXCEPT ![s] = stage],
         \/ worker[s] \in {"unborn", "resolving"} /\ stage \in {"resolving", "failed"}
         \/ worker[s] \in {"wired", "joining", "closing", "closed"}
            /\ stage \in {"joining", "closing", "closed", "returned"}
  PROVE  Turns'
<1>1. worker \in [Sessions -> Stages] /\ cacher \in Sessions \cup {NoClient}
  BY DEF AllTypes, AttemptTypes, SharedTypes
<1>2. worker'[s] = stage /\ \A t \in Sessions \ {s} : worker'[t] = worker[t]
  BY <1>1
<1>3. OneInside'
  BY <1>2 DEF Turns, OneInside, Inside
<1>4. OwnPointers'
  BY <1>1, <1>2 DEF Turns, OwnPointers, Inside, Early
<1> QED
  BY <1>3, <1>4 DEF Turns

LEMMA StepTurns ==
  ASSUME AllTypes, Turns, [Next]_vars, apart'
  PROVE  Turns'
<1>0. /\ worker \in [Sessions -> Stages] /\ cacher \in Sessions \cup {NoClient}
      /\ client \in Sessions \cup {NoClient} /\ NoClient \notin Sessions
  BY DEF AllTypes, AttemptTypes, SharedTypes, NoClient, Sessions
<1>1. CASE \E s \in Sessions : Start(s) \/ ResolveFails(s)
  BY <1>1, TurnKept DEF Start, ResolveFails, pointers, slots, Stages
<1>2. CASE \E s \in Sessions : Create(s)
  <2>1. PICK s \in Sessions : Create(s)
    BY <1>2
  <2>2. /\ worker[s] = "resolving" /\ worker' = [worker EXCEPT ![s] = "created"] /\ client' = s
        /\ \A t \in Sessions : worker[t] \notin Inside
        /\ UNCHANGED cacher
    BY <2>1 DEF Create
  <2>3. worker'[s] = "created" /\ \A t \in Sessions \ {s} : worker'[t] = worker[t]
    BY <1>0, <2>2
  <2>4. OneInside'
    BY <2>2, <2>3 DEF OneInside
  <2>5. cacher # s
    BY <1>0, <2>2 DEF Turns, OwnPointers, Early
  <2>6. OwnPointers'
    BY <1>0, <2>2, <2>3, <2>5 DEF Turns, OwnPointers, Inside
  <2> QED
    BY <2>4, <2>6 DEF Turns
<1>3. CASE \E s \in Sessions : Connect(s)
  <2>1. PICK s \in Sessions : Connect(s)
    BY <1>3
  <2>2. worker[s] = "created" /\ worker' = [worker EXCEPT ![s] = "connected"]
    BY <2>1 DEF Connect
  <2>3. client = s /\ cacher # s
    BY <1>0, <2>2 DEF Turns, OwnPointers, Inside, Early
  <2>4. UNCHANGED <<client, cacher>>
    BY <2>1 DEF Connect
  <2>5. worker'[s] = "connected" /\ \A t \in Sessions \ {s} : worker'[t] = worker[t]
    BY <1>0, <2>2
  <2>6. OneInside' /\ OwnPointers'
    BY <1>0, <2>2, <2>3, <2>4, <2>5 DEF Turns, OneInside, OwnPointers, Inside, Early
  <2> QED
    BY <2>6 DEF Turns
<1>4. CASE \E s \in Sessions : SetClient(s)
  <2>1. PICK s \in Sessions : SetClient(s)
    BY <1>4
  <2>2. /\ worker[s] = "connected" /\ worker' = [worker EXCEPT ![s] = "wired"]
        /\ cacher' = client /\ client' = client
    BY <2>1 DEF SetClient
  <2>3. client = s
    BY <2>2 DEF Turns, OwnPointers, Inside
  <2>4. worker'[s] = "wired" /\ \A t \in Sessions \ {s} : worker'[t] = worker[t]
    BY <1>0, <2>2
  <2> QED
    BY <2>2, <2>3, <2>4 DEF Turns, OneInside, OwnPointers, Inside, Early
<1>5. CASE \E s \in Sessions : Launch(s) \/ CloseAfterJoin(s) \/ Return(s)
  BY <1>5, TurnKept, StageType DEF Launch, CloseAfterJoin, Return, pointers, slots, Stages, Inside
<1>6. CASE \E c \in Sessions : IoStep(c)
  BY <1>6, IoIs, TurnKept, StageType DEF Stages, Inside
<1>7. CASE GuiStep \/ DestroyControl \/ UNCHANGED vars
  BY <1>7, GuiIs DEF Turns, OneInside, OwnPointers
<1> QED
  BY <1>1, <1>2, <1>3, <1>4, <1>5, <1>6, <1>7 DEF Next, WorkerStep

-----------------------------------------------------------------------------
(* The chain of a client, from its connection to its end                   *)

\* Operations are outstanding only while the io_service runs, and a socket is
\* open only until the worker has closed it.
ChainsRun == \A c \in Sessions :
    /\ Busy(c) => worker[c] = "joining"
    /\ open[c] => worker[c] \in {"joining", "closing"}

RefusedDone == \A c \in refused :
    /\ ~open[c] /\ ~Busy(c)
    /\ worker[c] \in {"joining", "closing", "closed", "returned"}

Ended == OneChain /\ ChainsRun /\ RefusedDone

\* One operation in the place of another, or of none, is still one.
LEMMA ChainGoesOn ==
  ASSUME ChainTypes, OneChain, NEW c \in Sessions, NEW k \in Ops, ops[c][k] > 0,
         Complete(c, k) \/ \E l \in Ops \ {k} : Replace(c, k, l)
  PROVE  OneChain'
<1>1. ops[c] \in [Ops -> Nat]
  BY DEF ChainTypes
<1>2. ops[c][k] = 1 /\ \A l \in Ops \ {k} : ops[c][l] = 0
  BY <1>1 DEF OneChain
<1>3. CASE Complete(c, k)
  <2>1. \A l \in Ops : ops'[c][l] = 0
    BY <1>2, <1>3, OpTaken, 1 - 1 = 0
  <2> QED
    BY <1>3, <2>1, OpTaken DEF OneChain
<1>4. CASE \E l \in Ops \ {k} : Replace(c, k, l)
  <2>1. PICK l \in Ops \ {k} : Replace(c, k, l)
    BY <1>4
  <2>2. \A n \in Ops : ops'[c][n] = IF n = l THEN 1 ELSE 0
    BY <1>2, <2>1, OpReplaced, 1 - 1 = 0, 0 + 1 = 1
  <2> QED
    BY <2>1, <2>2, OpReplaced DEF OneChain
<1> QED
  BY <1>3, <1>4

LEMMA ChainEnds ==
  ASSUME ChainTypes, OneChain, NEW c \in Sessions, NEW k \in Ops, ops[c][k] > 0, Complete(c, k)
  PROVE  ~Busy(c)'
<1>1. ops[c] \in [Ops -> Nat]
  BY DEF ChainTypes
<1>2. ops[c][k] = 1 /\ \A l \in Ops \ {k} : ops[c][l] = 0
  BY <1>1 DEF OneChain
<1>3. \A l \in Ops : ops'[c][l] = 0
  BY <1>2, OpTaken, 1 - 1 = 0
<1> QED
  BY <1>3 DEF Busy

\* What a handler does to sockets and chains
LEMMA IoEnds ==
  ASSUME AllTypes, OneChain, NEW c \in Sessions, IoStep(c)
  PROVE  /\ OneChain'
         /\ \A d \in Sessions : d # c => open'[d] = open[d] /\ ops'[d] = ops[d]
         /\ open'[c] => open[c]
         /\ ~Busy(c) => ops' = ops
         /\ \/ refused' = refused
            \/ refused' = refused \cup {c} /\ ~open'[c] /\ ~Busy(c)'
<1>1. /\ ChainTypes /\ open \in [Sessions -> BOOLEAN] /\ refused \in SUBSET Sessions
  BY DEF AllTypes, ReadTypes, CallTypes
<1>2. \/ UNCHANGED ops
      \/ \E k \in Ops : /\ ops[c][k] > 0
                        /\ Complete(c, k) \/ \E l \in Ops \ {k} : Replace(c, k, l)
  BY HandlerOps DEF IoStep
<1>3. OneChain'
  <2>1. CASE UNCHANGED ops
    BY <2>1 DEF OneChain
  <2> QED
    BY <1>1, <1>2, <2>1, ChainGoesOn
<1>4. \A d \in Sessions : d # c => open'[d] = open[d] /\ ops'[d] = ops[d]
  <2>1. UNCHANGED open \/ open' = [open EXCEPT ![c] = FALSE]
    BY DEF IoStep, Handler, ConnectOk, ConnectFails, LoginSent, LoginFails, HeaderRead, BodyRead,
           ReadFails, RequestWritten, RequestFails, CloseThroughThis, Close
  <2> QED
    BY <1>1, <1>2, <2>1, OpTaken, OpReplaced
<1>5. open'[c] => open[c]
  BY <1>1 DEF IoStep, Handler, ConnectOk, ConnectFails, LoginSent, LoginFails, HeaderRead, BodyRead,
           ReadFails, RequestWritten, RequestFails, CloseThroughThis, Close
<1>6. ~Busy(c) => ops' = ops
  BY <1>2 DEF Busy
<1>7. \/ refused' = refused
      \/ refused' = refused \cup {c} /\ ~open'[c] /\ ~Busy(c)'
  <2>1. CASE BodyRead(c) /\ refused' # refused
    <3>0. PICK cmd \in Responses : \E payload \in Payloads(cmd) :
             /\ ops[c][cmd] > 0
             /\ IF Rearms(cmd, payload) THEN Replace(c, cmd, "header") ELSE Complete(c, cmd)
             /\ IF Closes(cmd, payload) THEN Close(c) ELSE UNCHANGED open
             /\ refused' = IF Code(cmd, payload) \in {"IncorrectAutor", "BusyRegistr"}
                           THEN refused \cup {c} ELSE refused
      BY <2>1 DEF BodyRead
    <3>1. PICK payload \in Payloads(cmd) :
             /\ ops[c][cmd] > 0
             /\ IF Rearms(cmd, payload) THEN Replace(c, cmd, "header") ELSE Complete(c, cmd)
             /\ IF Closes(cmd, payload) THEN Close(c) ELSE UNCHANGED open
             /\ refused' = IF Code(cmd, payload) \in {"IncorrectAutor", "BusyRegistr"}
                           THEN refused \cup {c} ELSE refused
      BY <3>0
    <3>2. payload = "refused"
      BY <2>1, <3>1 DEF Code
    <3>3. Complete(c, cmd) /\ Close(c) /\ refused' = refused \cup {c}
      BY <2>1, <3>1, <3>2 DEF Rearms, Closes
    <3>4. cmd \in Ops
      BY DEF Ops
    <3> QED
      BY <1>1, <3>1, <3>3, <3>4, ChainEnds DEF Close
  <2> QED
    BY <2>1, IoIs
<1> QED
  BY <1>3, <1>4, <1>5, <1>6, <1>7

LEMMA StepEnded ==
  ASSUME AllTypes, Turns, Ended, [Next]_vars
  PROVE  Ended'
<1>0. /\ worker \in [Sessions -> Stages] /\ ops \in [Sessions -> [Ops -> Nat]]
      /\ open \in [Sessions -> BOOLEAN] /\ refused \in SUBSET Sessions
      /\ client \in Sessions \cup {NoClient} /\ ChainTypes
  BY DEF AllTypes, AttemptTypes, ChainTypes, ReadTypes, CallTypes
<1>1. CASE \E s \in Sessions : \/ Start(s) \/ ResolveFails(s) \/ Create(s) \/ Connect(s)
                              \/ SetClient(s)
  <2>1. PICK s \in Sessions :
           /\ UNCHANGED <<open, ops, refused>>
           /\ worker[s] \in {"unborn", "resolving", "created", "connected"}
           /\ \E stage \in Stages : worker' = [worker EXCEPT ![s] = stage]
    BY <1>1 DEF Start, ResolveFails, Create, Connect, SetClient, connection, Stages, Inside
  <2>2. ChainsRun'
    BY <1>0, <2>1 DEF ChainsRun, Ended, Busy
  <2>3. RefusedDone'
    BY <1>0, <2>1 DEF RefusedDone, Ended, Busy
  <2>4. OneChain'
    BY <2>1 DEF Ended, OneChain
  <2> QED
    BY <2>2, <2>3, <2>4 DEF Ended
<1>2. CASE \E s \in Sessions : Launch(s)
  <2>1. PICK s \in Sessions : Launch(s)
    BY <1>2
  <2>2. worker[s] = "wired" /\ client = s /\ ~Busy(s) /\ ~ServiceGone(s)
    BY <2>1 DEF Launch, OwnPointers, Turns, ChainsRun, Ended, ServiceGone, Inside
  <2>3. /\ open' = [open EXCEPT ![s] = TRUE]
        /\ ops' = [ops EXCEPT ![s]["connect"] = @ + 1]
        /\ worker' = [worker EXCEPT ![s] = AfterRun(s)']
        /\ refused' = refused
    BY <2>1, <2>2 DEF Launch
  <2>4. "connect" \in Ops /\ ops[s] \in [Ops -> Nat] /\ \A k \in Ops : ops[s][k] = 0
    <3>1. ops[s] \in [Ops -> Nat]
      BY <1>0
    <3>2. \A k \in Ops : ops[s][k] \in Nat /\ ~(ops[s][k] > 0)
      BY <2>2, <3>1 DEF Busy
    <3>3. "connect" \in Ops
      BY DEF Ops
    <3> QED
      BY <3>1, <3>2, <3>3
  <2>5. \A k \in Ops : ops'[s][k] = IF k = "connect" THEN 1 ELSE 0
    BY <1>0, <2>3, <2>4, 0 + 1 = 1
  <2>6. AfterRun(s)' = "joining"
    BY <2>4, <2>5 DEF AfterRun, Idle, Busy
  <2>7. \A d \in Sessions : d # s => /\ open'[d] = open[d] /\ ops'[d] = ops[d]
                                    /\ worker'[d] = worker[d]
    BY <1>0, <2>3
  <2>8. worker'[s] = "joining"
    BY <1>0, <2>3, <2>6
  <2>9. OneChain'
    BY <2>5, <2>7 DEF Ended, OneChain
  <2>10. ChainsRun'
    BY <2>7, <2>8 DEF ChainsRun, Ended, Busy
  <2>11. RefusedDone'
    BY <1>0, <2>2, <2>3, <2>7 DEF RefusedDone, Ended, Busy
  <2> QED
    BY <2>9, <2>10, <2>11 DEF Ended
<1>3. CASE \E s \in Sessions : CloseAfterJoin(s)
  <2>1. PICK s \in Sessions : CloseAfterJoin(s)
    BY <1>3
  <2>2. worker[s] = "closing" /\ client = s
    BY <2>1 DEF CloseAfterJoin, OwnPointers, Turns, Inside
  <2>3. /\ worker' = [worker EXCEPT ![s] = "closed"] /\ open' = [open EXCEPT ![s] = FALSE]
        /\ UNCHANGED <<ops, refused>>
    BY <2>1, <2>2 DEF CloseAfterJoin, CloseHeld, Close, NoClient, Sessions
  <2>4. ChainsRun'
    BY <1>0, <2>2, <2>3 DEF ChainsRun, Ended, Busy
  <2>5. RefusedDone'
    BY <1>0, <2>2, <2>3 DEF RefusedDone, Ended, Busy
  <2>6. OneChain'
    BY <2>3 DEF Ended, OneChain
  <2> QED
    BY <2>4, <2>5, <2>6 DEF Ended
<1>4. CASE \E s \in Sessions : Return(s)
  <2>1. PICK s \in Sessions : Return(s)
    BY <1>4
  <2>2. /\ worker[s] = "closed" /\ worker' = [worker EXCEPT ![s] = "returned"]
        /\ ops' = [ops EXCEPT ![s] = [k \in Ops |-> 0]] /\ UNCHANGED <<open, refused>>
    BY <2>1 DEF Return
  <2>3. /\ \A k \in Ops : ops'[s][k] = 0
        /\ \A d \in Sessions : d # s => ops'[d] = ops[d] /\ worker'[d] = worker[d]
        /\ worker'[s] = "returned" /\ ~open[s]
    BY <1>0, <2>2 DEF Ended, ChainsRun
  <2>4. ChainsRun'
    BY <2>2, <2>3 DEF ChainsRun, Ended, Busy
  <2>5. RefusedDone'
    BY <1>0, <2>2, <2>3 DEF RefusedDone, Ended, Busy
  <2>6. OneChain'
    BY <2>3 DEF Ended, OneChain
  <2> QED
    BY <2>4, <2>5, <2>6 DEF Ended
<1>5. CASE \E c \in Sessions : IoStep(c)
  <2>1. PICK c \in Sessions : IoStep(c)
    BY <1>5
  <2>2. worker[c] = "joining" /\ worker' = [worker EXCEPT ![c] = AfterRun(c)']
    BY <2>1, IoIs
  <2>3. /\ OneChain'
        /\ \A d \in Sessions : d # c => open'[d] = open[d] /\ ops'[d] = ops[d]
        /\ open'[c] => open[c]
        /\ ~Busy(c) => ops' = ops
        /\ \/ refused' = refused
           \/ refused' = refused \cup {c} /\ ~open'[c] /\ ~Busy(c)'
    BY <2>1, IoEnds DEF Ended
  <2>4. /\ worker'[c] \in {"joining", "closing"} /\ (Busy(c)' => worker'[c] = "joining")
        /\ \A d \in Sessions : d # c => worker'[d] = worker[d]
    BY <1>0, <2>2, StageType DEF AfterRun, Idle
  <2>5. ChainsRun'
    BY <2>3, <2>4 DEF ChainsRun, Ended, Busy
  <2>6. ASSUME NEW d \in refused'
        PROVE  /\ ~open'[d] /\ ~Busy(d)'
               /\ worker'[d] \in {"joining", "closing", "closed", "returned"}
    <3>1. CASE d # c
      BY <1>0, <2>3, <2>4, <2>6, <3>1 DEF RefusedDone, Ended, Busy
    <3>2. CASE d = c /\ c \in refused
      BY <2>3, <2>4, <3>2 DEF RefusedDone, Ended, Busy
    <3>3. CASE d = c /\ c \notin refused
      BY <2>3, <2>4, <2>6, <3>3
    <3> QED
      BY <3>1, <3>2, <3>3
  <2> QED
    BY <2>3, <2>5, <2>6 DEF RefusedDone, Ended
<1>6. CASE GuiStep \/ UNCHANGED vars
  <2>1. UNCHANGED <<worker, open, ops, refused>>
    BY <1>6 DEF GuiStep, UserSends, ChangeWindow, OnAuthorized, connection, vars
  <2> QED
    BY <2>1 DEF Ended, OneChain, ChainsRun, RefusedDone, Busy
<1>7. CASE DestroyControl
  <2>1. UNCHANGED <<worker, ops, refused>> /\ CloseHeld
    BY <1>7 DEF DestroyControl
  <2>2. \A c \in Sessions : open'[c] => open[c]
    BY <1>0, <2>1 DEF CloseHeld, Close
  <2> QED
    BY <1>0, <2>1, <2>2 DEF Ended, OneChain, ChainsRun, RefusedDone, Busy
<1> QED
  BY <1>1, <1>2, <1>3, <1>4, <1>5, <1>6, <1>7 DEF Next, WorkerStep

-----------------------------------------------------------------------------
(* The end of the program                                                  *)

AllClosed == control = "destroyed" => \A c \in Sessions : ~open[c]

\* ~Control closes the one socket that can be open, that of the attempt which
\* is under way.
LEMMA StepAllClosed ==
  ASSUME AllTypes, Turns, Ended, AllClosed, [Next]_vars
  PROVE  AllClosed'
<1>0. open \in [Sessions -> BOOLEAN] /\ client \in Sessions \cup {NoClient}
  BY DEF AllTypes, AttemptTypes, ReadTypes, CallTypes
<1>1. CASE DestroyControl
  <2>1. \A c \in Sessions : open[c] => client = c
    BY DEF Turns, OwnPointers, Ended, ChainsRun, Inside
  <2>2. CloseHeld
    BY <1>1 DEF DestroyControl
  <2>3. \A c \in Sessions : ~open'[c]
    BY <1>0, <2>1, <2>2 DEF CloseHeld, Close, NoClient, Sessions
  <2> QED
    BY <2>3 DEF AllClosed
<1>2. CASE UNCHANGED vars
  BY <1>2 DEF AllClosed, vars, gui, connection
<1>3. CASE Going /\ ~DestroyControl /\ ~UNCHANGED vars
  <2>1. control' = control
    <3>1. CASE \E s \in Sessions : Start(s) \/ WorkerStep(s)
      BY <3>1 DEF Start, WorkerStep, ResolveFails, Create, Connect, SetClient, Launch,
                  CloseAfterJoin, Return, gui
    <3>2. CASE \E c \in Sessions : IoStep(c)
      BY <3>2, IoIs
    <3>3. CASE GuiStep
      BY <3>3 DEF GuiStep, UserSends, ChangeWindow, OnAuthorized, gui
    <3> QED
      BY <1>3, <3>1, <3>2, <3>3 DEF Next
  <2>2. control = "alive"
    BY <1>3 DEF Going
  <2> QED
    BY <2>1, <2>2 DEF AllClosed
<1> QED
  BY <1>1, <1>2, <1>3 DEF Next

-----------------------------------------------------------------------------
(* The order of the two slots                                              *)

\* A client that is held in a shared pointer and whose worker has got beyond the
\* connects, or beyond set_client, is connected to Control's slot, and before
\* the cacher's: a pointer that has lost a client never gets it back, so it was
\* this client that the worker found.
Slotted ==
    /\ \A c \in Sessions : client = c /\ worker[c] \notin Early => ahead[c] + behind[c] >= 1
    /\ \A c \in Sessions :
          cacher = c /\ worker[c] \notin Early \cup {"connected"} => ahead[c] >= 1

\* A step of an attempt that neither creates a client nor connects one
LEMMA SlotsKept ==
  ASSUME AllTypes, Slotted, UNCHANGED <<client, cacher, ahead, behind>>, NEW s \in Sessions,
         NEW stage \in Stages, worker' = [worker EXCEPT ![s] = stage],
         \/ worker[s] \in {"unborn", "resolving"} /\ stage \in {"resolving", "failed"}
         \/ worker[s] \in {"wired", "joining", "closing", "closed"}
  PROVE  Slotted'
<1>1. worker'[s] = stage /\ \A t \in Sessions \ {s} : worker'[t] = worker[t]
  BY DEF AllTypes, AttemptTypes
<1> QED
  BY <1>1 DEF Slotted, Early

LEMMA StepSlotted ==
  ASSUME AllTypes, Slotted, [Next]_vars
  PROVE  Slotted'
<1>0. /\ worker \in [Sessions -> Stages]
      /\ ahead \in [Sessions -> Nat] /\ behind \in [Sessions -> Nat]
  BY DEF AllTypes, AttemptTypes, SharedTypes
<1>1. CASE \E s \in Sessions : Start(s) \/ ResolveFails(s)
  BY <1>1, SlotsKept DEF Start, ResolveFails, pointers, slots, Stages
<1>2. CASE \E s \in Sessions : Create(s)
  <2>1. PICK s \in Sessions : Create(s)
    BY <1>2
  <2>2. /\ worker[s] = "resolving" /\ client' = s /\ UNCHANGED <<cacher, ahead, behind>>
        /\ worker' = [worker EXCEPT ![s] = "created"]
    BY <2>1 DEF Create, slots
  <2>3. worker'[s] = "created" /\ \A t \in Sessions \ {s} : worker'[t] = worker[t]
    BY <1>0, <2>2
  <2> QED
    BY <2>2, <2>3 DEF Slotted, Early
<1>3. CASE \E s \in Sessions : Connect(s)
  <2>1. PICK s \in Sessions : Connect(s)
    BY <1>3
  <2>2. /\ worker[s] = "created" /\ worker' = [worker EXCEPT ![s] = "connected"]
        /\ UNCHANGED <<client, cacher>>
        /\ \/ ahead' = [ahead EXCEPT ![client] = @ + 1] /\ UNCHANGED behind
           \/ behind' = [behind EXCEPT ![client] = @ + 1] /\ UNCHANGED ahead
    BY <2>1 DEF Connect
  <2>3. worker'[s] = "connected" /\ \A t \in Sessions \ {s} : worker'[t] = worker[t]
    BY <1>0, <2>2
  <2>4. \A c \in Sessions : /\ ahead'[c] >= ahead[c]
                            /\ client = c => ahead'[c] + behind'[c] >= 1
    BY <1>0, <2>2
  <2>5. \A c \in Sessions : ahead[c] \in Nat /\ ahead'[c] \in Nat
    BY <1>0, <2>2
  <2> QED
    BY <2>2, <2>3, <2>4, <2>5 DEF Slotted, Early
<1>4. CASE \E s \in Sessions : SetClient(s)
  <2>1. PICK s \in Sessions : SetClient(s)
    BY <1>4
  <2>2. /\ worker[s] = "connected" /\ worker' = [worker EXCEPT ![s] = "wired"]
        /\ cacher' = client /\ client' = client
        /\ ahead' = [c \in Sessions |-> IF c \in {cacher, client} THEN ahead[c] + behind[c]
                                        ELSE ahead[c]]
        /\ behind' = [c \in Sessions |-> IF c \in {cacher, client} THEN 0 ELSE behind[c]]
    BY <2>1 DEF SetClient
  <2>3. worker'[s] = "wired" /\ \A t \in Sessions \ {s} : worker'[t] = worker[t]
    BY <1>0, <2>2
  <2>4. \A c \in Sessions : client = c => ahead'[c] = ahead[c] + behind[c] /\ behind'[c] = 0
    BY <2>2
  <2>5. \A c \in Sessions : ahead[c] \in Nat /\ behind[c] \in Nat
    BY <1>0
  <2>6. \A c \in Sessions : client = c /\ worker'[c] \notin Early => worker[c] \notin Early
    BY <2>2, <2>3 DEF Early
  <2> QED
    BY <2>2, <2>4, <2>5, <2>6 DEF Slotted
<1>5. CASE \E s \in Sessions : Launch(s) \/ CloseAfterJoin(s) \/ Return(s)
  BY <1>5, SlotsKept, StageType DEF Launch, CloseAfterJoin, Return, pointers, slots, Stages, Inside
<1>6. CASE \E c \in Sessions : IoStep(c)
  BY <1>6, IoIs, SlotsKept, StageType DEF Stages, Inside
<1>7. CASE GuiStep \/ DestroyControl \/ UNCHANGED vars
  BY <1>7, GuiIs DEF Slotted
<1> QED
  BY <1>1, <1>2, <1>3, <1>4, <1>5, <1>6, <1>7 DEF Next, WorkerStep

\* A call that makes the cacher ask, and the one that should stand before it
Asks(e) == e.to = "cacher" /\ e.code = "AutorOK"
Heard(e) == [e EXCEPT !.to = "control"]

InTurn(es) == \A i \in 1..Len(es) :
    Asks(es[i]) => \E j \in 1..(i - 1) : es[j] = Heard(es[i])

Ordered == shown # NoClient \/ InTurn(events)

\* Calls that are queued behind what they should follow
LEMMA InTurnConcat ==
  ASSUME NEW es \in Seq(Calls), NEW fs \in Seq(Calls), InTurn(es),
         \A i \in 1..Len(fs) : Asks(fs[i]) => \E j \in 1..Len(es) : es[j] = Heard(fs[i])
  PROVE  InTurn(es \o fs)
<1>1. PICK m \in Nat, n \in Nat : m = Len(es) /\ n = Len(fs)
  OBVIOUS
<1>2. PICK gs \in Seq(Calls) : gs = es \o fs
  BY ConcatType
<1>3. /\ Len(gs) = m + n
      /\ \A i \in 1..m : gs[i] = es[i]
      /\ \A i \in 1..n : gs[m + i] = fs[i]
  BY <1>1, <1>2
<1>4. ASSUME NEW i \in 1..(m + n), Asks(gs[i])
      PROVE  \E j \in 1..(i - 1) : gs[j] = Heard(gs[i])
  <2>1. CASE i \in 1..m
    <3>1. PICK j \in 1..(i - 1) : es[j] = Heard(es[i])
      BY <1>1, <1>3, <1>4, <2>1 DEF InTurn
    <3> QED
      BY <1>1, <1>3, <2>1, <3>1
  <2>2. CASE i \notin 1..m
    <3>1. i - m \in 1..n /\ m + (i - m) = i
      BY <1>1, <2>2
    <3>2. gs[i] = fs[i - m]
      BY <1>3, <3>1
    <3>3. PICK j \in 1..m : es[j] = Heard(fs[i - m])
      BY <1>1, <1>4, <3>1, <3>2
    <3>4. j \in 1..(i - 1)
      BY <1>1, <3>1
    <3> QED
      BY <1>3, <3>2, <3>3, <3>4
  <2> QED
    BY <2>1, <2>2
<1> QED
  BY <1>2, <1>3, <1>4 DEF InTurn

\* What is delivered n times
LEMMA Delivered ==
  ASSUME NEW n \in Nat, NEW to, NEW c, NEW code
  PROVE  /\ Len(Deliver(n, to, c, code)) = n
         /\ \A i \in 1..n : Deliver(n, to, c, code)[i] = [to |-> to, from |-> c, code |-> code]
  BY DEF Deliver

LEMMA EmittedInTurn ==
  ASSUME SharedTypes, CallTypes, InTurn(events), NEW c \in Sessions, NEW code \in Codes,
         Emit(c, code), cacher = c => ahead[c] >= 1
  PROVE  InTurn(events')
<1> DEFINE before == Deliver(ahead[c], "control", c, code)
           asked == ToCacher(c, code)
           after == Deliver(behind[c], "control", c, code)
<1>1. ahead[c] \in Nat /\ behind[c] \in Nat /\ events \in Seq(Calls)
  BY DEF SharedTypes, CallTypes
<1>2. before \in Seq(Calls) /\ after \in Seq(Calls) /\ asked \in Seq(Calls)
  BY <1>1, DeliverType, 0 \in Nat, 1 \in Nat DEF ToCacher
<1>3. /\ \A i \in 1..Len(before) : ~Asks(before[i])
      /\ \A i \in 1..Len(after) : ~Asks(after[i])
  <2>1. ASSUME NEW n \in Nat, NEW i \in 1..Len(Deliver(n, "control", c, code))
        PROVE  ~Asks(Deliver(n, "control", c, code)[i])
    <3>1. Deliver(n, "control", c, code)[i] = [to |-> "control", from |-> c, code |-> code]
      BY <2>1, Delivered
    <3> QED
      BY <3>1 DEF Asks
  <2> QED
    BY <1>1, <2>1
<1>4. events \o before \in Seq(Calls) /\ events \o before \o asked \in Seq(Calls)
  BY <1>1, <1>2, ConcatType
<1>5. InTurn(events \o before)
  BY <1>1, <1>2, <1>3, InTurnConcat
<1>6. ASSUME NEW i \in 1..Len(asked)
      PROVE  \E j \in 1..Len(events \o before) : (events \o before)[j] = Heard(asked[i])
  <2>1. cacher = c /\ asked[i] = [to |-> "cacher", from |-> c, code |-> code]
    <3>1. CASE cacher = c
      BY <1>6, <3>1, Delivered, 1 \in Nat DEF ToCacher
    <3>2. CASE cacher # c
      BY <1>6, <3>2, Delivered, 0 \in Nat DEF ToCacher
    <3> QED
      BY <3>1, <3>2
  <2>2. ahead[c] >= 1
    BY <2>1
  <2>3. Len(before) = ahead[c] /\ before[1] = [to |-> "control", from |-> c, code |-> code]
    BY <1>1, <2>2, Delivered
  <2>4. Heard(asked[i]) = before[1]
    BY <2>1, <2>3 DEF Heard
  <2>5. PICK m \in Nat : m = Len(events)
    BY <1>1
  <2>6. m + 1 \in 1..Len(events \o before) /\ (events \o before)[m + 1] = before[1]
    BY <1>1, <1>2, <2>2, <2>3, <2>5
  <2> QED
    BY <2>4, <2>6
<1>7. InTurn(events \o before \o asked)
  BY <1>2, <1>4, <1>5, <1>6, InTurnConcat
<1>8. InTurn(events \o before \o asked \o after)
  BY <1>2, <1>3, <1>4, <1>7, InTurnConcat
<1> QED
  BY <1>8 DEF Emit

LEMMA TakenInTurn ==
  ASSUME CallTypes, Ordered, ChangeWindow \/ OnAuthorized
  PROVE  Ordered'
<1>n. PICK n \in Nat : n = Len(events)
  BY DEF CallTypes
<1>1. /\ events # << >> /\ events' = Tail(events)
      /\ \/ shown' = shown /\ (Head(events).to = "cacher" \/ Head(events).code \notin Accepted)
         \/ shown' = Head(events).from
  BY DEF ChangeWindow, OnAuthorized
<1>2. /\ Head(events) \in Calls /\ Head(events) = events[1] /\ n \in Nat \ {0}
      /\ Len(events') = n - 1
      /\ \A i \in 1..n - 1 : events'[i] = events[i + 1]
  BY <1>n, <1>1, TailCall DEF CallTypes
<1>3. CASE shown' = Head(events).from
  <2>1. shown' # NoClient
    BY <1>2, <1>3 DEF Calls, Sessions, NoClient
  <2> QED
    BY <2>1 DEF Ordered
<1>4. CASE shown' = shown /\ shown # NoClient
  BY <1>4 DEF Ordered
<1>5. CASE /\ shown' = shown /\ shown = NoClient
           /\ events[1].to = "cacher" \/ events[1].code \notin Accepted
  <2>1. ASSUME NEW i \in 1..n - 1, Asks(events'[i])
        PROVE  \E j \in 1..(i - 1) : events'[j] = Heard(events'[i])
    <3>1. i + 1 \in 1..n /\ events'[i] = events[i + 1]
      BY <1>2
    <3>2. PICK j \in 1..i : events[j] = Heard(events[i + 1])
      BY <1>n, <1>5, <2>1, <3>1 DEF Ordered, InTurn
    <3>3. events[i + 1] \in Calls
      BY <1>n, <3>1 DEF CallTypes
    <3>4. events[j].to = "control" /\ events[j].code = "AutorOK"
      BY <2>1, <3>1, <3>2, <3>3 DEF Asks, Heard, Calls
    <3>5. j # 1
      BY <1>5, <3>4 DEF Accepted
    <3>6. j - 1 \in 1..(i - 1) /\ j - 1 \in 1..n - 1 /\ (j - 1) + 1 = j
      BY <1>2, <3>2, <3>5
    <3>7. events'[j - 1] = Heard(events'[i])
      BY <1>2, <3>1, <3>2, <3>6
    <3> QED
      BY <3>6, <3>7
  <2> QED
    BY <1>2, <2>1 DEF Ordered, InTurn
<1> QED
  BY <1>1, <1>2, <1>3, <1>4, <1>5

LEMMA StepOrdered ==
  ASSUME AllTypes, Slotted, Ordered, [Next]_vars
  PROVE  Ordered'
<1>1. CASE UNCHANGED <<events, shown>>
  BY <1>1 DEF Ordered
<1>2. CASE \E c \in Sessions : BodyRead(c)
  <2>1. PICK c \in Sessions : BodyRead(c)
    BY <1>2
  <2>2. shown' = shown /\ (UNCHANGED events \/ \E code \in Codes : Emit(c, code))
    BY <2>1, BodyCalls
  <2>3. cacher = c => ahead[c] >= 1
    BY <2>1 DEF BodyRead, Runs, Slotted, Early
  <2>4. InTurn(events) => InTurn(events')
    BY <2>2, <2>3, EmittedInTurn DEF AllTypes
  <2> QED
    BY <2>2, <2>4 DEF Ordered
<1>3. CASE ChangeWindow \/ OnAuthorized
  BY <1>3, TakenInTurn DEF AllTypes
<1> QED
  BY <1>1, <1>2, <1>3, CallsKept

LEMMA OrderedHolds == Spec => []Ordered
<1>1. Init => Slotted /\ Ordered
  BY DEF Init, Slotted, Ordered, InTurn, Early
<1>2. AllTypes /\ Slotted /\ Ordered /\ [Next]_vars => (Slotted /\ Ordered)'
  BY StepSlotted, StepOrdered
<1> QED
  BY <1>1, <1>2, AllTypesHold, PTL DEF Spec

-----------------------------------------------------------------------------
(* The invariant, and what it says for as long as attempts have kept apart *)

Apart == apart => Turns /\ Ended /\ AllClosed

LEMMA ApartHolds == Spec => []Apart
<1>1. Init => Apart
  <2> SUFFICES ASSUME Init PROVE Turns /\ Ended /\ AllClosed
    BY DEF Apart
  <2>1. /\ \A s \in Sessions : worker[s] = "unborn" /\ ~open[s] /\ ~Busy(s)
        /\ cacher = NoClient /\ refused = {} /\ control = "alive"
    BY DEF Init, Busy
  <2>2. Turns
    BY <2>1 DEF Turns, OneInside, OwnPointers, Inside, Early
  <2>3. Ended
    BY <2>1 DEF Ended, OneChain, ChainsRun, RefusedDone, Busy
  <2> QED
    BY <2>1, <2>2, <2>3 DEF AllClosed
<1>2. AllTypes /\ Apart /\ [Next]_vars => Apart'
  BY ApartBefore, StepTurns, StepEnded, StepAllClosed DEF Apart
<1> QED
  BY <1>1, <1>2, AllTypesHold, PTL DEF Spec

\* As long as attempts have kept apart, no handler starts a second chain: a
\* client has at most one connect, login or read outstanding.
THEOREM ChainKept == Spec => []OneChainApart
<1>1. Apart => OneChainApart
  BY DEF Apart, Ended, OneChainApart
<1> QED
  BY <1>1, ApartHolds, PTL

\* However the attempts overlap, Control has been told of an authorization, and
\* has shown the main window, before the cacher's slot asks for the channels.
THEOREM ControlGoesFirst == Spec => []ControlFirst
<1>1. Ordered => ControlFirst
  BY DEF Ordered, InTurn, Asks, Heard, ControlFirst
<1> QED
  BY <1>1, OrderedHolds, PTL

\* As long as attempts have kept apart, neither a returned attempt nor the end
\* of the program leaves a client with an open socket.
THEOREM SocketsClosed == Spec => []NoSocketLeft
<1>1. Apart => NoSocketLeft
  BY DEF Apart, Ended, ChainsRun, AllClosed, NoSocketLeft, IsOpen
<1> QED
  BY <1>1, ApartHolds, PTL

\* As long as attempts have kept apart, a refused client is closed and has
\* nothing more to read.
THEOREM RefusedIsQuiet == Spec => []RefusedStaysQuiet
<1>1. Apart => RefusedStaysQuiet
  BY DEF Apart, Ended, RefusedDone, RefusedStaysQuiet, IsOpen
<1> QED
  BY <1>1, ApartHolds, PTL
=============================================================================
