------------------------------- MODULE SendQueue -------------------------------
(***************************************************************************)
(* Client::add_msg_to_send and Client::start_send_msgs: the queue          *)
(* msg_to_server, filled on the GUI thread and drained on the thread that  *)
(* runs io_service.run().  No lock guards the queue, so the three steps of *)
(* the caller (test, push, start) and the two of the completion handler    *)
(* (pop, test and start again) interleave freely.                          *)
(***************************************************************************)
EXTENDS Naturals, Sequences

CONSTANTS
    MaxMsgs     \* bound: how many messages the GUI thread hands over

ASSUME SendQueueAssumption == MaxMsgs \in Nat

VARIABLES
    handed,     \* how many messages the GUI thread has pushed; the i-th is i
    queue,      \* msg_to_server
    writing,    \* the outstanding async_write: none, running, or done with its
                \* completion handler not run yet
    gui,        \* where the GUI thread is in add_msg_to_send
    io,         \* where the io thread is in the completion handler
    open,       \* sock.is_open()
    wire,       \* the messages the operating system has taken, in order
    fault,      \* what undefined behaviour was reached, if any
    apart       \* bookkeeping: add_msg_to_send and the completion handler have
                \* never run at the same time (what a lock would ensure)

state == <<handed, queue, writing, gui, io, open, wire, fault>>

vars == <<state, apart>>

Faults == {"none", "doubleWrite", "emptyFront"}

Init == /\ handed = 0
        /\ queue = << >>
        /\ writing = "none"
        /\ gui = "idle"
        /\ io = "idle"
        /\ open = TRUE
        /\ wire = << >>
        /\ fault = "none"
        /\ apart = TRUE

\* start_send_msgs(), on either thread.  async_write may only be called while
\* no other is outstanding, and front() only on a queue that is not empty;
\* the program is not followed beyond a call that breaks either.
StartSend ==
    \/ /\ writing = "none" /\ queue # << >>
       /\ writing' = "running"
       /\ UNCHANGED fault
    \/ /\ queue = << >>
       /\ fault' = "emptyFront"
       /\ UNCHANGED writing
    \/ /\ writing # "none" /\ queue # << >>
       /\ fault' = "doubleWrite"
       /\ UNCHANGED writing

-----------------------------------------------------------------------------
(* The GUI thread: add_msg_to_send                                         *)

\* bool process_write = !msg_to_server.empty();
SeesEmptyAlways == TRUE                     \* mutant
SeesEmpty == queue = << >>

CheckEmpty ==
    /\ gui = "idle"
    /\ handed < MaxMsgs
    /\ gui' = IF SeesEmpty THEN "sawEmpty" ELSE "sawBusy"
    /\ UNCHANGED <<handed, queue, writing, io, open, wire, fault>>

\* msg_to_server.push(...)
PushedInFront == <<handed + 1>> \o queue    \* mutant
Pushed == Append(queue, handed + 1)

\* Mutants: a push behind other messages is repeated, or starts a write too.
AfterPushAgain == IF gui = "sawEmpty" THEN "mustStart" ELSE gui
AfterPushStart == IF gui = "sawEmpty" \/ queue # << >> THEN "mustStart" ELSE "idle"

\* The start is left to an outstanding write when one was seen.
AfterPush == IF gui = "sawEmpty" THEN "mustStart" ELSE "idle"

PushMsg ==
    /\ gui \in {"sawEmpty", "sawBusy"}
    /\ handed' = handed + 1
    /\ queue' = Pushed
    /\ gui' = AfterPush
    /\ UNCHANGED <<writing, io, open, wire, fault>>

StartFromGui ==
    /\ gui = "mustStart"
    /\ gui' = "idle"
    /\ StartSend
    /\ UNCHANGED <<handed, queue, io, open, wire>>

-----------------------------------------------------------------------------
(* The socket and the io thread                                            *)

\* The operating system takes the whole of the front message.
OsWrite ==
    /\ writing = "running"
    /\ open
    /\ writing' = "done"
    /\ wire' = Append(wire, Head(queue))
    /\ UNCHANGED <<handed, queue, gui, io, open, fault>>

\* msg_to_server.pop()
PoppedNot == queue                          \* mutant
Popped == Tail(queue)

\* The completion handler with no error
WriteOk ==
    /\ writing = "done"
    /\ io = "idle"
    /\ writing' = "none"
    /\ queue' = Popped
    /\ io' = "popped"
    /\ UNCHANGED <<handed, gui, open, wire, fault>>

\* The rest of the handler: start again unless the queue is now empty
GoesOnNever == FALSE                        \* mutant
GoesOn == queue # << >>

Continue ==
    /\ io = "popped"
    /\ io' = "idle"
    /\ \/ GoesOn /\ StartSend
       \/ ~GoesOn /\ UNCHANGED <<writing, fault>>
    /\ UNCHANGED <<handed, queue, gui, open, wire>>

\* close_connection: the socket is closed, and the queue is left as it is.
CloseNot == UNCHANGED open                  \* mutant
Close == open' = FALSE

\* The completion handler with an error
WriteFail ==
    /\ writing = "running"
    /\ io = "idle"
    /\ writing' = "none"
    /\ Close
    /\ UNCHANGED <<handed, queue, gui, io, wire, fault>>

\* close_connection() called by a read handler, by ~Control or by the thread
\* that ran the io_service
CloseConnection ==
    /\ open
    /\ Close
    /\ UNCHANGED <<handed, queue, writing, gui, io, wire, fault>>

-----------------------------------------------------------------------------

Next == /\ fault = "none"
        /\ \/ CheckEmpty
           \/ PushMsg
           \/ StartFromGui
           \/ OsWrite
           \/ WriteOk
           \/ Continue
           \/ WriteFail
           \/ CloseConnection
        /\ apart' = (apart /\ (gui' = "idle" \/ io' = "idle"))

Spec == Init /\ [][Next]_vars

\* Both threads run on, and the operating system takes what an open socket is
\* given or reports an error.  The user need not send, and nobody need close.
Fairness == /\ WF_state(fault = "none" /\ PushMsg)
            /\ WF_state(fault = "none" /\ StartFromGui)
            /\ WF_state(fault = "none" /\ (OsWrite \/ WriteFail))
            /\ WF_state(fault = "none" /\ WriteOk)
            /\ WF_state(fault = "none" /\ Continue)

FairSpec == Spec /\ Fairness

-----------------------------------------------------------------------------
(* Properties                                                              *)

TypeOK == /\ handed \in 0..MaxMsgs
          /\ queue \in Seq(1..MaxMsgs)
          /\ writing \in {"none", "running", "done"}
          /\ gui \in {"idle", "sawEmpty", "sawBusy", "mustStart"}
          /\ io \in {"idle", "popped"}
          /\ open \in BOOLEAN
          /\ wire \in Seq(1..MaxMsgs)
          /\ fault \in Faults
          /\ apart \in BOOLEAN

\* How many messages are both on the wire and still at the front of the queue
Unpopped == IF writing = "done" THEN 1 ELSE 0

\* Every message handed over is on the wire or in the queue, none twice.
Accounted == Len(wire) + Len(queue) = handed + Unpopped

WireInOrder == \A i \in 1..Len(wire) : wire[i] = i

QueueInOrder == \A i \in 1..Len(queue) : queue[i] = (Len(wire) - Unpopped) + i

\* Whatever the interleaving, as long as no undefined call is made, the wire
\* and the queue together hold every message handed to add_msg_to_send
\* exactly once and in order (the front is counted once while its completion
\* handler is pending).
InOrder == Accounted /\ WireInOrder /\ QueueInOrder

\* Messages wait in the queue of an open connection and nobody is going to
\* send them: no write is outstanding and neither thread is on its way to
\* start one.
Stranded == /\ open
            /\ queue # << >>
            /\ writing = "none"
            /\ io = "idle"
            /\ gui \notin {"sawEmpty", "mustStart"}

\* As long as the test and push of add_msg_to_send have never overlapped the
\* pop and test of the completion handler, start_send_msgs has not been called
\* with a write outstanding or on an empty queue: a lock around the two
\* functions, each as it is, would be enough.
NoUndefinedCall == apart => fault = "none"

\* And no message has been left behind in the queue.
NothingStranded == apart => ~Stranded

\* add_msg_to_send only starts a write when it finds the queue empty, so a
\* stranded queue never recovers: later messages pile up behind the first
\* until the connection is closed.
StrandedStays == [][Stranded => (Stranded' \/ ~open')]_vars

\* A message handed to the Client leaves the machine unless the connection is
\* closed (or an undefined call is made).
EveryMessageLeaves ==
    \A i \in 1..MaxMsgs :
        (handed >= i) ~> (Len(wire) >= i \/ ~open \/ fault # "none")

\* The Client's sending side implements the ordered link in safety, whatever
\* the interleaving.
Link == INSTANCE FifoLink WITH sent <- handed, arrived <- wire, up <- open

ImplementsLink == Link!Spec

\* It is a link with delivery if the two functions never overlap.
DeliversApart == []apart => Link!Delivery
=============================================================================
