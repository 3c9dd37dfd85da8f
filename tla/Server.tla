------------------------------- MODULE Server -------------------------------
(***************************************************************************)
(* brf-coordinator: the accept loop, one thread per connection and the     *)
(* shutdown.  Sources: tools/brf_coordinator.cpp (Session, main) and       *)
(* transport.cpp (TcpSocket, TcpListener).                                 *)
(*                                                                         *)
(* A client has one connection at a time and may come back with another.   *)
(* Frames are told apart by what becomes of them: work calls an operation  *)
(* that may change the coordinator, ask is answered without (reads, and    *)
(* requests that do not decode), garbage ends the session, and shutdown    *)
(* asks the server to stop.  The operations are those of Coordinator, each *)
(* atomic under the coordinator's mutex; here they are only counted.       *)
(*                                                                         *)
(* A thread that is blocked in recv when another one closes its socket is  *)
(* woken on some platforms and not on others: wakes says which this is.    *)
(***************************************************************************)
EXTENDS Naturals, Sequences

CONSTANTS
  Clients,
  Says,             \* client -> the kinds of frames it sends
  Wakes,            \* SUBSET BOOLEAN: the platforms
  AcceptMayFail,    \* BOOLEAN
  MaxFrames         \* the bound on the frames a connection has not read

Frames == {"work", "ask", "garbage", "shutdown"}

ASSUME ServerAssumption ==
  /\ Says \in [Clients -> SUBSET Frames]
  /\ Wakes \subseteq BOOLEAN
  /\ AcceptMayFail \in BOOLEAN
  /\ MaxFrames \in Nat

VARIABLES
  wakes,
  main,             \* where the main thread is
  stop,             \* the flag that ends the accept loop
  shutdownRequested,
  conn,             \* "none", "queued", "accepted" or "refused"
  hung,             \* the client has closed its end
  inbox,            \* frames sent and not read yet
  worker,           \* where the connection's thread is
  asked,            \* the session's own shutdown flag
  told,             \* the session's stop flag
  open,             \* the session's socket is open
  unsent            \* work done for this connection whose answer was not sent

client  == <<conn, hung, inbox>>
session == <<worker, asked, told, open>>
flags   == <<stop, shutdownRequested>>

svars == <<wakes, main, flags, client, session, unsent>>

Fresh(f, v) == f = [c \in Clients |-> v]

SInit ==
  /\ wakes \in Wakes
  /\ main = "test"
  /\ stop = FALSE /\ shutdownRequested = FALSE
  /\ Fresh(conn, "none") /\ Fresh(hung, FALSE) /\ Fresh(inbox, <<>>)
  /\ Fresh(worker, "none") /\ Fresh(asked, FALSE) /\ Fresh(told, FALSE) /\ Fresh(open, FALSE)
  /\ Fresh(unsent, 0)

----------------------------------------------------------------------------
(* Clients.                                                                *)

Listening == main \in {"test", "accept", "check", "unlisten"}

Connect(c) ==
  /\ conn[c] = "none"
  /\ conn' = [conn EXCEPT ![c] = IF Listening THEN "queued" ELSE "refused"]
  /\ UNCHANGED <<wakes, main, flags, hung, inbox, session, unsent>>

Send(c, f) ==
  /\ conn[c] \in {"queued", "accepted"} /\ ~hung[c]
  /\ Len(inbox[c]) < MaxFrames
  /\ inbox' = [inbox EXCEPT ![c] = Append(@, f)]
  /\ UNCHANGED <<wakes, main, flags, conn, hung, session, unsent>>

HangUp(c) ==
  /\ conn[c] \in {"queued", "accepted"} /\ ~hung[c]
  /\ hung' = [hung EXCEPT ![c] = TRUE]
  /\ UNCHANGED <<wakes, main, flags, conn, inbox, session, unsent>>

\* A client whose connection is over may come back; the session object of the
\* old one stays in the list, where closing it again changes nothing.
ComeBack(c) ==
  /\ hung[c] /\ worker[c] = "done"
  /\ conn' = [conn EXCEPT ![c] = "none"]
  /\ hung' = [hung EXCEPT ![c] = FALSE]
  /\ inbox' = [inbox EXCEPT ![c] = <<>>]
  /\ worker' = [worker EXCEPT ![c] = "none"]
  /\ asked' = [asked EXCEPT ![c] = FALSE]
  /\ told' = [told EXCEPT ![c] = FALSE]
  /\ unsent' = [unsent EXCEPT ![c] = 0]
  /\ UNCHANGED <<wakes, main, flags, open>>

----------------------------------------------------------------------------
(* The main thread.                                                        *)

LoopTest ==
  /\ main = "test"
  /\ main' = IF stop THEN "unlisten" ELSE "accept"
  /\ UNCHANGED <<wakes, flags, client, session, unsent>>

\* accept returns a connection, whose session is listed and whose thread starts.
Accept(c) ==
  /\ main = "accept"
  /\ conn[c] = "queued"
  /\ main' = "check"
  /\ conn' = [conn EXCEPT ![c] = "accepted"]
  /\ worker' = [worker EXCEPT ![c] = "serving"]
  /\ open' = [open EXCEPT ![c] = TRUE]
  /\ UNCHANGED <<wakes, flags, hung, inbox, asked, told, unsent>>

\* Any failure of accept is taken for a closed listener.
AcceptFails ==
  /\ AcceptMayFail
  /\ main = "accept"
  /\ main' = "unlisten"
  /\ UNCHANGED <<wakes, flags, client, session, unsent>>

CheckRequested ==
  /\ main = "check"
  /\ main' = IF shutdownRequested THEN "unlisten" ELSE "test"
  /\ UNCHANGED <<wakes, flags, client, session, unsent>>

Unlisten ==
  /\ main = "unlisten"
  /\ main' = "closing"
  /\ conn' = [c \in Clients |-> IF conn[c] = "queued" THEN "refused" ELSE conn[c]]
  /\ UNCHANGED <<wakes, flags, hung, inbox, session, unsent>>

Sessions == {c \in Clients : worker[c] # "none"}

\* main goes through the sessions one by one: it tells one to stop, and then
\* closes its socket, unless that is closed already.
TellSession(c) ==
  /\ main = "closing"
  /\ c \in Sessions /\ ~told[c]
  /\ \A d \in Sessions : told[d] => ~open[d]
  /\ told' = [told EXCEPT ![c] = TRUE]
  /\ UNCHANGED <<wakes, main, flags, client, worker, asked, open, unsent>>

CloseSession(c) ==
  /\ main = "closing"
  /\ c \in Sessions /\ told[c] /\ open[c]
  /\ open' = [open EXCEPT ![c] = FALSE]
  /\ UNCHANGED <<wakes, main, flags, client, worker, asked, told, unsent>>

\* A mutant: threads that wait for a frame are not joined.
JoinedButWaiting == \A c \in Sessions : told[c] /\ worker[c] \in {"waiting", "done"}

Joined == \A c \in Sessions : told[c] /\ worker[c] = "done"

JoinWorkers ==
  /\ main = "closing"
  /\ Joined
  /\ main' = "joined"
  /\ UNCHANGED <<wakes, flags, client, session, unsent>>

\* begin_shutdown and flush, then the process ends.
EndServer ==
  /\ main = "joined"
  /\ main' = "stopped"
  /\ UNCHANGED <<wakes, flags, client, session, unsent>>

----------------------------------------------------------------------------
(* The thread of a connection.                                             *)

Goto(c, place) == worker' = [worker EXCEPT ![c] = place]

ReadFrame(c) ==
  /\ worker[c] = "serving"
  /\ Goto(c, IF open[c] THEN "waiting" ELSE "leaving")
  /\ UNCHANGED <<wakes, main, flags, client, asked, told, open, unsent>>

\* Where a frame leads.  The payload of a frame whose header arrives on a socket
\* closed meanwhile cannot be read; a frame that asks or shuts down may have none.
Destinations(c) ==
  LET f     == Head(inbox[c])
      place == IF f = "garbage" THEN "leaving" ELSE IF f = "ask" THEN "answering" ELSE f
  IN  IF open[c] THEN {place} ELSE {"leaving"} \cup ({place} \ {"work"})

FrameArrives(c) ==
  /\ worker[c] = "waiting"
  /\ inbox[c] # <<>>
  /\ \E place \in Destinations(c) :
       /\ Goto(c, place)
       /\ asked' = [asked EXCEPT ![c] = @ \/ place = "shutdown"]
  /\ inbox' = [inbox EXCEPT ![c] = Tail(@)]
  /\ UNCHANGED <<wakes, main, flags, conn, hung, told, open, unsent>>

\* A mutant: a closed peer is waited for.
NothingMoreOpen(c) == ~open[c] /\ wakes

NothingMore(c) == (inbox[c] = <<>> /\ hung[c]) \/ (~open[c] /\ wakes)

ReadEnds(c) ==
  /\ worker[c] = "waiting"
  /\ NothingMore(c)
  /\ Goto(c, "leaving")
  /\ UNCHANGED <<wakes, main, flags, client, asked, told, open, unsent>>

DoWork(c) ==
  /\ worker[c] = "work"
  /\ unsent' = [unsent EXCEPT ![c] = @ + 1]
  /\ Goto(c, "reporting")
  /\ UNCHANGED <<wakes, main, flags, client, asked, told, open>>

\* A mutant: a session goes on when its answer could not be sent.
AfterFailureServing == "serving"

AfterFailure == "leaving"

\* Sending fails on a closed socket, and may fail once the peer is gone.  An answer
\* that was sent is in the hands of the network: a peer that is gone does not get
\* it.  The stop flag is read without a lock: a session that was told to stop may not
\* see it yet.
Answer(c) ==
  /\ worker[c] \in {"reporting", "answering"}
  /\ \/ /\ open[c]
        /\ unsent' = [unsent EXCEPT ![c] = @ - (IF worker[c] = "reporting" THEN 1 ELSE 0)]
        /\ \/ Goto(c, "serving")
           \/ told[c] /\ Goto(c, "leaving")
     \/ /\ ~open[c] \/ hung[c]
        /\ Goto(c, AfterFailure)
        /\ UNCHANGED unsent
  /\ UNCHANGED <<wakes, main, flags, client, asked, told, open>>

\* The shutdown is answered, sent or not, and the session ends.
AcceptShutdown(c) ==
  /\ worker[c] = "shutdown"
  /\ Goto(c, "leaving")
  /\ UNCHANGED <<wakes, main, flags, client, asked, told, open, unsent>>

\* A mutant: a session that could not be served to its end raises no flag.
RaisesIfTold(c) == asked[c] /\ told[c]

Raises(c) == asked[c]

RaiseRequested(c) ==
  /\ worker[c] = "leaving"
  /\ shutdownRequested' = (shutdownRequested \/ Raises(c))
  /\ Goto(c, IF Raises(c) THEN "raising" ELSE "closing")
  /\ UNCHANGED <<wakes, main, stop, client, asked, told, open, unsent>>

RaiseStop(c) ==
  /\ worker[c] = "raising"
  /\ stop' = TRUE
  /\ Goto(c, "closing")
  /\ UNCHANGED <<wakes, main, shutdownRequested, client, asked, told, open, unsent>>

CloseOwn(c) ==
  /\ worker[c] = "closing"
  /\ open' = [open EXCEPT ![c] = FALSE]
  /\ Goto(c, "done")
  /\ UNCHANGED <<wakes, main, flags, client, asked, told, unsent>>

----------------------------------------------------------------------------
(* The specification.                                                      *)

MainStep ==
  \/ LoopTest
  \/ \E c \in Clients : Accept(c)
  \/ CheckRequested
  \/ Unlisten
  \/ \E c \in Clients : TellSession(c)
  \/ \E c \in Clients : CloseSession(c)
  \/ JoinWorkers
  \/ EndServer

WorkerStep(c) ==
  \/ ReadFrame(c)
  \/ FrameArrives(c)
  \/ ReadEnds(c)
  \/ DoWork(c)
  \/ Answer(c)
  \/ AcceptShutdown(c)
  \/ RaiseRequested(c)
  \/ RaiseStop(c)
  \/ CloseOwn(c)

SNext ==
  \/ MainStep
  \/ AcceptFails
  \/ \E c \in Clients : WorkerStep(c)
  \/ \E c \in Clients : Connect(c)
  \/ \E c \in Clients : \E f \in Says[c] : Send(c, f)
  \/ \E c \in Clients : HangUp(c)
  \/ \E c \in Clients : ComeBack(c)

SSpec == SInit /\ [][SNext]_svars

\* The threads of the server run.
ServerFair == WF_svars(MainStep) /\ \A c \in Clients : WF_svars(WorkerStep(c))

\* Clients are like brf_probe: each connects, asks, and hangs up, and there is
\* always another one.
ClientFair ==
  \A c \in Clients : WF_svars(Connect(c)) /\ WF_svars(HangUp(c)) /\ WF_svars(ComeBack(c))

SFairSpec == SSpec /\ ServerFair /\ ClientFair

----------------------------------------------------------------------------
(* Properties.                                                             *)

\* The coordinator is shut down, and then destroyed, only when no session thread
\* is left that could call it, whatever those threads were doing when their
\* sockets were closed under them (main joins before begin_shutdown).
DrainedBeforeShutdown ==
  main \in {"joined", "stopped"} => \A c \in Clients : worker[c] \in {"none", "done"}

\* Of the work done for a connection, at most one piece is left without an answer
\* that was sent, also when the client sends ahead (serve reads the next frame only
\* after the answer was sent, and ends when it could not be).  So a client that
\* waits for each answer, as brf_probe does, has at most one attempt to reconcile
\* when it loses its connection; one that sends ahead may also have lost answers
\* that were sent, and has to ask about each.
AtMostOneUnsent == \A c \in Clients : unsent[c] \in {0, 1}

\* A shutdown that a session has accepted stops the server, though the two flags
\* are raised after the answer, one after the other, and main looks at them only
\* around accept; it takes another connection to get main there, and clients that
\* hang up to let it join.
ShutdownHonoured == (\E c \in Clients : asked[c]) ~> main = "stopped"

\* A session whose client is gone ends, whatever it has sent before it left and
\* whether or not its answers can be delivered: no connection leaks its thread.
SessionsEnd ==
  \A c \in Clients : hung[c] /\ conn[c] = "accepted" ~> worker[c] \in {"done", "none"}

=============================================================================
