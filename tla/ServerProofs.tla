---------------------------- MODULE ServerProofs ----------------------------
(***************************************************************************)
(* The two safety properties of the server, for every set of clients, every*)
(* choice of what they send, every platform and every number of unread     *)
(* frames.                                                                 *)
(*                                                                         *)
(* Neither is inductive.  That a session has at most one answer owing rests*)
(* on where its thread is (only a thread that is reporting, or on its way  *)
(* out, may owe one) and on a connection having no thread before it is     *)
(* accepted; ServerInv says so.                                            *)
(***************************************************************************)
EXTENDS Server, TLAPS

MainPlaces == {"test", "accept", "check", "unlisten", "closing", "joined", "stopped"}

\* Where a thread is while everything it has done was answered, and where it
\* may owe an answer it will not send any more.
Settled == {"none", "serving", "waiting", "work", "answering", "shutdown"}
Over    == {"leaving", "raising", "closing", "done"}
Places  == Settled \cup Over \cup {"reporting"}

ServerTypes ==
  /\ main \in MainPlaces
  /\ conn \in [Clients -> {"none", "queued", "accepted", "refused"}]
  /\ inbox \in [Clients -> Seq(Frames)]
  /\ worker \in [Clients -> Places]
  /\ unsent \in [Clients -> {0, 1}]

\* Only an accepted connection has a thread.
ThreadsAccepted == \A c \in Clients : worker[c] # "none" => conn[c] = "accepted"

\* What a thread owes is known from where it is.
UnsentPlaced ==
  \A c \in Clients :
    /\ worker[c] \in Settled => unsent[c] = 0
    /\ worker[c] = "reporting" => unsent[c] = 1

ServerInv == ServerTypes /\ ThreadsAccepted /\ UnsentPlaced /\ DrainedBeforeShutdown

----------------------------------------------------------------------------

\* A server that starts has no thread and owes nothing.
LEMMA ServerInvInit == SInit => ServerInv
  BY DEF SInit, Fresh, ServerInv, ServerTypes, ThreadsAccepted, UnsentPlaced,
         DrainedBeforeShutdown, MainPlaces, Places, Settled, Over

\* A frame sends the thread to one of its places, and to none where an answer
\* is owing.
LEMMA DestinationPlaced ==
  ASSUME ServerInv, NEW c \in Clients, inbox[c] # <<>>
  PROVE  /\ Destinations(c) \subseteq {"leaving", "answering", "work", "shutdown"}
         /\ Tail(inbox[c]) \in Seq(Frames)
  <1>1. inbox[c] \in Seq(Frames)
    BY DEF ServerInv, ServerTypes
  <1>2. Head(inbox[c]) \in Frames /\ Tail(inbox[c]) \in Seq(Frames)
    BY <1>1
  <1> QED
    BY <1>2 DEF Destinations, Frames

\* The steps of the clients.
LEMMA ClientsKeep ==
  ASSUME ServerInv, NEW c \in Clients,
         \/ Connect(c)
         \/ \E f \in Says[c] : Send(c, f)
         \/ HangUp(c)
         \/ ComeBack(c)
  PROVE  ServerInv'
  <1> USE DEF ServerInv, ServerTypes, ThreadsAccepted, UnsentPlaced, DrainedBeforeShutdown,
              flags, session
  <1>1. CASE Connect(c)
    BY <1>1 DEF Connect
  <1>2. CASE \E f \in Says[c] : Send(c, f)
    <2>1. PICK f \in Says[c] : Send(c, f)
      BY <1>2
    <2>2. f \in Frames
      BY ServerAssumption
    <2> QED
      BY <2>1, <2>2 DEF Send
  <1>3. CASE HangUp(c)
    BY <1>3 DEF HangUp
  <1>4. CASE ComeBack(c)
    BY <1>4 DEF ComeBack, Places, Settled
  <1> QED
    BY <1>1, <1>2, <1>3, <1>4

\* The steps of the main thread.
LEMMA MainKeeps ==
  ASSUME ServerInv, MainStep \/ AcceptFails
  PROVE  ServerInv'
  <1> USE DEF ServerInv, ServerTypes, ThreadsAccepted, UnsentPlaced, DrainedBeforeShutdown,
              flags, session, client, MainPlaces
  <1>1. CASE LoopTest
    BY <1>1 DEF LoopTest
  <1>2. ASSUME NEW c \in Clients, Accept(c) PROVE ServerInv'
    BY <1>2 DEF Accept, Places, Settled
  <1>3. CASE AcceptFails
    BY <1>3 DEF AcceptFails
  <1>4. CASE CheckRequested
    BY <1>4 DEF CheckRequested
  <1>5. CASE Unlisten
    BY <1>5 DEF Unlisten
  <1>6. ASSUME NEW c \in Clients, TellSession(c) \/ CloseSession(c) PROVE ServerInv'
    BY <1>6 DEF TellSession, CloseSession
  <1>7. CASE JoinWorkers
    BY <1>7 DEF JoinWorkers, Joined, Sessions
  <1>8. CASE EndServer
    BY <1>8 DEF EndServer
  <1> QED
    BY <1>1, <1>2, <1>3, <1>4, <1>5, <1>6, <1>7, <1>8 DEF MainStep

\* The steps of a connection's thread.
LEMMA WorkersKeep ==
  ASSUME ServerInv, NEW c \in Clients, WorkerStep(c)
  PROVE  ServerInv'
  <1> USE DEF ServerInv, ServerTypes, ThreadsAccepted, UnsentPlaced, DrainedBeforeShutdown,
              flags, client, Goto, Places, Settled, Over
  <1>1. CASE ReadFrame(c)
    BY <1>1 DEF ReadFrame
  <1>2. CASE FrameArrives(c)
    <2>1. /\ Destinations(c) \subseteq {"leaving", "answering", "work", "shutdown"}
          /\ Tail(inbox[c]) \in Seq(Frames)
      BY <1>2, DestinationPlaced DEF FrameArrives
    <2>2. PICK place \in {"leaving", "answering", "work", "shutdown"} : Goto(c, place)
      BY <1>2, <2>1 DEF FrameArrives
    <2> QED
      BY <1>2, <2>1, <2>2 DEF FrameArrives
  <1>3. CASE ReadEnds(c)
    BY <1>3 DEF ReadEnds
  <1>4. CASE DoWork(c)
    BY <1>4 DEF DoWork
  <1>5. CASE Answer(c)
    <2>1. PICK place \in {"serving", "leaving"}, d \in {0, 1} :
            /\ worker' = [worker EXCEPT ![c] = place]
            /\ unsent' = [unsent EXCEPT ![c] = d]
            /\ place = "serving" => d = 0
      BY <1>5 DEF Answer, AfterFailure
    <2>2. worker[c] \in {"reporting", "answering"} /\ UNCHANGED <<main, conn, inbox>>
      BY <1>5 DEF Answer
    <2>3. ServerTypes' /\ ThreadsAccepted' /\ DrainedBeforeShutdown'
      BY <2>1, <2>2
    <2>4. UnsentPlaced'
      BY <2>1, <2>2
    <2> QED
      BY <2>3, <2>4
  <1>6. CASE AcceptShutdown(c)
    BY <1>6 DEF AcceptShutdown
  <1>7. CASE RaiseRequested(c)
    BY <1>7 DEF RaiseRequested
  <1>8. CASE RaiseStop(c)
    BY <1>8 DEF RaiseStop
  <1>9. CASE CloseOwn(c)
    BY <1>9 DEF CloseOwn
  <1> QED
    BY <1>1, <1>2, <1>3, <1>4, <1>5, <1>6, <1>7, <1>8, <1>9 DEF WorkerStep

\* ServerInv is inductive.
LEMMA ServerInvNext == ServerInv /\ [SNext]_svars => ServerInv'
  <1>1. ASSUME ServerInv, UNCHANGED svars PROVE ServerInv'
    BY <1>1 DEF ServerInv, ServerTypes, ThreadsAccepted, UnsentPlaced, DrainedBeforeShutdown,
                svars, flags, client, session
  <1> QED
    BY <1>1, ClientsKeep, MainKeeps, WorkersKeep DEF SNext

\* The invariant of the server, with its types.
LEMMA ServerInvariant == SSpec => []ServerInv
  BY ServerInvInit, ServerInvNext, PTL DEF SSpec

\* The coordinator is shut down and destroyed only when no session thread is
\* left that could call it (main joins the threads before begin_shutdown).
THEOREM ServerDrains == SSpec => []DrainedBeforeShutdown
  <1>1. ServerInv => DrainedBeforeShutdown
    BY DEF ServerInv
  <1> QED
    BY <1>1, ServerInvariant, PTL

\* Of the work done for a connection at most one piece has no answer that was sent,
\* however many requests the client sent ahead (Session::serve).
THEOREM ServerOwesOne == SSpec => []AtMostOneUnsent
  <1>1. ServerInv => AtMostOneUnsent
    BY DEF ServerInv, ServerTypes, AtMostOneUnsent
  <1> QED
    BY <1>1, ServerInvariant, PTL

=============================================================================
