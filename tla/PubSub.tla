------------------------------- MODULE PubSub -------------------------------
(***************************************************************************)
(* ZMQPubSubHandler, src/core/messaging/ZMQPubSubHandler.cpp, with the     *)
(* connection manager it is built on.  Its constructor asks the manager    *)
(* for two health records and makes two connections, while other clients   *)
(* of the manager make theirs.  Then some threads publish, others start    *)
(* and stop the receive loop, subscribe and install a message handler, and *)
(* the loop has a thread of its own, until the destructor stops it.        *)
(* Between publishing and receiving is ZeroMQ, modelled from its use: a    *)
(* message of a subscribed topic is delivered whole, when its last frame   *)
(* was sent, in order, or is lost.                                         *)
(*                                                                         *)
(* start and stop are split where another thread can come between: after   *)
(* the exchange on running_, and while stop joins.  A counter is changed   *)
(* in the step that it counts, as nothing in the program reads it.         *)
(***************************************************************************)
EXTENDS ConnectionManager, Sequences, FiniteSets, SequencesExt

CONSTANTS
  Publishers,    \* the threads that call publish
  Controllers,   \* the threads that call start, stop
  Handlers,      \* the message handlers they install
  Pub, Sub,      \* pubName, subName
  Topics,        \* the argument of the constructor
  TopicOf,       \* the topic of each message
  MaxMessages, MaxStarts, MaxErrors   \* bounds of the model

ASSUME PubSubAssumption ==
  /\ IsFiniteSet(Publishers)
  /\ {Pub, Sub} \subseteq Names /\ Pub # Sub
  /\ None \notin Handlers \cup ConnectionHealth
  /\ \A n \in {MaxMessages, MaxStarts, MaxErrors} : n \in Nat
  /\ DOMAIN TopicOf = 1..MaxMessages

VARIABLES
  stage,         \* where the handler is in its life
  subscribed,    \* the topics subSocket_ is subscribed to
  sending,       \* the number of the message each publisher is in, or 0
  published,     \* the messages begun, which numbers them
  refused,       \* history: the publishes of which not even a topic was sent
  multipart,     \* frames sent and not yet ended by a last one
  socket,        \* frames subSocket_ can receive
  running,       \* running_
  thread,        \* listenThread_ owns a thread
  loop,          \* where listenLoop is; "off" before and after it
  frames,        \* its locals t and p, as far as they are received
  call,          \* where each controller is in start or stop
  handler,       \* messageHandler_
  starts, errors,
  terminated,    \* std::terminate was called
  delivered,     \* history: the pairs <<topic, payload>> the loop handled
  torn,          \* history: a publish overlapped another or failed half-way
  overlapped,    \* history: a start or stop began inside another
  known,         \* history: the names of connections made by other clients
  replaced,      \* bound: one of them replaced a record in use
  forgotten      \* history: what such records had counted of the traffic

netVars == <<sending, published, refused, multipart, socket, torn>>
loopVars == <<loop, frames, delivered>>
ctlVars == <<running, thread, call, starts, overlapped, terminated>>
clientVars == <<known, replaced, forgotten>>
lifeVars == <<stage, subscribed, handler, clientVars>>
vars == <<managerVars, lifeVars, netVars, loopVars, ctlVars, errors>>

Frame == [msg : 1..MaxMessages, part : {"topic", "payload"}]
Topic(m) == [msg |-> m, part |-> "topic"]
Payload(m) == [msg |-> m, part |-> "payload"]

TypeOK ==
  /\ ManagerTypeOK
  /\ stage \in {"none", "failed", "publisher", "subscriber", "monitor", "live",
                "joining", "members", "dead", "gone"}
  /\ subscribed \subseteq Range(TopicOf) \cup Topics
  /\ sending \in [Publishers -> 0..MaxMessages]
  /\ published \in 0..MaxMessages /\ refused \in Nat
  /\ multipart \in Seq(Frame) /\ socket \in Seq(Frame)
  /\ {running, thread, terminated, torn, overlapped, replaced} \subseteq BOOLEAN
  /\ loop \in {"off", "test", "receive", "dispatch", "handle"}
  /\ frames \in Seq(Frame) /\ Len(frames) <= 2
  /\ call \in [Controllers -> {"idle", "starting", "stopping", "joining"}]
  /\ handler \in Handlers \cup {None}
  /\ starts \in 0..MaxStarts /\ errors \in 0..MaxErrors
  /\ delivered \in Seq(Frame \X Frame)
  /\ known \subseteq Names /\ forgotten \in [Names -> Nat]

Init ==
  /\ ManagerInit
  /\ stage = "none" /\ subscribed = {} /\ handler = None
  /\ sending = [p \in Publishers |-> 0] /\ published = 0 /\ refused = 0
  /\ multipart = <<>> /\ socket = <<>>
  /\ running = FALSE /\ thread = FALSE /\ terminated = FALSE
  /\ loop = "off" /\ frames = <<>> /\ delivered = <<>>
  /\ call = [c \in Controllers |-> "idle"]
  /\ starts = 0 /\ errors = 0
  /\ torn = FALSE /\ overlapped = FALSE /\ known = {} /\ replaced = FALSE
  /\ forgotten = [n \in Names |-> 0]

-----------------------------------------------------------------------------
(* The constructor *)

useVars == <<netVars, loopVars, ctlVars>>

Unbuilt == stage \in {"none", "failed"}

\* pubHealth_ and subHealth_ are bound.
LookUp ==
  /\ Unbuilt /\ {Pub, Sub} \subseteq ConnectionNames
  /\ stage' = "publisher"
  /\ UNCHANGED <<managerVars, subscribed, handler, clientVars, useVars, errors>>

\* For an unknown name at() throws, and the constructor has changed nothing.
LookUpThrows ==
  /\ Unbuilt /\ ~({Pub, Sub} \subseteq ConnectionNames)
  /\ stage' = "failed"
  /\ UNCHANGED <<managerVars, subscribed, handler, clientVars, useVars, errors>>

CreatePublisher ==
  /\ stage = "publisher"
  /\ CreateConnection(Pub)
  /\ stage' = "subscriber"
  /\ UNCHANGED <<subscribed, handler, clientVars, useVars, errors>>

CreateSubscriber ==
  /\ stage = "subscriber"
  /\ CreateConnection(Sub)
  /\ stage' = "monitor" /\ subscribed' = Topics
  /\ UNCHANGED <<handler, clientVars, useVars, errors>>

StartMonitoring ==
  /\ stage = "monitor"
  /\ StartHealthMonitoring
  /\ stage' = "live"
  /\ UNCHANGED <<subscribed, handler, clientVars, useVars, errors>>

\* Any of the three throws: there is no handler, and what was registered stays.
ConstructorThrows ==
  /\ stage \in {"publisher", "subscriber", "monitor"} /\ errors < MaxErrors
  /\ errors' = errors + 1
  /\ stage' = "failed"
  /\ IF stage = "monitor" THEN StartHealthMonitoringFails ELSE UNCHANGED managerVars
  /\ UNCHANGED <<subscribed, handler, clientVars, useVars>>

\* What a record says of the traffic of its connection.
Counted(name) ==
  IF health[name] = None THEN 0
  ELSE IF name = Pub THEN health[name].sent + health[name].errors ELSE health[name].received

\* Another client of the manager makes a connection, of a name not known yet or,
\* once in the model, of one that the handler uses too.
OtherClientCreates(name) ==
  /\ \/ name \notin known
     \/ ~replaced /\ ~Unbuilt /\ stage \notin {"dead", "gone"}
  /\ CreateConnection(name)
  /\ known' = known \cup {name}
  /\ replaced' = (replaced \/ name \in known)
  /\ forgotten' = [forgotten EXCEPT ![name] = @ + Counted(name)]
  /\ UNCHANGED <<stage, subscribed, handler, useVars, errors>>

-----------------------------------------------------------------------------
(* publish: two sends on one socket, under no lock *)

\* Mutant of SendTopic: what is going to be sent is counted as sent.
CountThenSend(p) ==
  /\ stage = "live" /\ sending[p] = 0 /\ published < MaxMessages
  /\ published' = published + 1
  /\ sending' = [sending EXCEPT ![p] = published + 1]
  /\ multipart' = Append(multipart, Topic(published + 1))
  /\ torn' = (torn \/ \E q \in Publishers : sending[q] # 0)
  /\ Count(Pub, "sent")
  /\ UNCHANGED <<lifeVars, refused, socket, loopVars, ctlVars, errors>>

SendTopic(p) ==
  /\ stage = "live" /\ sending[p] = 0 /\ published < MaxMessages
  /\ published' = published + 1
  /\ sending' = [sending EXCEPT ![p] = published + 1]
  /\ multipart' = Append(multipart, Topic(published + 1))
  /\ torn' = (torn \/ \E q \in Publishers : sending[q] # 0)
  /\ UNCHANGED <<managerVars, lifeVars, refused, socket, loopVars, ctlVars, errors>>

\* The first send throws and publish returns false: nothing was sent.
FailTopic(p) ==
  /\ stage = "live" /\ sending[p] = 0 /\ errors < MaxErrors
  /\ errors' = errors + 1
  /\ refused' = refused + 1
  /\ Count(Pub, "errors")
  /\ UNCHANGED <<lifeVars, sending, published, multipart, socket, torn, loopVars,
                 ctlVars>>

\* The last frame.  ZeroMQ delivers what it ends, if its first frame is of a
\* subscribed topic, or loses it, having no subscriber connected.
SendPayload(p) ==
  /\ sending[p] # 0
  /\ sending' = [sending EXCEPT ![p] = 0]
  /\ multipart' = <<>>
  /\ LET message == Append(multipart, Payload(sending[p])) IN
     \/ /\ TopicOf[message[1].msg] \in subscribed
        /\ socket' = socket \o message
     \/ UNCHANGED socket
  /\ Count(Pub, "sent")
  /\ UNCHANGED <<lifeVars, published, refused, torn, loopVars, ctlVars, errors>>

\* The second send throws and publish returns false: its topic frame stays,
\* the beginning of whatever is published next.
FailPayload(p) ==
  /\ sending[p] # 0 /\ errors < MaxErrors
  /\ errors' = errors + 1
  /\ sending' = [sending EXCEPT ![p] = 0]
  /\ torn' = TRUE
  /\ Count(Pub, "errors")
  /\ UNCHANGED <<lifeVars, published, refused, multipart, socket, loopVars, ctlVars>>

-----------------------------------------------------------------------------
(* subscribe, setMessageHandler *)

Subscribe(topic) ==
  /\ stage = "live" /\ topic \notin subscribed
  /\ subscribed' = subscribed \cup {topic}
  /\ UNCHANGED <<managerVars, stage, handler, clientVars, useVars, errors>>

SubscribeFails ==
  /\ stage = "live" /\ errors < MaxErrors
  /\ errors' = errors + 1
  /\ Count(Sub, "errors")
  /\ UNCHANGED <<lifeVars, useVars>>

\* setMessageHandler, from any thread: it waits for handlerMutex_.
SetMessageHandler(h) ==
  /\ stage = "live" /\ loop # "handle" /\ handler # h
  /\ handler' = h
  /\ UNCHANGED <<managerVars, stage, subscribed, clientVars, useVars, errors>>

-----------------------------------------------------------------------------
(* start, stop *)

Overlap == overlapped \/ \E c \in Controllers : call[c] # "idle"

\* start finds running_ false; otherwise it returns and changes nothing.
Start(c) ==
  /\ stage = "live" /\ call[c] = "idle" /\ ~running /\ starts < MaxStarts
  /\ running' = TRUE
  /\ starts' = starts + 1
  /\ call' = [call EXCEPT ![c] = "starting"]
  /\ overlapped' = Overlap
  /\ UNCHANGED <<managerVars, lifeVars, thread, terminated, netVars, loopVars, errors>>

\* listenThread_ = std::thread(...): to assign over a thread that was not joined
\* is std::terminate.
LaunchThread(c) ==
  /\ call[c] = "starting"
  /\ call' = [call EXCEPT ![c] = "idle"]
  /\ thread' = TRUE
  /\ terminated' = thread
  /\ loop' = IF thread THEN loop ELSE "test"
  /\ UNCHANGED <<managerVars, lifeVars, running, starts, overlapped, netVars,
                 frames, delivered, errors>>

\* The std::thread constructor throws, before the assignment: start fails with
\* running_ left true, so that only a stop makes another start possible.
LaunchFails(c) ==
  /\ call[c] = "starting" /\ errors < MaxErrors
  /\ errors' = errors + 1
  /\ call' = [call EXCEPT ![c] = "idle"]
  /\ UNCHANGED <<managerVars, lifeVars, running, thread, starts, overlapped,
                 terminated, netVars, loopVars>>

\* stop finds running_ true.
Stop(c) ==
  /\ stage = "live" /\ call[c] = "idle" /\ running
  /\ running' = FALSE
  /\ call' = [call EXCEPT ![c] = "stopping"]
  /\ overlapped' = Overlap
  /\ UNCHANGED <<managerVars, lifeVars, thread, starts, terminated, netVars,
                 loopVars, errors>>

\* Mutant of Joinable: stop does not join.
NeverJoin(c) ==
  /\ call[c] = "stopping"
  /\ call' = [call EXCEPT ![c] = "idle"]
  /\ UNCHANGED <<managerVars, lifeVars, running, thread, starts, overlapped,
                 terminated, netVars, loopVars, errors>>

Joinable(c) ==
  /\ call[c] = "stopping"
  /\ call' = [call EXCEPT ![c] = IF thread THEN "joining" ELSE "idle"]
  /\ UNCHANGED <<managerVars, lifeVars, running, thread, starts, overlapped,
                 terminated, netVars, loopVars, errors>>

\* Mutant of Join: the thread is waited for and not released.
WaitOnly(c) ==
  /\ call[c] = "joining" /\ loop = "off"
  /\ call' = [call EXCEPT ![c] = "idle"]
  /\ UNCHANGED <<managerVars, lifeVars, running, thread, starts, overlapped,
                 terminated, netVars, loopVars, errors>>

\* Mutant of Join: stop waits until the socket is drained.
JoinWhenDrained(c) ==
  /\ call[c] = "joining" /\ loop = "off" /\ socket = <<>>
  /\ call' = [call EXCEPT ![c] = "idle"]
  /\ thread' = FALSE
  /\ UNCHANGED <<managerVars, lifeVars, running, starts, overlapped, terminated,
                 netVars, loopVars, errors>>

Join(c) ==
  /\ call[c] = "joining" /\ loop = "off"
  /\ call' = [call EXCEPT ![c] = "idle"]
  /\ thread' = FALSE
  /\ UNCHANGED <<managerVars, lifeVars, running, starts, overlapped, terminated,
                 netVars, loopVars, errors>>

-----------------------------------------------------------------------------
(* listenLoop *)

TestRunning ==
  /\ loop = "test"
  /\ loop' = IF running THEN "receive" ELSE "off"
  /\ UNCHANGED <<managerVars, lifeVars, frames, delivered, netVars, ctlVars, errors>>

\* recv(t), then recv(p), each of which blocks until there is a frame.
Receive ==
  /\ loop = "receive" /\ socket # <<>>
  /\ frames' = Append(frames, Head(socket))
  /\ socket' = Tail(socket)
  /\ IF frames = <<>> THEN UNCHANGED <<loop, managerVars>>
                      ELSE loop' = "dispatch" /\ Count(Sub, "received")
  /\ UNCHANGED <<lifeVars, sending, published, refused, multipart, torn, delivered,
                 ctlVars, errors>>

\* A blocked recv throws, interrupted; the loop catches it and goes round.
ReceiveFails ==
  /\ loop = "receive" /\ socket = <<>> /\ errors < MaxErrors
  /\ errors' = errors + 1
  /\ Count(Sub, "errors")
  /\ frames' = <<>>
  /\ loop' = "test"
  /\ UNCHANGED <<lifeVars, delivered, netVars, ctlVars>>

\* Mutant of Dispatch: t and p are not fresh in every turn.
DispatchAndKeepFrames ==
  /\ loop = "dispatch"
  /\ delivered' = Append(delivered, <<frames[1], frames[2]>>)
  /\ loop' = IF handler = None THEN "test" ELSE "handle"
  /\ UNCHANGED <<managerVars, lifeVars, frames, netVars, ctlVars, errors>>

\* handlerMutex_ is taken and the handler called; with none installed the pair
\* is printed.
Dispatch ==
  /\ loop = "dispatch"
  /\ delivered' = Append(delivered, <<frames[1], frames[2]>>)
  /\ frames' = <<>>
  /\ loop' = IF handler = None THEN "test" ELSE "handle"
  /\ UNCHANGED <<managerVars, lifeVars, netVars, ctlVars, errors>>

HandlerReturns ==
  /\ loop = "handle"
  /\ loop' = "test"
  /\ UNCHANGED <<managerVars, lifeVars, frames, delivered, netVars, ctlVars, errors>>

-----------------------------------------------------------------------------
(* The destructor, called when no other thread uses the handler *)

\* It calls stop.
BeginDestroy ==
  /\ stage = "live"
  /\ \A p \in Publishers : sending[p] = 0
  /\ \A c \in Controllers : call[c] = "idle"
  /\ stage' = IF running /\ thread THEN "joining" ELSE "members"
  /\ running' = FALSE
  /\ UNCHANGED <<managerVars, subscribed, handler, clientVars, netVars,
                 loopVars, thread, call, starts, overlapped, terminated, errors>>

JoinListener ==
  /\ stage = "joining" /\ loop = "off"
  /\ stage' = "members" /\ thread' = FALSE
  /\ UNCHANGED <<managerVars, subscribed, handler, clientVars, netVars,
                 loopVars, running, call, starts, overlapped, terminated, errors>>

\* A std::thread that was not joined terminates the program when destroyed.
DestroyMembers ==
  /\ stage = "members"
  /\ stage' = "dead" /\ terminated' = thread
  /\ UNCHANGED <<managerVars, subscribed, handler, clientVars, netVars,
                 loopVars, running, thread, call, starts, overlapped, errors>>

\* The last reference to the manager goes.
ReleaseManager ==
  /\ stage = "dead"
  /\ DestroyManager
  /\ stage' = "gone"
  /\ UNCHANGED <<subscribed, handler, clientVars, useVars, errors>>

-----------------------------------------------------------------------------
ListenerStep == TestRunning \/ Receive \/ Dispatch \/ HandlerReturns
ControllerStep(c) == LaunchThread(c) \/ Joinable(c) \/ Join(c)
OwnerStep == JoinListener \/ DestroyMembers

\* A terminated program takes no step.
Next ==
  \/ ~terminated /\ LookUp
  \/ ~terminated /\ LookUpThrows
  \/ ~terminated /\ CreatePublisher
  \/ ~terminated /\ CreateSubscriber
  \/ ~terminated /\ StartMonitoring
  \/ ~terminated /\ ConstructorThrows
  \/ \E n \in Names : ~terminated /\ OtherClientCreates(n)
  \/ \E p \in Publishers : ~terminated /\ SendTopic(p)
  \/ \E p \in Publishers : ~terminated /\ FailTopic(p)
  \/ \E p \in Publishers : ~terminated /\ SendPayload(p)
  \/ \E p \in Publishers : ~terminated /\ FailPayload(p)
  \/ \E t \in Range(TopicOf) : ~terminated /\ Subscribe(t)
  \/ ~terminated /\ SubscribeFails
  \/ \E h \in Handlers : ~terminated /\ SetMessageHandler(h)
  \/ \E c \in Controllers : ~terminated /\ Start(c)
  \/ \E c \in Controllers : ~terminated /\ LaunchFails(c)
  \/ \E c \in Controllers : ~terminated /\ Stop(c)
  \/ \E c \in Controllers : ~terminated /\ ControllerStep(c)
  \/ ~terminated /\ ListenerStep
  \/ ~terminated /\ ReceiveFails
  \/ ~terminated /\ BeginDestroy
  \/ ~terminated /\ OwnerStep
  \/ ~terminated /\ ReleaseManager

Spec == Init /\ [][Next]_vars

\* Runnable threads are scheduled and handlers return.  Nothing obliges anyone
\* to publish, the network to deliver, or a recv to be interrupted.
FairSpec ==
  /\ Spec
  /\ WF_vars(~terminated /\ ListenerStep)
  /\ WF_vars(~terminated /\ OwnerStep)
  /\ \A c \in Controllers : WF_vars(~terminated /\ ControllerStep(c))

-----------------------------------------------------------------------------
(* Refinement *)

\* What the loop has of its current message, and what it can still receive.
Wire == frames \o socket

\* The messages of those frames, and of those the loop handled: 0 is a topic with
\* the payload of another message.
InTransit == [i \in 1..(Len(Wire) \div 2) |-> Wire[2 * i - 1].msg]
Handled == [i \in DOMAIN delivered |->
              LET m == delivered[i][1].msg IN
              IF delivered[i] = <<Topic(m), Payload(m)>> THEN m ELSE 0]

Sending == \E p \in Publishers : sending[p] # 0

\* The implementation seen as the abstract stream.
Stream == INSTANCE MessageStream WITH
            open <- Sending, transit <- InTransit, delivered <- Handled

\* Every step of publishers, network and receive loop is a step of the abstract
\* stream or leaves it unchanged: as long as publishes neither overlap nor fail
\* half-way, handlers get whole messages, each at most once and none before it
\* is complete, in the order of publication.
RefinesStream == Stream!StreamSpec

-----------------------------------------------------------------------------
(* Properties *)

\* Handlers get the topic and the payload of one message, and messages in the
\* order of publication, unless a publish overlapped another on the same
\* socket or failed between its two frames: frames get out of step in no
\* other way.
WholeMessagesInOrder ==
  \/ torn
  \/ /\ \A i \in DOMAIN delivered :
          LET m == delivered[i][1].msg IN delivered[i] = <<Topic(m), Payload(m)>>
     /\ \A i, j \in DOMAIN delivered :
          i < j => delivered[i][1].msg < delivered[j][1].msg

\* The health records tell what the handler did, each publish that ended, also
\* by failing, being counted once and each message handled as received.  Another
\* client that makes a connection of the same name sets the record in use back
\* to nothing: that loses what was counted until then, and no more.
CountsMatchTraffic ==
  stage \in {"live", "joining", "members", "dead"} =>
    /\ health[Pub].sent + health[Pub].errors + forgotten[Pub]
         = published + refused - Cardinality({p \in Publishers : sending[p] # 0})
    /\ health[Sub].received + forgotten[Sub]
         = Len(delivered) + IF loop = "dispatch" THEN 1 ELSE 0

\* ZMQPubSubHandler.hpp:29, "Creates one PUB socket and one SUB socket, wires up
\* health monitoring": a constructor that throws has met an error of ZeroMQ or of
\* the system.
ConstructionFailsOnlyOnError == stage = "failed" => errors > 0

\* What the code does instead: the constructor makes both connections, and yet
\* needs them.  It gets past its look-ups only if other clients have registered
\* both names before, however often the construction is tried.
ConstructionNeedsKnownNames == ~Unbuilt => {Pub, Sub} \subseteq known

\* If no call of start or stop begins inside another, stop leaves no thread,
\* no loop and no running handler behind.
StoppedMeansQuiet ==
  ~overlapped /\ ~running /\ stage # "joining"
      /\ (\A c \in Controllers : call[c] = "idle")
    => ~thread /\ loop = "off"

\* And the handler can be started and stopped again and again and destroyed:
\* only an overlap makes start assign over a thread that was not joined, or
\* lets the destructor meet one.
TerminatesOnlyAfterOverlap == terminated => overlapped

Blocked == loop = "receive" /\ socket = <<>>

\* stop and the destructor join a thread that looks at running_ between
\* messages only: they return unless the loop is blocked in recv on an empty
\* socket.  (It is not woken, so ZMQPubSubHandler.hpp:78, "Stop the receive
\* loop and join its thread", waits for the next message.)
StopWaitsOnlyForMessages ==
  /\ \A c \in Controllers :
       call[c] = "joining" ~> call[c] # "joining" \/ terminated \/ Blocked
  /\ stage = "joining" ~> stage # "joining" \/ Blocked
=============================================================================
