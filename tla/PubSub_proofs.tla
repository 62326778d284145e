---------------------------- MODULE PubSub_proofs ----------------------------
(***************************************************************************)
(* Theorems about PubSub, for every set of publishers, controllers,        *)
(* connection names and topics, and every bound.                           *)
(*                                                                         *)
(* The invariant is proved in layers, each from those before it: what the  *)
(* life of the handler allows (LifeInv), the start and stop of the receive *)
(* loop (ControlInv), the frames under way (StreamInv), the counters       *)
(* (CountInv).                                                             *)
(***************************************************************************)
EXTENDS PubSub, FiniteSetTheorems, SequenceTheorems, TLAPS

Early == {"none", "failed", "publisher", "subscriber", "monitor"}

\* The manager knows the names that were registered, and has a record for each
\* of the two the handler uses, from its look-up to the end of the manager.
HealthInv ==
  /\ ConnectionNames \subseteq known
  /\ stage \notin {"none", "failed"} => {Pub, Sub} \subseteq known
  /\ stage \notin {"none", "failed", "gone"} => {health[Pub], health[Sub]} \subseteq ConnectionHealth

\* Calls are made of a live handler only.  The loop has a thread, which outlives
\* the handler only if the program was terminated.
StageInv ==
  /\ \A p \in Publishers : sending[p] # 0 => stage = "live"
  /\ \A c \in Controllers : call[c] # "idle" => stage = "live"
  /\ loop # "off" => thread
  /\ thread => stage \in {"live", "joining", "members"} \/ terminated
  /\ stage # "live" => ~running
  /\ stage \in Early => ~thread /\ published = 0 /\ delivered = <<>>

\* t and p are fresh in every turn of the loop.
FramesInv ==
  /\ loop \in {"off", "test", "handle"} => frames = <<>>
  /\ loop = "receive" => Len(frames) <= 1
  /\ loop = "dispatch" => Len(frames) = 2

LifeInv == TypeOK /\ HealthInv /\ StageInv /\ FramesInv

\* Without an overlap there is one call at a time.  start finds no thread, and
\* stop leaves none.
ControlInv ==
  ~overlapped =>
    /\ ~terminated
    /\ \A c, d \in Controllers : call[c] # "idle" /\ call[d] # "idle" => c = d
    /\ \A c \in Controllers : call[c] = "starting" => running /\ ~thread
    /\ ~running /\ stage # "joining" /\ (\A c \in Controllers : call[c] = "idle")
         => ~thread

\* Messages of two frames, numbered in ascending order.
Whole(w) ==
  /\ \A i \in DOMAIN w : w[i].part = "topic" =>
       i + 1 \in DOMAIN w /\ w[i + 1] = Payload(w[i].msg)
  /\ \A i \in DOMAIN w : w[i].part = "payload" =>
       i - 1 \in DOMAIN w /\ w[i - 1] = Topic(w[i].msg)
  /\ \A i, j \in DOMAIN w : i < j /\ w[j].part = "topic" => w[i].msg < w[j].msg

\* A message is complete: its payload is sent.
Ended(m) == m <= published /\ \A p \in Publishers : sending[p] # 0 => m < published

\* One publish at a time has sent a topic frame and owes its payload.  Delivered
\* messages precede those on the wire, and both are complete.
SendInv ==
  /\ \A p, q \in Publishers : sending[p] # 0 /\ sending[q] # 0 => p = q
  /\ \A p \in Publishers : sending[p] # 0 =>
       sending[p] = published /\ multipart = <<Topic(published)>>
  /\ (\A p \in Publishers : sending[p] = 0) => multipart = <<>>

WireInv ==
  /\ Whole(Wire)
  /\ \A i \in DOMAIN Wire : Ended(Wire[i].msg)

DeliveredInv ==
  /\ \A i \in DOMAIN delivered :
       /\ delivered[i] = <<Topic(delivered[i][1].msg), Payload(delivered[i][1].msg)>>
       /\ Ended(delivered[i][1].msg)
       /\ \A j \in DOMAIN Wire : delivered[i][1].msg < Wire[j].msg
  /\ \A i, j \in DOMAIN delivered : i < j => delivered[i][1].msg < delivered[j][1].msg

StreamInv == torn \/ (SendInv /\ WireInv /\ DeliveredInv)

\* As long as there is no handler the records are empty, and from then on true.
CountInv ==
  /\ stage \in Early =>
       /\ refused = 0
       /\ \A n \in Names :
            /\ forgotten[n] = 0
            /\ health[n] # None =>
                 health[n].sent = 0 /\ health[n].errors = 0 /\ health[n].received = 0
  /\ CountsMatchTraffic

-----------------------------------------------------------------------------
(* Sequences and records *)

LEMMA EmptyFacts ==
  /\ \A S : <<>> \in Seq(S)
  /\ Len(<<>>) = 0 /\ DOMAIN <<>> = {}
BY EmptySeq

\* What appending does to length and elements.
LEMMA AppendFacts ==
  ASSUME NEW S, NEW s \in Seq(S), NEW e \in S
  PROVE  /\ Append(s, e) \in Seq(S)
         /\ Len(s) \in Nat /\ DOMAIN s = 1..Len(s)
         /\ Len(Append(s, e)) = Len(s) + 1
         /\ DOMAIN Append(s, e) = 1..(Len(s) + 1)
         /\ \A i \in 1..Len(s) : Append(s, e)[i] = s[i]
         /\ Append(s, e)[Len(s) + 1] = e
BY AppendProperties, LenProperties

LEMMA ShortSequences ==
  ASSUME NEW x, NEW y
  PROVE  Append(<<>>, x) = <<x>> /\ Append(<<x>>, y) = <<x, y>>
<1> DEFINE S == {x, y}
<1>1. /\ x \in S /\ y \in S
      /\ <<>> \in Seq(S) /\ <<x>> \in Seq(S) /\ <<x, y>> \in Seq(S)
      /\ Len(<<>>) = 0 /\ Len(<<x>>) = 1 /\ Len(<<x, y>>) = 2
  OBVIOUS
<1> HIDE DEF S
<1>2. /\ Append(<<>>, x) \in Seq(S) /\ Len(Append(<<>>, x)) = 1
      /\ Append(<<>>, x)[1] = x
  BY <1>1, AppendFacts
<1>3. /\ Append(<<x>>, y) \in Seq(S) /\ Len(Append(<<x>>, y)) = 2
      /\ Append(<<x>>, y)[1] = x /\ Append(<<x>>, y)[2] = y
  <2>1. /\ Append(<<x>>, y) \in Seq(S) /\ Len(Append(<<x>>, y)) = 1 + 1
        /\ \A i \in 1..1 : Append(<<x>>, y)[i] = <<x>>[i]
        /\ Append(<<x>>, y)[1 + 1] = y
    BY <1>1, AppendFacts
  <2> QED
    BY <2>1
<1>4. Append(<<>>, x) = <<x>>
  <2>1. \A i \in 1..Len(<<x>>) : <<x>>[i] = Append(<<>>, x)[i]
    BY <1>1, <1>2
  <2> QED
    BY <1>1, <1>2, <2>1, SeqEqual
<1>5. Append(<<x>>, y) = <<x, y>>
  <2>1. \A i \in 1..Len(<<x, y>>) : <<x, y>>[i] = Append(<<x>>, y)[i]
    BY <1>1, <1>3
  <2> QED
    BY <1>1, <1>3, <2>1, SeqEqual
<1> QED
  BY <1>4, <1>5

LEMMA TwoFrames ==
  ASSUME NEW S, NEW s \in Seq(S), Len(s) = 2
  PROVE  s[1] \in S /\ s[2] \in S
<1>1. 1 \in 1..Len(s) /\ 2 \in 1..Len(s)
  OBVIOUS
<1> QED
  BY <1>1, ElementOfSeq

\* A new connection has an empty record; no other record changes.
LEMMA CreateFacts ==
  ASSUME TypeOK, NEW n \in Names, CreateConnection(n)
  PROVE  /\ ManagerTypeOK' /\ ConnectionNames' \subseteq ConnectionNames \cup {n}
         /\ health'[n] \in ConnectionHealth
         /\ health'[n].sent = 0 /\ health'[n].errors = 0 /\ health'[n].received = 0
         /\ \A m \in Names \ {n} : health'[m] = health[m]
<1> USE DEF TypeOK, ManagerTypeOK, CreateConnection
<1>1. [c \in Counters |-> 0] \in ConnectionHealth
  BY DEF ConnectionHealth
<1>2. ManagerTypeOK' /\ \A m \in Names \ {n} : health'[m] = health[m]
  BY <1>1
<1>3. health'[n] = [c \in Counters |-> 0]
  OBVIOUS
<1>4. ConnectionNames' \subseteq ConnectionNames \cup {n}
  BY <1>2 DEF ConnectionNames
<1> QED
  BY <1>1, <1>2, <1>3, <1>4 DEF Counters

\* A count of a record is one more; nothing else changes.
LEMMA CountFacts ==
  ASSUME TypeOK, NEW n \in Names, NEW k \in Counters, health[n] \in ConnectionHealth,
         Count(n, k)
  PROVE  /\ ManagerTypeOK' /\ ConnectionNames' \subseteq ConnectionNames \cup {n}
         /\ health'[n] \in ConnectionHealth
         /\ health'[n][k] = health[n][k] + 1
         /\ \A j \in Counters \ {k} : health'[n][j] = health[n][j]
         /\ \A m \in Names \ {n} : health'[m] = health[m]
<1> DEFINE r == [health[n] EXCEPT ![k] = @ + 1]
<1> USE DEF TypeOK, ManagerTypeOK
<1>1. /\ r \in ConnectionHealth /\ r[k] = health[n][k] + 1
      /\ \A j \in Counters \ {k} : r[j] = health[n][j]
  BY DEF ConnectionHealth
<1>2. health' = [health EXCEPT ![n] = r] /\ UNCHANGED <<monitorRunning, monitorThread>>
  BY DEF Count
<1> HIDE DEF r
<1>3. ManagerTypeOK' /\ health'[n] = r /\ \A m \in Names \ {n} : health'[m] = health[m]
  BY <1>1, <1>2
<1>4. ConnectionNames' \subseteq ConnectionNames \cup {n}
  BY <1>3 DEF ConnectionNames
<1> QED
  BY <1>1, <1>3, <1>4

-----------------------------------------------------------------------------
(* What the life of the handler allows *)

LEMMA LifeInit == Init => LifeInv
<1> SUFFICES ASSUME Init PROVE LifeInv
  OBVIOUS
<1> USE DEF Init, ManagerInit
<1>1. MaxMessages \in Nat /\ MaxStarts \in Nat /\ MaxErrors \in Nat
  BY PubSubAssumption
<1>2. multipart \in Seq(Frame) /\ socket \in Seq(Frame) /\ frames \in Seq(Frame)
      /\ Len(frames) = 0 /\ delivered \in Seq(Frame \X Frame)
  BY EmptyFacts
<1>3. ManagerTypeOK
  BY DEF ManagerTypeOK
<1>4. TypeOK
  <2>1. /\ sending \in [Publishers -> 0..MaxMessages] /\ published \in 0..MaxMessages
        /\ starts \in 0..MaxStarts /\ errors \in 0..MaxErrors
    BY <1>1
  <2>2. call \in [Controllers -> {"idle", "starting", "stopping", "joining"}]
    OBVIOUS
  <2>3. /\ stage \in {"none", "failed", "publisher", "subscriber", "monitor", "live",
                     "joining", "members", "dead", "gone"}
        /\ refused \in Nat /\ forgotten \in [Names -> Nat]
        /\ {running, thread, terminated, torn, overlapped, replaced} \subseteq BOOLEAN
        /\ loop \in {"off", "test", "receive", "dispatch", "handle"}
        /\ subscribed \subseteq Range(TopicOf) \cup Topics
        /\ handler \in Handlers \cup {None} /\ known \subseteq Names
    OBVIOUS
  <2> HIDE DEF Init
  <2> QED
    BY <1>2, <1>3, <2>1, <2>2, <2>3 DEF TypeOK
<1>5. HealthInv
  BY DEF HealthInv, ConnectionNames
<1>6. StageInv /\ FramesInv
  BY <1>2 DEF StageInv, FramesInv
<1> QED
  BY <1>4, <1>5, <1>6 DEF LifeInv

LEMMA ConstructionLife ==
  ASSUME LifeInv, ~terminated,
         \/ LookUp \/ LookUpThrows \/ CreatePublisher \/ CreateSubscriber
         \/ StartMonitoring \/ ConstructorThrows
  PROVE  LifeInv'
<1> USE DEF LifeInv, TypeOK, useVars, clientVars, netVars, loopVars, ctlVars, managerVars
<1>0. Pub \in Names /\ Sub \in Names /\ Pub # Sub /\ MaxErrors \in Nat
  BY PubSubAssumption
<1>1. CASE LookUp
  <2> USE <1>1 DEF LookUp, Unbuilt
  <2>1. TypeOK'
    BY DEF ManagerTypeOK
  <2>2. HealthInv'
    BY <1>0 DEF HealthInv, ConnectionNames, ManagerTypeOK
  <2> QED
    BY <2>1, <2>2 DEF StageInv, FramesInv, Early
<1>6. CASE LookUpThrows
  <2> USE <1>6 DEF LookUpThrows, Unbuilt
  <2>1. TypeOK'
    BY DEF ManagerTypeOK
  <2>2. HealthInv'
    BY <1>0 DEF HealthInv, ConnectionNames, ManagerTypeOK
  <2> QED
    BY <2>1, <2>2 DEF StageInv, FramesInv, Early
<1>2. CASE CreatePublisher
  <2> USE <1>2 DEF CreatePublisher
  <2>1. /\ ManagerTypeOK' /\ ConnectionNames' \subseteq ConnectionNames \cup {Pub}
        /\ health'[Pub] \in ConnectionHealth
        /\ \A m \in Names \ {Pub} : health'[m] = health[m]
    BY <1>0, CreateFacts
  <2>2. HealthInv'
    BY <1>0, <2>1 DEF HealthInv
  <2> QED
    BY <2>1, <2>2 DEF StageInv, FramesInv, Early
<1>3. CASE CreateSubscriber
  <2> USE <1>3 DEF CreateSubscriber
  <2>1. /\ ManagerTypeOK' /\ ConnectionNames' \subseteq ConnectionNames \cup {Sub}
        /\ health'[Sub] \in ConnectionHealth
        /\ \A m \in Names \ {Sub} : health'[m] = health[m]
    BY <1>0, CreateFacts
  <2>2. HealthInv'
    BY <1>0, <2>1 DEF HealthInv
  <2> QED
    BY <2>1, <2>2 DEF StageInv, FramesInv, Early
<1>4. CASE StartMonitoring
  <2> USE <1>4 DEF StartMonitoring, StartHealthMonitoring
  <2>1. TypeOK'
    BY DEF ManagerTypeOK
  <2>2. HealthInv'
    BY DEF HealthInv, ConnectionNames
  <2> QED
    BY <2>1, <2>2 DEF StageInv, FramesInv, Early
<1>5. CASE ConstructorThrows
  <2> USE <1>5 DEF ConstructorThrows, StartHealthMonitoringFails
  <2>0. ManagerTypeOK' /\ UNCHANGED health
    BY DEF ManagerTypeOK
  <2>1. TypeOK'
    BY <1>0, <2>0
  <2>2. HealthInv'
    BY <2>0 DEF HealthInv, ConnectionNames
  <2> QED
    BY <2>1, <2>2 DEF StageInv, FramesInv, Early
<1> QED
  BY <1>1, <1>2, <1>3, <1>4, <1>5, <1>6

\* A record has counted a number of things.
LEMMA CountedFacts ==
  ASSUME TypeOK, NEW n \in Names
  PROVE  Counted(n) \in Nat
BY DEF TypeOK, ManagerTypeOK, ConnectionHealth, Counters, Counted

LEMMA OtherClientLife ==
  ASSUME LifeInv, NEW n \in Names, OtherClientCreates(n)
  PROVE  LifeInv'
<1> USE DEF LifeInv, TypeOK, OtherClientCreates, useVars, clientVars, netVars, loopVars, ctlVars
<1>1. /\ ManagerTypeOK' /\ ConnectionNames' \subseteq ConnectionNames \cup {n}
      /\ health'[n] \in ConnectionHealth
      /\ \A m \in Names \ {n} : health'[m] = health[m]
  BY CreateFacts
<1>2. HealthInv'
  BY <1>1, PubSubAssumption DEF HealthInv
<1>3. forgotten' \in [Names -> Nat]
  <2>1. Counted(n) \in Nat
    BY CountedFacts
  <2> QED
    BY <2>1
<1> QED
  BY <1>1, <1>2, <1>3 DEF StageInv, FramesInv, Unbuilt

LEMMA PublishLife ==
  ASSUME LifeInv, NEW p \in Publishers,
         SendTopic(p) \/ FailTopic(p) \/ SendPayload(p) \/ FailPayload(p)
  PROVE  LifeInv'
<1> USE DEF LifeInv, TypeOK, lifeVars, clientVars, loopVars, ctlVars, managerVars
<1>0. Pub \in Names /\ Sub \in Names /\ MaxErrors \in Nat /\ MaxMessages \in Nat
  BY PubSubAssumption
<1>1. CASE SendTopic(p)
  <2> USE <1>1 DEF SendTopic
  <2>1. published + 1 \in 1..MaxMessages
    BY <1>0
  <2>2. multipart' \in Seq(Frame)
    BY <2>1, AppendProperties DEF Topic, Frame
  <2>3. TypeOK'
    BY <1>0, <2>1, <2>2 DEF ManagerTypeOK
  <2>4. HealthInv'
    BY DEF HealthInv, ConnectionNames
  <2> QED
    BY <2>3, <2>4 DEF StageInv, FramesInv, Early
<1>2. CASE SendPayload(p)
  <2> USE <1>2 DEF SendPayload
  <2>1. stage = "live" /\ sending[p] \in 1..MaxMessages
    BY <1>0 DEF StageInv
  <2>2. Append(multipart, Payload(sending[p])) \in Seq(Frame)
    BY <2>1, AppendProperties DEF Payload, Frame
  <2>3. socket' \in Seq(Frame) /\ multipart' \in Seq(Frame)
    <3> DEFINE message == Append(multipart, Payload(sending[p]))
    <3>1. socket' = socket \o message \/ socket' = socket
      OBVIOUS
    <3> HIDE DEF message
    <3>2. message \in Seq(Frame) /\ socket \in Seq(Frame) /\ multipart' = <<>>
      BY <2>2 DEF message
    <3>3. socket \o message \in Seq(Frame)
      BY <3>2, ConcatProperties
    <3> QED
      BY <3>1, <3>2, <3>3, EmptyFacts
  <2>4. "sent" \in Counters /\ health[Pub] \in ConnectionHealth
    BY <2>1 DEF Counters, HealthInv
  <2>5. /\ ManagerTypeOK' /\ ConnectionNames' \subseteq ConnectionNames \cup {Pub}
        /\ health'[Pub] \in ConnectionHealth
        /\ \A m \in Names \ {Pub} : health'[m] = health[m]
    BY <1>0, <2>4, CountFacts
  <2>6. HealthInv'
    BY <1>0, <2>1, <2>5 DEF HealthInv
  <2>7. TypeOK'
    BY <1>0, <2>3, <2>5
  <2> QED
    BY <2>6, <2>7 DEF StageInv, FramesInv
<1>3. CASE FailPayload(p)
  <2> USE <1>3 DEF FailPayload
  <2>1. stage = "live"
    BY DEF StageInv
  <2>2. "errors" \in Counters /\ health[Pub] \in ConnectionHealth
    BY <2>1 DEF Counters, HealthInv
  <2>3. /\ ManagerTypeOK' /\ ConnectionNames' \subseteq ConnectionNames \cup {Pub}
        /\ health'[Pub] \in ConnectionHealth
        /\ \A m \in Names \ {Pub} : health'[m] = health[m]
    BY <1>0, <2>2, CountFacts
  <2>4. HealthInv'
    BY <1>0, <2>1, <2>3 DEF HealthInv
  <2>5. TypeOK'
    BY <1>0, <2>3
  <2> QED
    BY <2>4, <2>5 DEF StageInv, FramesInv
<1>4. CASE FailTopic(p)
  <2> USE <1>4 DEF FailTopic
  <2>1. "errors" \in Counters /\ health[Pub] \in ConnectionHealth
    BY DEF Counters, HealthInv
  <2>2. /\ ManagerTypeOK' /\ ConnectionNames' \subseteq ConnectionNames \cup {Pub}
        /\ health'[Pub] \in ConnectionHealth
        /\ \A m \in Names \ {Pub} : health'[m] = health[m]
    BY <1>0, <2>1, CountFacts
  <2>3. HealthInv'
    BY <1>0, <2>2 DEF HealthInv
  <2>4. TypeOK'
    BY <1>0, <2>2
  <2> QED
    BY <2>3, <2>4 DEF StageInv, FramesInv
<1> QED
  BY <1>1, <1>2, <1>3, <1>4

LEMMA SettingsLife ==
  ASSUME LifeInv,
         \/ \E t \in Range(TopicOf) : Subscribe(t)
         \/ SubscribeFails
         \/ \E h \in Handlers : SetMessageHandler(h)
  PROVE  LifeInv'
<1> USE DEF LifeInv, TypeOK, lifeVars, clientVars, useVars, netVars, loopVars, ctlVars, managerVars
<1>0. Sub \in Names /\ Pub \in Names /\ MaxErrors \in Nat
  BY PubSubAssumption
<1>1. ASSUME NEW t \in Range(TopicOf), Subscribe(t) PROVE LifeInv'
  <2> USE <1>1 DEF Subscribe
  <2>1. TypeOK'
    BY DEF ManagerTypeOK
  <2> QED
    BY <2>1 DEF HealthInv, ConnectionNames, StageInv, FramesInv
<1>2. CASE SubscribeFails
  <2> USE <1>2 DEF SubscribeFails
  <2>1. "errors" \in Counters /\ health[Sub] \in ConnectionHealth
    BY DEF Counters, HealthInv
  <2>2. /\ ManagerTypeOK' /\ ConnectionNames' \subseteq ConnectionNames \cup {Sub}
        /\ health'[Sub] \in ConnectionHealth
        /\ \A m \in Names \ {Sub} : health'[m] = health[m]
    BY <1>0, <2>1, CountFacts
  <2>3. HealthInv'
    BY <1>0, <2>2 DEF HealthInv
  <2>4. TypeOK'
    BY <1>0, <2>2
  <2> QED
    BY <2>3, <2>4 DEF StageInv, FramesInv
<1>3. ASSUME NEW h \in Handlers, SetMessageHandler(h) PROVE LifeInv'
  <2> USE <1>3 DEF SetMessageHandler
  <2>1. TypeOK'
    BY DEF ManagerTypeOK
  <2> QED
    BY <2>1 DEF HealthInv, ConnectionNames, StageInv, FramesInv
<1> QED
  BY <1>1, <1>2, <1>3

LEMMA ControllerLife ==
  ASSUME LifeInv, ~terminated, NEW c \in Controllers,
         Start(c) \/ LaunchFails(c) \/ Stop(c) \/ ControllerStep(c)
  PROVE  LifeInv'
<1> USE DEF LifeInv, managerVars, lifeVars, clientVars, netVars, loopVars
<1>0. MaxErrors \in Nat /\ MaxStarts \in Nat
  BY PubSubAssumption
<1>1. UNCHANGED <<health, stage, known>> => HealthInv'
  BY DEF HealthInv, ConnectionNames
<1>2. CASE Start(c)
  <2> USE <1>2 DEF Start
  <2>1. TypeOK'
    BY <1>0 DEF TypeOK, ManagerTypeOK, Overlap
  <2> QED
    BY <1>1, <2>1 DEF TypeOK, StageInv, FramesInv, Early
<1>3. CASE LaunchThread(c)
  <2> USE <1>3 DEF LaunchThread
  <2>1. stage = "live"
    BY DEF StageInv
  <2>2. TypeOK'
    BY DEF TypeOK, ManagerTypeOK
  <2>3. StageInv'
    BY <2>1 DEF StageInv, Early, TypeOK
  <2>4. FramesInv'
    BY DEF FramesInv, StageInv, TypeOK
  <2> QED
    BY <1>1, <2>2, <2>3, <2>4
<1>4. CASE LaunchFails(c)
  <2> USE <1>4 DEF LaunchFails
  <2>1. TypeOK'
    BY <1>0 DEF TypeOK, ManagerTypeOK
  <2> QED
    BY <1>1, <2>1 DEF TypeOK, StageInv, FramesInv
<1>5. CASE Stop(c)
  <2> USE <1>5 DEF Stop
  <2>1. TypeOK'
    BY DEF TypeOK, ManagerTypeOK, Overlap
  <2> QED
    BY <1>1, <2>1 DEF TypeOK, StageInv, FramesInv, Early
<1>6. CASE Joinable(c)
  <2> USE <1>6 DEF Joinable
  <2>1. TypeOK'
    BY DEF TypeOK, ManagerTypeOK
  <2> QED
    BY <1>1, <2>1 DEF TypeOK, StageInv, FramesInv
<1>7. CASE Join(c)
  <2> USE <1>7 DEF Join
  <2>1. TypeOK'
    BY DEF TypeOK, ManagerTypeOK
  <2> QED
    BY <1>1, <2>1 DEF TypeOK, StageInv, FramesInv
<1> QED
  BY <1>2, <1>3, <1>4, <1>5, <1>6, <1>7 DEF ControllerStep

\* While the loop is at work, the handler and its records exist.
LEMMA LoopAlive ==
  ASSUME LifeInv, ~terminated, loop # "off"
  PROVE  /\ stage \in {"live", "joining", "members"}
         /\ health[Sub] \in ConnectionHealth
BY DEF LifeInv, StageInv, HealthInv

LEMMA ListenerLife ==
  ASSUME LifeInv, ~terminated, ListenerStep \/ ReceiveFails
  PROVE  LifeInv'
<1> USE DEF LifeInv, managerVars, lifeVars, clientVars, netVars, ctlVars
<1>0. Sub \in Names /\ Pub \in Names /\ MaxErrors \in Nat
      /\ "received" \in Counters /\ "errors" \in Counters
  BY PubSubAssumption DEF Counters
<1>1. UNCHANGED <<health, stage, known>> => HealthInv'
  BY DEF HealthInv, ConnectionNames
<1>2. CASE TestRunning
  <2> USE <1>2 DEF TestRunning
  <2>1. TypeOK'
    BY DEF TypeOK, ManagerTypeOK
  <2>2. FramesInv'
    BY EmptyFacts DEF FramesInv, TypeOK
  <2> QED
    BY <1>1, <2>1, <2>2 DEF StageInv
<1>3. CASE Receive
  <2> USE <1>3 DEF Receive
  <2>1. /\ stage \in {"live", "joining", "members"}
        /\ health[Sub] \in ConnectionHealth
    BY LoopAlive
  <2>2. socket \in Seq(Frame) /\ frames \in Seq(Frame)
    BY DEF TypeOK
  <2>3. Head(socket) \in Frame /\ socket' \in Seq(Frame)
    BY <2>2, HeadTailProperties
  <2>4. /\ frames' \in Seq(Frame) /\ Len(frames') = Len(frames) + 1
        /\ Len(frames) \in Nat
    BY <2>2, <2>3, AppendFacts
  <2>5. Len(frames) <= 1 /\ (frames = <<>> <=> Len(frames) = 0)
    BY <2>2, EmptySeq DEF FramesInv
  <2>6. CASE frames = <<>>
    <3>1. TypeOK'
      BY <2>3, <2>4, <2>5, <2>6 DEF TypeOK, ManagerTypeOK
    <3>2. FramesInv'
      BY <2>4, <2>5, <2>6 DEF FramesInv
    <3> QED
      BY <1>1, <2>6, <3>1, <3>2 DEF StageInv
  <2>7. CASE frames # <<>>
    <3>1. /\ ManagerTypeOK' /\ ConnectionNames' \subseteq ConnectionNames \cup {Sub}
          /\ health'[Sub] \in ConnectionHealth
          /\ \A m \in Names \ {Sub} : health'[m] = health[m]
      BY <1>0, <2>1, <2>7, CountFacts
    <3>2. HealthInv'
      BY <1>0, <2>1, <3>1 DEF HealthInv
    <3>3. TypeOK'
      BY <2>3, <2>4, <2>5, <2>7, <3>1 DEF TypeOK
    <3>4. FramesInv'
      BY <2>4, <2>5, <2>7 DEF FramesInv
    <3> QED
      BY <2>1, <2>7, <3>2, <3>3, <3>4 DEF StageInv, Early
  <2> QED
    BY <2>6, <2>7
<1>4. CASE ReceiveFails
  <2> USE <1>4 DEF ReceiveFails
  <2>1. /\ stage \in {"live", "joining", "members"}
        /\ health[Sub] \in ConnectionHealth
    BY LoopAlive
  <2>2. /\ ManagerTypeOK' /\ ConnectionNames' \subseteq ConnectionNames \cup {Sub}
        /\ health'[Sub] \in ConnectionHealth
        /\ \A m \in Names \ {Sub} : health'[m] = health[m]
    BY <1>0, <2>1, CountFacts
  <2>3. HealthInv'
    BY <1>0, <2>1, <2>2 DEF HealthInv
  <2>4. TypeOK'
    BY <1>0, <2>2, EmptyFacts DEF TypeOK
  <2> QED
    BY <2>1, <2>3, <2>4 DEF StageInv, FramesInv, Early
<1>5. CASE Dispatch
  <2> USE <1>5 DEF Dispatch
  <2>1. stage \in {"live", "joining", "members"}
    BY LoopAlive
  <2>2. frames[1] \in Frame /\ frames[2] \in Frame
    <3>1. frames \in Seq(Frame)
      BY DEF TypeOK
    <3>2. Len(frames) = 2
      BY DEF FramesInv
    <3> QED
      BY <3>1, <3>2, TwoFrames
  <2>3. delivered' \in Seq(Frame \X Frame)
    BY <2>2, AppendProperties DEF TypeOK
  <2>4. TypeOK'
    BY <2>3, EmptyFacts DEF TypeOK, ManagerTypeOK
  <2> QED
    BY <1>1, <2>1, <2>4 DEF StageInv, FramesInv, Early
<1>6. CASE HandlerReturns
  <2> USE <1>6 DEF HandlerReturns
  <2>1. TypeOK'
    BY DEF TypeOK, ManagerTypeOK
  <2> QED
    BY <1>1, <2>1 DEF StageInv, FramesInv
<1> QED
  BY <1>2, <1>3, <1>4, <1>5, <1>6 DEF ListenerStep

LEMMA DestructionLife ==
  ASSUME LifeInv, ~terminated, BeginDestroy \/ OwnerStep \/ ReleaseManager
  PROVE  LifeInv'
<1> USE DEF LifeInv, TypeOK, managerVars, netVars, loopVars, ctlVars, useVars, clientVars
<1>1. CASE BeginDestroy
  BY <1>1 DEF BeginDestroy, ManagerTypeOK, HealthInv, ConnectionNames, StageInv,
     FramesInv, Early
<1>2. CASE JoinListener
  BY <1>2 DEF JoinListener, ManagerTypeOK, HealthInv, ConnectionNames, StageInv,
     FramesInv, Early
<1>3. CASE DestroyMembers
  BY <1>3 DEF DestroyMembers, ManagerTypeOK, HealthInv, ConnectionNames, StageInv,
     FramesInv, Early
<1>4. CASE ReleaseManager
  BY <1>4 DEF ReleaseManager, DestroyManager, ManagerTypeOK, HealthInv, ConnectionNames,
     StageInv, FramesInv, Early
<1> QED
  BY <1>1, <1>2, <1>3, <1>4 DEF OwnerStep

LEMMA LifeStutter ==
  ASSUME LifeInv, UNCHANGED vars
  PROVE  LifeInv'
BY DEF LifeInv, TypeOK, ManagerTypeOK, HealthInv, ConnectionNames, StageInv, FramesInv,
   vars, managerVars, lifeVars, clientVars, netVars, loopVars, ctlVars

LEMMA LifeInvariance == Spec => []LifeInv
<1>1. Init => LifeInv
  BY LifeInit
<1>2. LifeInv /\ [Next]_vars => LifeInv'
  BY ConstructionLife, OtherClientLife, PublishLife, SettingsLife, ControllerLife,
     ListenerLife, DestructionLife, LifeStutter, Zenon DEF Next
<1> QED
  BY <1>1, <1>2, PTL DEF Spec

-----------------------------------------------------------------------------
(* Starting and stopping the receive loop *)

\* No other action changes what start, stop and the destructor rely on.
LEMMA ControlKept ==
  ASSUME ControlInv, UNCHANGED <<running, thread, call, overlapped, terminated>>,
         stage = "joining" => stage' = "joining"
  PROVE  ControlInv'
BY DEF ControlInv

LEMMA ConstructionControl ==
  ASSUME LifeInv, ControlInv,
         \/ LookUp \/ LookUpThrows \/ CreatePublisher \/ CreateSubscriber
         \/ StartMonitoring \/ ConstructorThrows
         \/ \E n \in Names : OtherClientCreates(n)
  PROVE  ControlInv'
BY ControlKept DEF LookUp, LookUpThrows, Unbuilt, CreatePublisher, CreateSubscriber, StartMonitoring,
   ConstructorThrows, OtherClientCreates, useVars, clientVars, ctlVars

LEMMA TrafficControl ==
  ASSUME ControlInv,
         \/ \E p \in Publishers : SendTopic(p) \/ FailTopic(p) \/ SendPayload(p) \/ FailPayload(p)
         \/ \E t \in Range(TopicOf) : Subscribe(t)
         \/ SubscribeFails
         \/ \E h \in Handlers : SetMessageHandler(h)
         \/ ListenerStep \/ ReceiveFails
  PROVE  ControlInv'
<1> USE DEF useVars, ctlVars, lifeVars, clientVars
<1>1. ASSUME NEW p \in Publishers, SendTopic(p) \/ FailTopic(p) \/ SendPayload(p) \/ FailPayload(p)
      PROVE  ControlInv'
  BY <1>1, ControlKept DEF SendTopic, FailTopic, SendPayload, FailPayload
<1>2. ASSUME NEW t \in Range(TopicOf), Subscribe(t) PROVE ControlInv'
  BY <1>2, ControlKept DEF Subscribe
<1>3. CASE SubscribeFails
  BY <1>3, ControlKept DEF SubscribeFails
<1>4. ASSUME NEW h \in Handlers, SetMessageHandler(h) PROVE ControlInv'
  BY <1>4, ControlKept DEF SetMessageHandler
<1>5. CASE ListenerStep
  BY <1>5, ControlKept DEF ListenerStep, TestRunning, Receive, Dispatch, HandlerReturns
<1>6. CASE ReceiveFails
  BY <1>6, ControlKept DEF ReceiveFails
<1> QED
  BY <1>1, <1>2, <1>3, <1>4, <1>5, <1>6

LEMMA ControllerControl ==
  ASSUME LifeInv, ControlInv, ~terminated, NEW c \in Controllers,
         Start(c) \/ LaunchFails(c) \/ Stop(c) \/ ControllerStep(c)
  PROVE  ControlInv'
<1> USE DEF ControlInv, lifeVars, clientVars
<1>0. /\ call \in [Controllers -> {"idle", "starting", "stopping", "joining"}]
      /\ {running, thread, overlapped, terminated} \subseteq BOOLEAN
      /\ call[c] # "idle" => stage = "live"
  BY DEF LifeInv, TypeOK, StageInv
<1>1. CASE Start(c)
  BY <1>0, <1>1 DEF Start, Overlap
<1>2. CASE LaunchFails(c)
  BY <1>0, <1>2 DEF LaunchFails
<1>3. CASE Stop(c)
  BY <1>0, <1>3 DEF Stop, Overlap
<1>4. CASE LaunchThread(c)
  BY <1>0, <1>4 DEF LaunchThread
<1>5. CASE Joinable(c)
  <2> USE <1>5 DEF Joinable
  <2>1. ~overlapped /\ (\A d \in Controllers : call'[d] = "idle") => ~thread
    BY <1>0
  <2> QED
    BY <1>0, <2>1
<1>6. CASE Join(c)
  BY <1>0, <1>6 DEF Join
<1> QED
  BY <1>1, <1>2, <1>3, <1>4, <1>5, <1>6 DEF ControllerStep

LEMMA DestructionControl ==
  ASSUME LifeInv, ControlInv, BeginDestroy \/ OwnerStep \/ ReleaseManager
  PROVE  ControlInv'
<1>0. \A c \in Controllers : call[c] # "idle" => stage = "live"
  BY DEF LifeInv, StageInv
<1>1. CASE BeginDestroy
  BY <1>1 DEF ControlInv, BeginDestroy
<1>2. CASE JoinListener
  BY <1>2 DEF ControlInv, JoinListener
<1>3. CASE DestroyMembers
  <2>1. ~overlapped => ~thread
    BY <1>0, <1>3 DEF DestroyMembers, ControlInv, LifeInv, StageInv
  <2> QED
    BY <1>3, <2>1 DEF ControlInv, DestroyMembers
<1>4. CASE ReleaseManager
  BY <1>4, ControlKept DEF ReleaseManager, useVars, clientVars, ctlVars
<1> QED
  BY <1>1, <1>2, <1>3, <1>4 DEF OwnerStep

LEMMA ControlInvariance == Spec => []ControlInv
<1>1. Init => ControlInv
  BY DEF Init, ControlInv
<1>2. LifeInv /\ ControlInv /\ [Next]_vars => ControlInv'
  <2> SUFFICES ASSUME LifeInv, ControlInv, [Next]_vars PROVE ControlInv'
    OBVIOUS
  <2>1. CASE UNCHANGED vars
    BY <2>1, ControlKept DEF vars, ctlVars, lifeVars, clientVars
  <2> QED
    BY <2>1, ConstructionControl, TrafficControl, ControllerControl, DestructionControl,
       Zenon DEF Next
<1> QED
  BY <1>1, <1>2, LifeInvariance, PTL DEF Spec

-----------------------------------------------------------------------------
(* The frames under way *)

\* A complete message at the end of what is whole leaves it whole.
LEMMA WholeExtended ==
  ASSUME NEW w \in Seq(Frame), Whole(w), NEW m \in 1..MaxMessages, NEW v \in Seq(Frame),
         \A i \in DOMAIN w : w[i].msg < m,
         DOMAIN v = 1..(Len(w) + 2),
         \A i \in DOMAIN w : v[i] = w[i],
         v[Len(w) + 1] = Topic(m), v[Len(w) + 2] = Payload(m)
  PROVE  Whole(v)
<1> DEFINE n == Len(w)
<1>1. n \in Nat /\ DOMAIN w = 1..n
  BY LenProperties
<1>2. \A i \in DOMAIN w : w[i].msg \in Int
  <2>1. \A i \in DOMAIN w : w[i] \in Frame
    BY LenProperties
  <2> QED
    BY <2>1 DEF Frame
<1>3. /\ v[n + 1].msg = m /\ v[n + 1].part = "topic"
      /\ v[n + 2].msg = m /\ v[n + 2].part = "payload"
  BY DEF Topic, Payload
<1> HIDE DEF n
<1>4. \A i \in DOMAIN v : i \in DOMAIN w \/ i = n + 1 \/ i = n + 2
  BY <1>1 DEF n
<1>5. \A i \in DOMAIN v : v[i].part = "topic" =>
        i + 1 \in DOMAIN v /\ v[i + 1] = Payload(v[i].msg)
  <2> SUFFICES ASSUME NEW i \in DOMAIN v, v[i].part = "topic"
               PROVE  i + 1 \in DOMAIN v /\ v[i + 1] = Payload(v[i].msg)
    OBVIOUS
  <2>1. CASE i \in DOMAIN w
    <3>1. i + 1 \in DOMAIN w /\ w[i + 1] = Payload(w[i].msg)
      BY <2>1 DEF Whole
    <3> QED
      BY <1>1, <2>1, <3>1 DEF n
  <2>2. CASE i = n + 1
    BY <1>1, <1>3, <2>2 DEF n
  <2> QED
    BY <1>3, <1>4, <2>1, <2>2
<1>6. \A i \in DOMAIN v : v[i].part = "payload" =>
        i - 1 \in DOMAIN v /\ v[i - 1] = Topic(v[i].msg)
  <2> SUFFICES ASSUME NEW i \in DOMAIN v, v[i].part = "payload"
               PROVE  i - 1 \in DOMAIN v /\ v[i - 1] = Topic(v[i].msg)
    OBVIOUS
  <2>1. CASE i \in DOMAIN w
    <3>1. i - 1 \in DOMAIN w /\ w[i - 1] = Topic(w[i].msg)
      BY <2>1 DEF Whole
    <3> QED
      BY <1>1, <2>1, <3>1 DEF n
  <2>2. CASE i = n + 2
    BY <1>1, <1>3, <2>2 DEF n
  <2> QED
    BY <1>3, <1>4, <2>1, <2>2
<1>7. \A i, j \in DOMAIN v : i < j /\ v[j].part = "topic" => v[i].msg < v[j].msg
  <2> SUFFICES ASSUME NEW i \in DOMAIN v, NEW j \in DOMAIN v, i < j, v[j].part = "topic"
               PROVE  v[i].msg < v[j].msg
    OBVIOUS
  <2>1. CASE j \in DOMAIN w
    <3>1. i \in DOMAIN w
      BY <1>1, <2>1 DEF n
    <3> QED
      BY <2>1, <3>1 DEF Whole
  <2>2. CASE j = n + 1
    <3>1. i \in DOMAIN w
      BY <1>1, <2>2 DEF n
    <3> QED
      BY <1>3, <2>2, <3>1
  <2> QED
    BY <1>3, <1>4, <2>1, <2>2
<1> QED
  BY <1>5, <1>6, <1>7 DEF Whole

\* What is whole begins with a message, and is whole without it.
LEMMA WholeDropped ==
  ASSUME NEW w \in Seq(Frame), Whole(w), Len(w) >= 2, NEW v,
         DOMAIN v = 1..(Len(w) - 2), \A i \in DOMAIN v : v[i] = w[i + 2]
  PROVE  /\ w[1] = Topic(w[1].msg) /\ w[2] = Payload(w[1].msg)
         /\ Whole(v)
         /\ \A i \in DOMAIN v : w[1].msg < v[i].msg
<1>1. Len(w) \in Nat /\ DOMAIN w = 1..Len(w)
  BY LenProperties
<1>2. \A i \in DOMAIN w : w[i] \in Frame
  BY <1>1, ElementOfSeq
<1>3. 1 \in DOMAIN w /\ 2 \in DOMAIN w /\ 0 \notin DOMAIN w
  BY <1>1
<1>4. \A i \in DOMAIN w : w[i].msg \in Int /\ w[i].part \in {"topic", "payload"}
  BY <1>2 DEF Frame
<1>5. w[1].part = "topic"
  BY <1>3, <1>4 DEF Whole
<1>6. w[1] = Topic(w[1].msg) /\ w[2] = Payload(w[1].msg)
  BY <1>2, <1>3, <1>5 DEF Whole, Frame, Topic
<1>7. w[2].part = "payload" /\ w[2].msg = w[1].msg
  BY <1>6 DEF Payload
<1>8. \A i \in DOMAIN v : i + 2 \in DOMAIN w /\ v[i] = w[i + 2]
  BY <1>1
<1>9. \A i \in DOMAIN v : v[i].part = "topic" =>
        i + 1 \in DOMAIN v /\ v[i + 1] = Payload(v[i].msg)
  <2> SUFFICES ASSUME NEW i \in DOMAIN v, v[i].part = "topic"
               PROVE  i + 1 \in DOMAIN v /\ v[i + 1] = Payload(v[i].msg)
    OBVIOUS
  <2>1. (i + 2) + 1 \in DOMAIN w /\ w[(i + 2) + 1] = Payload(w[i + 2].msg)
    BY <1>8 DEF Whole
  <2>2. i + 1 \in DOMAIN v /\ (i + 1) + 2 = (i + 2) + 1
    BY <1>1, <2>1
  <2> QED
    BY <1>8, <2>1, <2>2
<1>10. \A i \in DOMAIN v : v[i].part = "payload" =>
        i - 1 \in DOMAIN v /\ v[i - 1] = Topic(v[i].msg)
  <2> SUFFICES ASSUME NEW i \in DOMAIN v, v[i].part = "payload"
               PROVE  i - 1 \in DOMAIN v /\ v[i - 1] = Topic(v[i].msg)
    OBVIOUS
  <2>1. (i + 2) - 1 \in DOMAIN w /\ w[(i + 2) - 1] = Topic(w[i + 2].msg)
    BY <1>8 DEF Whole
  <2>2. w[(i + 2) - 1].part = "topic"
    BY <2>1 DEF Topic
  <2>3. i # 1
    BY <1>7, <2>2
  <2>4. i - 1 \in DOMAIN v /\ (i - 1) + 2 = (i + 2) - 1
    BY <1>1, <2>1, <2>3
  <2> QED
    BY <1>8, <2>1, <2>4
<1>11. \A i, j \in DOMAIN v : i < j /\ v[j].part = "topic" => v[i].msg < v[j].msg
  <2> SUFFICES ASSUME NEW i \in DOMAIN v, NEW j \in DOMAIN v, i < j, v[j].part = "topic"
               PROVE  v[i].msg < v[j].msg
    OBVIOUS
  <2>1. i + 2 \in DOMAIN w /\ j + 2 \in DOMAIN w /\ i + 2 < j + 2
    BY <1>1, <1>8
  <2> QED
    BY <1>8, <2>1 DEF Whole
<1>12. Whole(v)
  BY <1>9, <1>10, <1>11 DEF Whole
<1>13. \A i \in DOMAIN v : w[1].msg < v[i].msg
  <2> SUFFICES ASSUME NEW i \in DOMAIN v PROVE w[1].msg < v[i].msg
    OBVIOUS
  <2>1. \A j \in DOMAIN v : v[j].part = "topic" => w[1].msg < v[j].msg
    <3> SUFFICES ASSUME NEW j \in DOMAIN v, v[j].part = "topic" PROVE w[1].msg < v[j].msg
      OBVIOUS
    <3>1. j + 2 \in DOMAIN w /\ 1 < j + 2 /\ v[j] = w[j + 2]
      BY <1>1, <1>8
    <3> QED
      BY <1>3, <3>1 DEF Whole
  <2>2. CASE v[i].part = "payload"
    <3>1. i - 1 \in DOMAIN v /\ v[i - 1] = Topic(v[i].msg)
      BY <1>10, <2>2
    <3>2. v[i - 1].part = "topic" /\ v[i - 1].msg = v[i].msg
      BY <3>1 DEF Topic
    <3> QED
      BY <2>1, <3>1, <3>2
  <2>3. v[i].part \in {"topic", "payload"}
    BY <1>4, <1>8
  <2> QED
    BY <2>1, <2>2, <2>3
<1> QED
  BY <1>6, <1>12, <1>13

\* recv moves the first frame of the socket; the wire stays the same.
LEMMA MoveHead ==
  ASSUME NEW S, NEW f \in Seq(S), NEW s \in Seq(S), s # <<>>
  PROVE  Append(f, Head(s)) \o Tail(s) = f \o s
<1> DEFINE g == Append(f, Head(s))
           t == Tail(s)
<1>1. /\ Head(s) \in S /\ t \in Seq(S) /\ Len(t) = Len(s) - 1
      /\ \A i \in 1..Len(t) : t[i] = s[i + 1]
      /\ Head(s) = s[1]
  BY HeadTailProperties
<1>2. /\ g \in Seq(S) /\ Len(f) \in Nat /\ Len(g) = Len(f) + 1
      /\ \A i \in 1..Len(f) : g[i] = f[i]
      /\ g[Len(f) + 1] = s[1]
  BY <1>1, AppendFacts
<1>3. Len(s) \in Nat \ {0}
  BY EmptySeq
<1> HIDE DEF g, t
<1>4. /\ g \o t \in Seq(S) /\ Len(g \o t) = Len(g) + Len(t)
      /\ \A i \in 1..(Len(g) + Len(t)) :
            (g \o t)[i] = IF i <= Len(g) THEN g[i] ELSE t[i - Len(g)]
  BY <1>1, <1>2, ConcatProperties
<1>5. /\ f \o s \in Seq(S) /\ Len(f \o s) = Len(f) + Len(s)
      /\ \A i \in 1..(Len(f) + Len(s)) :
            (f \o s)[i] = IF i <= Len(f) THEN f[i] ELSE s[i - Len(f)]
  BY ConcatProperties
<1>6. Len(g \o t) = Len(f \o s) /\ Len(f \o s) = Len(f) + Len(s)
  BY <1>1, <1>2, <1>3, <1>4, <1>5
<1>7. ASSUME NEW i \in 1..(Len(f) + Len(s)) PROVE (g \o t)[i] = (f \o s)[i]
  <2>1. CASE i <= Len(f)
    BY <1>1, <1>2, <1>3, <1>4, <1>5, <2>1
  <2>2. CASE i = Len(f) + 1
    BY <1>1, <1>2, <1>3, <1>4, <1>5, <2>2
  <2>3. CASE i > Len(f) + 1
    <3>1. (g \o t)[i] = t[i - (Len(f) + 1)] /\ (f \o s)[i] = s[i - Len(f)]
      BY <1>1, <1>2, <1>3, <1>4, <1>5, <2>3
    <3>2. i - (Len(f) + 1) \in 1..Len(t) /\ (i - (Len(f) + 1)) + 1 = i - Len(f)
      BY <1>1, <1>2, <1>3, <2>3
    <3> QED
      BY <1>1, <3>1, <3>2
  <2>4. Len(f) \in Nat /\ i \in Int
    BY <1>2, <1>3
  <2>5. i <= Len(f) \/ i = Len(f) + 1 \/ i > Len(f) + 1
    BY <2>4
  <2> QED
    BY <2>1, <2>2, <2>3, <2>5, Zenon
<1>8. g \o t = f \o s
  BY <1>4, <1>5, <1>6, <1>7, SeqEqual
<1> QED
  BY <1>8 DEF g, t

LEMMA WireFacts ==
  ASSUME TypeOK
  PROVE  /\ Wire \in Seq(Frame) /\ Len(Wire) = Len(frames) + Len(socket)
         /\ Len(frames) \in Nat /\ Len(socket) \in Nat
         /\ DOMAIN Wire = 1..(Len(frames) + Len(socket))
         /\ \A i \in DOMAIN Wire :
               Wire[i] = IF i <= Len(frames) THEN frames[i] ELSE socket[i - Len(frames)]
         /\ \A i \in DOMAIN Wire : Wire[i].msg \in 1..MaxMessages
<1>1. frames \in Seq(Frame) /\ socket \in Seq(Frame)
  BY DEF TypeOK
<1>2. /\ Wire \in Seq(Frame) /\ Len(Wire) = Len(frames) + Len(socket)
      /\ \A i \in 1..(Len(frames) + Len(socket)) :
            Wire[i] = IF i <= Len(frames) THEN frames[i] ELSE socket[i - Len(frames)]
  BY <1>1, ConcatProperties DEF Wire
<1>3. /\ DOMAIN Wire = 1..(Len(frames) + Len(socket))
      /\ \A i \in DOMAIN Wire : Wire[i] \in Frame
  BY <1>2, LenProperties
<1>4. Len(frames) \in Nat /\ Len(socket) \in Nat
  BY <1>1, LenProperties
<1> QED
  BY <1>2, <1>3, <1>4 DEF Frame

LEMMA DeliveredFacts ==
  ASSUME TypeOK
  PROVE  /\ Len(delivered) \in Nat /\ DOMAIN delivered = 1..Len(delivered)
         /\ \A i \in DOMAIN delivered : delivered[i][1].msg \in 1..MaxMessages
<1>1. /\ Len(delivered) \in Nat /\ DOMAIN delivered = 1..Len(delivered)
      /\ \A i \in DOMAIN delivered : delivered[i] \in Frame \X Frame
  BY LenProperties DEF TypeOK
<1> QED
  BY <1>1 DEF Frame

\* Nothing else touches the frames, nor the publishers.
LEMMA StreamKept ==
  ASSUME StreamInv,
         UNCHANGED <<sending, published, multipart, socket, torn, frames, delivered>>
  PROVE  StreamInv'
BY DEF StreamInv, SendInv, WireInv, DeliveredInv, Wire, Ended

LEMMA SendTopicStream ==
  ASSUME LifeInv, StreamInv, NEW p \in Publishers, SendTopic(p)
  PROVE  StreamInv'
<1> USE DEF SendTopic, loopVars
<1> SUFFICES ASSUME ~torn' PROVE SendInv' /\ WireInv' /\ DeliveredInv'
  BY DEF StreamInv
<1>1. ~torn /\ \A q \in Publishers : sending[q] = 0
  OBVIOUS
<1>2. SendInv /\ WireInv /\ DeliveredInv
  BY <1>1 DEF StreamInv
<1>3. /\ published \in Nat /\ published' = published + 1
      /\ multipart = <<>> /\ multipart' = <<Topic(published')>>
  <2>1. published \in Nat /\ published' = published + 1 /\ multipart = <<>>
    BY <1>1, <1>2 DEF SendInv, LifeInv, TypeOK
  <2>2. multipart' = Append(<<>>, Topic(published'))
    BY <2>1
  <2> QED
    BY <2>1, <2>2, ShortSequences
<1>4. \A q \in Publishers : sending'[q] = IF q = p THEN published' ELSE 0
  BY <1>1, <1>3 DEF LifeInv, TypeOK
<1>5. SendInv'
  BY <1>3, <1>4 DEF SendInv
<1>6. \A m \in 1..MaxMessages : Ended(m) => Ended(m)'
  BY <1>3, PubSubAssumption DEF Ended
<1>7. Wire' = Wire
  BY DEF Wire
<1>8. WireInv'
  BY <1>2, <1>6, <1>7, WireFacts DEF WireInv, LifeInv
<1>9. DeliveredInv'
  BY <1>2, <1>6, <1>7, DeliveredFacts DEF DeliveredInv, LifeInv
<1> QED
  BY <1>5, <1>8, <1>9

\* A sequence followed by a pair.
LEMMA TwoAppended ==
  ASSUME NEW S, NEW s \in Seq(S), NEW t \in Seq(S), Len(t) = 2
  PROVE  /\ s \o t \in Seq(S) /\ Len(s \o t) = Len(s) + 2
         /\ \A i \in 1..(Len(s) + 2) :
               (s \o t)[i] = IF i <= Len(s) THEN s[i] ELSE t[i - Len(s)]
<1>1. /\ s \o t \in Seq(S) /\ Len(s \o t) = Len(s) + Len(t)
      /\ \A i \in 1..(Len(s) + Len(t)) :
            (s \o t)[i] = IF i <= Len(s) THEN s[i] ELSE t[i - Len(s)]
  BY ConcatProperties
<1> QED
  BY <1>1

LEMMA SendPayloadStream ==
  ASSUME LifeInv, StreamInv, NEW p \in Publishers, SendPayload(p)
  PROVE  StreamInv'
<1> USE DEF SendPayload, loopVars
<1> SUFFICES ASSUME ~torn PROVE SendInv' /\ WireInv' /\ DeliveredInv'
  BY DEF StreamInv
<1> DEFINE m == published
<1>1. SendInv /\ WireInv /\ DeliveredInv
  BY DEF StreamInv
<1>2. /\ sending[p] = m /\ multipart = <<Topic(m)>> /\ m \in 1..MaxMessages
      /\ \A q \in Publishers : q # p => sending[q] = 0
  BY <1>1 DEF SendInv, LifeInv, TypeOK
<1>3. (\A q \in Publishers : sending'[q] = 0) /\ multipart' = <<>> /\ published' = m
  BY <1>2 DEF LifeInv, TypeOK
<1>4. SendInv'
  BY <1>3 DEF SendInv
<1>5. \A k \in 1..MaxMessages : Ended(k) => k < m /\ Ended(k)'
  BY <1>2, <1>3 DEF Ended
<1>6. Ended(m)'
  BY <1>2, <1>3 DEF Ended
<1>7. \A i \in DOMAIN Wire : Wire[i].msg < m
  BY <1>1, <1>5, WireFacts DEF WireInv, LifeInv
<1>8. \A i \in DOMAIN delivered : delivered[i][1].msg < m /\ Ended(delivered[i][1].msg)'
  BY <1>1, <1>5, DeliveredFacts DEF DeliveredInv, LifeInv
<1>9. CASE socket' = socket
  <2>1. Wire' = Wire
    BY <1>9 DEF Wire
  <2>2. WireInv'
    BY <1>1, <1>5, <2>1, WireFacts DEF WireInv, LifeInv
  <2>3. DeliveredInv'
    BY <1>1, <1>8, <2>1 DEF DeliveredInv
  <2> QED
    BY <1>4, <2>2, <2>3
<1>10. CASE socket' = socket \o <<Topic(m), Payload(m)>>
  <2> DEFINE pair == <<Topic(m), Payload(m)>>
             n == Len(Wire)
  <2>1. pair \in Seq(Frame) /\ Len(pair) = 2 /\ pair[1] = Topic(m) /\ pair[2] = Payload(m)
    BY <1>2 DEF Topic, Payload, Frame
  <2>2. frames \in Seq(Frame) /\ socket \in Seq(Frame) /\ socket' = socket \o pair
    BY <1>10 DEF LifeInv, TypeOK
  <2> HIDE DEF pair
  <2>3. Wire' = Wire \o pair
    <3>1. Wire' = frames \o (socket \o pair)
      BY <2>2 DEF Wire
    <3>2. Wire \o pair = frames \o (socket \o pair)
      <4>1. (frames \o socket) \o pair = frames \o (socket \o pair)
        BY ONLY <2>1, <2>2, ConcatAssociative
      <4> QED
        BY <4>1 DEF Wire
    <3> QED
      BY <3>1, <3>2
  <2>4. Wire \in Seq(Frame) /\ n \in Nat /\ DOMAIN Wire = 1..n
    BY WireFacts, LenProperties DEF LifeInv
  <2>5. /\ Wire' \in Seq(Frame) /\ Len(Wire') = n + 2
        /\ \A i \in 1..(n + 2) : Wire'[i] = IF i <= n THEN Wire[i] ELSE pair[i - n]
    <3>1. /\ Wire \o pair \in Seq(Frame) /\ Len(Wire \o pair) = n + 2
          /\ \A i \in 1..(n + 2) :
                (Wire \o pair)[i] = IF i <= n THEN Wire[i] ELSE pair[i - n]
      BY <2>1, <2>4, TwoAppended
    <3> QED
      BY ONLY <2>3, <3>1
  <2>6. DOMAIN Wire' = 1..(n + 2)
    BY <2>5, LenProperties
  <2>7. /\ \A i \in DOMAIN Wire : Wire'[i] = Wire[i]
        /\ Wire'[n + 1] = Topic(m) /\ Wire'[n + 2] = Payload(m)
    <3>1. \A i \in DOMAIN Wire : i \in 1..(n + 2) /\ i <= n
      BY <2>4
    <3>2. /\ n + 1 \in 1..(n + 2) /\ ~(n + 1 <= n) /\ (n + 1) - n = 1
          /\ n + 2 \in 1..(n + 2) /\ ~(n + 2 <= n) /\ (n + 2) - n = 2
      BY <2>4
    <3> HIDE DEF n
    <3> QED
      BY ONLY <2>1, <2>5, <3>1, <3>2
  <2>8. Whole(Wire')
    BY <1>1, <1>2, <1>7, <2>4, <2>5, <2>6, <2>7, WholeExtended DEF WireInv
  <2> HIDE DEF n
  <2>9. \A i \in DOMAIN Wire' : i \in DOMAIN Wire \/ Wire'[i].msg = m
    BY <2>4, <2>6, <2>7 DEF Topic, Payload
  <2>10. WireInv'
    BY <1>1, <1>5, <1>6, <2>7, <2>8, <2>9, WireFacts DEF WireInv, LifeInv
  <2>11. DeliveredInv'
    BY <1>1, <1>8, <2>7, <2>9 DEF DeliveredInv
  <2> QED
    BY <1>4, <2>10, <2>11
<1>11. Append(<<Topic(m)>>, Payload(m)) = <<Topic(m), Payload(m)>>
  BY ShortSequences
<1> QED
  BY <1>2, <1>9, <1>10, <1>11

LEMMA ReceiveStream ==
  ASSUME LifeInv, StreamInv, Receive
  PROVE  StreamInv'
<1>1. Wire' = Wire
  BY MoveHead DEF Wire, Receive, LifeInv, TypeOK
<1> QED
  BY <1>1 DEF Receive, StreamInv, SendInv, WireInv, DeliveredInv, Ended

\* A frame that was received alone would be lost, but there is none.
LEMMA ReceiveFailsStream ==
  ASSUME LifeInv, StreamInv, ReceiveFails
  PROVE  StreamInv'
<1> USE DEF ReceiveFails, netVars
<1>1. Wire' = <<>> /\ DOMAIN Wire' = {}
  BY EmptyFacts, ConcatEmptySeq DEF Wire
<1> QED
  BY <1>1 DEF StreamInv, SendInv, WireInv, Whole, DeliveredInv, Ended

LEMMA DispatchStream ==
  ASSUME LifeInv, StreamInv, Dispatch
  PROVE  StreamInv'
<1> USE DEF Dispatch, netVars
<1> SUFFICES ASSUME ~torn PROVE SendInv' /\ WireInv' /\ DeliveredInv'
  BY DEF StreamInv
<1> DEFINE m == Wire[1].msg
           n == Len(delivered)
<1>1. SendInv /\ WireInv /\ DeliveredInv
  BY DEF StreamInv
<1>2. Len(frames) = 2 /\ frames \in Seq(Frame) /\ socket \in Seq(Frame)
  BY DEF LifeInv, TypeOK, FramesInv
<1>3. /\ Wire \in Seq(Frame) /\ Len(Wire) = 2 + Len(socket) /\ Len(socket) \in Nat
      /\ DOMAIN Wire = 1..(2 + Len(socket))
      /\ Wire[1] = frames[1] /\ Wire[2] = frames[2]
      /\ \A i \in 1..Len(socket) : socket[i] = Wire[i + 2]
  <2>1. /\ Wire \in Seq(Frame) /\ Len(Wire) = 2 + Len(socket) /\ Len(socket) \in Nat
        /\ DOMAIN Wire = 1..(2 + Len(socket))
        /\ \A i \in DOMAIN Wire : Wire[i] = IF i <= 2 THEN frames[i] ELSE socket[i - 2]
    BY <1>2, WireFacts DEF LifeInv
  <2>2. 1 \in DOMAIN Wire /\ 2 \in DOMAIN Wire
        /\ \A i \in 1..Len(socket) : i + 2 \in DOMAIN Wire /\ ~(i + 2 <= 2) /\ (i + 2) - 2 = i
    BY <2>1
  <2> QED
    BY <2>1, <2>2
<1>4. Wire' = socket /\ DOMAIN socket = 1..Len(socket)
  BY <1>2, ConcatEmptySeq, LenProperties DEF Wire
<1>5. /\ Wire[1] = Topic(m) /\ Wire[2] = Payload(m)
      /\ Whole(socket)
      /\ \A i \in DOMAIN socket : m < socket[i].msg
  <2>1. Len(Wire) >= 2 /\ DOMAIN socket = 1..(Len(Wire) - 2)
        /\ \A i \in DOMAIN socket : socket[i] = Wire[i + 2]
    BY <1>3, <1>4
  <2> QED
    BY <1>1, <1>3, <2>1, WholeDropped DEF WireInv
<1>6. m \in 1..MaxMessages /\ Ended(m)
  BY <1>1, <1>3, WireFacts DEF WireInv, LifeInv
<1>7. /\ UNCHANGED <<sending, published, multipart>>
      /\ \A k : Ended(k)' <=> Ended(k)
  BY DEF Ended
<1>8. SendInv'
  BY <1>1, <1>7 DEF SendInv
<1>9. WireInv'
  BY <1>1, <1>3, <1>4, <1>5, <1>7 DEF WireInv, Ended
<1>10. DeliveredInv'
  <2> DEFINE e == <<Topic(m), Payload(m)>>
  <2>1. e \in Frame \X Frame /\ e[1].msg = m
    BY <1>6 DEF Topic, Payload, Frame
  <2>2. delivered' = Append(delivered, e) /\ delivered \in Seq(Frame \X Frame)
    BY <1>3, <1>5 DEF LifeInv, TypeOK
  <2> HIDE DEF e
  <2>3. /\ n \in Nat /\ DOMAIN delivered = 1..n /\ DOMAIN delivered' = 1..(n + 1)
        /\ \A i \in 1..n : delivered'[i] = delivered[i]
        /\ delivered'[n + 1] = e
    BY <2>1, <2>2, AppendFacts
  <2> HIDE DEF m, n
  <2>4. \A i \in DOMAIN delivered : delivered[i][1].msg < m
    BY <1>1, <1>3 DEF DeliveredInv, m
  <2>5. \A i \in DOMAIN delivered, j \in DOMAIN socket : delivered[i][1].msg < socket[j].msg
    <3>1. \A i \in DOMAIN delivered, k \in DOMAIN Wire : delivered[i][1].msg < Wire[k].msg
      BY <1>1 DEF DeliveredInv
    <3>2. \A j \in DOMAIN socket : j + 2 \in DOMAIN Wire /\ socket[j] = Wire[j + 2]
      BY ONLY <1>3, <1>4
    <3> QED
      BY ONLY <3>1, <3>2
  <2>6. Ended(m) /\ \A i \in DOMAIN delivered : Ended(delivered[i][1].msg)
    BY <1>1, <1>6 DEF DeliveredInv, m
  <2>7. \A i \in DOMAIN delivered' : i \in DOMAIN delivered \/ i = n + 1
    BY <2>3
  <2>8. ASSUME NEW i \in DOMAIN delivered'
        PROVE  /\ delivered'[i] = <<Topic(delivered'[i][1].msg), Payload(delivered'[i][1].msg)>>
               /\ Ended(delivered'[i][1].msg)
               /\ \A j \in DOMAIN Wire' : delivered'[i][1].msg < Wire'[j].msg
    <3>1. CASE i \in DOMAIN delivered
      BY <1>1, <1>4, <2>3, <2>5, <2>6, <3>1 DEF DeliveredInv
    <3>2. CASE i = n + 1
      BY <1>4, <1>5, <2>1, <2>3, <2>6, <3>2 DEF e
    <3> QED
      BY <2>7, <3>1, <3>2
  <2>9. \A i, j \in DOMAIN delivered' : i < j => delivered'[i][1].msg < delivered'[j][1].msg
    BY <1>1, <2>1, <2>3, <2>4 DEF DeliveredInv
  <2> QED
    BY <1>7, <2>8, <2>9 DEF DeliveredInv
<1> QED
  BY <1>8, <1>9, <1>10

LEMMA StreamInvariance == Spec => []StreamInv
<1>1. Init => StreamInv
  <2> SUFFICES ASSUME Init PROVE StreamInv
    OBVIOUS
  <2>1. Wire = <<>> /\ DOMAIN Wire = {} /\ DOMAIN delivered = {}
    BY EmptyFacts, ConcatEmptySeq DEF Init, Wire
  <2> QED
    BY <2>1 DEF Init, StreamInv, SendInv, WireInv, Whole, DeliveredInv
<1>2. LifeInv /\ StreamInv /\ [Next]_vars => StreamInv'
  <2> SUFFICES ASSUME LifeInv, StreamInv, [Next]_vars PROVE StreamInv'
    OBVIOUS
  <2> USE DEF useVars, lifeVars, clientVars, netVars, loopVars
  <2>1. CASE \/ LookUp \/ LookUpThrows \/ CreatePublisher \/ CreateSubscriber
             \/ StartMonitoring \/ ConstructorThrows
             \/ \E n \in Names : OtherClientCreates(n)
    BY <2>1, StreamKept DEF LookUp, LookUpThrows, CreatePublisher, CreateSubscriber, StartMonitoring,
       ConstructorThrows, OtherClientCreates
  <2>8. ASSUME NEW p \in Publishers, FailTopic(p) PROVE StreamInv'
    BY <2>8, StreamKept DEF FailTopic
  <2>2. ASSUME NEW p \in Publishers, FailPayload(p) PROVE StreamInv'
    BY <2>2 DEF FailPayload, StreamInv
  <2>3. CASE \/ \E t \in Range(TopicOf) : Subscribe(t)
             \/ SubscribeFails
             \/ \E h \in Handlers : SetMessageHandler(h)
    BY <2>3, StreamKept DEF Subscribe, SubscribeFails, SetMessageHandler
  <2>4. ASSUME NEW c \in Controllers,
               Start(c) \/ LaunchFails(c) \/ Stop(c) \/ ControllerStep(c)
        PROVE  StreamInv'
    BY <2>4, StreamKept DEF Start, LaunchFails, Stop, ControllerStep, LaunchThread,
       Joinable, Join
  <2>5. CASE TestRunning \/ HandlerReturns
    BY <2>5, StreamKept DEF TestRunning, HandlerReturns
  <2>6. CASE BeginDestroy \/ OwnerStep \/ ReleaseManager
    BY <2>6, StreamKept DEF BeginDestroy, OwnerStep, JoinListener, DestroyMembers,
       ReleaseManager
  <2>7. CASE UNCHANGED vars
    BY <2>7, StreamKept DEF vars
  <2> QED
    BY <2>1, <2>2, <2>3, <2>4, <2>5, <2>6, <2>7, <2>8, SendTopicStream, SendPayloadStream,
       ReceiveStream, ReceiveFailsStream, DispatchStream, Zenon DEF Next, ListenerStep
<1> QED
  BY <1>1, <1>2, LifeInvariance, PTL DEF Spec

-----------------------------------------------------------------------------
(* The counters *)

Busy == {p \in Publishers : sending[p] # 0}

\* Nothing else changes what is counted or the records.
LEMMA CountKept ==
  ASSUME LifeInv, CountInv,
         UNCHANGED <<health, forgotten, refused, published, sending, delivered>>,
         loop = "dispatch" <=> loop' = "dispatch",
         \/ stage' = stage \/ stage' = "gone"
         \/ {stage, stage'} \subseteq Early
         \/ {stage, stage'} \subseteq {"live", "joining", "members", "dead"}
  PROVE  CountInv'
BY DEF LifeInv, TypeOK, CountInv, CountsMatchTraffic, Early

\* Without a handler nothing is counted.
LEMMA EarlyCreates ==
  ASSUME LifeInv, CountInv, NEW n \in Names, CreateConnection(n), {stage, stage'} \subseteq Early,
         refused' = refused, \A m \in Names : forgotten'[m] = 0
  PROVE  CountInv'
<1>1. /\ health'[n].sent = 0 /\ health'[n].errors = 0 /\ health'[n].received = 0
      /\ \A m \in Names \ {n} : health'[m] = health[m]
  BY CreateFacts DEF LifeInv
<1> QED
  BY <1>1 DEF CountInv, CountsMatchTraffic, Early

\* Two new records are empty; the first publish is yet to come.
LEMMA ConstructionCount ==
  ASSUME LifeInv, CountInv,
         \/ LookUp \/ LookUpThrows \/ CreatePublisher \/ CreateSubscriber
         \/ StartMonitoring \/ ConstructorThrows
  PROVE  CountInv'
<1> USE DEF useVars, clientVars, netVars, loopVars, managerVars
<1>0. Pub \in Names /\ Sub \in Names /\ Pub # Sub
  BY PubSubAssumption
<1>1. CASE LookUp \/ LookUpThrows
  BY <1>1, CountKept DEF LookUp, LookUpThrows, Unbuilt, Early
<1>2. CASE CreatePublisher
  BY <1>0, <1>2, EarlyCreates DEF CreatePublisher, Early, CountInv
<1>3. CASE CreateSubscriber
  BY <1>0, <1>3, EarlyCreates DEF CreateSubscriber, Early, CountInv
<1>4. CASE StartMonitoring
  <2> USE <1>4 DEF StartMonitoring, StartHealthMonitoring
  <2>1. /\ published = 0 /\ delivered = <<>> /\ loop = "off"
        /\ \A p \in Publishers : sending[p] = 0
    BY DEF LifeInv, StageInv, Early
  <2>2. Cardinality({p \in Publishers : sending'[p] # 0}) = 0
    <3>1. {p \in Publishers : sending'[p] # 0} = {}
      BY <2>1
    <3> QED
      BY <3>1, FS_EmptySet
  <2>3. Len(delivered') = 0
    BY <2>1, EmptyFacts
  <2>4. health[Pub] # None /\ health[Sub] # None
    BY PubSubAssumption DEF LifeInv, HealthInv
  <2>5. /\ health'[Pub].sent = 0 /\ health'[Pub].errors = 0 /\ health'[Sub].received = 0
        /\ forgotten'[Pub] = 0 /\ forgotten'[Sub] = 0 /\ refused' = 0
    BY <1>0, <2>4 DEF CountInv, Early
  <2> QED
    BY <2>1, <2>2, <2>3, <2>5 DEF CountInv, CountsMatchTraffic, Early
<1>5. CASE ConstructorThrows
  BY <1>5, CountKept DEF ConstructorThrows, StartHealthMonitoringFails, Early
<1> QED
  BY <1>1, <1>2, <1>3, <1>4, <1>5

\* A connection of another name leaves both records alone; one of the same name
\* moves what its record has counted to what is forgotten.
LEMMA OtherClientCount ==
  ASSUME LifeInv, CountInv, NEW n \in Names, OtherClientCreates(n)
  PROVE  CountInv'
<1> USE DEF OtherClientCreates, useVars, netVars, loopVars
<1>0. /\ Pub \in Names /\ Sub \in Names /\ Pub # Sub
      /\ stage' = stage /\ UNCHANGED <<published, refused, sending, delivered, loop>>
  BY PubSubAssumption
<1>1. /\ health'[n].sent = 0 /\ health'[n].errors = 0 /\ health'[n].received = 0
      /\ \A m \in Names \ {n} : health'[m] = health[m]
  BY CreateFacts DEF LifeInv
<1>2. /\ forgotten \in [Names -> Nat] /\ Counted(n) \in Nat
      /\ forgotten'[n] = forgotten[n] + Counted(n)
      /\ \A m \in Names \ {n} : forgotten'[m] = forgotten[m]
  BY CountedFacts DEF LifeInv, TypeOK
<1>3. CASE stage \in Early
  <2>1. Counted(n) = 0
    BY <1>3 DEF CountInv, Counted
  <2>2. \A m \in Names : forgotten'[m] = 0
    BY <1>2, <1>3, <2>1 DEF CountInv
  <2> QED
    BY <1>0, <1>3, <2>2, EarlyCreates
<1>4. CASE stage \in {"live", "joining", "members", "dead"}
  <2>1. /\ health[Pub] \in ConnectionHealth /\ health[Pub] # None
        /\ health[Sub] \in ConnectionHealth /\ health[Sub] # None
    BY <1>4, PubSubAssumption DEF LifeInv, HealthInv
  <2>2. /\ health[Pub].sent \in Nat /\ health[Pub].errors \in Nat
        /\ health[Sub].received \in Nat
    BY <2>1 DEF ConnectionHealth, Counters
  <2>3. /\ health'[Pub].sent + health'[Pub].errors + forgotten'[Pub]
             = health[Pub].sent + health[Pub].errors + forgotten[Pub]
        /\ health'[Sub].received + forgotten'[Sub]
             = health[Sub].received + forgotten[Sub]
    <3>1. CASE n = Pub
      <4>1. Counted(n) = health[Pub].sent + health[Pub].errors
        BY <2>1, <3>1 DEF Counted
      <4>2. health'[Sub] = health[Sub] /\ forgotten'[Sub] = forgotten[Sub]
        BY <1>0, <1>1, <1>2, <3>1
      <4> QED
        BY <1>0, <1>1, <1>2, <2>2, <3>1, <4>1, <4>2
    <3>2. CASE n = Sub
      <4>1. Counted(n) = health[Sub].received
        BY <1>0, <2>1, <3>2 DEF Counted
      <4>2. health'[Pub] = health[Pub] /\ forgotten'[Pub] = forgotten[Pub]
        BY <1>0, <1>1, <1>2, <3>2
      <4> QED
        BY <1>0, <1>1, <1>2, <2>2, <3>2, <4>1, <4>2
    <3>3. CASE n \notin {Pub, Sub}
      BY <1>0, <1>1, <1>2, <3>3
    <3> QED
      BY <3>1, <3>2, <3>3
  <2> QED
    BY <1>0, <1>4, <2>3 DEF CountInv, CountsMatchTraffic, Early
<1>5. CASE stage = "gone"
  BY <1>0, <1>5 DEF CountInv, CountsMatchTraffic, Early
<1>6. stage \in Early \/ stage \in {"live", "joining", "members", "dead"} \/ stage = "gone"
  BY DEF LifeInv, TypeOK, Early
<1> QED
  BY <1>3, <1>4, <1>5, <1>6

LEMMA BusyFacts ==
  ASSUME LifeInv, NEW p \in Publishers
  PROVE  /\ Cardinality(Busy) \in Nat
         /\ Cardinality(Busy \cup {p})
              = IF sending[p] # 0 THEN Cardinality(Busy) ELSE Cardinality(Busy) + 1
         /\ Cardinality(Busy \ {p})
              = IF sending[p] # 0 THEN Cardinality(Busy) - 1 ELSE Cardinality(Busy)
<1>1. IsFiniteSet(Busy)
  BY PubSubAssumption, FS_Subset DEF Busy
<1>2. p \in Busy <=> sending[p] # 0
  BY DEF Busy
<1> HIDE DEF Busy
<1> QED
  BY <1>1, <1>2, FS_CardinalityType, FS_AddElement, FS_RemoveElement

\* The two sums of CountsMatchTraffic, for a handler that exists.
LEMMA TrafficSums ==
  ASSUME CountInv, stage \in {"live", "joining", "members", "dead"}
  PROVE  /\ health[Pub].sent + health[Pub].errors + forgotten[Pub]
              = published + refused - Cardinality(Busy)
         /\ health[Sub].received + forgotten[Sub]
              = Len(delivered) + IF loop = "dispatch" THEN 1 ELSE 0
BY DEF CountInv, CountsMatchTraffic, Busy

LEMMA SumsSuffice ==
  ASSUME stage' \in {"live", "joining", "members", "dead"},
         health'[Pub].sent + health'[Pub].errors + forgotten'[Pub]
           = published' + refused' - Cardinality(Busy'),
         health'[Sub].received + forgotten'[Sub]
           = Len(delivered') + IF loop' = "dispatch" THEN 1 ELSE 0
  PROVE  CountInv'
BY DEF CountInv, CountsMatchTraffic, Busy, Early

LEMMA PublishCount ==
  ASSUME LifeInv, CountInv, NEW p \in Publishers,
         SendTopic(p) \/ FailTopic(p) \/ SendPayload(p) \/ FailPayload(p)
  PROVE  CountInv'
<1> USE DEF lifeVars, clientVars, loopVars
<1>0. /\ Pub \in Names /\ Sub \in Names /\ Pub # Sub
      /\ Counters = {"sent", "received", "errors"}
  BY PubSubAssumption DEF Counters
<1>1. /\ sending \in [Publishers -> 0..MaxMessages] /\ published \in Nat
      /\ stage = "live" /\ health[Pub] \in ConnectionHealth
  BY PubSubAssumption DEF LifeInv, TypeOK, StageInv, HealthInv, SendTopic, FailTopic,
     SendPayload, FailPayload
<1>2. /\ health[Pub].sent \in Nat /\ health[Pub].errors \in Nat
      /\ refused \in Nat /\ forgotten[Pub] \in Nat
  BY <1>0, <1>1 DEF ConnectionHealth, Counters, LifeInv, TypeOK
<1>3. CASE SendTopic(p)
  <2> USE <1>3 DEF SendTopic, managerVars
  <2>1. Busy' = Busy \cup {p}
    BY <1>1 DEF Busy
  <2>2. Cardinality(Busy') = Cardinality(Busy) + 1 /\ Cardinality(Busy) \in Nat
    BY <2>1, BusyFacts
  <2>3. health'[Pub].sent + health'[Pub].errors + forgotten'[Pub]
          = published' + refused' - Cardinality(Busy')
    <3>1. health[Pub].sent + health[Pub].errors + forgotten[Pub]
            = published + refused - Cardinality(Busy)
      BY <1>1, TrafficSums
    <3>2. UNCHANGED <<health, forgotten, refused>> /\ published' = published + 1
      OBVIOUS
    <3> QED
      BY ONLY <1>1, <1>2, <2>2, <3>1, <3>2
  <2>4. health'[Sub].received + forgotten'[Sub]
          = Len(delivered') + IF loop' = "dispatch" THEN 1 ELSE 0
    BY <1>1, TrafficSums
  <2> QED
    BY <1>1, <2>3, <2>4, SumsSuffice
<1>4. CASE SendPayload(p) \/ FailPayload(p)
  <2> USE DEF SendPayload, FailPayload
  <2>1. Busy' = Busy \ {p}
    BY <1>1, <1>4 DEF Busy
  <2>2. Cardinality(Busy') = Cardinality(Busy) - 1 /\ Cardinality(Busy) \in Nat
    BY <1>4, <2>1, BusyFacts
  <2>3. /\ health'[Pub].sent + health'[Pub].errors = health[Pub].sent + health[Pub].errors + 1
        /\ health'[Sub] = health[Sub]
    <3>1. CASE SendPayload(p)
      <4>1. /\ health'[Pub]["sent"] = health[Pub]["sent"] + 1
            /\ health'[Pub]["errors"] = health[Pub]["errors"]
            /\ health'[Sub] = health[Sub]
        BY <1>0, <1>1, <3>1, CountFacts DEF LifeInv
      <4> QED
        BY <1>2, <4>1
    <3>2. CASE FailPayload(p)
      <4>1. /\ health'[Pub]["errors"] = health[Pub]["errors"] + 1
            /\ health'[Pub]["sent"] = health[Pub]["sent"]
            /\ health'[Sub] = health[Sub]
        BY <1>0, <1>1, <3>2, CountFacts DEF LifeInv
      <4> QED
        BY <1>2, <4>1
    <3> QED
      BY <1>4, <3>1, <3>2
  <2>4. UNCHANGED <<stage, forgotten, refused, published, delivered, loop>>
    BY <1>4
  <2>5. health'[Pub].sent + health'[Pub].errors + forgotten'[Pub]
          = published' + refused' - Cardinality(Busy')
    <3>1. health[Pub].sent + health[Pub].errors + forgotten[Pub]
            = published + refused - Cardinality(Busy)
      BY <1>1, TrafficSums
    <3> QED
      BY ONLY <1>1, <1>2, <2>2, <2>3, <2>4, <3>1
  <2>6. health'[Sub].received + forgotten'[Sub]
          = Len(delivered') + IF loop' = "dispatch" THEN 1 ELSE 0
    BY <1>1, <2>3, <2>4, TrafficSums
  <2> QED
    BY <1>1, <2>4, <2>5, <2>6, SumsSuffice
<1>5. CASE FailTopic(p)
  <2> USE <1>5 DEF FailTopic
  <2>1. Cardinality(Busy) \in Nat /\ Busy' = Busy
    BY BusyFacts DEF Busy
  <2>2. /\ health'[Pub]["errors"] = health[Pub]["errors"] + 1
        /\ health'[Pub]["sent"] = health[Pub]["sent"]
        /\ health'[Sub] = health[Sub]
    BY <1>0, <1>1, CountFacts DEF LifeInv
  <2>3. /\ health'[Pub].sent + health'[Pub].errors = health[Pub].sent + health[Pub].errors + 1
        /\ refused' = refused + 1
    BY <1>2, <2>2
  <2>4. UNCHANGED <<stage, forgotten, sending, published, delivered, loop>>
    OBVIOUS
  <2>5. health'[Pub].sent + health'[Pub].errors + forgotten'[Pub]
          = published' + refused' - Cardinality(Busy')
    <3>1. health[Pub].sent + health[Pub].errors + forgotten[Pub]
            = published + refused - Cardinality(Busy)
      BY <1>1, TrafficSums
    <3> QED
      BY <1>1, <1>2, <2>1, <2>3, <2>4, <3>1
  <2>6. health'[Sub].received + forgotten'[Sub]
          = Len(delivered') + IF loop' = "dispatch" THEN 1 ELSE 0
    BY <1>1, <2>2, <2>4, TrafficSums
  <2> QED
    BY <1>1, <2>4, <2>5, <2>6, SumsSuffice
<1> QED
  BY <1>3, <1>4, <1>5

\* An error of the subscriber is in none of the sums.
LEMMA SubscriberErrorCount ==
  ASSUME LifeInv, CountInv, health[Sub] \in ConnectionHealth, Count(Sub, "errors"),
         UNCHANGED <<stage, forgotten, refused, published, sending, delivered>>, stage \notin Early,
         loop = "dispatch" <=> loop' = "dispatch"
  PROVE  CountInv'
<1>1. /\ Pub \in Names /\ Sub \in Names /\ Pub # Sub
      /\ "errors" \in Counters /\ "received" \in Counters
  BY PubSubAssumption DEF Counters
<1>2. health'[Sub]["received"] = health[Sub]["received"] /\ health'[Pub] = health[Pub]
  BY <1>1, CountFacts DEF LifeInv
<1> QED
  BY <1>2 DEF CountInv, CountsMatchTraffic, Early

LEMMA ListenerCount ==
  ASSUME LifeInv, CountInv, ~terminated, ListenerStep \/ ReceiveFails
  PROVE  CountInv'
<1> USE DEF lifeVars, clientVars, netVars
<1>0. /\ Pub \in Names /\ Sub \in Names /\ Pub # Sub
      /\ Counters = {"sent", "received", "errors"}
  BY PubSubAssumption DEF Counters
<1>1. CASE TestRunning
  BY <1>1, CountKept DEF TestRunning, managerVars
<1>2. CASE HandlerReturns
  BY <1>2, CountKept DEF HandlerReturns, managerVars
<1>3. CASE Receive
  <2> USE <1>3 DEF Receive
  <2>1. stage \in {"live", "joining", "members"} /\ health[Sub] \in ConnectionHealth
    BY LoopAlive
  <2>2. CASE frames = <<>>
    BY <2>2, CountKept DEF managerVars
  <2>3. CASE frames # <<>>
    <3>1. health'[Sub]["received"] = health[Sub]["received"] + 1 /\ health'[Pub] = health[Pub]
      BY <1>0, <2>1, <2>3, CountFacts DEF LifeInv
    <3>2. loop = "receive" /\ loop' = "dispatch" /\ Len(delivered) \in Nat
      BY <2>3, DeliveredFacts DEF LifeInv
    <3>3. health[Sub].received \in Nat /\ forgotten[Sub] \in Nat
      BY <1>0, <2>1 DEF ConnectionHealth, LifeInv, TypeOK
    <3>4. UNCHANGED <<stage, forgotten, refused, published, sending, delivered>>
          /\ Busy' = Busy
      BY DEF Busy
    <3>5. health'[Pub].sent + health'[Pub].errors + forgotten'[Pub]
            = published' + refused' - Cardinality(Busy')
      BY <2>1, <3>1, <3>4, TrafficSums
    <3>6. health'[Sub].received + forgotten'[Sub]
            = Len(delivered') + IF loop' = "dispatch" THEN 1 ELSE 0
      BY <2>1, <3>1, <3>2, <3>3, <3>4, TrafficSums
    <3> QED
      BY <2>1, <3>4, <3>5, <3>6, SumsSuffice
  <2> QED
    BY <2>2, <2>3
<1>4. CASE Dispatch
  <2> USE <1>4 DEF Dispatch, managerVars
  <2>1. frames[1] \in Frame /\ frames[2] \in Frame
    BY TwoFrames DEF LifeInv, TypeOK, FramesInv
  <2>2. Len(delivered) \in Nat /\ Len(delivered') = Len(delivered) + 1
    BY <2>1, AppendFacts DEF LifeInv, TypeOK
  <2>3. stage \in {"live", "joining", "members"} /\ health[Sub] \in ConnectionHealth
    BY LoopAlive
  <2>4. health[Sub].received \in Nat /\ forgotten[Sub] \in Nat
    BY <1>0, <2>3 DEF ConnectionHealth, LifeInv, TypeOK
  <2> QED
    BY <2>2, <2>3, <2>4 DEF CountInv, CountsMatchTraffic, Early
<1>5. CASE ReceiveFails
  <2>1. stage \in {"live", "joining", "members"} /\ health[Sub] \in ConnectionHealth
    BY <1>5, LoopAlive DEF ReceiveFails
  <2> QED
    BY <1>5, <2>1, SubscriberErrorCount DEF ReceiveFails, Early
<1> QED
  BY <1>1, <1>2, <1>3, <1>4, <1>5 DEF ListenerStep

LEMMA CountInvariance == Spec => []CountInv
<1>1. Init => CountInv
  BY DEF Init, ManagerInit, CountInv, CountsMatchTraffic
<1>2. LifeInv /\ CountInv /\ [Next]_vars => CountInv'
  <2> SUFFICES ASSUME LifeInv, CountInv, [Next]_vars PROVE CountInv'
    OBVIOUS
  <2> USE DEF lifeVars, clientVars, useVars, netVars, loopVars, managerVars
  <2>1. CASE SubscribeFails
    <3>1. health[Sub] \in ConnectionHealth
      BY <2>1 DEF SubscribeFails, LifeInv, HealthInv
    <3> QED
      BY <2>1, <3>1, SubscriberErrorCount DEF SubscribeFails, Early
  <2>2. CASE \/ \E t \in Range(TopicOf) : Subscribe(t)
             \/ \E h \in Handlers : SetMessageHandler(h)
    BY <2>2, CountKept DEF Subscribe, SetMessageHandler
  <2>3. ASSUME NEW c \in Controllers,
               Start(c) \/ LaunchFails(c) \/ Stop(c) \/ Joinable(c) \/ Join(c)
        PROVE  CountInv'
    BY <2>3, CountKept DEF Start, LaunchFails, Stop, Joinable, Join
  <2>4. ASSUME NEW c \in Controllers, LaunchThread(c) PROVE CountInv'
    <3>1. loop = "dispatch" <=> loop' = "dispatch"
      BY <2>4 DEF LaunchThread, LifeInv, StageInv
    <3> QED
      BY <2>4, <3>1, CountKept DEF LaunchThread
  <2>5. CASE BeginDestroy \/ JoinListener \/ DestroyMembers
    BY <2>5, CountKept DEF BeginDestroy, JoinListener, DestroyMembers, Early
  <2>6. CASE ReleaseManager
    BY <2>6 DEF ReleaseManager, CountInv, CountsMatchTraffic, Early
  <2>7. CASE UNCHANGED vars
    BY <2>7, CountKept DEF vars
  <2> QED
    BY <2>1, <2>2, <2>3, <2>4, <2>5, <2>6, <2>7, ConstructionCount, OtherClientCount,
       PublishCount, ListenerCount, Zenon DEF Next, OwnerStep, ControllerStep
<1> QED
  BY <1>1, <1>2, LifeInvariance, PTL DEF Spec

-----------------------------------------------------------------------------
(* The abstract stream *)

\* Frames travel in pairs.
EvenInv == torn \/ \E k \in Nat : Len(Wire) = 2 * k

LEMMA HalfOf ==
  ASSUME NEW k \in Nat
  PROVE  (2 * k) \div 2 = k
OBVIOUS

\* The messages of a wire of pairs.
Messages(w) == [i \in 1..(Len(w) \div 2) |-> w[2 * i - 1].msg]

LEMMA MessagesType ==
  ASSUME NEW w \in Seq(Frame), NEW k \in Nat, Len(w) = 2 * k
  PROVE  /\ Messages(w) \in Seq(1..MaxMessages) /\ Len(Messages(w)) = k
         /\ DOMAIN Messages(w) = 1..k
         /\ \A i \in 1..k : Messages(w)[i] = w[2 * i - 1].msg
<1>1. Messages(w) = [i \in 1..k |-> w[2 * i - 1].msg]
  BY HalfOf DEF Messages
<1>2. \A i \in 1..k : w[2 * i - 1].msg \in 1..MaxMessages
  <2> SUFFICES ASSUME NEW i \in 1..k PROVE w[2 * i - 1].msg \in 1..MaxMessages
    OBVIOUS
  <2>1. 2 * i - 1 \in 1..Len(w)
    OBVIOUS
  <2>2. w[2 * i - 1] \in Frame
    BY <2>1, ElementOfSeq
  <2> QED
    BY <2>2 DEF Frame
<1>3. Messages(w) \in [1..k -> 1..MaxMessages]
  BY <1>1, <1>2
<1>4. Messages(w) \in Seq(1..MaxMessages)
  <2> DEFINE s == Messages(w)
             S == 1..MaxMessages
  <2>1. s \in [1..k -> S]
    BY <1>3
  <2> HIDE DEF s, S
  <2>2. s \in Seq(S)
    BY <2>1, SeqDef
  <2> QED
    BY <2>2 DEF s, S
<1>5. Len(Messages(w)) = k
  BY <1>3, <1>4, LenProperties
<1> QED
  BY <1>1, <1>3, <1>4, <1>5

\* A pair at the end of the wire is one more message.
LEMMA MessagesExtended ==
  ASSUME NEW w \in Seq(Frame), NEW k \in Nat, Len(w) = 2 * k,
         NEW v \in Seq(Frame), Len(v) = 2 * k + 2, NEW m \in 1..MaxMessages,
         \A i \in 1..(2 * k) : v[i] = w[i], v[2 * k + 1].msg = m
  PROVE  Messages(v) = Append(Messages(w), m)
<1> DEFINE s == Messages(w)
           t == Messages(v)
           u == Append(s, m)
<1>1. /\ s \in Seq(1..MaxMessages) /\ Len(s) = k
      /\ \A i \in 1..k : s[i] = w[2 * i - 1].msg
  BY MessagesType
<1>2. k + 1 \in Nat /\ Len(v) = 2 * (k + 1)
  OBVIOUS
<1>3. /\ t \in Seq(1..MaxMessages) /\ Len(t) = k + 1
      /\ \A i \in 1..(k + 1) : t[i] = v[2 * i - 1].msg
  BY ONLY <1>2, MessagesType, v \in Seq(Frame)
<1> HIDE DEF s, t
<1>4. /\ u \in Seq(1..MaxMessages) /\ Len(u) = k + 1 /\ u[k + 1] = m
      /\ \A i \in 1..k : u[i] = s[i]
  BY <1>1, AppendFacts
<1> HIDE DEF u
<1>5. \A i \in 1..k : 2 * i - 1 \in 1..(2 * k) /\ i \in 1..(k + 1)
  OBVIOUS
<1>6. 2 * (k + 1) - 1 = 2 * k + 1 /\ k + 1 \in 1..(k + 1)
  OBVIOUS
<1>7. ASSUME NEW i \in 1..k PROVE t[i] = u[i]
  <2>1. 2 * i - 1 \in 1..(2 * k) /\ i \in 1..(k + 1)
    BY <1>5
  <2>2. t[i] = v[2 * i - 1].msg
    BY <1>3, <2>1
  <2>3. v[2 * i - 1] = w[2 * i - 1]
    BY <2>1
  <2>4. w[2 * i - 1].msg = u[i]
    BY <1>1, <1>4
  <2> QED
    BY <2>2, <2>3, <2>4
<1>8. t[k + 1] = u[k + 1]
  BY <1>3, <1>4, <1>6
<1>9. \A i \in 1..(k + 1) : t[i] = u[i]
  BY <1>7, <1>8
<1>10. t = u
  BY <1>3, <1>4, <1>9, SeqEqual
<1> QED
  BY <1>10 DEF s, t, u

\* Without its first pair the wire has one message less.
LEMMA MessagesDropped ==
  ASSUME NEW w \in Seq(Frame), NEW k \in Nat, k # 0, Len(w) = 2 * k,
         NEW v \in Seq(Frame), Len(v) = 2 * k - 2,
         \A i \in 1..(2 * k - 2) : v[i] = w[i + 2]
  PROVE  /\ Messages(w) # <<>> /\ Head(Messages(w)) = w[1].msg
         /\ Messages(v) = Tail(Messages(w))
<1> DEFINE s == Messages(w)
           t == Messages(v)
           u == Tail(s)
<1>1. /\ s \in Seq(1..MaxMessages) /\ Len(s) = k
      /\ \A i \in 1..k : s[i] = w[2 * i - 1].msg
  BY MessagesType
<1>2. k - 1 \in Nat /\ Len(v) = 2 * (k - 1)
  OBVIOUS
<1>3. /\ t \in Seq(1..MaxMessages) /\ Len(t) = k - 1
      /\ \A i \in 1..(k - 1) : t[i] = v[2 * i - 1].msg
  BY ONLY <1>2, MessagesType, v \in Seq(Frame)
<1> HIDE DEF s, t
<1>4. s # <<>>
  BY <1>1, EmptySeq
<1>5. /\ Head(s) = s[1] /\ u \in Seq(1..MaxMessages) /\ Len(u) = k - 1
      /\ \A i \in 1..(k - 1) : u[i] = s[i + 1]
  BY <1>1, <1>4, HeadTailProperties
<1> HIDE DEF u
<1>6. Head(s) = w[1].msg
  <2>1. 1 \in 1..k /\ 2 * 1 - 1 = 1
    OBVIOUS
  <2> QED
    BY <1>1, <1>5, <2>1
<1>7. ASSUME NEW i \in 1..(k - 1) PROVE t[i] = u[i]
  <2>1. /\ i + 1 \in 1..k /\ 2 * i - 1 \in 1..(2 * k - 2)
        /\ (2 * i - 1) + 2 = 2 * (i + 1) - 1
    OBVIOUS
  <2>2. v[2 * i - 1] = w[2 * (i + 1) - 1]
    BY <2>1
  <2> QED
    BY <1>1, <1>3, <1>5, <2>1, <2>2
<1>8. t = u
  BY <1>3, <1>5, <1>7, SeqEqual
<1> QED
  BY <1>4, <1>6, <1>8 DEF s, t, u

\* The messages in transit are those of the wire.
LEMMA TransitIsMessages ==
  InTransit = Messages(Wire) /\ InTransit' = Messages(Wire')
BY DEF InTransit, Messages

\* What the loop handled was whole, unless the stream is torn.
LEMMA HandledAppended ==
  ASSUME LifeInv, ~torn, StreamInv', Dispatch
  PROVE  Handled' = Append(Handled, frames[1].msg)
<1> DEFINE n == Len(delivered)
           e == <<frames[1], frames[2]>>
           m == frames[1].msg
           s == Handled
           t == Handled'
<1>1. /\ delivered \in Seq(Frame \X Frame) /\ delivered' = Append(delivered, e) /\ ~torn'
      /\ frames \in Seq(Frame) /\ Len(frames) = 2
  BY DEF Dispatch, LifeInv, TypeOK, FramesInv, netVars
<1>2. e \in Frame \X Frame /\ m \in 1..MaxMessages
  <2>1. frames[1] \in Frame /\ frames[2] \in Frame
    <3>1. \A i \in 1..2 : frames[i] \in Frame
      BY <1>1, ElementOfSeq
    <3> QED
      BY <3>1
  <2> QED
    BY <2>1 DEF Frame
<1>3. e[1].msg = m
  OBVIOUS
<1> HIDE DEF e
<1>4. /\ n \in Nat /\ DOMAIN delivered = 1..n /\ DOMAIN delivered' = 1..(n + 1)
      /\ \A i \in 1..n : delivered'[i] = delivered[i]
      /\ delivered'[n + 1] = e
  BY <1>1, <1>2, AppendFacts
<1>5. n + 1 \in DOMAIN delivered'
  BY <1>4
<1>6. delivered'[n + 1] = <<Topic(delivered'[n + 1][1].msg), Payload(delivered'[n + 1][1].msg)>>
  BY <1>1, <1>5 DEF StreamInv, DeliveredInv
<1>7. e = <<Topic(m), Payload(m)>>
  BY <1>3, <1>4, <1>6
<1> HIDE DEF m, n
<1>8. t = [i \in 1..(n + 1) |-> LET l == delivered'[i][1].msg IN
             IF delivered'[i] = <<Topic(l), Payload(l)>> THEN l ELSE 0]
  BY <1>4 DEF Handled, Topic, Payload
<1>9. s = [i \in 1..n |-> LET l == delivered[i][1].msg IN
             IF delivered[i] = <<Topic(l), Payload(l)>> THEN l ELSE 0]
  BY <1>4 DEF Handled
<1> HIDE DEF s, t
<1>10. \A i \in 1..n : i \in 1..(n + 1) /\ t[i] = s[i]
  BY <1>4, <1>8, <1>9
<1>11. t[n + 1] = m
  BY <1>3, <1>4, <1>5, <1>7, <1>8
<1> DEFINE S == 0..MaxMessages
           u == Append(s, m)
<1>12. m \in S
  BY <1>2, PubSubAssumption
<1>13. s \in Seq(S) /\ Len(s) = n
  <2>1. \A i \in 1..n : delivered[i][1].msg \in 1..MaxMessages
    BY <1>4, DeliveredFacts DEF LifeInv
  <2>2. s \in [1..n -> S]
    BY <1>9, <2>1, PubSubAssumption
  <2> HIDE DEF S
  <2>3. s \in Seq(S)
    BY <1>4, <2>2, SeqDef
  <2> QED
    BY <1>4, <2>2, <2>3, LenProperties
<1>14. t \in Seq(S) /\ Len(t) = n + 1
  <2>1. DOMAIN t = 1..(n + 1)
    BY <1>8
  <2>2. \A i \in 1..(n + 1) : t[i] \in S
    <3>1. \A i \in 1..n : s[i] \in S
      BY <1>13, <1>4, ElementOfSeq
    <3>2. \A i \in 1..(n + 1) : i \in 1..n \/ i = n + 1
      BY <1>4
    <3> HIDE DEF S
    <3> QED
      BY <1>10, <1>11, <1>12, <3>1, <3>2
  <2> HIDE DEF S
  <2>3. t \in [1..(n + 1) -> S]
    BY <1>8, <2>2
  <2>4. n + 1 \in Nat
    BY <1>4
  <2>5. t \in Seq(S)
    BY <2>3, <2>4, SeqDef
  <2> QED
    BY <2>3, <2>4, <2>5, LenProperties
<1> HIDE DEF S
<1>15. /\ u \in Seq(S) /\ Len(u) = n + 1 /\ u[n + 1] = m
       /\ \A i \in 1..n : u[i] = s[i]
  BY <1>12, <1>13, AppendFacts
<1> HIDE DEF u
<1>16. \A i \in 1..(n + 1) : i \in 1..n \/ i = n + 1
  BY <1>4
<1>17. t = u
  BY <1>10, <1>11, <1>14, <1>15, <1>16, SeqEqual
<1> QED
  BY <1>17 DEF s, t, u, m

\* What does not concern the stream leaves it alone.
LEMMA StreamStutter ==
  ASSUME UNCHANGED <<sending, published, multipart, socket, torn, frames, delivered>>
  PROVE  EvenInv' = EvenInv /\ UNCHANGED Stream!streamVars
BY DEF EvenInv, Stream!streamVars, Sending, InTransit, Handled, Wire, Topic, Payload

LEMMA StreamTypes ==
  ASSUME LifeInv
  PROVE  /\ Wire \in Seq(Frame) /\ published \in Nat
         /\ frames \in Seq(Frame) /\ socket \in Seq(Frame)
         /\ sending \in [Publishers -> 0..MaxMessages]
         /\ published \in 0..MaxMessages
BY WireFacts, PubSubAssumption DEF LifeInv, TypeOK

LEMMA SendTopicStep ==
  ASSUME LifeInv, LifeInv', EvenInv, NEW p \in Publishers, SendTopic(p)
  PROVE  EvenInv' /\ Stream!StreamNext
<1>1. UNCHANGED <<frames, socket, delivered>>
  BY Zenon DEF SendTopic, loopVars
<1>2. UNCHANGED <<Wire, InTransit, Handled>>
  BY <1>1 DEF Wire, InTransit, Handled, Topic, Payload
<1>3. CASE torn'
  BY <1>3 DEF EvenInv, Stream!StreamNext
<1>4. CASE ~torn'
  <2>1. ~torn /\ ~Sending
    BY <1>4 DEF SendTopic, Sending
  <2>2. published' = published + 1 /\ published' # 0
    BY StreamTypes DEF SendTopic
  <2>3. Sending'
    BY <2>2, StreamTypes DEF SendTopic, Sending
  <2>4. Stream!BeginMessage
    BY <1>1, <1>2, <2>1, <2>2, <2>3 DEF Stream!BeginMessage, Sending
  <2> QED
    BY <1>2, <1>4, <2>1, <2>4 DEF EvenInv, Stream!StreamNext
<1> QED
  BY <1>3, <1>4

LEMMA SendPayloadStep ==
  ASSUME LifeInv, LifeInv', StreamInv, EvenInv, NEW p \in Publishers, SendPayload(p)
  PROVE  EvenInv' /\ Stream!StreamNext
<1> DEFINE m == published
<1>1. UNCHANGED <<frames, delivered, torn, published>>
  BY Zenon DEF SendPayload, loopVars
<1>2. UNCHANGED Handled
  BY <1>1 DEF Handled, Topic, Payload
<1>3. CASE torn
  BY <1>1, <1>3 DEF EvenInv, Stream!StreamNext
<1>4. CASE ~torn
  <2>1. /\ sending[p] = m /\ multipart = <<Topic(m)>> /\ m \in 1..MaxMessages
        /\ \A q \in Publishers : q # p => sending[q] = 0
    BY <1>4, StreamTypes DEF StreamInv, SendInv, SendPayload
  <2>2. Sending = TRUE /\ Sending' = FALSE
    BY <2>1, StreamTypes DEF SendPayload, Sending
  <2>3. Append(multipart, Payload(sending[p])) = <<Topic(m), Payload(m)>>
    BY <2>1, ShortSequences
  <2>4. PICK k \in Nat : Len(Wire) = 2 * k
    BY <1>4 DEF EvenInv
  <2>5. CASE socket' = socket
    <3>1. Wire' = Wire /\ InTransit' = InTransit
      BY <1>1, <2>5 DEF Wire, InTransit
    <3>2. Stream!EndMessage
      BY <1>1, <1>2, <2>2, <3>1 DEF Stream!EndMessage
    <3> QED
      BY <1>1, <1>4, <3>1, <3>2 DEF EvenInv, Stream!StreamNext
  <2>6. CASE socket' = socket \o <<Topic(m), Payload(m)>>
    <3> DEFINE pair == <<Topic(m), Payload(m)>>
    <3>1. pair \in Seq(Frame) /\ Len(pair) = 2 /\ pair[1] = Topic(m)
      BY <2>1 DEF Topic, Payload, Frame
    <3>2. frames \in Seq(Frame) /\ socket \in Seq(Frame) /\ Wire \in Seq(Frame)
      BY StreamTypes
    <3>3. Wire' = frames \o (socket \o pair)
      BY <1>1, <2>6 DEF Wire
    <3> HIDE DEF pair
    <3>4. Wire' = Wire \o pair
      <4>1. (frames \o socket) \o pair = frames \o (socket \o pair)
        BY ONLY <3>1, <3>2, ConcatAssociative
      <4> QED
        BY <3>3, <4>1 DEF Wire
    <3>5. /\ Wire' \in Seq(Frame) /\ Len(Wire') = Len(Wire) + 2
          /\ \A i \in 1..(Len(Wire) + 2) :
                Wire'[i] = IF i <= Len(Wire) THEN Wire[i] ELSE pair[i - Len(Wire)]
      <4>1. /\ Wire \o pair \in Seq(Frame) /\ Len(Wire \o pair) = Len(Wire) + 2
            /\ \A i \in 1..(Len(Wire) + 2) : (Wire \o pair)[i] =
                  IF i <= Len(Wire) THEN Wire[i] ELSE pair[i - Len(Wire)]
        BY <3>1, <3>2, TwoAppended
      <4> QED
        BY ONLY <3>4, <4>1
    <3>6. /\ Len(Wire') = 2 * k + 2
          /\ \A i \in 1..(2 * k) : Wire'[i] = Wire[i]
          /\ Wire'[2 * k + 1].msg = m
      <4>1. pair[(2 * k + 1) - 2 * k] = Topic(m)
        BY <3>1
      <4>2. Wire'[2 * k + 1] = Topic(m)
        BY <2>4, <3>5, <4>1
      <4> QED
        BY <2>4, <3>5, <4>2 DEF Topic
    <3>7. Messages(Wire') = Append(Messages(Wire), m)
      BY <2>1, <2>4, <3>2, <3>5, <3>6, MessagesExtended
    <3>8. InTransit' = Append(InTransit, m)
      BY <3>7, TransitIsMessages
    <3>9. Stream!EndMessage
      BY <1>1, <1>2, <2>2, <3>8 DEF Stream!EndMessage
    <3>10. EvenInv'
      <4>1. k + 1 \in Nat /\ Len(Wire') = 2 * (k + 1)
        BY <3>6
      <4> QED
        BY <4>1 DEF EvenInv
    <3> QED
      BY <1>1, <1>4, <3>9, <3>10 DEF Stream!StreamNext
  <2>7. socket' = socket \/ socket' = socket \o <<Topic(m), Payload(m)>>
    BY <2>3 DEF SendPayload
  <2> QED
    BY <2>5, <2>6, <2>7
<1> QED
  BY <1>3, <1>4

LEMMA DispatchStreamStep ==
  ASSUME LifeInv, LifeInv', StreamInv', EvenInv, Dispatch
  PROVE  EvenInv' /\ Stream!StreamNext
<1>1. UNCHANGED <<sending, published, socket, torn>> /\ frames' = <<>>
  BY Zenon DEF Dispatch, netVars
<1>2. CASE torn
  BY <1>1, <1>2 DEF EvenInv, Stream!StreamNext
<1>3. CASE ~torn
  <2>1. PICK k \in Nat : Len(Wire) = 2 * k
    BY <1>3 DEF EvenInv
  <2>2. frames \in Seq(Frame) /\ socket \in Seq(Frame) /\ Wire \in Seq(Frame)
    BY StreamTypes
  <2>3. Wire' = socket
    BY <1>1, <2>2, ConcatEmptySeq DEF Wire
  <2>4. Len(frames) = 2
    BY DEF Dispatch, LifeInv, FramesInv
  <2>5. /\ Len(Wire) = 2 + Len(socket) /\ Len(socket) \in Nat
        /\ DOMAIN Wire = 1..(2 + Len(socket))
        /\ \A i \in DOMAIN Wire : Wire[i] = IF i <= 2 THEN frames[i] ELSE socket[i - 2]
    BY <2>4, WireFacts DEF LifeInv
  <2>6. /\ k # 0 /\ Len(socket) = 2 * k - 2
        /\ Wire[1] = frames[1]
        /\ \A i \in 1..(2 * k - 2) : socket[i] = Wire[i + 2]
    <3>1. k # 0 /\ Len(socket) = 2 * k - 2
      BY <2>1, <2>5
    <3>2. 1 \in DOMAIN Wire /\ \A i \in 1..(2 * k - 2) :
            i + 2 \in DOMAIN Wire /\ ~(i + 2 <= 2) /\ (i + 2) - 2 = i
      BY <2>5, <3>1
    <3> QED
      BY <2>5, <3>1, <3>2
  <2>7. /\ Messages(Wire) # <<>> /\ Head(Messages(Wire)) = Wire[1].msg
        /\ Messages(socket) = Tail(Messages(Wire))
    BY <2>1, <2>2, <2>6, MessagesDropped
  <2>8. /\ InTransit # <<>> /\ Head(InTransit) = frames[1].msg
        /\ InTransit' = Tail(InTransit)
    BY <2>3, <2>6, <2>7, TransitIsMessages
  <2>9. Handled' = Append(Handled, Head(InTransit))
    BY <1>3, <2>8, HandledAppended
  <2>10. Stream!Deliver
    BY <1>1, <2>8, <2>9 DEF Stream!Deliver, Sending
  <2>11. EvenInv'
    <3>1. k - 1 \in Nat /\ Len(Wire') = 2 * (k - 1)
      BY <2>3, <2>6
    <3> QED
      BY <3>1 DEF EvenInv
  <2> QED
    BY <1>1, <1>3, <2>10, <2>11 DEF Stream!StreamNext
<1> QED
  BY <1>2, <1>3

\* recv leaves the wire alone, and one that fails finds it empty.
LEMMA ReceiveStutter ==
  ASSUME LifeInv, StreamInv, EvenInv, Receive \/ ReceiveFails
  PROVE  EvenInv' /\ (Stream!StreamNext \/ UNCHANGED Stream!streamVars)
<1>1. UNCHANGED <<sending, published, torn, delivered>>
  BY Zenon DEF Receive, ReceiveFails, netVars
<1>2. CASE torn
  BY <1>1, <1>2 DEF EvenInv, Stream!StreamNext
<1>3. CASE ~torn
  <2>1. Wire' = Wire
    <3>1. CASE Receive
      BY <3>1, MoveHead DEF Wire, Receive, LifeInv, TypeOK
    <3>2. CASE ReceiveFails
      <4>1. socket = <<>> /\ Len(socket) = 0 /\ Wire' = <<>>
        BY <3>2, EmptyFacts, ConcatEmptySeq DEF Wire, ReceiveFails, netVars
      <4>2. Len(frames) <= 1 /\ Len(frames) \in Nat /\ Len(Wire) = Len(frames)
        BY <3>2, <4>1, WireFacts DEF ReceiveFails, LifeInv, FramesInv
      <4>3. PICK k \in Nat : Len(Wire) = 2 * k
        BY <1>3 DEF EvenInv
      <4>4. Len(Wire) = 0
        BY <4>2, <4>3
      <4> QED
        BY <4>1, <4>4, StreamTypes, EmptySeq
    <3> QED
      BY <3>1, <3>2
  <2>2. UNCHANGED Stream!streamVars
    BY <1>1, <2>1 DEF Stream!streamVars, Sending, InTransit, Handled, Topic, Payload
  <2> QED
    BY <1>1, <1>3, <2>1, <2>2 DEF EvenInv
<1> QED
  BY <1>2, <1>3

-----------------------------------------------------------------------------
(* The theorems *)

\* Every variable keeps its type, whatever is constructed, published, started,
\* stopped or destroyed, and in whatever order.
THEOREM PubSubTypeCorrect == Spec => []TypeOK
<1>1. LifeInv => TypeOK
  BY DEF LifeInv
<1> QED
  BY <1>1, LifeInvariance, PTL

\* The constructor looks the names up before it makes the connections of these
\* names: it gets past that only where another client has made both before.
THEOREM ConstructionNeedsNames == Spec => []ConstructionNeedsKnownNames
<1>1. LifeInv => ConstructionNeedsKnownNames
  BY DEF LifeInv, HealthInv, ConstructionNeedsKnownNames, Unbuilt
<1> QED
  BY <1>1, LifeInvariance, PTL

\* After stop, when no two calls of start or stop overlapped, there is neither a
\* thread nor a loop.
THEOREM StopIsComplete == Spec => []StoppedMeansQuiet
<1>1. LifeInv /\ ControlInv => StoppedMeansQuiet
  BY DEF LifeInv, StageInv, ControlInv, StoppedMeansQuiet
<1> QED
  BY <1>1, LifeInvariance, ControlInvariance, PTL

\* Nothing but such an overlap makes the handler terminate the program.
THEOREM TerminationNeedsOverlap == Spec => []TerminatesOnlyAfterOverlap
<1>1. ControlInv => TerminatesOnlyAfterOverlap
  BY DEF ControlInv, TerminatesOnlyAfterOverlap
<1> QED
  BY <1>1, ControlInvariance, PTL

\* Message handlers get whole messages, in the order of publication, unless one
\* publish began before another had ended or failed half-way.
THEOREM MessagesStayWhole == Spec => []WholeMessagesInOrder
<1>1. StreamInv => WholeMessagesInOrder
  BY DEF StreamInv, DeliveredInv, WholeMessagesInOrder
<1> QED
  BY <1>1, StreamInvariance, PTL

\* Publishers, network and receive loop implement the abstract stream: each of
\* their steps is one of its steps or leaves it alone.
THEOREM ImplementsStream == Spec => RefinesStream
<1>1. Init => EvenInv /\ Stream!StreamInit
  <2> SUFFICES ASSUME Init PROVE EvenInv /\ Stream!StreamInit
    OBVIOUS
  <2>1. Wire = <<>> /\ Len(Wire) = 2 * 0 /\ 0 \in Nat
    BY EmptyFacts, ConcatEmptySeq DEF Init, Wire
  <2>2. InTransit = <<>>
    <3>1. 1..(Len(Wire) \div 2) = {}
      BY <2>1
    <3> QED
      BY <3>1 DEF InTransit
  <2>3. Handled = <<>>
    BY EmptyFacts DEF Init, Handled
  <2>4. ~Sending
    BY DEF Init, Sending
  <2> QED
    BY <2>1, <2>2, <2>3, <2>4 DEF Init, EvenInv, Stream!StreamInit
<1>2. LifeInv /\ LifeInv' /\ StreamInv /\ StreamInv' /\ EvenInv /\ [Next]_vars
        => EvenInv' /\ [Stream!StreamNext]_(Stream!streamVars)
  <2> SUFFICES ASSUME LifeInv, LifeInv', StreamInv, StreamInv', EvenInv, [Next]_vars
               PROVE  EvenInv' /\ (Stream!StreamNext \/ UNCHANGED Stream!streamVars)
    OBVIOUS
  <2> USE DEF useVars, lifeVars, clientVars, netVars, loopVars
  <2>1. CASE \/ LookUp \/ LookUpThrows \/ CreatePublisher \/ CreateSubscriber
             \/ StartMonitoring \/ ConstructorThrows
             \/ \E n \in Names : OtherClientCreates(n)
    BY <2>1, StreamStutter DEF LookUp, LookUpThrows, CreatePublisher, CreateSubscriber,
       StartMonitoring, ConstructorThrows, OtherClientCreates
  <2>8. ASSUME NEW p \in Publishers, FailTopic(p)
        PROVE  EvenInv' /\ UNCHANGED Stream!streamVars
    BY <2>8, StreamStutter DEF FailTopic
  <2>2. ASSUME NEW p \in Publishers, FailPayload(p) PROVE EvenInv' /\ Stream!StreamNext
    BY <2>2 DEF FailPayload, EvenInv, Stream!StreamNext
  <2>3. CASE \/ \E t \in Range(TopicOf) : Subscribe(t)
             \/ SubscribeFails
             \/ \E h \in Handlers : SetMessageHandler(h)
    BY <2>3, StreamStutter DEF Subscribe, SubscribeFails, SetMessageHandler
  <2>4. ASSUME NEW c \in Controllers,
               Start(c) \/ LaunchFails(c) \/ Stop(c) \/ ControllerStep(c)
        PROVE  EvenInv' /\ UNCHANGED Stream!streamVars
    BY <2>4, StreamStutter DEF Start, LaunchFails, Stop, ControllerStep, LaunchThread,
       Joinable, Join
  <2>5. CASE TestRunning \/ HandlerReturns
    BY <2>5, StreamStutter DEF TestRunning, HandlerReturns
  <2>6. CASE BeginDestroy \/ OwnerStep \/ ReleaseManager
    BY <2>6, StreamStutter DEF BeginDestroy, OwnerStep, JoinListener, DestroyMembers,
       ReleaseManager
  <2>7. CASE UNCHANGED vars
    BY <2>7, StreamStutter DEF vars
  <2> QED
    BY <2>1, <2>2, <2>3, <2>4, <2>5, <2>6, <2>7, <2>8, SendTopicStep, SendPayloadStep,
       ReceiveStutter, DispatchStreamStep, Zenon DEF Next, ListenerStep
<1> QED
  BY <1>1, <1>2, LifeInvariance, StreamInvariance, PTL
     DEF Spec, RefinesStream, Stream!StreamSpec

\* The health records count every publish and every message handled, once each;
\* whoever registers the same name again makes them forget what they counted.
THEOREM CountsAreTrue == Spec => []CountsMatchTraffic
<1>1. CountInv => CountsMatchTraffic
  BY DEF CountInv
<1> QED
  BY <1>1, CountInvariance, PTL
=============================================================================
