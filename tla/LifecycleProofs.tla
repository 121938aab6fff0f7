--------------------------- MODULE LifecycleProofs ---------------------------
(* Proofs about the start and the end of the service, for any settings and any
   number of servers. *)
EXTENDS Lifecycle, FiniteSetTheorems, TLAPS

(* The invariants on their own. *)

\* What shutdownServers has behind it is drained, unless it has noted an error.
Behind ==
  /\ main \in Starting \cup {"select"} => turn = 1
  /\ main = "drain" => closing[turn]
  /\ main \in {"close", "drain"} /\ ~failed =>
       \A s \in Server : s < turn => closing[s] /\ requests[s] = 0
  /\ result # "none" => main = "exited"

Graceful == TypeOK /\ Behind /\ GracefulIsDrained

\* Who has sent its error is gone and sends no other.
Ended == {g \in Goroutine : serving[g] = "ended"}

Counted == errors \in Nat /\ errors <= Cardinality(Ended)

\* Nothing runs, and nothing went wrong, before the goroutines are started.
Unstarted ==
  main \in Starting \ {"notify"} =>
    errors = 0 /\ \A g \in Goroutine : serving[g] = "unstarted"

\* What the start has checked already.
Checked ==
  /\ main \in {"stoplist", "kafka", "serve"} => \A s \in Setting : config[s] > 0
  /\ main = "serve" /\ KafkaEnabled => brokers # {}

Roomy == TypeOK /\ Unstarted /\ Counted

Sound == TypeOK /\ Unstarted /\ Checked /\ ServesSoundSettings

-----------------------------------------------------------------------------
\* The numbers a start goes through are integers.
LEMMA LoadedAreIntegers ==
  /\ \A env \in [Setting -> Env] : Load(env) \in [Setting -> Int]
  /\ \A c \in [Setting -> Int] : withDefaults(c) \in [Setting -> Int]
BY SettingsAssumption, LifecycleAssumption
DEF SettingsAssumption, LifecycleAssumption, Load, getIntEnv, withDefaults

\* The steps of the start and what they leave alone.
LEMMA StartTypes == TypeOK /\ (Start \/ Kill) => TypeOK'
<1> SUFFICES ASSUME TypeOK, Start \/ Kill PROVE TypeOK'
  OBVIOUS
<1> USE DEF TypeOK, Starting, settings, serverVars
<1>1. CASE LoadSettings
  BY <1>1, LoadedAreIntegers DEF LoadSettings
<1>2. CASE MakeAggregator
  BY <1>2, LoadedAreIntegers DEF MakeAggregator, Makes
<1>3. CASE MakeStopList
  BY <1>3 DEF MakeStopList, Makes
<1>4. CASE MakeConsumer
  BY <1>4 DEF MakeConsumer, Makes
<1>5. CASE Serve
  BY <1>5 DEF Serve
<1>6. CASE Notify
  BY <1>6 DEF Notify
<1>7. CASE Kill
  BY <1>7 DEF Kill
<1> QED
  BY <1>1, <1>2, <1>3, <1>4, <1>5, <1>6, <1>7 DEF Start

\* The types are kept by every step.
LEMMA TypeStep == TypeOK /\ [Next]_vars => TypeOK'
<1> SUFFICES ASSUME TypeOK, [Next]_vars PROVE TypeOK'
  OBVIOUS
<1> USE LifecycleAssumption DEF LifecycleAssumption, TypeOK, Server, mainVars, serverVars, settings
<1>1. ASSUME NEW s \in Server, Listen(s) \/ ServeFails(s) \/ ServerClosed(s) PROVE TypeOK'
  BY <1>1 DEF Listen, ServeFails, ServerClosed, Goes, Goroutine
<1>2. ASSUME NEW s \in Server, Request(s) PROVE TypeOK'
  BY <1>2 DEF Request
<1>3. ASSUME NEW s \in Server, Respond(s) PROVE TypeOK'
  BY <1>3 DEF Respond
<1>4. ASSUME NEW g \in Goroutine, Send(g) PROVE TypeOK'
  BY <1>4 DEF Send, Goes, ErrCapacity
<1>5. CASE ConsumerStops
  BY <1>5 DEF ConsumerStops, Goes
<1>6. CASE Signal
  BY <1>6 DEF Signal
<1>7. CASE SelectSignal
  BY <1>7 DEF SelectSignal
<1>8. CASE SelectError
  BY <1>8 DEF SelectError, ErrCapacity
<1>9. CASE Close
  BY <1>9 DEF Close
<1>10. CASE Drained
  BY <1>10 DEF Drained, GoOn
<1>11. CASE TimesOut
  BY <1>11 DEF TimesOut, GoOn
<1>12. CASE Deadline
  BY <1>12 DEF Deadline
<1>13. CASE UNCHANGED vars
  BY <1>13 DEF vars
<1>14. CASE Start \/ Kill
  BY <1>14, StartTypes
<1> QED
  BY <1>1, <1>2, <1>3, <1>4, <1>5, <1>6, <1>7, <1>8, <1>9, <1>10, <1>11, <1>12, <1>13, <1>14
  DEF Next, Main

LEMMA InitType == Init => TypeOK
<1> SUFFICES ASSUME Init PROVE TypeOK
  OBVIOUS
<1>1. serving \in [Goroutine -> {"unstarted", "starting", "running", "sending", "ended"}]
  BY DEF Init
<1>4. config \in [Setting -> Int] /\ brokers \subseteq Broker
  BY SettingsAssumption DEF SettingsAssumption, Init
<1>5. main \in Starting
  BY DEF Init, Starting
<1>2. 1 \in Server /\ 0 \in 0..MaxRequests /\ 0 \in 0..ErrCapacity
  BY LifecycleAssumption DEF LifecycleAssumption, Server, ErrCapacity
<1>3. closing \in [Server -> BOOLEAN] /\ requests \in [Server -> 0..MaxRequests]
  BY <1>2 DEF Init
<1> QED
  BY <1>1, <1>2, <1>3, <1>4, <1>5, Zenon DEF Init, TypeOK

\* The variables keep their types, for any number of servers.
THEOREM TypeCorrect == Spec => []TypeOK
  BY InitType, TypeStep, PTL DEF Spec

-----------------------------------------------------------------------------
LEMMA UnstartedStep == TypeOK /\ Unstarted /\ [Next]_vars => Unstarted'
<1> SUFFICES ASSUME TypeOK, Unstarted, [Next]_vars PROVE Unstarted'
  OBVIOUS
<1> USE DEF Unstarted, Starting, TypeOK, serverVars, mainVars, settings, Server
<1>1. CASE LoadSettings \/ Notify \/ Serve \/ Kill
  BY <1>1 DEF LoadSettings, Notify, Serve, Kill
<1>2. CASE MakeAggregator \/ MakeStopList \/ MakeConsumer
  BY <1>2 DEF MakeAggregator, MakeStopList, MakeConsumer, Makes
<1>3. ASSUME NEW s \in Server, Listen(s) \/ ServeFails(s) \/ ServerClosed(s) PROVE Unstarted'
  <2>1. s \in Goroutine
    BY DEF Goroutine
  <2> QED
    BY <1>3, <2>1 DEF Listen, ServeFails, ServerClosed, Goes
<1>4. ASSUME NEW s \in Server, Request(s) \/ Respond(s) PROVE Unstarted'
  BY <1>4 DEF Request, Respond
<1>5. ASSUME NEW g \in Goroutine, Send(g) PROVE Unstarted'
  BY <1>5 DEF Send, Goes
<1>6. CASE ConsumerStops
  <2>1. CASE KafkaEnabled
    BY <1>6, <2>1 DEF ConsumerStops, Goes, Goroutine
  <2>2. CASE ~KafkaEnabled
    <3>1. Kafka \notin Goroutine
      BY <2>2, LifecycleAssumption DEF LifecycleAssumption, Goroutine, Kafka
    <3> QED
      BY <1>6, <3>1 DEF ConsumerStops, Goes
  <2> QED
    BY <2>1, <2>2
<1>7. CASE Signal \/ Deadline
  BY <1>7 DEF Signal, Deadline
<1>8. CASE Main
  BY <1>8 DEF Main, SelectSignal, SelectError, Close, Drained, TimesOut, GoOn
<1>9. CASE UNCHANGED vars
  BY <1>9 DEF vars
<1> QED
  BY <1>1, <1>2, <1>3, <1>4, <1>5, <1>6, <1>7, <1>8, <1>9 DEF Next, Start

\* No negative number gets past the checks, and no zero past the defaults.
LEMMA ValidArePositive ==
  ASSUME NEW c \in [Setting -> Int], Valid(withDefaults(c))
  PROVE  \A s \in Setting : withDefaults(c)[s] > 0
<1> TAKE s \in Setting
<1>1. withDefaults(c)[s] = IF c[s] = 0 THEN Default[s] ELSE c[s]
  BY DEF withDefaults
<1>2. Default[s] \in Nat \ {0} /\ c[s] \in Int
  BY SettingsAssumption DEF SettingsAssumption
<1>3. withDefaults(c)[s] >= 0
  BY DEF Valid
<1> QED
  BY <1>1, <1>2, <1>3

\* What is served is sound, for any settings and whatever the environment says.
LEMMA SoundStep == Sound /\ [Next]_vars => Sound'
<1> SUFFICES ASSUME Sound, [Next]_vars PROVE Checked' /\ ServesSoundSettings'
  BY TypeStep, UnstartedStep DEF Sound
<1> DEFINE Same == UNCHANGED <<config, brokers>>
<1> USE DEF Sound, Unstarted, Checked, ServesSoundSettings, Starting, settings, mainVars,
            serverVars
<1>1. CASE LoadSettings
  BY <1>1 DEF LoadSettings
<1>2. CASE MakeAggregator
  <2>1. config \in [Setting -> Int]
    BY DEF TypeOK
  <2>2. Valid(config') => \A s \in Setting : config'[s] > 0
    BY <1>2, <2>1, ValidArePositive DEF MakeAggregator
  <2> QED
    BY <1>2, <2>2 DEF MakeAggregator, Makes
<1>3. CASE MakeStopList \/ MakeConsumer
  BY <1>3 DEF MakeStopList, MakeConsumer, Makes
<1>4. CASE Serve \/ Notify \/ Kill
  BY <1>4 DEF Serve, Notify, Kill
<1>5. ASSUME Same, UNCHANGED main,
             \A g \in Goroutine : serving'[g] # "unstarted" => serving[g] # "unstarted"
      PROVE  Checked' /\ ServesSoundSettings'
  BY <1>5
<1>6. ASSUME NEW s \in Server, Listen(s) \/ ServeFails(s) \/ ServerClosed(s)
      PROVE  Checked' /\ ServesSoundSettings'
  BY <1>5, <1>6 DEF Listen, ServeFails, ServerClosed, Goes, TypeOK
<1>7. ASSUME NEW g \in Goroutine, Send(g) PROVE Checked' /\ ServesSoundSettings'
  BY <1>5, <1>7 DEF Send, Goes, TypeOK
<1>8. CASE ConsumerStops
  BY <1>5, <1>8 DEF ConsumerStops, Goes, TypeOK
<1>9. ASSUME NEW s \in Server, Request(s) \/ Respond(s) PROVE Checked' /\ ServesSoundSettings'
  BY <1>9 DEF Request, Respond
<1>10. CASE Signal \/ Deadline
  BY <1>10 DEF Signal, Deadline
<1>11. CASE Main
  BY <1>11 DEF Main, SelectSignal, SelectError, Close, Drained, TimesOut, GoOn
<1>12. CASE UNCHANGED vars
  BY <1>12 DEF vars
<1> QED
  BY <1>1, <1>2, <1>3, <1>4, <1>6, <1>7, <1>8, <1>9, <1>10, <1>11, <1>12 DEF Next, Start

\* The service serves only under settings its parts can work with, whatever
\* numbers and texts the environment holds.
THEOREM SettingsAreSound == Spec => []ServesSoundSettings
<1>1. Init => Sound
  BY InitType DEF Sound, Init, Unstarted, Checked, ServesSoundSettings
<1>2. Sound => ServesSoundSettings
  BY DEF Sound
<1> QED
  BY <1>1, <1>2, SoundStep, PTL DEF Spec

-----------------------------------------------------------------------------
\* What is drained stays drained, and an error noted stays noted.
LEMMA GracefulStep == Graceful /\ [Next]_vars => Graceful'
<1> SUFFICES ASSUME Graceful, [Next]_vars PROVE Behind' /\ GracefulIsDrained'
  BY TypeStep DEF Graceful
<1> USE LifecycleAssumption DEF LifecycleAssumption, Graceful, TypeOK, Server, Behind,
                                GracefulIsDrained, mainVars, serverVars,
                                settings, Starting
<1>1. ASSUME NEW s \in Server, Listen(s) \/ ServeFails(s) \/ ServerClosed(s)
      PROVE Behind' /\ GracefulIsDrained'
  BY <1>1 DEF Listen, ServeFails, ServerClosed
<1>2. ASSUME NEW s \in Server, Request(s) PROVE Behind' /\ GracefulIsDrained'
  BY <1>2 DEF Request, Alive
<1>3. ASSUME NEW s \in Server, Respond(s) PROVE Behind' /\ GracefulIsDrained'
  BY <1>3 DEF Respond, Alive
<1>4. ASSUME NEW g \in Goroutine, Send(g) PROVE Behind' /\ GracefulIsDrained'
  BY <1>4 DEF Send
<1>5. CASE ConsumerStops
  BY <1>5 DEF ConsumerStops
<1>6. CASE Signal
  BY <1>6 DEF Signal
<1>7. CASE SelectSignal
  BY <1>7 DEF SelectSignal
<1>8. CASE SelectError
  BY <1>8 DEF SelectError
<1>9. CASE Close
  BY <1>9 DEF Close
<1>10. CASE Drained
  BY <1>10 DEF Drained, Closed, GoOn
<1>11. CASE TimesOut
  BY <1>11 DEF TimesOut, Closed, GoOn
<1>12. CASE Deadline
  BY <1>12 DEF Deadline
<1>13. CASE UNCHANGED vars
  BY <1>13 DEF vars
<1>14. CASE LoadSettings \/ Serve \/ Notify \/ Kill
  BY <1>14 DEF LoadSettings, Serve, Notify, Kill
<1>15. CASE MakeAggregator \/ MakeStopList \/ MakeConsumer
  BY <1>15 DEF MakeAggregator, MakeStopList, MakeConsumer, Makes
<1> QED
  BY <1>1, <1>2, <1>3, <1>4, <1>5, <1>6, <1>7, <1>8, <1>9, <1>10, <1>11, <1>12, <1>13, <1>14, <1>15
  DEF Next, Main, Start

\* run says that it stopped gracefully only when every server is drained, for
\* any number of servers drained one after the other.
THEOREM GracefulStaysDrained == Spec => []GracefulIsDrained
<1>1. Init => Graceful
  BY InitType, LifecycleAssumption
  DEF LifecycleAssumption, Graceful, Init, Behind, GracefulIsDrained, Server, Starting
<1>2. Graceful => GracefulIsDrained
  BY DEF Graceful
<1> QED
  BY <1>1, <1>2, GracefulStep, PTL DEF Spec

-----------------------------------------------------------------------------
LEMMA GoroutinesFinite ==
  IsFiniteSet(Goroutine) /\ Cardinality(Goroutine) <= ServerCount + 1
<1>1. Goroutine \subseteq 0..ServerCount
  BY LifecycleAssumption DEF LifecycleAssumption, Goroutine, Server, Kafka
<1>2. IsFiniteSet(0..ServerCount) /\ Cardinality(0..ServerCount) = ServerCount + 1
  BY FS_Interval, LifecycleAssumption DEF LifecycleAssumption
<1> QED
  BY <1>1, <1>2, FS_Subset

LEMMA EndedFinite == IsFiniteSet(Ended) /\ Cardinality(Ended) \in Nat
  BY GoroutinesFinite, FS_Subset, FS_CardinalityType DEF Ended

\* The goroutines that have ended are counted by those that sent an error.
LEMMA CountedStep == Roomy /\ [Next]_vars => Roomy'
<1> SUFFICES ASSUME Roomy, [Next]_vars PROVE Counted'
  BY TypeStep, UnstartedStep DEF Roomy
<1>1. TypeOK /\ TypeOK' /\ errors \in Nat /\ errors' \in Nat
  BY TypeStep DEF Roomy, TypeOK, ErrCapacity
<1>2. IsFiniteSet(Ended) /\ IsFiniteSet(Ended') /\ Cardinality(Ended) \in Nat
  <2>1. IsFiniteSet(Ended')
    BY GoroutinesFinite, FS_Subset DEF Ended
  <2> QED
    BY <2>1, EndedFinite
<1>3. ASSUME Ended \subseteq Ended', errors' <= errors PROVE Counted'
  <2>1. Cardinality(Ended) <= Cardinality(Ended') /\ Cardinality(Ended') \in Nat
    BY <1>2, <1>3, FS_Subset, FS_CardinalityType
  <2> QED
    BY <1>1, <1>2, <1>3, <2>1 DEF Counted, Roomy
<1>4. ASSUME NEW g \in Goroutine, Send(g) PROVE Counted'
  <2>1. g \notin Ended /\ Ended' = Ended \cup {g}
    BY <1>1, <1>4 DEF Send, Goes, Ended, TypeOK
  <2>2. Cardinality(Ended') = Cardinality(Ended) + 1
    BY <1>2, <2>1, FS_AddElement
  <2> QED
    BY <1>1, <1>2, <1>4, <2>2 DEF Counted, Roomy, Send
<1>5. ASSUME NEW s \in Server, Listen(s) \/ ServeFails(s) \/ ServerClosed(s) PROVE Counted'
  <2>1. Ended \subseteq Ended' /\ errors' = errors
    BY <1>1, <1>5 DEF Listen, ServeFails, ServerClosed, Goes, Ended, TypeOK
  <2> QED
    BY <1>1, <1>3, <2>1
<1>6. CASE ConsumerStops
  <2>1. Ended \subseteq Ended' /\ errors' = errors
    BY <1>1, <1>6 DEF ConsumerStops, Goes, Ended, TypeOK
  <2> QED
    BY <1>1, <1>3, <2>1
<1>7. ASSUME serving' = serving, errors' <= errors PROVE Counted'
  BY <1>3, <1>7 DEF Ended
<1>8. ASSUME serving' = serving, errors' = errors PROVE Counted'
  BY <1>1, <1>7, <1>8
<1>9. CASE SelectError
  BY <1>1, <1>7, <1>9 DEF SelectError, serverVars
<1>10. ASSUME NEW s \in Server, Request(s) \/ Respond(s) PROVE Counted'
  BY <1>8, <1>10 DEF Request, Respond
<1>11. CASE Signal \/ SelectSignal \/ Deadline \/ Close
  BY <1>8, <1>11 DEF Signal, SelectSignal, Deadline, Close, serverVars
<1>12. CASE Drained \/ TimesOut
  BY <1>8, <1>12 DEF Drained, TimesOut, GoOn, serverVars
<1>13. CASE UNCHANGED vars
  BY <1>8, <1>13 DEF vars, serverVars
<1>14. CASE Serve
  <2>1. errors' = 0 /\ Cardinality(Ended') \in Nat
    BY <1>2, <1>14, FS_CardinalityType DEF Serve, Roomy, Unstarted, Starting
  <2> QED
    BY <2>1 DEF Counted
<1>15. CASE LoadSettings \/ Notify \/ Kill
  BY <1>8, <1>15 DEF LoadSettings, Notify, Kill, serverVars
<1>16. CASE MakeAggregator \/ MakeStopList \/ MakeConsumer
  BY <1>8, <1>16 DEF MakeAggregator, MakeStopList, MakeConsumer, Makes, serverVars
<1> QED
  BY <1>4, <1>5, <1>6, <1>9, <1>10, <1>11, <1>12, <1>13, <1>14, <1>15, <1>16 DEF Next, Main, Start

\* As long as errCh has room for every goroutine that was given it, none that
\* has an error waits for run to read.
THEOREM SendersNeverWait ==
  ASSUME ServerCount + 1 <= ErrCapacity
  PROVE  Spec => []NoSenderWaits
<1>1. Init => Roomy
  <2>1. Cardinality(Ended) \in Nat
    BY EndedFinite
  <2> QED
    BY <2>1, InitType DEF Roomy, Unstarted, Counted, Init
<1>2. Roomy => NoSenderWaits
  <2> SUFFICES ASSUME Roomy, NEW g \in Goroutine, serving[g] = "sending" PROVE errors < ErrCapacity
    BY DEF NoSenderWaits
  <2>1. g \notin Ended /\ Ended \cup {g} \subseteq Goroutine
    BY DEF Ended
  <2>2. Cardinality(Ended \cup {g}) = Cardinality(Ended) + 1
    BY <2>1, EndedFinite, FS_AddElement
  <2>3. Cardinality(Ended \cup {g}) <= Cardinality(Goroutine) /\ Cardinality(Goroutine) \in Nat
    BY <2>1, GoroutinesFinite, FS_Subset, FS_CardinalityType
  <2> QED
    BY <2>2, <2>3, EndedFinite, GoroutinesFinite, LifecycleAssumption
    DEF LifecycleAssumption, Roomy, Counted, ErrCapacity
<1> QED
  BY <1>1, <1>2, CountedStep, PTL DEF Spec
=============================================================================
