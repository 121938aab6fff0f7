----------------------------- MODULE Lifecycle -----------------------------
(***************************************************************************)
(* run in main.go.  It loads the settings and makes the parts, each of     *)
(* which may fail; then it starts two HTTP servers and the Kafka consumer, *)
(* with a channel for what goes wrong with them, and waits for the signal  *)
(* that ends the service; shutdownServers drains the servers one after the *)
(* other under one deadline.  http.Server is external: it is modelled by   *)
(* what ListenAndServe and Shutdown do.                                    *)
(***************************************************************************)
EXTENDS Settings

CONSTANTS
  ServerCount,   \* shutdownServers' list: 1 is the public server, 2 the admin's
  KafkaEnabled,
  Env,           \* what the environment may hold for a number
  MaxRequests    \* bound: requests in flight at one server

ASSUME LifecycleAssumption ==
  /\ ServerCount \in Nat \ {0}
  /\ KafkaEnabled \in BOOLEAN
  /\ \A raw \in Env : raw.kind = "integer" => raw.value \in Int
  /\ MaxRequests \in Nat

Server == 1..ServerCount

Kafka == 0

\* The goroutines that were given errCh.
Goroutine == Server \cup IF KafkaEnabled THEN {Kafka} ELSE {}

VARIABLES
  config,     \* the numbers
  brokers,    \* ConsumerConfig.Brokers
  serving,    \* serving[g]: where goroutine g stands
  closing,    \* closing[s]: Shutdown was called on server s
  requests,   \* requests[s]: requests that s is handling
  errors,     \* errors in errCh
  signal,     \* a signal is in signalCh, which holds one
  cancelled,  \* rootCtx
  late,       \* shutdownCtx has expired
  main,       \* where run stands
  turn,       \* the server shutdownServers is at
  failed,     \* shutdownErr # nil
  result      \* what run returned

settings == <<config, brokers>>
serverVars == <<serving, closing, requests>>
mainVars == <<cancelled, late, main, turn, failed, result>>
vars == <<settings, serverVars, errors, signal, mainVars>>

\* Fault: room for the first error only.
ErrCapacityOne == 1

ErrCapacity == 3

Init ==
  /\ config = Default /\ brokers = {}
  /\ serving = [g \in Goroutine |-> "unstarted"]
  /\ closing = [s \in Server |-> FALSE]
  /\ requests = [s \in Server |-> 0]
  /\ errors = 0
  /\ signal = FALSE /\ cancelled = FALSE /\ late = FALSE
  /\ main = "load" /\ turn = 1
  /\ failed = FALSE /\ result = "none"

\* When run has returned, the process and its goroutines are gone.
Alive == main # "exited"

Goes(g, from, to) == Alive /\ serving[g] = from /\ serving' = [serving EXCEPT ![g] = to]

-----------------------------------------------------------------------------
(* The start *)

LoadSettings ==
  /\ main = "load" /\ main' = "aggregator"
  /\ \E env \in [Setting -> Env] : config' = Load(env)
  /\ brokers' \in SUBSET Broker      \* getCSVEnv skips blanks: none may be left
  /\ UNCHANGED <<serverVars, errors, signal, cancelled, late, turn, failed, result>>

\* A part is made, or its error is what run returns.
Makes(part, next, sound) ==
  /\ main = part
  /\ IF sound THEN main' = next /\ UNCHANGED result
     ELSE main' = "exited" /\ result' = "error"
  /\ UNCHANGED <<brokers, serverVars, errors, signal, cancelled, late, turn, failed>>

\* aggregator.New
MakeAggregator ==
  /\ config' = withDefaults(config)
  /\ Makes("aggregator", "stoplist", Valid(config'))

\* stoplist.NewService reads the file (module StopListService); the refresher
\* starts behind it.
MakeStopList ==
  /\ \E read \in BOOLEAN : Makes("stoplist", "kafka", read)
  /\ UNCHANGED config

\* kafka.NewConsumer, which looks at its configuration and makes a client.
MakeConsumer ==
  /\ IF KafkaEnabled
     THEN \E made \in BOOLEAN : Makes("kafka", "serve", brokers # {} /\ made)
     ELSE Makes("kafka", "serve", TRUE)
  /\ UNCHANGED config

\* errCh is made and the goroutines are started.
Serve ==
  /\ main = "serve" /\ main' = "notify"
  /\ serving' = [g \in Goroutine |-> IF g = Kafka THEN "running" ELSE "starting"]
  /\ UNCHANGED <<settings, closing, requests, errors, signal, cancelled, late, turn,
                 failed, result>>

\* signal.Notify
Notify ==
  /\ main = "notify" /\ main' = "select"
  /\ UNCHANGED <<settings, serverVars, errors, signal, cancelled, late, turn, failed, result>>

Starting == {"load", "aggregator", "stoplist", "kafka", "serve", "notify"}

\* Before that, a signal ends the process where it stands.
Kill ==
  /\ main \in Starting
  /\ main' = "exited" /\ result' = "killed"
  /\ UNCHANGED <<settings, serverVars, errors, signal, cancelled, late, turn, failed>>

-----------------------------------------------------------------------------
(* The goroutines *)

Listen(s) ==
  /\ Goes(s, "starting", "running") /\ ~closing[s]
  /\ UNCHANGED <<settings, closing, requests, errors, signal, mainVars>>

\* ListenAndServe cannot listen, or its listener breaks.
ServeFails(s) ==
  /\ ~closing[s]
  /\ Goes(s, "starting", "sending") \/ Goes(s, "running", "sending")
  /\ UNCHANGED <<settings, closing, requests, errors, signal, mainVars>>

\* ErrServerClosed: serveHTTP just returns, before Shutdown does.
ServerClosed(s) ==
  /\ closing[s]
  /\ Goes(s, "starting", "ended") \/ Goes(s, "running", "ended")
  /\ UNCHANGED <<settings, closing, requests, errors, signal, mainVars>>

\* serveKafka: Run returns nil once its context is cancelled, and no error ever.
ConsumerStops ==
  /\ cancelled
  /\ Goes(Kafka, "running", "ended")
  /\ UNCHANGED <<settings, closing, requests, errors, signal, mainVars>>

\* Fault: the error is logged only.
SendLogged(g) ==
  /\ Goes(g, "sending", "ended")
  /\ UNCHANGED <<settings, closing, requests, errors, signal, mainVars>>

\* errCh <- err
Send(g) ==
  /\ Goes(g, "sending", "ended") /\ errors < ErrCapacity
  /\ errors' = errors + 1
  /\ UNCHANGED <<settings, closing, requests, signal, mainVars>>

Request(s) ==
  /\ Alive /\ serving[s] = "running" /\ ~closing[s]
  /\ requests[s] < MaxRequests
  /\ requests' = [requests EXCEPT ![s] = @ + 1]
  /\ UNCHANGED <<settings, serving, closing, errors, signal, mainVars>>

Respond(s) ==
  /\ Alive /\ requests[s] > 0
  /\ requests' = [requests EXCEPT ![s] = @ - 1]
  /\ UNCHANGED <<settings, serving, closing, errors, signal, mainVars>>

-----------------------------------------------------------------------------
(* run *)

\* SIGINT or SIGTERM; signalCh is full when one waits.
Signal ==
  /\ Alive /\ main \notin Starting /\ ~signal
  /\ signal' = TRUE
  /\ UNCHANGED <<settings, serverVars, errors, mainVars>>

\* case <-signalCh: cancelRoot, and shutdownServers begins.
SelectSignal ==
  /\ main = "select" /\ signal
  /\ signal' = FALSE
  /\ cancelled' = TRUE /\ main' = "close"
  /\ UNCHANGED <<settings, serverVars, errors, late, turn, failed, result>>

\* case err := <-errCh: run returns it, whatever the servers are doing.
SelectError ==
  /\ main = "select" /\ errors > 0
  /\ errors' = errors - 1
  /\ cancelled' = TRUE /\ main' = "exited" /\ result' = "error"
  /\ UNCHANGED <<settings, serverVars, signal, late, turn, failed>>

\* The timeout of shutdownCtx, which all servers share.
Deadline ==
  /\ main \in {"close", "drain"} /\ ~late
  /\ late' = TRUE
  /\ UNCHANGED <<settings, serverVars, errors, signal, cancelled, main, turn, failed, result>>

\* http.Server.Shutdown closes the listener ...
Close ==
  /\ main = "close"
  /\ closing' = [closing EXCEPT ![turn] = TRUE]
  /\ main' = "drain"
  /\ UNCHANGED <<settings, serving, requests, errors, signal, cancelled, late, turn, failed, result>>

\* Fault: a step beyond the last server.
GoOnBeyond(f) ==
  /\ failed' = f /\ turn' = turn + 1
  /\ IF turn < ServerCount
     THEN main' = "close" /\ UNCHANGED result
     ELSE main' = "exited" /\ result' = (IF f THEN "error" ELSE "nil")
  /\ UNCHANGED <<settings, serverVars, errors, signal, cancelled, late>>

\* shutdownServers goes on to the next server, or run returns.
GoOn(f) ==
  /\ failed' = f
  /\ IF turn < ServerCount
     THEN turn' = turn + 1 /\ main' = "close" /\ UNCHANGED result
     ELSE main' = "exited" /\ result' = (IF f THEN "error" ELSE "nil") /\ UNCHANGED turn
  /\ UNCHANGED <<settings, serverVars, errors, signal, cancelled, late>>

\* ... waits until Serve has let go of it ...
Closed == main = "drain" /\ serving[turn] # "running"

\* Fault: the last server's error is the error.
DrainedClean ==
  /\ Closed /\ requests[turn] = 0
  /\ GoOn(FALSE)

\* ... and until no request is left, which it looks at before the deadline ...
Drained ==
  /\ Closed /\ requests[turn] = 0
  /\ GoOn(failed)

\* Fault: the second server gets a deadline of its own that never comes.
TimesOutOnce ==
  /\ Closed /\ requests[turn] > 0 /\ late /\ turn = 1
  /\ GoOn(TRUE)

\* ... or gives up.  The next server is asked all the same.
TimesOut ==
  /\ Closed /\ requests[turn] > 0 /\ late
  /\ GoOn(TRUE)

Start ==
  LoadSettings \/ MakeAggregator \/ MakeStopList \/ MakeConsumer \/ Serve \/ Notify

Main == SelectSignal \/ SelectError \/ Close \/ Drained \/ TimesOut

Next ==
  \/ \E s \in Server : Listen(s) \/ ServeFails(s) \/ ServerClosed(s) \/ Request(s) \/ Respond(s)
  \/ \E g \in Goroutine : Send(g)
  \/ ConsumerStops
  \/ Start \/ Kill
  \/ Signal \/ Main \/ Deadline

\* Goroutines run and the deadline comes; no request need ever end, and
\* nothing says that a server fails or a signal is sent.
Fairness ==
  /\ WF_vars(Start) /\ WF_vars(Main) /\ WF_vars(Deadline)
  /\ \A s \in Server : WF_vars(ServerClosed(s))
  /\ \A g \in Goroutine : WF_vars(Send(g))

Spec == Init /\ [][Next]_vars /\ Fairness

-----------------------------------------------------------------------------
\* The variables have their types: no more errors in errCh than it holds, and
\* shutdownServers stays within its list.
TypeOK ==
  /\ config \in [Setting -> Int] /\ brokers \subseteq Broker
  /\ serving \in [Goroutine -> {"unstarted", "starting", "running", "sending", "ended"}]
  /\ closing \in [Server -> BOOLEAN]
  /\ requests \in [Server -> 0..MaxRequests]
  /\ errors \in 0..ErrCapacity
  /\ signal \in BOOLEAN /\ cancelled \in BOOLEAN /\ late \in BOOLEAN /\ failed \in BOOLEAN
  /\ main \in Starting \cup {"select", "close", "drain", "exited"}
  /\ turn \in Server
  /\ result \in {"none", "nil", "error", "killed"}

\* Whatever the environment says, nothing is served under settings that other
\* parts cannot work with: what window and shards take for granted (the
\* ConfigAssumption of module WindowConfig) holds behind two levels of
\* defaults and two sets of checks, and the consumer has a broker to ask
\* (config.go:75, aggregator.go:31, window.go:60, kafka/config.go:18).
ServesSoundSettings ==
  \A g \in Goroutine :
    serving[g] # "unstarted" =>
      (\A s \in Setting : config[s] > 0) /\ (KafkaEnabled => brokers # {})

\* "service stopped gracefully" (main.go:183) is true: no request is in
\* flight at any server then, none can come, and none was given up, though
\* the servers are closed one after the other and the later ones go on
\* taking requests meanwhile.
GracefulIsDrained ==
  result = "nil" => ~failed /\ \A s \in Server : closing[s] /\ requests[s] = 0

\* A goroutine that has an error for errCh never waits for run to read one:
\* run reads one at most, and none any more once it shuts down (main.go:137).
NoSenderWaits ==
  \A g \in Goroutine : serving[g] = "sending" => errors < ErrCapacity

\* A signal ends the service, though requests may hang on every server and
\* the servers share one deadline (main.go:176).
SignalEnds == signal /\ main = "select" ~> main = "exited"

\* So does the failure of any server, whenever it happens (main.go:169).
FailureEnds == \A s \in Server : serving[s] = "sending" ~> main = "exited"
=============================================================================
