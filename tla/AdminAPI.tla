------------------------------ MODULE AdminAPI ------------------------------
(***************************************************************************)
(* The admin API of the stop-list: AdminStopListHandler behind             *)
(* TokenAuth.Wrap, over stoplist.Service.  An administrator's goroutine    *)
(* handles one request at a time.  Add and Remove release the mutex when   *)
(* they return, and the handler writes its answer some time after that.    *)
(***************************************************************************)
EXTENDS StopListService

CONSTANTS
  Header,     \* Authorization headers as clients send them
  NoHeader,
  Bearer,     \* Bearer[h]: the token in a header, trimmed, or NotBearer
  NotBearer,
  Token,      \* values of ADMIN_TOKEN
  Blank       \* those of which strings.TrimSpace leaves nothing

ASSUME HeaderAssumption ==
  /\ NoHeader \in Header
  /\ Bearer[NoHeader] = NotBearer /\ NotBearer \notin Token
  /\ Blank \subseteq Token

VARIABLES
  token,   \* TokenAuth.token
  owed,    \* owed[p]: the answer p's goroutine has and did not write yet
  answer   \* what the last step answered, and to whom

apiVars == <<vars, token, owed, answer>>

Silent == [code |-> "none"]

Plain(p, code) == [to |-> p, code |-> code]

APIInit ==
  /\ Init
  /\ token \in Token
  /\ owed = [p \in Admin |-> Silent]
  /\ answer = Silent

-----------------------------------------------------------------------------
\* TokenAuth.Wrap: the status it answers, or "next" for the handler behind it.
Wrap(h) ==
  CASE token \in Blank                                         -> "InternalServerError"
    [] token \notin Blank /\ Bearer[h] = NotBearer             -> "Unauthorized"
    [] token \notin Blank /\ Bearer[h] \notin {token, NotBearer} -> "Forbidden"
    [] OTHER                                                   -> "next"

Authorised == \E h \in Header : Wrap(h) = "next"

\* p is free to handle a request.
Serves(p) == status = "up" /\ req[p] = NoReq /\ owed[p] = Silent

Refuse(p) ==
  /\ Serves(p)
  /\ \E h \in Header : Wrap(h) # "next" /\ answer' = Plain(p, Wrap(h))
  /\ UNCHANGED <<vars, token, owed>>

\* A body that is no JSON, or a term of which normalisation leaves nothing.
BadRequest(p) ==
  /\ Serves(p) /\ Authorised
  /\ answer' = Plain(p, "BadRequest")
  /\ UNCHANGED <<vars, token, owed>>

\* The service has given p's goroutine what it will answer.
Owes(p, a) == owed' = [owed EXCEPT ![p] = a] /\ answer' = Silent /\ UNCHANGED token

\* Terms: the snapshot the readers see, without the mutex.
List(p) ==
  /\ Serves(p) /\ Authorised
  /\ Owes(p, [to |-> p, code |-> "OK", terms |-> list.Exact])
  /\ UNCHANGED vars

Ask(p) ==
  /\ Serves(p) /\ Authorised
  /\ Request(p)
  /\ answer' = Silent /\ UNCHANGED <<token, owed>>

\* Fault: whoever adds a term is told that it is new.
statusCodeByMethod(op, changed) == IF op = "add" THEN "Created" ELSE "OK"

\* The status of an update that was made: Created if a term is new.
statusCode(op, changed) == IF op = "add" /\ changed THEN "Created" ELSE "OK"

Updated(p, changed) ==
  [to |-> p, code |-> statusCode(req[p].op, changed), term |-> req[p].term, changed |-> changed]

\* Add or Remove returns, and with that releases the mutex.
ReturnUnchanged(p) == LockNoChange(p) /\ Owes(p, Updated(p, FALSE))

ReturnChanged(p) == Publish(p) /\ Owes(p, Updated(p, TRUE))

\* writeStopListError
ReturnFailed(p) == SaveFails(p) /\ Owes(p, Plain(p, "InternalServerError"))

\* writeJSON
Answer(p) ==
  /\ owed[p] # Silent
  /\ answer' = owed[p]
  /\ owed' = [owed EXCEPT ![p] = Silent]
  /\ UNCHANGED <<vars, token>>

\* The update goes on behind the API.
Work(p) ==
  /\ LockAndSave(p) \/ SaveCreate(p) \/ SaveWrite(p) \/ SaveSync(p) \/ SaveClose(p)
     \/ SaveRename(p)
  /\ answer' = Silent /\ UNCHANGED <<token, owed>>

\* Answers that are not written die with the process.
CrashSilent ==
  /\ Crash
  /\ owed' = [p \in Admin |-> Silent]
  /\ answer' = Silent /\ UNCHANGED token

Environment == (WriteOut \/ Restart) /\ answer' = Silent /\ UNCHANGED <<token, owed>>

APINext ==
  \/ \E p \in Admin : \/ Refuse(p) \/ BadRequest(p) \/ List(p) \/ Ask(p)
                      \/ ReturnUnchanged(p) \/ ReturnChanged(p) \/ ReturnFailed(p)
                      \/ Answer(p) \/ Work(p)
  \/ CrashSilent \/ Environment

\* The fairness of the service, and of the handlers behind it.
APISpec ==
  /\ APIInit /\ [][APINext]_apiVars
  /\ Fairness /\ \A p \in Admin : WF_apiVars(Answer(p))

-----------------------------------------------------------------------------
\* What p waits for, whichever step of it the service is at.
Asked(p) ==
  IF req[p] = NoReq THEN [op |-> "none"] ELSE [op |-> req[p].op, term |-> req[p].term]

Set == INSTANCE AnsweredStopList
         WITH terms <- IF status = "up" THEN list.Exact ELSE file.terms,
              asked <- [p \in Admin |-> Asked(p)]

\* The API is linearizable and its answers are true: every update happens at
\* one instant between request and answer, `changed` and 201 say what it did at
\* that instant whatever other updates come before the answer is written, the
\* listing is the set of one instant, and an error means that nothing
\* happened.  A crash takes the answers that are not written, whether their
\* updates are made or not; of the updates that did not return yet at most one
\* is made, the one inside Save (service.go:39-55 and 64-87 under
\* admin_stoplist.go:49-94).
TellsTheTruth == Set!Spec

\* Every administrator gets an answer, or the process goes down: no path
\* through a failing Save leaves the mutex taken.
Answered ==
  \A p \in Admin : req[p] # NoReq \/ owed[p] # Silent ~> req[p] = NoReq /\ owed[p] = Silent
=============================================================================
