-------------------------- MODULE StopListService --------------------------
(***************************************************************************)
(* stoplist.Service over a FileStore: administrators add and remove terms  *)
(* under one mutex; an update is written to a temporary file, synced,      *)
(* renamed over the stop-list file and then published to the readers,      *)
(* which take no lock.  Every step of Save may fail, and the process may   *)
(* crash between any two steps and start again from the file.  If          *)
(* PowerLoss is TRUE the machine may go down with the process: a file that *)
(* was not synced may be torn, and the directory may come back with any    *)
(* entry it had since it was last written out (Save syncs the file, not    *)
(* the directory).                                                         *)
(***************************************************************************)
EXTENDS StopTerms, Naturals, FiniteSets

CONSTANTS
  Admin,       \* the goroutines that serve the admin API
  NoAdmin,
  PowerLoss,   \* whether the machine may fail, too
  MaxUpdates,  \* bound: updates begun
  MaxCrashes   \* bound: crashes

ASSUME ServiceAssumption ==
  /\ NoAdmin \notin Admin
  /\ PowerLoss \in BOOLEAN
  /\ MaxUpdates \in Nat /\ MaxCrashes \in Nat

VARIABLES
  file,     \* the file at STOPLIST_PATH
  entries,  \* the directory entries a power loss may bring back
  temp,     \* temp[p]: the temporary file of p's Save
  list,     \* StopList.current, the snapshot readers load
  mu,       \* the owner of Service.mu
  req,      \* req[p]: the update p performs and where it stands
  status,   \* "up", "down" (crashed), "failed" (NewService returned an error)
  settled,  \* history: what the last acknowledged update says of a term
  updates, crashes

vars == <<file, entries, temp, list, mu, req, status, settled, updates, crashes>>

NoFile == [kind |-> "none", terms |-> {}, synced |-> TRUE]

Torn == [kind |-> "torn", terms |-> {}, synced |-> TRUE]

Payload(terms, synced) == [kind |-> "json", terms |-> terms, synced |-> synced]

Saving == {"create", "write", "sync", "close", "rename"}

NoReq == [pc |-> "idle"]

Req(pc, op, term) == [pc |-> pc, op |-> op, term |-> term]

At(p, pc) == req[p].pc = pc

Goes(p, pc) == req' = [req EXCEPT ![p] = Req(pc, @.op, @.term)]

\* FileStore.Load: no file is an empty list.
Load(f) == Normalized(f.terms)

Init ==
  /\ file = NoFile /\ entries = {NoFile}
  /\ temp = [p \in Admin |-> NoFile]
  /\ list = buildSnapshot(Load(NoFile))
  /\ mu = NoAdmin
  /\ req = [p \in Admin |-> NoReq]
  /\ status = "up"
  /\ settled = [t \in Term |-> "out"]
  /\ updates = 0 /\ crashes = 0

\* Add and Remove answer a text without a normal form at once, with an error.
Request(p) ==
  /\ status = "up" /\ req[p] = NoReq /\ updates < MaxUpdates
  /\ \E op \in {"add", "remove"}, text \in Text :
       /\ Normalize[text] # NoText
       /\ req' = [req EXCEPT ![p] = Req("lock", op, Normalize[text])]
       /\ settled' = [settled EXCEPT ![Normalize[text]] = "open"]
  /\ updates' = updates + 1
  /\ UNCHANGED <<file, entries, temp, list, mu, status, crashes>>

\* The update of p is acknowledged: Add or Remove returns nil.  Another update of the same term that is
\* under way leaves open which of the two comes last.
Acknowledge(p) ==
  LET r == req[p]
      rivals == {q \in Admin \ {p} : req[q] # NoReq /\ req[q].term = r.term}
  IN  /\ req' = [req EXCEPT ![p] = NoReq]
      /\ settled' = IF rivals # {} THEN settled
                    ELSE [settled EXCEPT ![r.term] = IF r.op = "add" THEN "in" ELSE "out"]

\* There is nothing to change: the mutex is taken and released.
Unchanged(p) == (req[p].op = "add") = (req[p].term \in list.Exact)

LockNoChange(p) ==
  /\ At(p, "lock") /\ mu = NoAdmin
  /\ Unchanged(p)
  /\ Acknowledge(p)
  /\ UNCHANGED <<file, entries, temp, list, mu, status, updates, crashes>>

\* Fault: an update does not wait for the mutex.
LockAndSaveShared(p) ==
  /\ At(p, "lock")
  /\ ~ Unchanged(p)
  /\ mu' = p
  /\ Goes(p, "create")
  /\ UNCHANGED <<file, entries, temp, list, status, settled, updates, crashes>>

LockAndSave(p) ==
  /\ At(p, "lock") /\ mu = NoAdmin
  /\ ~ Unchanged(p)
  /\ mu' = p
  /\ Goes(p, "create")
  /\ UNCHANGED <<file, entries, temp, list, status, settled, updates, crashes>>

\* The terms after the update; the list does not change while p has the mutex.
NextTerms(p) ==
  IF req[p].op = "add" THEN list.Exact \cup {req[p].term}
  ELSE list.Exact \ {req[p].term}

SaveCreate(p) ==
  /\ At(p, "create") /\ Goes(p, "write")
  /\ temp' = [temp EXCEPT ![p] = Payload({}, FALSE)]
  /\ UNCHANGED <<file, entries, list, mu, status, settled, updates, crashes>>

SaveWrite(p) ==
  /\ At(p, "write") /\ Goes(p, "sync")
  /\ temp' = [temp EXCEPT ![p] = Payload(Normalized(NextTerms(p)), FALSE)]
  /\ UNCHANGED <<file, entries, list, mu, status, settled, updates, crashes>>

\* Fault: the file is not synced before it is renamed.
SaveUnsynced(p) ==
  /\ At(p, "sync") /\ Goes(p, "close")
  /\ UNCHANGED <<file, entries, temp, list, mu, status, settled, updates, crashes>>

SaveSync(p) ==
  /\ At(p, "sync") /\ Goes(p, "close")
  /\ temp' = [temp EXCEPT ![p] = Payload(@.terms, TRUE)]
  /\ UNCHANGED <<file, entries, list, mu, status, settled, updates, crashes>>

SaveClose(p) ==
  /\ At(p, "close") /\ Goes(p, "rename")
  /\ UNCHANGED <<file, entries, temp, list, mu, status, settled, updates, crashes>>

SaveRename(p) ==
  /\ At(p, "rename") /\ Goes(p, "publish")
  /\ file' = temp[p] /\ entries' = entries \cup {temp[p]}
  /\ temp' = [temp EXCEPT ![p] = NoFile]
  /\ UNCHANGED <<list, mu, status, settled, updates, crashes>>

\* Fault: the error returns without releasing the mutex.
SaveFailsLocked(p) ==
  /\ req[p].pc \in Saving
  /\ temp' = [temp EXCEPT ![p] = NoFile]
  /\ req' = [req EXCEPT ![p] = NoReq]
  /\ UNCHANGED <<file, entries, list, mu, status, settled, updates, crashes>>

\* Fault: the terms are published although they could not be saved.
SaveFailsPublished(p) ==
  /\ req[p].pc \in Saving
  /\ temp' = [temp EXCEPT ![p] = NoFile]
  /\ list' = buildSnapshot(NextTerms(p))
  /\ mu' = NoAdmin
  /\ req' = [req EXCEPT ![p] = NoReq]
  /\ UNCHANGED <<file, entries, status, settled, updates, crashes>>

\* Fault: the administrator is not told that the save failed.
SaveFailsAnswered(p) ==
  /\ req[p].pc \in Saving
  /\ temp' = [temp EXCEPT ![p] = NoFile]
  /\ mu' = NoAdmin
  /\ Acknowledge(p)
  /\ UNCHANGED <<file, entries, list, status, updates, crashes>>

\* Any step of Save fails: the temporary file is removed, the administrator
\* gets an error, nothing is published.
SaveFails(p) ==
  /\ req[p].pc \in Saving
  /\ temp' = [temp EXCEPT ![p] = NoFile]
  /\ mu' = NoAdmin
  /\ req' = [req EXCEPT ![p] = NoReq]
  /\ UNCHANGED <<file, entries, list, status, settled, updates, crashes>>

\* Replace publishes the new terms, the mutex is released, the update is
\* acknowledged.
Publish(p) ==
  /\ At(p, "publish")
  /\ list' = buildSnapshot(NextTerms(p))
  /\ mu' = NoAdmin
  /\ Acknowledge(p)
  /\ UNCHANGED <<file, entries, temp, status, updates, crashes>>

\* The operating system writes the directory out.
WriteOut ==
  /\ PowerLoss /\ entries # {file}
  /\ entries' = {file}
  /\ UNCHANGED <<file, temp, list, mu, req, status, settled, updates, crashes>>

\* What may be left of a file after a power loss.
Remains(f) == IF f.synced THEN {f} ELSE {f, Torn}

Crash ==
  /\ status = "up" /\ crashes < MaxCrashes
  /\ status' = "down" /\ crashes' = crashes + 1
  /\ IF PowerLoss THEN \E f \in UNION {Remains(e) : e \in entries} :
                         file' = f /\ entries' = {f}
     ELSE UNCHANGED <<file, entries>>
  /\ temp' = [p \in Admin |-> NoFile]
  /\ list' = buildSnapshot({})
  /\ mu' = NoAdmin
  /\ req' = [p \in Admin |-> NoReq]
  /\ UNCHANGED <<settled, updates>>

\* NewService: the file is loaded, or it cannot be read and run returns.
Restart ==
  /\ status = "down"
  /\ IF file.kind = "torn" THEN status' = "failed" /\ UNCHANGED list
     ELSE status' = "up" /\ list' = buildSnapshot(Load(file))
  /\ UNCHANGED <<file, entries, temp, mu, req, settled, updates, crashes>>

Lock(p) == LockNoChange(p) \/ LockAndSave(p)

Save(p) ==
  \/ SaveCreate(p) \/ SaveWrite(p) \/ SaveSync(p) \/ SaveClose(p) \/ SaveRename(p)
  \/ SaveFails(p)

Next ==
  \/ \E p \in Admin : Request(p) \/ Lock(p) \/ Save(p) \/ Publish(p)
  \/ WriteOut \/ Crash \/ Restart

Spec == Init /\ [][Next]_vars

\* A goroutine that can run does, and sync.Mutex lets no waiter starve.
Fairness ==
  \A p \in Admin : SF_vars(Lock(p)) /\ WF_vars(Save(p)) /\ WF_vars(Publish(p))

FairSpec == Spec /\ Fairness

-----------------------------------------------------------------------------
FileType == [kind : {"none", "json", "torn"}, terms : SUBSET Term, synced : BOOLEAN]

ReqType ==
  {NoReq} \cup [pc : {"lock", "publish"} \cup Saving, op : {"add", "remove"}, term : Term]

\* The owner of the mutex is the one administrator inside Save or between the
\* rename and the publication.
MutexHeld == \A p \in Admin : req[p].pc \in Saving \cup {"publish"} <=> mu = p

\* Types: only normal forms are on disk, in the list and in requests.
TypeOK ==
  /\ file \in FileType /\ entries \subseteq FileType
  /\ temp \in [Admin -> FileType]
  /\ list.Exact \subseteq Term
  /\ mu \in Admin \cup {NoAdmin}
  /\ req \in [Admin -> ReqType]
  /\ status \in {"up", "down", "failed"}
  /\ settled \in [Term -> {"in", "out", "open"}]
  /\ MutexHeld

\* Readers never see a stop-list that is not on disk: except between a
\* rename and the publication that follows it, the published terms are those
\* of the file, after failed saves and restarts too.
PublishedIsSaved ==
  (status = "up" /\ \A p \in Admin : req[p].pc # "publish") => list.Exact = file.terms

\* An acknowledged update lasts, through other updates, failed saves, crashes
\* and restarts: unless an update of the same term is under way or was cut
\* short, a term last added is in the file and every text of that normal form
\* is matched, and a term last removed is in neither file nor list.
SettledHolds ==
  \A t \in Term :
    /\ settled[t] = "in" => t \in file.terms
    /\ settled[t] = "in" /\ status = "up" =>
         \A text \in Text : Normalize[text] = t => Contains(list, text)
    /\ settled[t] = "out" => t \notin file.terms
    /\ settled[t] = "out" /\ status = "up" => t \notin list.Exact

\* Whatever happens to process and machine, the service starts again: the
\* file it finds is one whole payload.
StartsAgain == status # "failed"

\* The file is an atomic set of terms: no update is lost to a concurrent
\* one, none is half done.
File == INSTANCE AtomicStopList WITH terms <- file.terms
AtomicFile == File!Spec
=============================================================================
