--------------------------- MODULE StopListProofs ---------------------------
(***************************************************************************)
(* Proofs about StopListService and AdminAPI, for any administrators and   *)
(* terms and any number of updates and crashes.  Two invariants: Durable   *)
(* holds whatever the machine does and says that what a power loss may     *)
(* leave was synced; Saved, for crashes of the process alone, ties the     *)
(* published terms, the file and the update in progress together.  The     *)
(* answers of the API follow from Saved.                                   *)
(***************************************************************************)
EXTENDS AdminAPI, TLAPS

Safe(f) == f.synced /\ f.kind # "torn"

Synced ==
  /\ entries # {}
  /\ Safe(file) /\ \A e \in entries : Safe(e)
  /\ \A p \in Admin : req[p].pc \in {"close", "rename"} => Safe(temp[p])
  /\ \A p \in Admin : req[p].pc \in {"sync", "close", "rename"} => temp[p].kind = "json"
  /\ status # "failed"

Durable == TypeOK /\ Synced

-----------------------------------------------------------------------------
\* Normalising normal forms changes nothing: what Save and Load and
\* buildSnapshot do to terms that were normalised before.
LEMMA Renormalized ==
  ASSUME NEW S \in SUBSET Term
  PROVE  Normalized(S) = S
<1>1. \A t \in S : Normalize[t] = t /\ t # NoText
  BY TextAssumption DEF Term
<1> QED
  BY <1>1 DEF Normalized

LEMMA SnapshotOfTerms ==
  ASSUME NEW S \in SUBSET Term
  PROVE  buildSnapshot(S).Exact = S
BY Renormalized DEF buildSnapshot

LEMMA Files ==
  /\ NoFile \in FileType /\ Torn \in FileType
  /\ Safe(NoFile)
  /\ \A S \in SUBSET Term, b \in BOOLEAN : Payload(S, b) \in FileType
BY DEF NoFile, Torn, FileType, Safe, Payload

\* A request is idle or has its three fields, and moves on with two of them.
LEMMA Requests ==
  /\ NoReq \in ReqType /\ NoReq.pc = "idle"
  /\ \A r \in ReqType : \/ r = NoReq
                        \/ /\ r.pc \in {"lock", "publish"} \cup Saving /\ r # NoReq
                           /\ r.op \in {"add", "remove"} /\ r.term \in Term
  /\ \A pc \in {"lock", "publish"} \cup Saving, op \in {"add", "remove"}, t \in Term :
       /\ Req(pc, op, t) \in ReqType
       /\ Req(pc, op, t).pc = pc /\ Req(pc, op, t).op = op /\ Req(pc, op, t).term = t
       /\ Req(pc, op, t) # NoReq
<1>1. \A pc \in {"lock", "publish"} \cup Saving : pc # "idle"
  BY DEF Saving
<1>2. \A r \in [pc : {"lock", "publish"} \cup Saving, op : {"add", "remove"}, term : Term] :
        /\ r.pc \in {"lock", "publish"} \cup Saving
        /\ r.op \in {"add", "remove"} /\ r.term \in Term
  OBVIOUS
<1>3. NoReq.pc = "idle"
  BY DEF NoReq
<1>4. \A pc \in {"lock", "publish"} \cup Saving, op \in {"add", "remove"}, t \in Term :
       /\ Req(pc, op, t) \in [pc : {"lock", "publish"} \cup Saving,
                              op : {"add", "remove"}, term : Term]
       /\ Req(pc, op, t).pc = pc /\ Req(pc, op, t).op = op /\ Req(pc, op, t).term = t
  BY DEF Req
<1>5. \A r \in ReqType : r = NoReq \/ (r.pc # "idle" /\ r.pc \in {"lock", "publish"} \cup Saving
                              /\ r.op \in {"add", "remove"} /\ r.term \in Term)
  BY <1>1, <1>2 DEF ReqType
<1>6. \A r \in ReqType : r.pc # "idle" => r # NoReq
  BY <1>3
<1>7. NoReq \in ReqType
  BY DEF ReqType
<1>8. \A pc \in {"lock", "publish"} \cup Saving, op \in {"add", "remove"}, t \in Term :
        Req(pc, op, t) \in ReqType
  BY <1>4 DEF ReqType
<1>9. \A pc \in {"lock", "publish"} \cup Saving, op \in {"add", "remove"}, t \in Term :
        Req(pc, op, t) # NoReq
  BY <1>1, <1>3, <1>4
<1> QED
  BY <1>3, <1>4, <1>5, <1>6, <1>7, <1>8, <1>9

\* What an administrator may be in the middle of.
LEMMA NextTermsTyped ==
  ASSUME TypeOK, NEW p \in Admin, req[p] # NoReq
  PROVE  NextTerms(p) \in SUBSET Term
BY Requests DEF TypeOK, NextTerms

\* An administrator that is not idle moves on or is done; the others stay.
LEMMA Moves ==
  ASSUME req \in [Admin -> ReqType], NEW p \in Admin
  PROVE  /\ \A pc \in {"lock", "publish"} \cup Saving : req[p] # NoReq /\ Goes(p, pc) =>
              /\ req' \in [Admin -> ReqType]
              /\ req'[p].pc = pc /\ req'[p].op = req[p].op /\ req'[p].term = req[p].term
              /\ req'[p] # NoReq /\ \A q \in Admin : q # p => req'[q] = req[q]
         /\ req' = [req EXCEPT ![p] = NoReq] =>
              /\ req' \in [Admin -> ReqType] /\ req'[p] = NoReq /\ req'[p].pc = "idle"
              /\ \A q \in Admin : q # p => req'[q] = req[q]
<1>1. ASSUME NEW pc \in {"lock", "publish"} \cup Saving, req[p] # NoReq, Goes(p, pc)
      PROVE  /\ req' \in [Admin -> ReqType]
             /\ req'[p].pc = pc /\ req'[p].op = req[p].op /\ req'[p].term = req[p].term
             /\ req'[p] # NoReq /\ \A q \in Admin : q # p => req'[q] = req[q]
  <2>1. req[p].op \in {"add", "remove"} /\ req[p].term \in Term
    BY <1>1, Requests
  <2> DEFINE r == Req(pc, req[p].op, req[p].term)
  <2>2. /\ r \in ReqType /\ r # NoReq
        /\ r.pc = pc /\ r.op = req[p].op /\ r.term = req[p].term
    BY <2>1, Requests
  <2>3. req' = [req EXCEPT ![p] = r]
    BY <1>1 DEF Goes
  <2> QED
    BY <2>2, <2>3
<1>2. ASSUME req' = [req EXCEPT ![p] = NoReq]
      PROVE  /\ req' \in [Admin -> ReqType] /\ req'[p] = NoReq /\ req'[p].pc = "idle"
             /\ \A q \in Admin : q # p => req'[q] = req[q]
  BY <1>2, Requests
<1> QED
  BY <1>1, <1>2

LEMMA Acknowledged ==
  ASSUME TypeOK, NEW p \in Admin, req[p] # NoReq, Acknowledge(p)
  PROVE  /\ req' \in [Admin -> ReqType] /\ req'[p] = NoReq /\ req'[p].pc = "idle"
         /\ \A q \in Admin : q # p => req'[q] = req[q]
         /\ settled' \in [Term -> {"in", "out", "open"}]
<1>1. req' = [req EXCEPT ![p] = NoReq]
  BY DEF Acknowledge
<1>2. settled' \in [Term -> {"in", "out", "open"}]
  BY Requests DEF Acknowledge, TypeOK
<1> QED
  BY <1>1, <1>2, Moves DEF TypeOK

LEMMA InitDurable == Init => Durable
<1> SUFFICES ASSUME Init PROVE Durable
  OBVIOUS
<1>1. Load(NoFile) = {}
  BY Renormalized DEF Load, NoFile
<1>2. list.Exact = {}
  BY <1>1, SnapshotOfTerms DEF Init
<1>3. \A p \in Admin : req[p].pc = "idle" /\ mu # p
  BY Requests, ServiceAssumption DEF Init
<1>4. TypeOK
  BY <1>2, <1>3, Files, Requests DEF Init, TypeOK, MutexHeld, Saving
<1> QED
  BY <1>3, <1>4, Files DEF Init, Durable, Synced

LEMMA TypeStep ==
  ASSUME TypeOK, [Next]_vars
  PROVE  TypeOK'
<1>a. /\ "idle" \notin Saving /\ "lock" \notin Saving /\ "publish" \notin Saving
      /\ {"create", "write", "sync", "close", "rename"} \subseteq Saving
  BY DEF Saving
<1>b. \A p \in Admin : req[p].pc # "idle" => req[p] # NoReq
  BY Requests
<1>1. ASSUME NEW p \in Admin, Request(p) PROVE TypeOK'
  <2>1. PICK op \in {"add", "remove"}, text \in Text :
          /\ Normalize[text] # NoText
          /\ req' = [req EXCEPT ![p] = Req("lock", op, Normalize[text])]
          /\ settled' = [settled EXCEPT ![Normalize[text]] = "open"]
    BY <1>1 DEF Request
  <2>2. Normalize[text] \in Term
    BY <2>1 DEF Term
  <2> DEFINE r == Req("lock", op, Normalize[text])
  <2>3. r \in ReqType /\ r.pc = "lock"
    BY <2>2, Requests
  <2>4. req' = [req EXCEPT ![p] = r]
    BY <2>1
  <2>5. req' \in [Admin -> ReqType] /\ settled' \in [Term -> {"in", "out", "open"}]
    BY <2>1, <2>3, <2>4 DEF TypeOK
  <2>6. MutexHeld'
    BY <1>1, <1>a, <2>3, <2>4, Requests DEF Request, TypeOK, MutexHeld
  <2> QED
    BY <1>1, <2>5, <2>6 DEF Request, TypeOK
<1>2. ASSUME NEW p \in Admin, LockNoChange(p) PROVE TypeOK'
  <2>1. MutexHeld'
    BY <1>2, <1>a, <1>b, Acknowledged DEF LockNoChange, At, TypeOK, MutexHeld
  <2> QED
    BY <1>2, <1>b, <2>1, Acknowledged DEF LockNoChange, At, TypeOK
<1>3. ASSUME NEW p \in Admin, LockAndSave(p) PROVE TypeOK'
  <2>1. MutexHeld' /\ req' \in [Admin -> ReqType]
    BY <1>3, <1>a, <1>b, Moves, ServiceAssumption DEF LockAndSave, At, TypeOK, MutexHeld
  <2> QED
    BY <1>3, <2>1 DEF LockAndSave, TypeOK
<1>4. ASSUME NEW p \in Admin, Save(p) PROVE TypeOK'
  <2>1. req[p].pc \in Saving /\ req[p] # NoReq /\ mu = p
    BY <1>4, <1>a, <1>b DEF Save, SaveCreate, SaveWrite, SaveSync, SaveClose, SaveRename,
       SaveFails, At, TypeOK, MutexHeld
  <2>2. CASE SaveCreate(p)
    <3>1. MutexHeld' /\ req' \in [Admin -> ReqType]
      BY <2>1, <2>2, <1>a, Moves DEF SaveCreate, TypeOK, MutexHeld
    <3> QED
      BY <2>2, <3>1, Files DEF SaveCreate, TypeOK
  <2>3. CASE SaveWrite(p)
    <3>1. MutexHeld' /\ req' \in [Admin -> ReqType]
      BY <2>1, <2>3, <1>a, Moves DEF SaveWrite, TypeOK, MutexHeld
    <3>2. Normalized(NextTerms(p)) \in SUBSET Term
      BY <2>1, NextTermsTyped, Renormalized
    <3> QED
      BY <2>3, <3>1, <3>2, Files DEF SaveWrite, TypeOK
  <2>4. CASE SaveSync(p)
    <3>1. MutexHeld' /\ req' \in [Admin -> ReqType]
      BY <2>1, <2>4, <1>a, Moves DEF SaveSync, TypeOK, MutexHeld
    <3>2. temp[p].terms \in SUBSET Term
      BY DEF TypeOK, FileType
    <3> QED
      BY <2>4, <3>1, <3>2, Files DEF SaveSync, TypeOK
  <2>5. CASE SaveClose(p)
    <3>1. MutexHeld' /\ req' \in [Admin -> ReqType]
      BY <2>1, <2>5, <1>a, Moves DEF SaveClose, TypeOK, MutexHeld
    <3> QED
      BY <2>5, <3>1 DEF SaveClose, TypeOK
  <2>6. CASE SaveRename(p)
    <3>1. MutexHeld' /\ req' \in [Admin -> ReqType]
      BY <2>1, <2>6, <1>a, Moves DEF SaveRename, TypeOK, MutexHeld
    <3> QED
      BY <2>6, <3>1, Files DEF SaveRename, TypeOK
  <2>7. CASE SaveFails(p)
    <3>1. MutexHeld' /\ req' \in [Admin -> ReqType]
      BY <2>1, <2>7, <1>a, Moves, ServiceAssumption DEF SaveFails, TypeOK, MutexHeld
    <3> QED
      BY <2>7, <3>1, Files DEF SaveFails, TypeOK
  <2> QED
    BY <1>4, <2>2, <2>3, <2>4, <2>5, <2>6, <2>7 DEF Save
<1>5. ASSUME NEW p \in Admin, Publish(p) PROVE TypeOK'
  <2>1. req[p] # NoReq /\ mu = p
    BY <1>5, <1>b DEF Publish, At, TypeOK, MutexHeld
  <2>2. list'.Exact \subseteq Term
    BY <1>5, <2>1, NextTermsTyped, SnapshotOfTerms DEF Publish
  <2>3. MutexHeld'
    BY <1>5, <1>a, <2>1, Acknowledged, ServiceAssumption DEF Publish, TypeOK, MutexHeld
  <2> QED
    BY <1>5, <2>1, <2>2, <2>3, Acknowledged DEF Publish, TypeOK
<1>6. CASE WriteOut
  BY <1>6 DEF WriteOut, TypeOK, MutexHeld
<1>7. CASE Crash
  <2>1. file' \in FileType /\ entries' \subseteq FileType
    BY <1>7, Files DEF Crash, TypeOK, Remains
  <2>2. list'.Exact = {}
    BY <1>7, SnapshotOfTerms DEF Crash
  <2>3. MutexHeld'
    BY <1>7, <1>a, Requests, ServiceAssumption DEF Crash, MutexHeld
  <2> QED
    BY <1>7, <2>1, <2>2, <2>3, Files, Requests DEF Crash, TypeOK
<1>8. CASE Restart
  <2>1. file.terms \in SUBSET Term
    BY DEF TypeOK, FileType
  <2>2. Load(file) = file.terms
    BY <2>1, Renormalized DEF Load
  <2>3. list'.Exact \subseteq Term
    BY <1>8, <2>1, <2>2, SnapshotOfTerms DEF Restart, TypeOK
  <2> QED
    BY <1>8, <2>3 DEF Restart, TypeOK, MutexHeld
<1>9. CASE UNCHANGED vars
  BY <1>9 DEF vars, TypeOK, MutexHeld
<1> QED
  BY <1>1, <1>2, <1>3, <1>4, <1>5, <1>6, <1>7, <1>8, <1>9 DEF Next, Lock

LEMMA DurableStep ==
  ASSUME Durable, [Next]_vars
  PROVE  Durable'
<1>t. TypeOK /\ TypeOK'
  BY TypeStep DEF Durable
<1>a. /\ "idle" \notin Saving /\ "lock" \notin Saving /\ "publish" \notin Saving
      /\ {"create", "write", "sync", "close", "rename"} \subseteq Saving
  BY DEF Saving
<1>b. \A p \in Admin : req[p].pc # "idle" => req[p] # NoReq
  BY Requests
<1>p. \A S, b : Payload(S, b).kind = "json" /\ Payload(S, b).synced = b
  BY DEF Payload
<1>n. \A p \in Admin : "idle" \notin {"sync", "close", "rename"}
  OBVIOUS
<1>1. ASSUME NEW p \in Admin, Request(p) PROVE Synced'
  <2>1. PICK op \in {"add", "remove"}, text \in Text :
          /\ Normalize[text] # NoText
          /\ req' = [req EXCEPT ![p] = Req("lock", op, Normalize[text])]
    BY <1>1 DEF Request
  <2>2. req'[p].pc = "lock" /\ \A q \in Admin : q # p => req'[q] = req[q]
    BY <1>t, <2>1, Requests DEF TypeOK, Term
  <2> QED
    BY <1>1, <1>t, <2>2 DEF Request, Durable, Synced
<1>2. ASSUME NEW p \in Admin, LockNoChange(p) PROVE Synced'
  BY <1>2, <1>t, <1>b, Acknowledged DEF LockNoChange, At, Durable, Synced
<1>3. ASSUME NEW p \in Admin, LockAndSave(p) PROVE Synced'
  BY <1>3, <1>t, <1>a, <1>b, Moves DEF LockAndSave, At, Durable, Synced, TypeOK
<1>4. ASSUME NEW p \in Admin, Save(p) PROVE Synced'
  <2>1. req[p].pc \in Saving /\ req[p] # NoReq
    BY <1>4, <1>a, <1>b DEF Save, SaveCreate, SaveWrite, SaveSync, SaveClose, SaveRename,
       SaveFails, At
  <2>2. \A q \in Admin : q # p => req[q].pc \notin Saving
    BY <1>t, <2>1 DEF TypeOK, MutexHeld
  <2>3. \A pc \in Saving \cup {"publish"} : Goes(p, pc) =>
           req'[p].pc = pc /\ \A q \in Admin : q # p => req'[q] = req[q]
    BY <1>t, <2>1, Moves DEF TypeOK
  <2>4. CASE SaveCreate(p)
    <3>1. req'[p].pc = "write" /\ \A q \in Admin : q # p => req'[q].pc \notin Saving
      BY <1>a, <2>2, <2>3, <2>4 DEF SaveCreate
    <3> QED
      BY <1>a, <2>4, <3>1 DEF SaveCreate, Durable, Synced
  <2>5. CASE SaveWrite(p)
    <3>1. req'[p].pc = "sync" /\ \A q \in Admin : q # p => req'[q].pc \notin Saving
      BY <1>a, <2>2, <2>3, <2>5 DEF SaveWrite
    <3>2. temp'[p].kind = "json"
      BY <1>t, <1>p, <2>5 DEF SaveWrite, TypeOK
    <3> QED
      BY <1>a, <2>5, <3>1, <3>2 DEF SaveWrite, Durable, Synced
  <2>6. CASE SaveSync(p)
    <3>1. req'[p].pc = "close" /\ \A q \in Admin : q # p => req'[q].pc \notin Saving
      BY <1>a, <2>2, <2>3, <2>6 DEF SaveSync
    <3>2. temp'[p].kind = "json" /\ temp'[p].synced
      BY <1>t, <1>p, <2>6 DEF SaveSync, TypeOK
    <3> QED
      BY <1>a, <2>6, <3>1, <3>2 DEF SaveSync, Durable, Synced, Safe
  <2>7. CASE SaveClose(p)
    <3>1. req'[p].pc = "rename" /\ \A q \in Admin : q # p => req'[q].pc \notin Saving
      BY <1>a, <2>2, <2>3, <2>7 DEF SaveClose
    <3> QED
      BY <1>a, <2>7, <3>1 DEF SaveClose, At, Durable, Synced
  <2>8. CASE SaveRename(p)
    <3>1. req'[p].pc = "publish" /\ \A q \in Admin : q # p => req'[q].pc \notin Saving
      BY <1>a, <2>2, <2>3, <2>8 DEF SaveRename
    <3>2. Safe(temp[p])
      BY <2>8 DEF SaveRename, At, Durable, Synced
    <3> QED
      BY <1>a, <2>8, <3>1, <3>2 DEF SaveRename, Durable, Synced
  <2>9. CASE SaveFails(p)
    <3>1. req'[p].pc = "idle" /\ \A q \in Admin : q # p => req'[q].pc \notin Saving
      BY <1>t, <2>2, <2>9, Moves DEF SaveFails, TypeOK
    <3> QED
      BY <1>a, <2>9, <3>1 DEF SaveFails, Durable, Synced
  <2> QED
    BY <1>4, <2>4, <2>5, <2>6, <2>7, <2>8, <2>9 DEF Save
<1>5. ASSUME NEW p \in Admin, Publish(p) PROVE Synced'
  BY <1>5, <1>t, <1>b, Acknowledged DEF Publish, At, Durable, Synced
<1>6. CASE WriteOut
  BY <1>6, <1>t DEF WriteOut, Durable, Synced
<1>7. CASE Crash
  <2>1. \A e \in entries : Remains(e) = {e}
    BY DEF Durable, Synced, Safe, Remains
  <2>2. Safe(file') /\ entries' # {} /\ \A e \in entries' : Safe(e)
    BY <1>7, <2>1 DEF Crash, Durable, Synced
  <2>3. \A p \in Admin : req'[p].pc = "idle"
    BY <1>7, Requests DEF Crash
  <2> QED
    BY <1>7, <1>t, <2>2, <2>3 DEF Crash, Durable, Synced
<1>8. CASE Restart
  BY <1>8, <1>t DEF Restart, Durable, Synced, Safe
<1>9. CASE UNCHANGED vars
  BY <1>9, <1>t DEF vars, Durable, Synced, TypeOK
<1> QED
  BY <1>1, <1>2, <1>3, <1>4, <1>5, <1>6, <1>7, <1>8, <1>9, <1>t DEF Next, Lock, Durable

\* In every reachable state the stop-list service is well-typed and its mutex
\* belongs to the one update between its lock and its publication.
THEOREM TypeCorrect == Spec => []TypeOK
<1>1. Durable => TypeOK
  BY DEF Durable
<1> QED
  BY <1>1, InitDurable, DurableStep, PTL DEF Spec

\* A crash of the process or of the machine never leaves a file the service
\* cannot start from: Save syncs the temporary file before it renames it.
THEOREM AlwaysStarts == Spec => []StartsAgain
<1>1. Durable => StartsAgain
  BY DEF Durable, Synced, StartsAgain
<1> QED
  BY <1>1, InitDurable, DurableStep, PTL DEF Spec

-----------------------------------------------------------------------------
\* From here on only the process crashes.  The file and the list agree but
\* for the update between its rename and its publication, and what that
\* update, and every other under way, concerns is not settled.
Agree ==
  /\ PublishedIsSaved
  /\ status # "up" => \A p \in Admin : req[p] = NoReq
  /\ \A p \in Admin : req[p].pc = "publish" => file.terms = NextTerms(p)
  /\ \A p \in Admin : req[p].pc \in {"sync", "close", "rename"} => temp[p].terms = NextTerms(p)
  /\ \A p \in Admin : req[p].pc \in Saving \cup {"publish"} => ~ Unchanged(p)

Open == \A p \in Admin : req[p] # NoReq => settled[req[p].term] = "open"

OnDisk == \A t \in Term : /\ settled[t] = "in" => t \in file.terms
                          /\ settled[t] = "out" => t \notin file.terms

Saved == TypeOK /\ Agree /\ Open /\ OnDisk

LEMMA SavedSettles == Saved => SettledHolds
<1> SUFFICES ASSUME Saved, NEW t \in Term
             PROVE  /\ settled[t] = "in" => t \in file.terms
                    /\ settled[t] = "in" /\ status = "up" =>
                         \A text \in Text : Normalize[text] = t => Contains(list, text)
                    /\ settled[t] = "out" => t \notin file.terms
                    /\ settled[t] = "out" /\ status = "up" => t \notin list.Exact
  BY DEF SettledHolds
<1>1. t # NoText
  BY DEF Term
<1>2. status = "up" /\ settled[t] # "open" => (t \in list.Exact <=> t \in file.terms)
  <2>1. CASE \A p \in Admin : req[p].pc # "publish"
    BY <2>1 DEF Saved, Agree, PublishedIsSaved
  <2>2. ASSUME NEW p \in Admin, req[p].pc = "publish"
        PROVE  settled[t] # "open" => (t \in list.Exact <=> t \in file.terms)
    <3>1. req[p] # NoReq
      BY <2>2, Requests
    <3>2. settled[t] # "open" => t # req[p].term
      BY <3>1 DEF Saved, Open
    <3> QED
      BY <2>2, <3>2 DEF Saved, Agree, NextTerms
  <2> QED
    BY <2>1, <2>2
<1>3. \A text \in Text : Normalize[text] = t /\ t \in list.Exact => Contains(list, text)
  BY <1>1 DEF Contains, ContainsNormalized
<1>4. (settled[t] = "in" => t \in file.terms) /\ (settled[t] = "out" => t \notin file.terms)
  BY DEF Saved, OnDisk
<1>5. status = "up" => /\ settled[t] = "in" => t \in list.Exact
                       /\ settled[t] = "out" => t \notin list.Exact
  BY <1>2, <1>4
<1>6. settled[t] = "in" /\ status = "up" =>
        \A text \in Text : Normalize[text] = t => Contains(list, text)
  BY <1>3, <1>5
<1> QED
  BY <1>4, <1>5, <1>6

\* An acknowledgement settles what the file says.
LEMMA AcknowledgedSettles ==
  ASSUME TypeOK, Open, OnDisk, NEW p \in Admin, req[p] # NoReq, Acknowledge(p), file' = file,
         (req[p].op = "add") = (req[p].term \in file.terms)
  PROVE  Open' /\ OnDisk'
<1>1. /\ req'[p] = NoReq
      /\ \A q \in Admin : q # p => req'[q] = req[q]
  BY Acknowledged
<1> DEFINE rivals == {q \in Admin \ {p} : req[q] # NoReq /\ req[q].term = req[p].term}
<1>2. req[p].term \in Term
  BY Requests DEF TypeOK
<1>3. settled' = IF rivals # {} THEN settled
                 ELSE [settled EXCEPT ![req[p].term] = IF req[p].op = "add" THEN "in" ELSE "out"]
  BY DEF Acknowledge
<1>4. CASE rivals # {}
  BY <1>1, <1>3, <1>4 DEF Open, OnDisk
<1>5. CASE rivals = {}
  <2>1. \A q \in Admin : req'[q] # NoReq => q # p /\ req[q] # NoReq /\ req[q].term # req[p].term
    BY <1>1, <1>5
  <2>2. /\ settled'[req[p].term] = IF req[p].op = "add" THEN "in" ELSE "out"
        /\ \A t \in Term : t # req[p].term => settled'[t] = settled[t]
    BY <1>2, <1>3, <1>5 DEF TypeOK
  <2>3. \A q \in Admin : req[q] # NoReq => req[q].term \in Term
    BY Requests DEF TypeOK
  <2>4. Open'
    BY <1>1, <2>1, <2>2, <2>3 DEF Open
  <2>5. OnDisk'
    BY <2>2 DEF OnDisk
  <2> QED
    BY <2>4, <2>5
<1> QED
  BY <1>4, <1>5

LEMMA InitSaved == Init => Saved
<1> SUFFICES ASSUME Init PROVE Saved
  OBVIOUS
<1>1. Load(NoFile) = {}
  BY Renormalized DEF Load, NoFile
<1>2. list.Exact = {} /\ file.terms = {}
  BY <1>1, SnapshotOfTerms DEF Init, NoFile
<1>3. \A p \in Admin : req[p].pc = "idle" /\ req[p] = NoReq
  BY Requests DEF Init
<1>4. TypeOK
  BY InitDurable DEF Durable
<1>5. "idle" \notin Saving
  BY DEF Saving
<1> QED
  BY <1>2, <1>3, <1>4, <1>5 DEF Init, Saved, Agree, Open, OnDisk, PublishedIsSaved

LEMMA SavedStep ==
  ASSUME PowerLoss = FALSE, Saved, [Next]_vars
  PROVE  Saved'
<1>t. TypeOK /\ TypeOK'
  BY TypeStep DEF Saved
<1>a. /\ "idle" \notin Saving /\ "lock" \notin Saving /\ "publish" \notin Saving
      /\ {"create", "write", "sync", "close", "rename"} \subseteq Saving
  BY DEF Saving
<1>b. \A p \in Admin : req[p].pc # "idle" => req[p] # NoReq
  BY Requests
<1>u. \A p \in Admin : req[p] # NoReq => status = "up"
  BY DEF Saved, Agree
<1>r. \A p \in Admin : req[p] # NoReq => req[p].term \in Term
  BY <1>t, Requests DEF TypeOK
<1>c. mu = NoAdmin => \A p \in Admin : req[p].pc \notin Saving \cup {"publish"}
  BY <1>t, ServiceAssumption DEF TypeOK, MutexHeld
<1>1. ASSUME NEW p \in Admin, Request(p) PROVE Agree' /\ Open' /\ OnDisk'
  <2>1. PICK op \in {"add", "remove"}, text \in Text :
          /\ Normalize[text] # NoText
          /\ req' = [req EXCEPT ![p] = Req("lock", op, Normalize[text])]
          /\ settled' = [settled EXCEPT ![Normalize[text]] = "open"]
    BY <1>1 DEF Request
  <2> DEFINE t == Normalize[text]
  <2>2. /\ t \in Term
        /\ req'[p].pc = "lock" /\ req'[p].term = t
        /\ \A q \in Admin : q # p => req'[q] = req[q]
    BY <1>t, <2>1, Requests DEF TypeOK, Term
  <2>3. settled'[t] = "open" /\ \A u \in Term : u # t => settled'[u] = settled[u]
    BY <1>t, <2>1, <2>2 DEF TypeOK
  <2>4. /\ status = "up" /\ status' = status /\ file' = file /\ list' = list /\ temp' = temp
        /\ req[p] = NoReq
    BY <1>1 DEF Request
  <2>5. Open'
    BY <1>r, <2>2, <2>3 DEF Saved, Open
  <2>6. OnDisk'
    BY <2>3, <2>4 DEF Saved, OnDisk
  <2>7. \A q \in Admin : req'[q].pc \in Saving \cup {"publish"} =>
           q # p /\ req'[q] = req[q] /\ NextTerms(q)' = NextTerms(q)
           /\ Unchanged(q)' = Unchanged(q)
    BY <1>a, <2>2, <2>4 DEF NextTerms, Unchanged
  <2>8. (\A q \in Admin : req'[q].pc # "publish") => \A q \in Admin : req[q].pc # "publish"
    BY <2>2, <2>4, Requests
  <2>9. Agree'
    BY <1>a, <2>4, <2>7, <2>8 DEF Saved, Agree, PublishedIsSaved
  <2> QED
    BY <2>5, <2>6, <2>9
<1>2. ASSUME NEW p \in Admin, LockNoChange(p) PROVE Agree' /\ Open' /\ OnDisk'
  <2>1. /\ req[p] # NoReq /\ Acknowledge(p) /\ status = "up"
        /\ status' = status /\ file' = file /\ list' = list /\ temp' = temp
    <3>1. req[p].pc = "lock"
      BY <1>2 DEF LockNoChange, At
    <3>2. req[p] # NoReq /\ status = "up"
      BY <1>b, <1>u, <3>1
    <3> QED
      BY <1>2, <3>2 DEF LockNoChange
  <2>2. \A q \in Admin : /\ req'[q].pc \notin Saving \cup {"publish"}
                        /\ req[q].pc \notin Saving \cup {"publish"}
    BY <1>2, <1>a, <1>c, <2>1, <1>t, Acknowledged DEF LockNoChange
  <2>3. list.Exact = file.terms
    BY <2>1, <2>2 DEF Saved, Agree, PublishedIsSaved
  <2>4. (req[p].op = "add") = (req[p].term \in file.terms)
    BY <1>2, <2>3 DEF LockNoChange, Unchanged
  <2>5. Open' /\ OnDisk'
    BY <1>t, <2>1, <2>4, AcknowledgedSettles DEF Saved
  <2>6. Agree'
    BY <1>a, <2>1, <2>2, <2>3 DEF Agree, PublishedIsSaved
  <2> QED
    BY <2>5, <2>6
<1>3. ASSUME NEW p \in Admin, LockAndSave(p) PROVE Agree' /\ Open' /\ OnDisk'
  <2>1. /\ req[p].pc = "lock" /\ req[p] # NoReq /\ Goes(p, "create") /\ status = "up"
        /\ status' = status /\ file' = file /\ list' = list /\ settled' = settled
        /\ ~ Unchanged(p)
    <3>1. req[p].pc = "lock"
      BY <1>3 DEF LockAndSave, At
    <3>2. req[p] # NoReq /\ status = "up"
      BY <1>b, <1>u, <3>1
    <3> QED
      BY <1>3, <3>1, <3>2 DEF LockAndSave
  <2>2. /\ req'[p].pc = "create" /\ req'[p].op = req[p].op /\ req'[p].term = req[p].term
        /\ \A q \in Admin : q # p => req'[q] = req[q]
    BY <1>t, <1>a, <2>1, Moves DEF TypeOK
  <2>3. \A q \in Admin : req[q].pc \notin Saving \cup {"publish"}
    BY <1>3, <1>c DEF LockAndSave
  <2>4. list.Exact = file.terms
    BY <2>1, <2>3 DEF Saved, Agree, PublishedIsSaved
  <2>5. Open' /\ OnDisk'
    BY <2>1, <2>2 DEF Saved, Open, OnDisk
  <2>6. Agree'
    BY <1>a, <2>1, <2>2, <2>3, <2>4 DEF Agree, PublishedIsSaved, Unchanged
  <2> QED
    BY <2>5, <2>6
<1>4. ASSUME NEW p \in Admin, Save(p) PROVE Agree' /\ Open' /\ OnDisk'
  <2>1. /\ req[p].pc \in Saving /\ req[p] # NoReq /\ mu = p /\ status = "up"
        /\ status' = status /\ list' = list /\ settled' = settled
    <3>1. req[p].pc \in Saving
      BY <1>4, <1>a DEF Save, SaveCreate, SaveWrite, SaveSync, SaveClose, SaveRename, SaveFails, At
    <3>2. req[p] # NoReq /\ status = "up" /\ mu = p
      BY <1>a, <1>b, <1>t, <1>u, <3>1 DEF TypeOK, MutexHeld
    <3>3. status' = status /\ list' = list /\ settled' = settled
      BY <1>4 DEF Save, SaveCreate, SaveWrite, SaveSync, SaveClose, SaveRename, SaveFails
    <3> QED
      BY <3>1, <3>2, <3>3
  <2>2. \A q \in Admin : q # p => req[q].pc \notin Saving \cup {"publish"}
    BY <1>t, <2>1 DEF TypeOK, MutexHeld
  <2>3. list.Exact = file.terms
    BY <1>a, <2>1, <2>2 DEF Saved, Agree, PublishedIsSaved
  <2>4. \A pc \in Saving \cup {"publish"} : Goes(p, pc) =>
          /\ req'[p].pc = pc /\ req'[p].op = req[p].op /\ req'[p].term = req[p].term
          /\ \A q \in Admin : q # p => req'[q] = req[q]
    BY <1>t, <2>1, Moves DEF TypeOK
  <2>5. ~ Unchanged(p) /\ NextTerms(p) \in SUBSET Term
    BY <1>t, <2>1, NextTermsTyped DEF Saved, Agree
  <2>6. ASSUME NEW pc \in Saving \cup {"publish"}, Goes(p, pc)
        PROVE  Open' /\ NextTerms(p)' = NextTerms(p) /\ ~ Unchanged(p)'
    <3>1. Open'
      BY <2>1, <2>4, <2>6 DEF Saved, Open
    <3>2. NextTerms(p)' = NextTerms(p) /\ Unchanged(p)' = Unchanged(p)
      BY <2>1, <2>4, <2>6 DEF NextTerms, Unchanged
    <3> QED
      BY <2>5, <3>1, <3>2
  <2>7. ASSUME NEW pc \in Saving, Goes(p, pc), file' = file,
               pc \in {"sync", "close", "rename"} => temp'[p].terms = NextTerms(p)
        PROVE  Agree' /\ Open' /\ OnDisk'
    <3>1. /\ req'[p].pc = pc /\ \A q \in Admin : q # p => req'[q].pc \notin Saving \cup {"publish"}
      BY <2>2, <2>4, <2>7
    <3>2. Open' /\ NextTerms(p)' = NextTerms(p) /\ ~ Unchanged(p)'
      BY <2>6, <2>7
    <3>3. OnDisk'
      BY <2>1, <2>7 DEF Saved, OnDisk
    <3>4. Agree'
      BY <1>a, <2>1, <2>3, <2>7, <3>1, <3>2 DEF Agree, PublishedIsSaved
    <3> QED
      BY <3>2, <3>3, <3>4
  <2>8. CASE SaveCreate(p)
    BY <1>a, <2>7, <2>8 DEF SaveCreate
  <2>9. CASE SaveWrite(p)
    <3>1. temp'[p].terms = NextTerms(p)
      BY <1>t, <2>5, <2>9, Renormalized DEF SaveWrite, Payload, TypeOK
    <3> QED
      BY <1>a, <2>7, <2>9, <3>1 DEF SaveWrite
  <2>10. CASE SaveSync(p)
    <3>1. temp'[p].terms = NextTerms(p)
      BY <1>t, <2>10 DEF SaveSync, At, Payload, TypeOK, Saved, Agree
    <3> QED
      BY <1>a, <2>7, <2>10, <3>1 DEF SaveSync
  <2>11. CASE SaveClose(p)
    <3>1. temp'[p].terms = NextTerms(p)
      BY <2>11 DEF SaveClose, At, Saved, Agree
    <3> QED
      BY <1>a, <2>7, <2>11, <3>1 DEF SaveClose
  <2>12. CASE SaveRename(p)
    <3>1. file'.terms = NextTerms(p) /\ Goes(p, "publish")
      BY <2>12 DEF SaveRename, At, Saved, Agree
    <3>2. /\ req'[p].pc = "publish"
          /\ \A q \in Admin : q # p => req'[q].pc \notin Saving \cup {"publish"}
      BY <2>2, <2>4, <3>1
    <3>3. Open' /\ NextTerms(p)' = NextTerms(p) /\ ~ Unchanged(p)'
      BY <2>6, <3>1
    <3>4. Agree'
      BY <1>a, <2>1, <3>1, <3>2, <3>3 DEF Agree, PublishedIsSaved
    <3>5. \A t \in Term : t # req[p].term => (t \in file'.terms <=> t \in file.terms)
      BY <2>3, <3>1 DEF NextTerms
    <3>6. settled[req[p].term] = "open"
      BY <2>1 DEF Saved, Open
    <3>7. OnDisk'
      BY <2>1, <3>5, <3>6 DEF Saved, OnDisk
    <3> QED
      BY <3>3, <3>4, <3>7
  <2>13. CASE SaveFails(p)
    <3>1. req'[p] = NoReq /\ req'[p].pc = "idle" /\ \A q \in Admin : q # p => req'[q] = req[q]
      BY <1>t, <2>13, Moves DEF SaveFails, TypeOK
    <3>2. file' = file
      BY <2>13 DEF SaveFails
    <3>3. Open' /\ OnDisk'
      BY <2>1, <3>1, <3>2 DEF Saved, Open, OnDisk
    <3>4. Agree'
      BY <1>a, <2>1, <2>2, <2>3, <3>1, <3>2 DEF Agree, PublishedIsSaved
    <3> QED
      BY <3>3, <3>4
  <2> QED
    BY <1>4, <2>8, <2>9, <2>10, <2>11, <2>12, <2>13 DEF Save
<1>5. ASSUME NEW p \in Admin, Publish(p) PROVE Agree' /\ Open' /\ OnDisk'
  <2>1. /\ req[p].pc = "publish" /\ req[p] # NoReq /\ mu = p /\ status = "up" /\ Acknowledge(p)
        /\ status' = status /\ file' = file /\ list' = buildSnapshot(NextTerms(p))
    <3>1. req[p].pc = "publish"
      BY <1>5 DEF Publish, At
    <3>2. req[p] # NoReq /\ status = "up" /\ mu = p
      BY <1>b, <1>t, <1>u, <3>1 DEF TypeOK, MutexHeld
    <3> QED
      BY <1>5, <3>1, <3>2 DEF Publish
  <2>2. list'.Exact = NextTerms(p) /\ file.terms = NextTerms(p) /\ ~ Unchanged(p)
    BY <1>t, <2>1, NextTermsTyped, SnapshotOfTerms DEF Saved, Agree
  <2>3. \A q \in Admin : req'[q].pc \notin Saving \cup {"publish"}
    BY <1>a, <1>t, <2>1, Acknowledged DEF TypeOK, MutexHeld
  <2>4. (req[p].op = "add") = (req[p].term \in file.terms)
    BY <2>2 DEF NextTerms
  <2>5. Open' /\ OnDisk'
    BY <1>t, <2>1, <2>4, AcknowledgedSettles DEF Saved
  <2>6. Agree'
    BY <1>a, <2>1, <2>2, <2>3 DEF Agree, PublishedIsSaved
  <2> QED
    BY <2>5, <2>6
<1>6. CASE WriteOut
  BY <1>6 DEF WriteOut
<1>7. CASE Crash
  <2>1. \A p \in Admin : req'[p] = NoReq /\ req'[p].pc = "idle"
    BY <1>7, Requests DEF Crash
  <2>2. status' # "up" /\ file' = file /\ settled' = settled
    BY <1>7 DEF Crash
  <2>3. Open' /\ OnDisk'
    BY <2>1, <2>2 DEF Saved, Open, OnDisk
  <2>4. \A p \in Admin : req'[p].pc \notin Saving \cup {"publish"}
    BY <1>a, <2>1
  <2>5. Agree'
    BY <1>a, <2>1, <2>2, <2>4 DEF Agree, PublishedIsSaved
  <2> QED
    BY <1>t, <2>3, <2>5 DEF Saved
<1>8. CASE Restart
  <2>1. file.terms \in SUBSET Term
    BY <1>t DEF TypeOK, FileType
  <2>2. status' = "up" => list'.Exact = file'.terms
    BY <1>8, <2>1, Renormalized, SnapshotOfTerms DEF Restart, Load
  <2>3. \A p \in Admin : req'[p] = NoReq /\ req'[p].pc = "idle"
    BY <1>8, Requests DEF Restart, Saved, Agree
  <2>4. file' = file /\ settled' = settled
    BY <1>8 DEF Restart
  <2>5. Open' /\ OnDisk'
    BY <2>3, <2>4 DEF Saved, Open, OnDisk
  <2>6. \A p \in Admin : req'[p].pc \notin Saving \cup {"publish"}
    BY <1>a, <2>3
  <2>7. Agree'
    BY <1>a, <2>2, <2>3, <2>6 DEF Agree, PublishedIsSaved
  <2> QED
    BY <1>t, <2>5, <2>7 DEF Saved
<1>9. CASE UNCHANGED vars
  <2>1. /\ file' = file /\ temp' = temp /\ list' = list
        /\ req' = req /\ status' = status /\ settled' = settled
    BY <1>9 DEF vars
  <2>2. Agree'
    BY <2>1 DEF Saved, Agree, PublishedIsSaved, NextTerms, Unchanged
  <2>3. Open' /\ OnDisk'
    BY <2>1 DEF Saved, Open, OnDisk
  <2> QED
    BY <1>t, <2>2, <2>3 DEF Saved
<1> QED
  BY <1>1, <1>2, <1>3, <1>4, <1>5, <1>6, <1>7, <1>8, <1>9, <1>t DEF Next, Lock, Saved

\* As long as the machine itself does not fail, readers see no stop-list that
\* is not on disk, whatever saves fail and wherever the process crashes.
THEOREM PublishedStaysSaved ==
  ASSUME PowerLoss = FALSE PROVE Spec => []PublishedIsSaved
<1>1. Saved => PublishedIsSaved
  BY DEF Saved, Agree
<1> QED
  BY <1>1, InitSaved, SavedStep, PTL DEF Spec

\* As long as the machine itself does not fail, an acknowledged update of a
\* term holds on disk and in the list until the term is updated again.
THEOREM UpdatesLast ==
  ASSUME PowerLoss = FALSE PROVE Spec => []SettledHolds
BY InitSaved, SavedStep, SavedSettles, PTL DEF Spec

\* Concurrent updates, failed saves and crashes of the process leave the file
\* an atomic set: it changes by one whole term at a time.
THEOREM FileIsAtomic ==
  ASSUME PowerLoss = FALSE PROVE Spec => AtomicFile
<1>1. Init => file.terms = {}
  BY DEF Init, NoFile
<1>2. ASSUME Saved, [Next]_vars PROVE [File!Next]_(file.terms)
  <2>1. ASSUME NEW p \in Admin, SaveRename(p) PROVE File!Next
    <3>1. /\ req[p].pc = "rename" /\ req[p] # NoReq /\ file'.terms = NextTerms(p)
          /\ ~ Unchanged(p)
      BY <1>2, <2>1, Requests DEF SaveRename, At, Saved, Agree, Saving
    <3>2. mu = p /\ status = "up"
      BY <1>2, <3>1 DEF Saved, TypeOK, MutexHeld, Saving, Agree
    <3>3. list.Exact = file.terms
      BY <1>2, <3>1, <3>2 DEF Saved, TypeOK, MutexHeld, Agree, PublishedIsSaved
    <3>4. req[p].term \in Term
      BY <1>2, <3>1, Requests DEF Saved, TypeOK
    <3> QED
      BY <3>1, <3>3, <3>4 DEF NextTerms, Unchanged, File!Next, File!AddTerm, File!RemoveTerm
  <2>2. ASSUME NEW p \in Admin, Save(p), ~ SaveRename(p) PROVE UNCHANGED file
    BY <2>2 DEF Save, SaveCreate, SaveWrite, SaveSync, SaveClose, SaveFails
  <2>3. ASSUME NEW p \in Admin, Request(p) \/ Lock(p) \/ Publish(p) PROVE UNCHANGED file
    BY <2>3 DEF Request, Lock, LockNoChange, LockAndSave, Publish
  <2>4. WriteOut \/ Crash \/ Restart \/ UNCHANGED vars => UNCHANGED file
    BY DEF WriteOut, Crash, Restart, vars
  <2> QED
    BY <1>2, <2>1, <2>2, <2>3, <2>4 DEF Next, Save
<1> QED
  BY <1>1, <1>2, InitSaved, SavedStep, PTL DEF Spec, AtomicFile, File!Spec

-----------------------------------------------------------------------------
(* The admin API in front of the service *)

\* The API adds answers to the steps of the service, and no step of its own.
LEMMA APIStep ==
  ASSUME [APINext]_apiVars
  PROVE  [Next]_vars
<1>1. ASSUME NEW p \in Admin,
             \/ Ask(p) \/ ReturnUnchanged(p) \/ ReturnChanged(p) \/ ReturnFailed(p) \/ Work(p)
      PROVE  Next
  BY <1>1 DEF Ask, ReturnUnchanged, ReturnChanged, ReturnFailed, Work, Next, Lock, Save
<1>2. ASSUME NEW p \in Admin, Refuse(p) \/ BadRequest(p) \/ List(p) \/ Answer(p)
      PROVE  UNCHANGED vars
  BY <1>2 DEF Refuse, BadRequest, List, Answer
<1>3. CrashSilent \/ Environment => Next
  BY DEF CrashSilent, Environment, Next
<1>4. UNCHANGED apiVars => UNCHANGED vars
  BY DEF apiVars
<1> QED
  BY <1>1, <1>2, <1>3, <1>4 DEF APINext

\* The terms and the updates that administrators are told of.
TermsTold == IF status = "up" THEN list.Exact ELSE file.terms

AskedOf == [p \in Admin |-> Asked(p)]

LEMMA SetInit == APIInit => Set!Init
<1> SUFFICES ASSUME APIInit PROVE Set!Init
  OBVIOUS
<1>1. Load(NoFile) = {}
  BY Renormalized DEF Load, NoFile
<1>2. TermsTold = {}
  BY <1>1, SnapshotOfTerms DEF APIInit, Init, TermsTold
<1>3. AskedOf = [p \in Admin |-> [op |-> "none"]]
  BY DEF APIInit, Init, AskedOf, Asked
<1> QED
  BY <1>2, <1>3 DEF APIInit, Silent, Set!Init, Set!Silent, Set!NoUpdate, TermsTold, AskedOf

\* An update under way, as the set sees it.
LEMMA UnderWay ==
  ASSUME TypeOK, NEW p \in Admin, req[p] # NoReq
  PROVE  /\ AskedOf[p] = [op |-> req[p].op, term |-> req[p].term]
         /\ AskedOf[p] # Set!NoUpdate
         /\ req[p].op \in {"add", "remove"} /\ req[p].term \in Term
<1>1. req[p].op \in {"add", "remove"} /\ req[p].term \in Term
  BY Requests DEF TypeOK
<1>2. AskedOf[p] = [op |-> req[p].op, term |-> req[p].term]
  BY DEF AskedOf, Asked
<1>3. AskedOf[p].op # "none" /\ Set!NoUpdate.op = "none"
  BY <1>1, <1>2 DEF Set!NoUpdate
<1> QED
  BY <1>1, <1>2, <1>3

\* An idle administrator has asked for nothing.
LEMMA NotUnderWay ==
  ASSUME NEW p \in Admin, req[p] = NoReq
  PROVE  AskedOf[p] = Set!NoUpdate
BY DEF AskedOf, Asked, Set!NoUpdate

\* What is asked follows the requests.
LEMMA AskedMoves ==
  ASSUME TypeOK, NEW p \in Admin, \A q \in Admin : q # p => req'[q] = req[q]
  PROVE  AskedOf' = [AskedOf EXCEPT ![p] = AskedOf'[p]]
<1>1. /\ AskedOf' = [q \in Admin |-> Asked(q)'] /\ AskedOf = [q \in Admin |-> Asked(q)]
  BY DEF AskedOf
<1>2. \A q \in Admin : q # p => Asked(q)' = Asked(q)
  BY DEF Asked
<1> HIDE DEF AskedOf
<1> QED
  BY <1>1, <1>2

\* The set after the update that p is about to publish or has renamed.
LEMMA EffectIsNext ==
  ASSUME TypeOK, NEW p \in Admin, req[p] # NoReq, TermsTold = list.Exact
  PROVE  /\ Set!Effect(AskedOf[p]) = NextTerms(p)
         /\ Unchanged(p) <=> NextTerms(p) = list.Exact
<1>1. /\ AskedOf[p] = [op |-> req[p].op, term |-> req[p].term]
      /\ req[p].op \in {"add", "remove"} /\ req[p].term \in Term
  BY UnderWay
<1>2. Set!Effect(AskedOf[p]) = CASE req[p].op = "add"    -> TermsTold \cup {req[p].term}
                                 [] req[p].op = "remove" -> TermsTold \ {req[p].term}
                                 [] req[p].op = "none"   -> TermsTold
  BY <1>1 DEF Set!Effect, TermsTold
<1>3. Set!Effect(AskedOf[p]) = NextTerms(p)
  BY <1>1, <1>2 DEF NextTerms
<1>4. Unchanged(p) <=> NextTerms(p) = list.Exact
  BY <1>1 DEF Unchanged, NextTerms
<1> QED
  BY <1>3, <1>4

\* The service does nothing that an administrator sees.
LEMMA StaysTold ==
  ASSUME TermsTold' = TermsTold, AskedOf' = AskedOf, owed' = owed, answer' = Silent
  PROVE  Set!Work
BY DEF Set!Work, Set!Silent, Silent, TermsTold, AskedOf

\* An update that returns happens at that instant.
LEMMA ReturnedIsDone ==
  ASSUME TypeOK, TypeOK', NEW p \in Admin, req[p] # NoReq, status = "up", status' = "up",
         Acknowledge(p), list'.Exact = NextTerms(p),
         NEW changed \in BOOLEAN, changed = ~ Unchanged(p), Owes(p, Updated(p, changed))
  PROVE  Set!Do(p)
<1>1. /\ req'[p] = NoReq /\ \A q \in Admin : q # p => req'[q] = req[q]
  BY Acknowledged
<1>2. /\ AskedOf[p] = [op |-> req[p].op, term |-> req[p].term]
      /\ AskedOf[p] # Set!NoUpdate
  BY UnderWay
<1>3. TermsTold = list.Exact /\ TermsTold' = NextTerms(p)
  BY DEF TermsTold
<1>4. /\ Set!Effect(AskedOf[p]) = NextTerms(p)
      /\ changed <=> Set!Effect(AskedOf[p]) # TermsTold
  BY <1>3, EffectIsNext
<1>5. AskedOf'[p] = Set!NoUpdate
  BY <1>1 DEF AskedOf, Asked, Set!NoUpdate
<1>6. AskedOf' = [AskedOf EXCEPT ![p] = Set!NoUpdate]
  BY <1>1, <1>5, AskedMoves
<1>7. Updated(p, changed) =
        [to |-> p,
         code |-> IF changed /\ AskedOf[p].op = "add" THEN "Created" ELSE "OK",
         term |-> AskedOf[p].term,
         changed |-> changed]
  BY <1>2 DEF Updated, statusCode
<1>8. changed = (Set!Effect(AskedOf[p]) # TermsTold)
  BY <1>4
<1> QED
  BY <1>2, <1>3, <1>4, <1>6, <1>7, <1>8
     DEF Owes, Silent, Set!Do, Set!Settle, Set!Silent, TermsTold, AskedOf

LEMMA ToldStep ==
  ASSUME PowerLoss = FALSE, Saved, [APINext]_apiVars
  PROVE  [Set!Next]_(<<TermsTold, AskedOf, owed, answer>>)
<1>t. TypeOK /\ TypeOK'
  BY APIStep, TypeStep DEF Saved
<1>u. \A p \in Admin : req[p] # NoReq => status = "up"
  BY DEF Saved, Agree
<1>b. \A p \in Admin : req[p].pc # "idle" => req[p] # NoReq
  BY Requests
<1>s. UNCHANGED vars => TermsTold' = TermsTold /\ AskedOf' = AskedOf
  BY DEF vars, TermsTold, AskedOf, Asked
<1>1. ASSUME NEW p \in Admin, Refuse(p) PROVE Set!Refuse(p)
  <2>1. PICK h \in Header : Wrap(h) # "next" /\ answer' = Plain(p, Wrap(h))
    BY <1>1 DEF Refuse
  <2>2. Wrap(h) \in {"InternalServerError", "Unauthorized", "Forbidden"}
    BY <2>1 DEF Wrap
  <2>3. AskedOf[p] = Set!NoUpdate
    BY <1>1, NotUnderWay DEF Refuse, Serves
  <2> QED
    BY <1>1, <1>s, <2>1, <2>2, <2>3
       DEF Refuse, Serves, Plain, Silent, Set!Refuse, Set!Idle, Set!Silent, TermsTold, AskedOf
<1>2. ASSUME NEW p \in Admin, BadRequest(p) PROVE Set!Refuse(p)
  <2>1. AskedOf[p] = Set!NoUpdate
    BY <1>2, NotUnderWay DEF BadRequest, Serves
  <2> QED
    BY <1>2, <1>s, <2>1
       DEF BadRequest, Serves, Plain, Silent, Set!Refuse, Set!Idle, Set!Silent, TermsTold, AskedOf
<1>3. ASSUME NEW p \in Admin, List(p) PROVE Set!List(p)
  <2>1. AskedOf[p] = Set!NoUpdate /\ TermsTold = list.Exact
    BY <1>3, NotUnderWay DEF List, Serves, TermsTold
  <2>2. AskedOf' = [AskedOf EXCEPT ![p] = Set!NoUpdate] /\ TermsTold' = TermsTold
    BY <1>3, <1>s, <2>1 DEF List, AskedOf
  <2> QED
    BY <1>3, <2>1, <2>2
       DEF List, Serves, Owes, Silent, Set!List, Set!Settle, Set!Idle, Set!Silent, TermsTold, AskedOf
<1>4. ASSUME NEW p \in Admin, Ask(p) PROVE Set!Ask(p)
  <2>1. PICK op \in {"add", "remove"}, text \in Text :
          /\ Normalize[text] # NoText
          /\ req' = [req EXCEPT ![p] = Req("lock", op, Normalize[text])]
    BY <1>4 DEF Ask, Request
  <2> DEFINE u == [op |-> op, term |-> Normalize[text]]
  <2>2. Normalize[text] \in Term /\ u \in Set!Update
    BY <2>1 DEF Term, Set!Update
  <2>3. /\ req'[p] = Req("lock", op, Normalize[text]) /\ req'[p] # NoReq
        /\ req'[p].op = op /\ req'[p].term = Normalize[text]
        /\ \A q \in Admin : q # p => req'[q] = req[q]
    BY <1>t, <2>1, <2>2, Requests DEF TypeOK
  <2>4. AskedOf'[p] = u
    BY <2>3 DEF AskedOf, Asked
  <2>5. AskedOf' = [AskedOf EXCEPT ![p] = u]
    BY <1>t, <2>3, <2>4, AskedMoves
  <2>6. /\ AskedOf[p] = Set!NoUpdate /\ owed[p] = Silent
        /\ TermsTold' = TermsTold /\ answer' = Silent /\ owed' = owed
    BY <1>4, NotUnderWay DEF Ask, Serves, Request, TermsTold
  <2> HIDE DEF u
  <2> QED
    BY <2>2, <2>5, <2>6 DEF Silent, Set!Ask, Set!Idle, Set!Silent, TermsTold, AskedOf
<1>5. ASSUME NEW p \in Admin, ReturnUnchanged(p) PROVE Set!Do(p)
  <2>1. /\ req[p] # NoReq /\ status = "up" /\ status' = "up" /\ list' = list
        /\ Acknowledge(p) /\ Unchanged(p) /\ Owes(p, Updated(p, FALSE))
    BY <1>5, <1>b, <1>u DEF ReturnUnchanged, LockNoChange, At
  <2>2. list'.Exact = NextTerms(p)
    BY <1>t, <2>1, EffectIsNext DEF TermsTold
  <2> QED
    BY <1>t, <2>1, <2>2, ReturnedIsDone
<1>6. ASSUME NEW p \in Admin, ReturnChanged(p) PROVE Set!Do(p)
  <2>1. /\ req[p].pc = "publish" /\ list' = buildSnapshot(NextTerms(p))
        /\ status' = status /\ Acknowledge(p) /\ Owes(p, Updated(p, TRUE))
    BY <1>6 DEF ReturnChanged, Publish, At
  <2>2. req[p] # NoReq /\ status = "up" /\ ~ Unchanged(p)
    BY <1>b, <1>u, <2>1 DEF Saved, Agree
  <2>3. list'.Exact = NextTerms(p)
    BY <1>t, <2>1, <2>2, NextTermsTyped, SnapshotOfTerms
  <2> QED
    BY <1>t, <2>1, <2>2, <2>3, ReturnedIsDone
<1>7. ASSUME NEW p \in Admin, ReturnFailed(p) PROVE Set!Fail(p)
  <2>1. /\ req[p].pc \in Saving /\ req' = [req EXCEPT ![p] = NoReq]
        /\ list' = list /\ file' = file /\ status' = status
        /\ Owes(p, Plain(p, "InternalServerError"))
    BY <1>7 DEF ReturnFailed, SaveFails
  <2>2. req[p] # NoReq
    BY <1>b, <2>1 DEF Saving
  <2>3. req'[p] = NoReq /\ \A q \in Admin : q # p => req'[q] = req[q]
    BY <1>t, <2>1 DEF TypeOK
  <2>4. AskedOf'[p] = Set!NoUpdate
    BY <2>3 DEF AskedOf, Asked, Set!NoUpdate
  <2>5. AskedOf' = [AskedOf EXCEPT ![p] = Set!NoUpdate] /\ AskedOf[p] # Set!NoUpdate
    BY <1>t, <2>2, <2>3, <2>4, AskedMoves, UnderWay
  <2>6. TermsTold' = TermsTold
    BY <2>1 DEF TermsTold
  <2> QED
    BY <2>1, <2>5, <2>6
       DEF Owes, Plain, Silent, Set!Fail, Set!Settle, Set!Silent, TermsTold, AskedOf
<1>8. ASSUME NEW p \in Admin, Work(p) PROVE Set!Work
  <2>1. PICK pc \in Saving \cup {"publish"} : Goes(p, pc)
    BY <1>8 DEF Work, LockAndSave, SaveCreate, SaveWrite, SaveSync, SaveClose, SaveRename, Saving
  <2>2. /\ req[p] # NoReq /\ status = "up" /\ status' = status /\ list' = list
        /\ answer' = Silent /\ owed' = owed
    BY <1>8, <1>b, <1>u DEF Work, LockAndSave, SaveCreate, SaveWrite, SaveSync, SaveClose,
       SaveRename, At
  <2>3. /\ req'[p] # NoReq /\ req'[p].op = req[p].op /\ req'[p].term = req[p].term
        /\ \A q \in Admin : q # p => req'[q] = req[q]
    BY <1>t, <2>1, <2>2, Moves DEF TypeOK
  <2>4. \A q \in Admin : Asked(q)' = Asked(q)
    BY <2>2, <2>3 DEF Asked
  <2>5. AskedOf' = AskedOf /\ TermsTold' = TermsTold
    BY <2>2, <2>4 DEF AskedOf, TermsTold
  <2> QED
    BY <2>2, <2>5, StaysTold
<1>9. CASE CrashSilent
  <2>1. /\ status = "up" /\ status' = "down" /\ file' = file /\ answer' = Silent
        /\ req' = [p \in Admin |-> NoReq] /\ owed' = [p \in Admin |-> Silent]
    BY <1>9 DEF CrashSilent, Crash
  <2>2. \A p \in Admin : req'[p] = NoReq
    BY <2>1
  <2>3. AskedOf' = [p \in Admin |-> Set!NoUpdate]
    BY <2>2 DEF AskedOf, Asked, Set!NoUpdate
  <2>4. TermsTold = list.Exact /\ TermsTold' = file.terms
    BY <2>1 DEF TermsTold
  <2>5. ASSUME NEW p \in Admin, req[p].pc = "publish" PROVE Set!Crash
    <3>1. req[p] # NoReq /\ file.terms = NextTerms(p)
      BY <1>b, <2>5 DEF Saved, Agree
    <3>2. TermsTold' = Set!Effect(AskedOf[p])
      BY <1>t, <2>4, <3>1, EffectIsNext
    <3> QED
      BY <2>1, <2>3, <3>2 DEF Silent, Set!Crash, Set!Silent, TermsTold, AskedOf
  <2>6. ASSUME \A p \in Admin : req[p].pc # "publish" PROVE TermsTold' = TermsTold
    BY <2>1, <2>4, <2>6 DEF Saved, Agree, PublishedIsSaved
  <2>7. ASSUME TermsTold' = TermsTold PROVE Set!Crash
    BY <2>1, <2>3, <2>7 DEF Silent, Set!Crash, Set!Silent, TermsTold, AskedOf
  <2>8. CASE \E p \in Admin : req[p].pc = "publish"
    BY <2>5, <2>8 DEF Set!Next
  <2>9. CASE \A p \in Admin : req[p].pc # "publish"
    BY <2>6, <2>7, <2>9 DEF Set!Next
  <2> QED
    BY <2>8, <2>9
<1>10. CASE Environment /\ Restart
  <2>1. /\ status = "down" /\ file' = file /\ req' = req /\ answer' = Silent /\ owed' = owed
        /\ status' = "up" => list' = buildSnapshot(Load(file))
    BY <1>10 DEF Environment, Restart
  <2>2. file.terms \in SUBSET Term
    BY <1>t DEF TypeOK, FileType
  <2>3. status' = "up" => list'.Exact = file.terms
    BY <2>1, <2>2, Renormalized, SnapshotOfTerms DEF Load
  <2>4. TermsTold' = TermsTold
    BY <2>1, <2>3 DEF TermsTold
  <2>5. AskedOf' = AskedOf
    BY <2>1 DEF AskedOf, Asked
  <2> QED
    BY <2>1, <2>4, <2>5, StaysTold DEF Set!Next
<1>11. CASE UNCHANGED apiVars
  BY <1>11, <1>s DEF apiVars
<1>12. ~ WriteOut
  BY DEF WriteOut
<1>13. ASSUME NEW p \in Admin, Answer(p) PROVE Set!Tell(p)
  BY <1>13, <1>s DEF Answer, Silent, Set!Tell, Set!Silent, TermsTold, AskedOf
<1> QED
  BY <1>1, <1>2, <1>3, <1>4, <1>5, <1>6, <1>7, <1>8, <1>9, <1>10, <1>11, <1>12, <1>13
  DEF APINext, Environment, Set!Next

\* The admin API is linearizable: for any administrators, any texts and any
\* crashes of the process, its answers are those of a set of terms whose
\* updates each happen at one instant; `changed` and 201 say what happened
\* then, and an error means that nothing did.
THEOREM APITellsTheTruth ==
  ASSUME PowerLoss = FALSE PROVE APISpec => TellsTheTruth
<1>1. APIInit => Init
  BY DEF APIInit
<1>2. Saved /\ [APINext]_apiVars => Saved'
  BY APIStep, SavedStep
<1>3. Saved /\ [APINext]_apiVars => [Set!Next]_(<<TermsTold, AskedOf, owed, answer>>)
  BY ToldStep
<1> QED
  BY <1>1, <1>2, <1>3, SetInit, InitSaved, PTL DEF APISpec, TellsTheTruth, Set!Spec, TermsTold, AskedOf
=============================================================================
