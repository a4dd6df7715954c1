------------------------- MODULE ActionHelperProofs -------------------------
(***************************************************************************)
(* Proofs about ActionHelper, for any number of connections, operations,   *)
(* units, crashes and service starts, on a file system that syncs          *)
(* directories.  IInv is inductive; the properties of the runs follow.     *)
(***************************************************************************)
EXTENDS ActionHelper, TLAPS

(* Pruning unlinks records and leaves the disk, and what it may bring back. *)
Forgotten ==
  /\ \A o \in Op : \/ ledger'[o] = ledger[o]
                   \/ ledger'[o] = Absent /\ \A d \in started' : body[d].op # o
  /\ started' \subseteq started
  /\ ledger' \in [Op -> Record \cup {Absent}]
  /\ UNCHANGED <<durable, mtime, writes, applied>>

\* What pruning leaves of the ledger.
LEMMA PruneEffect ==
  ASSUME TypeOK, NEW gone, Prune(gone)
  PROVE  Forgotten
BY DEF Prune, TypeOK, Forgotten

\* A request is taken up, or refused before anything else is looked at.
LEMMA ArriveInv ==
  ASSUME SyncsDirectories, IInv, NEW c \in Conn, Arrive(c)
  PROVE  IInv'
<1> USE NoneAssumption DEF IInv, ledgerVars, hostVars, history, requestVars
<1>a. pc[c] = "closed" \/ (body[c] \in Body /\ body[c].op \in Op /\ body[c].unit \in Unit)
  BY BodyAssumption DEF Arrive, Goto, TypeOK, Handling, Exclusive, Answer
<1>b. /\ \A d \in Conn : d # c => /\ pc'[d] = pc[d] /\ reply'[d] = reply[d]
                                 /\ attempt'[d] = attempt[d] /\ body'[d] = body[d]
      /\ pc'[c] # "closed"
  BY DEF Arrive, Goto, TypeOK, Answer
<1>d. \A d \in started : d \in Conn /\ body[d].op \in Op
  BY BodyAssumption DEF TypeOK, StartedInv, StartedOK
<1> USE DEF Arrive, Goto, Answer
<1>1. TypeOK'
  <2> USE DEF TypeOK, Stage, Handling, Exclusive, Outcome
  <2>1. /\ (up \in BOOLEAN /\ busy \in BOOLEAN /\ crashes \in Nat)'
        /\ (pc \in [Conn -> Stage])'
        /\ (body \in [Conn -> Body \cup {None}])'
        /\ (\A d \in Conn : pc[d] \in Handling => body[d] \in Body)'
    BY <1>a
  <2>2. (attempt \in [Conn -> Attempt])'
    <3>1. attempt[c] \in Attempt
      OBVIOUS
    <3>2. attempt'[c] \in Attempt
      BY <3>1, <1>a DEF Attempt, NoAttempt, RecordInv, RecordOK, JobInv, JobOK
    <3> QED BY <3>2, <1>b DEF Attempt, NoAttempt
  <2>3. (reply \in [Conn -> Response \cup {None}])'
    <3>1. attempt[c].outcome \in Outcome \/ pc[c] # "prune"
      BY DEF RecordInv, RecordOK
    <3>2. reply'[c] \in Response \cup {None}
      BY <1>a, <3>1 DEF Response, Record, Absent
    <3> QED BY <3>2
  <2>4. /\ (ledger \in [Op -> Record \cup {Absent}])'
        /\ (durable \in [Op -> Record \cup {Absent}])'
        /\ (mtime \in [Op -> Nat] /\ writes \in Nat)'
    <3>1. attempt[c].outcome \in Outcome \/ pc[c] # "settle"
      BY DEF RecordInv, RecordOK
        <3> QED BY <1>a, <3>1 DEF Record, Absent
  <2>5. /\ (svc \in [Unit -> [active : ActiveState, inv : Nat]])'
        /\ (job \in [Unit -> Job])'
        /\ (inflight \in [Unit -> SUBSET Op])'
    BY <1>a DEF Job, JobPending, ActiveState
  <2>6. (started \subseteq Conn /\ applied \subseteq Op)'
    BY <1>a
  <2> QED BY <2>1, <2>2, <2>3, <2>4, <2>5, <2>6
<1>2. BusyIsHeldByOne'
  BY <1>1, <1>b DEF TypeOK, BusyIsHeldByOne, Exclusive
<1>3. AtMostOnce'
  BY <1>1, <1>a, <1>b, <1>d DEF TypeOK, AtMostOnce, StartedInv, StartedOK, OwnRecord, Recorded,
     Commanded
<1>4. DeadIsIdle'
  BY <1>1, <1>b DEF TypeOK, DeadIsIdle, Handling, Exclusive
<1>5. Unanswered'
  BY <1>1, <1>b DEF TypeOK, Unanswered
<1>6. StartedInv'
  BY <1>1, <1>a, <1>b, <1>d DEF TypeOK, StartedInv, StartedOK, RecordInv, RecordOK, Commanded,
     Recorded
<1>7. RecordInv'
  BY <1>1, <1>a, <1>b, <1>d DEF TypeOK, RecordInv, RecordOK, BusyIsHeldByOne, StartedInv,
     StartedOK, Commanded, Recorded, Exclusive, Outcome
<1>8. OwnRecord'
  BY <1>1, <1>a, <1>b, <1>d DEF TypeOK, OwnRecord, BusyIsHeldByOne, RecordInv, RecordOK,
     StartedInv, StartedOK, Commanded, Recorded, Exclusive
<1>9. ToldInv'
  <2> SUFFICES ASSUME NEW d \in started' PROVE ToldOK(d)'
    BY DEF ToldInv
  <2>1. CASE d = c
    BY <1>1, <1>a, <1>b, <1>d, <2>1 DEF TypeOK, ToldInv, ToldOK, StartedInv, StartedOK, RecordInv,
       RecordOK, OwnRecord, Unanswered, Commanded, Recorded, Outcome
  <2>2. CASE d # c
    BY <1>1, <1>a, <1>b, <1>d, <2>2 DEF TypeOK, ToldInv, ToldOK, StartedInv, StartedOK, RecordInv,
       RecordOK, OwnRecord, Unanswered, Commanded, Recorded, Outcome
  <2> QED BY <2>1, <2>2
<1>10. JobInv'
  BY <1>1, <1>a, <1>b, <1>d DEF TypeOK, JobInv, JobOK, BusyIsHeldByOne, RecordInv, RecordOK,
     StartedInv, StartedOK, Commanded, Recorded, Exclusive
<1>11. AppliedInv'
  BY <1>1, <1>a, <1>b, <1>d DEF TypeOK, AppliedInv, AppliedOK, RecordInv, RecordOK, JobInv, JobOK,
     Commanded, Recorded
<1> QED BY <1>1, <1>2, <1>3, <1>4, <1>5, <1>6, <1>7, <1>8, <1>9, <1>10, <1>11

\* The policy only decides where the connection goes next.
LEMMA CheckPolicyInv ==
  ASSUME SyncsDirectories, IInv, NEW c \in Conn, CheckPolicy(c)
  PROVE  IInv'
<1> USE NoneAssumption DEF IInv, ledgerVars, hostVars, history, requestVars
<1>a. pc[c] = "closed" \/ (body[c] \in Body /\ body[c].op \in Op /\ body[c].unit \in Unit)
  BY BodyAssumption DEF CheckPolicy, Goto, TypeOK, Handling, Exclusive, Answer
<1>b. /\ \A d \in Conn : d # c => /\ pc'[d] = pc[d] /\ reply'[d] = reply[d]
                                 /\ attempt'[d] = attempt[d] /\ body'[d] = body[d]
      /\ pc'[c] # "closed"
  BY DEF CheckPolicy, Goto, TypeOK, Answer
<1>d. \A d \in started : d \in Conn /\ body[d].op \in Op
  BY BodyAssumption DEF TypeOK, StartedInv, StartedOK
<1> USE DEF CheckPolicy, Goto, Answer
<1>1. TypeOK'
  <2> USE DEF TypeOK, Stage, Handling, Exclusive, Outcome
  <2>1. /\ (up \in BOOLEAN /\ busy \in BOOLEAN /\ crashes \in Nat)'
        /\ (pc \in [Conn -> Stage])'
        /\ (body \in [Conn -> Body \cup {None}])'
        /\ (\A d \in Conn : pc[d] \in Handling => body[d] \in Body)'
    BY <1>a
  <2>2. (attempt \in [Conn -> Attempt])'
    <3>1. attempt[c] \in Attempt
      OBVIOUS
    <3>2. attempt'[c] \in Attempt
      BY <3>1, <1>a DEF Attempt, NoAttempt, RecordInv, RecordOK, JobInv, JobOK
    <3> QED BY <3>2, <1>b DEF Attempt, NoAttempt
  <2>3. (reply \in [Conn -> Response \cup {None}])'
    <3>1. attempt[c].outcome \in Outcome \/ pc[c] # "prune"
      BY DEF RecordInv, RecordOK
    <3>2. reply'[c] \in Response \cup {None}
      BY <1>a, <3>1 DEF Response, Record, Absent
    <3> QED BY <3>2
  <2>4. /\ (ledger \in [Op -> Record \cup {Absent}])'
        /\ (durable \in [Op -> Record \cup {Absent}])'
        /\ (mtime \in [Op -> Nat] /\ writes \in Nat)'
    <3>1. attempt[c].outcome \in Outcome \/ pc[c] # "settle"
      BY DEF RecordInv, RecordOK
        <3> QED BY <1>a, <3>1 DEF Record, Absent
  <2>5. /\ (svc \in [Unit -> [active : ActiveState, inv : Nat]])'
        /\ (job \in [Unit -> Job])'
        /\ (inflight \in [Unit -> SUBSET Op])'
    BY <1>a DEF Job, JobPending, ActiveState
  <2>6. (started \subseteq Conn /\ applied \subseteq Op)'
    BY <1>a
  <2> QED BY <2>1, <2>2, <2>3, <2>4, <2>5, <2>6
<1>2. BusyIsHeldByOne'
  BY <1>1, <1>b DEF TypeOK, BusyIsHeldByOne, Exclusive
<1>3. AtMostOnce'
  BY <1>1, <1>a, <1>b, <1>d DEF TypeOK, AtMostOnce, StartedInv, StartedOK, OwnRecord, Recorded,
     Commanded
<1>4. DeadIsIdle'
  BY <1>1, <1>b DEF TypeOK, DeadIsIdle, Handling, Exclusive
<1>5. Unanswered'
  BY <1>1, <1>b DEF TypeOK, Unanswered
<1>6. StartedInv'
  BY <1>1, <1>a, <1>b, <1>d DEF TypeOK, StartedInv, StartedOK, RecordInv, RecordOK, Commanded,
     Recorded
<1>7. RecordInv'
  BY <1>1, <1>a, <1>b, <1>d DEF TypeOK, RecordInv, RecordOK, BusyIsHeldByOne, StartedInv,
     StartedOK, Commanded, Recorded, Exclusive, Outcome
<1>8. OwnRecord'
  BY <1>1, <1>a, <1>b, <1>d DEF TypeOK, OwnRecord, BusyIsHeldByOne, RecordInv, RecordOK,
     StartedInv, StartedOK, Commanded, Recorded, Exclusive
<1>9. ToldInv'
  BY <1>1, <1>a, <1>b, <1>d DEF TypeOK, ToldInv, ToldOK, StartedInv, StartedOK, RecordInv,
     RecordOK, OwnRecord, Unanswered, Commanded, Recorded, Outcome
<1>10. JobInv'
  BY <1>1, <1>a, <1>b, <1>d DEF TypeOK, JobInv, JobOK, BusyIsHeldByOne, RecordInv, RecordOK,
     StartedInv, StartedOK, Commanded, Recorded, Exclusive
<1>11. AppliedInv'
  BY <1>1, <1>a, <1>b, <1>d DEF TypeOK, AppliedInv, AppliedOK, RecordInv, RecordOK, JobInv, JobOK,
     Commanded, Recorded
<1> QED BY <1>1, <1>2, <1>3, <1>4, <1>5, <1>6, <1>7, <1>8, <1>9, <1>10, <1>11

\* The lookup and the busy flag decide who may go on: the connection that does
\* finds no record of its operation.
LEMMA LookupInv ==
  ASSUME SyncsDirectories, IInv, NEW c \in Conn, Lookup(c)
  PROVE  IInv'
<1> USE NoneAssumption DEF IInv, ledgerVars, hostVars, history, requestVars
<1>a. pc[c] = "closed" \/ (body[c] \in Body /\ body[c].op \in Op /\ body[c].unit \in Unit)
  BY BodyAssumption DEF Lookup, Goto, TypeOK, Handling, Exclusive, Answer
<1>b. /\ \A d \in Conn : d # c => /\ pc'[d] = pc[d] /\ reply'[d] = reply[d]
                                 /\ attempt'[d] = attempt[d] /\ body'[d] = body[d]
      /\ pc'[c] # "closed"
  BY DEF Lookup, Goto, TypeOK, Answer
<1>d. \A d \in started : d \in Conn /\ body[d].op \in Op
  BY BodyAssumption DEF TypeOK, StartedInv, StartedOK
<1> USE DEF Lookup, Goto, Answer
<1>1. TypeOK'
  <2> USE DEF TypeOK, Stage, Handling, Exclusive, Outcome
  <2>1. /\ (up \in BOOLEAN /\ busy \in BOOLEAN /\ crashes \in Nat)'
        /\ (pc \in [Conn -> Stage])'
        /\ (body \in [Conn -> Body \cup {None}])'
        /\ (\A d \in Conn : pc[d] \in Handling => body[d] \in Body)'
    BY <1>a
  <2>2. (attempt \in [Conn -> Attempt])'
    <3>1. attempt[c] \in Attempt
      OBVIOUS
    <3>2. attempt'[c] \in Attempt
      BY <3>1, <1>a DEF Attempt, NoAttempt, RecordInv, RecordOK, JobInv, JobOK
    <3> QED BY <3>2, <1>b DEF Attempt, NoAttempt
  <2>3. (reply \in [Conn -> Response \cup {None}])'
    <3>1. attempt[c].outcome \in Outcome \/ pc[c] # "prune"
      BY DEF RecordInv, RecordOK
    <3>2. reply'[c] \in Response \cup {None}
      BY <1>a, <3>1 DEF Response, Record, Absent
    <3> QED BY <3>2
  <2>4. /\ (ledger \in [Op -> Record \cup {Absent}])'
        /\ (durable \in [Op -> Record \cup {Absent}])'
        /\ (mtime \in [Op -> Nat] /\ writes \in Nat)'
    <3>1. attempt[c].outcome \in Outcome \/ pc[c] # "settle"
      BY DEF RecordInv, RecordOK
        <3> QED BY <1>a, <3>1 DEF Record, Absent
  <2>5. /\ (svc \in [Unit -> [active : ActiveState, inv : Nat]])'
        /\ (job \in [Unit -> Job])'
        /\ (inflight \in [Unit -> SUBSET Op])'
    BY <1>a DEF Job, JobPending, ActiveState
  <2>6. (started \subseteq Conn /\ applied \subseteq Op)'
    BY <1>a
  <2> QED BY <2>1, <2>2, <2>3, <2>4, <2>5, <2>6
<1>2. BusyIsHeldByOne'
  BY <1>1, <1>b DEF TypeOK, BusyIsHeldByOne, Exclusive
<1>3. AtMostOnce'
  BY <1>1, <1>a, <1>b, <1>d DEF TypeOK, AtMostOnce, StartedInv, StartedOK, OwnRecord, Recorded,
     Commanded
<1>4. DeadIsIdle'
  BY <1>1, <1>b DEF TypeOK, DeadIsIdle, Handling, Exclusive
<1>5. Unanswered'
  BY <1>1, <1>b DEF TypeOK, Unanswered
<1>6. StartedInv'
  BY <1>1, <1>a, <1>b, <1>d DEF TypeOK, StartedInv, StartedOK, RecordInv, RecordOK, Commanded,
     Recorded
<1>7. RecordInv'
  BY <1>1, <1>a, <1>b, <1>d DEF TypeOK, RecordInv, RecordOK, BusyIsHeldByOne, StartedInv,
     StartedOK, Commanded, Recorded, Exclusive, Outcome
<1>8. OwnRecord'
  BY <1>1, <1>a, <1>b, <1>d DEF TypeOK, OwnRecord, BusyIsHeldByOne, RecordInv, RecordOK,
     StartedInv, StartedOK, Commanded, Recorded, Exclusive
<1>9. ToldInv'
  BY <1>1, <1>a, <1>b, <1>d DEF TypeOK, ToldInv, ToldOK, StartedInv, StartedOK, RecordInv,
     RecordOK, OwnRecord, Unanswered, Commanded, Recorded, Outcome
<1>10. JobInv'
  BY <1>1, <1>a, <1>b, <1>d DEF TypeOK, JobInv, JobOK, BusyIsHeldByOne, RecordInv, RecordOK,
     StartedInv, StartedOK, Commanded, Recorded, Exclusive
<1>11. AppliedInv'
  BY <1>1, <1>a, <1>b, <1>d DEF TypeOK, AppliedInv, AppliedOK, RecordInv, RecordOK, JobInv, JobOK,
     Commanded, Recorded
<1> QED BY <1>1, <1>2, <1>3, <1>4, <1>5, <1>6, <1>7, <1>8, <1>9, <1>10, <1>11

\* The host is read; the ledger is not touched yet.
LEMMA InspectInv ==
  ASSUME SyncsDirectories, IInv, NEW c \in Conn, Inspect(c)
  PROVE  IInv'
<1> USE NoneAssumption DEF IInv, ledgerVars, hostVars, history, requestVars
<1>a. pc[c] = "closed" \/ (body[c] \in Body /\ body[c].op \in Op /\ body[c].unit \in Unit)
  BY BodyAssumption DEF Inspect, Goto, TypeOK, Handling, Exclusive, Leave, Answer
<1>b. /\ \A d \in Conn : d # c => /\ pc'[d] = pc[d] /\ reply'[d] = reply[d]
                                 /\ attempt'[d] = attempt[d] /\ body'[d] = body[d]
      /\ pc'[c] # "closed"
  BY DEF Inspect, Goto, TypeOK, Leave, Answer
<1>d. \A d \in started : d \in Conn /\ body[d].op \in Op
  BY BodyAssumption DEF TypeOK, StartedInv, StartedOK
<1> USE DEF Inspect, Goto, Leave, Answer
<1>1. TypeOK'
  <2> USE DEF TypeOK, Stage, Handling, Exclusive, Outcome
  <2>1. /\ (up \in BOOLEAN /\ busy \in BOOLEAN /\ crashes \in Nat)'
        /\ (pc \in [Conn -> Stage])'
        /\ (body \in [Conn -> Body \cup {None}])'
        /\ (\A d \in Conn : pc[d] \in Handling => body[d] \in Body)'
    BY <1>a
  <2>2. (attempt \in [Conn -> Attempt])'
    <3>1. attempt[c] \in Attempt
      OBVIOUS
    <3>2. attempt'[c] \in Attempt
      BY <3>1, <1>a DEF Attempt, NoAttempt, RecordInv, RecordOK, JobInv, JobOK
    <3> QED BY <3>2, <1>b DEF Attempt, NoAttempt
  <2>3. (reply \in [Conn -> Response \cup {None}])'
    <3>1. attempt[c].outcome \in Outcome \/ pc[c] # "prune"
      BY DEF RecordInv, RecordOK
    <3>2. reply'[c] \in Response \cup {None}
      BY <1>a, <3>1 DEF Response, Record, Absent
    <3> QED BY <3>2
  <2>4. /\ (ledger \in [Op -> Record \cup {Absent}])'
        /\ (durable \in [Op -> Record \cup {Absent}])'
        /\ (mtime \in [Op -> Nat] /\ writes \in Nat)'
    <3>1. attempt[c].outcome \in Outcome \/ pc[c] # "settle"
      BY DEF RecordInv, RecordOK
        <3> QED BY <1>a, <3>1 DEF Record, Absent
  <2>5. /\ (svc \in [Unit -> [active : ActiveState, inv : Nat]])'
        /\ (job \in [Unit -> Job])'
        /\ (inflight \in [Unit -> SUBSET Op])'
    BY <1>a DEF Job, JobPending, ActiveState
  <2>6. (started \subseteq Conn /\ applied \subseteq Op)'
    BY <1>a
  <2> QED BY <2>1, <2>2, <2>3, <2>4, <2>5, <2>6
<1>2. BusyIsHeldByOne'
  BY <1>1, <1>b DEF TypeOK, BusyIsHeldByOne, Exclusive
<1>3. AtMostOnce'
  BY <1>1, <1>a, <1>b, <1>d DEF TypeOK, AtMostOnce, StartedInv, StartedOK, OwnRecord, Recorded,
     Commanded
<1>4. DeadIsIdle'
  BY <1>1, <1>b DEF TypeOK, DeadIsIdle, Handling, Exclusive
<1>5. Unanswered'
  BY <1>1, <1>b DEF TypeOK, Unanswered
<1>6. StartedInv'
  BY <1>1, <1>a, <1>b, <1>d DEF TypeOK, StartedInv, StartedOK, RecordInv, RecordOK, Commanded,
     Recorded
<1>7. RecordInv'
  BY <1>1, <1>a, <1>b, <1>d DEF TypeOK, RecordInv, RecordOK, BusyIsHeldByOne, StartedInv,
     StartedOK, Commanded, Recorded, Exclusive, Outcome
<1>8. OwnRecord'
  BY <1>1, <1>a, <1>b, <1>d DEF TypeOK, OwnRecord, BusyIsHeldByOne, RecordInv, RecordOK,
     StartedInv, StartedOK, Commanded, Recorded, Exclusive
<1>9. ToldInv'
  BY <1>1, <1>a, <1>b, <1>d DEF TypeOK, ToldInv, ToldOK, StartedInv, StartedOK, RecordInv,
     RecordOK, OwnRecord, Unanswered, Commanded, Recorded, Outcome
<1>10. JobInv'
  BY <1>1, <1>a, <1>b, <1>d DEF TypeOK, JobInv, JobOK, BusyIsHeldByOne, RecordInv, RecordOK,
     StartedInv, StartedOK, Commanded, Recorded, Exclusive
<1>11. AppliedInv'
  BY <1>1, <1>a, <1>b, <1>d DEF TypeOK, AppliedInv, AppliedOK, RecordInv, RecordOK, JobInv, JobOK,
     Commanded, Recorded
<1> QED BY <1>1, <1>2, <1>3, <1>4, <1>5, <1>6, <1>7, <1>8, <1>9, <1>10, <1>11

\* The open record appears: nobody has queued a job for that operation, because
\* whoever did has a record (StartedInv) and there was none (RecordInv).
LEMMA RecordIntentInv ==
  ASSUME SyncsDirectories, IInv, NEW c \in Conn, RecordIntent(c)
  PROVE  IInv'
<1> USE NoneAssumption DEF IInv, ledgerVars, hostVars, history, requestVars
<1>a. pc[c] = "closed" \/ (body[c] \in Body /\ body[c].op \in Op /\ body[c].unit \in Unit)
  BY BodyAssumption DEF RecordIntent, Goto, TypeOK, Handling, Exclusive, Rename, Leave, Answer
<1>b. /\ \A d \in Conn : d # c => /\ pc'[d] = pc[d] /\ reply'[d] = reply[d]
                                 /\ attempt'[d] = attempt[d] /\ body'[d] = body[d]
      /\ pc'[c] # "closed"
  BY DEF RecordIntent, Goto, TypeOK, Rename, Leave, Answer
<1>c. \/ pc'[c] = "recorded" /\ ledger'[body[c].op] # Absent /\ ledger'[body[c].op].outcome = "unknown"
      \/ pc'[c] = "answered"
  BY <1>a DEF RecordIntent, Goto, TypeOK, Absent, Rename, Leave, Answer
<1>d. \A d \in started : d \in Conn /\ body[d].op \in Op
  BY BodyAssumption DEF TypeOK, StartedInv, StartedOK
<1> USE DEF RecordIntent, Goto, Rename, Leave, Answer
<1>1. TypeOK'
  <2> USE DEF TypeOK, Stage, Handling, Exclusive, Outcome
  <2>1. /\ (up \in BOOLEAN /\ busy \in BOOLEAN /\ crashes \in Nat)'
        /\ (pc \in [Conn -> Stage])'
        /\ (body \in [Conn -> Body \cup {None}])'
        /\ (\A d \in Conn : pc[d] \in Handling => body[d] \in Body)'
    BY <1>a
  <2>2. (attempt \in [Conn -> Attempt])'
    <3>1. attempt[c] \in Attempt
      OBVIOUS
    <3>2. attempt'[c] \in Attempt
      BY <3>1, <1>a DEF Attempt, NoAttempt, RecordInv, RecordOK, JobInv, JobOK
    <3> QED BY <3>2, <1>b DEF Attempt, NoAttempt
  <2>3. (reply \in [Conn -> Response \cup {None}])'
    <3>1. attempt[c].outcome \in Outcome \/ pc[c] # "prune"
      BY DEF RecordInv, RecordOK
    <3>2. reply'[c] \in Response \cup {None}
      BY <1>a, <3>1 DEF Response, Record, Absent
    <3> QED BY <3>2
  <2>4. /\ (ledger \in [Op -> Record \cup {Absent}])'
        /\ (durable \in [Op -> Record \cup {Absent}])'
        /\ (mtime \in [Op -> Nat] /\ writes \in Nat)'
    <3>1. attempt[c].outcome \in Outcome \/ pc[c] # "settle"
      BY DEF RecordInv, RecordOK
        <3>2. (ledger \in [Op -> Record \cup {Absent}])'
      BY <1>a, <3>1 DEF Record, Absent
    <3>3. (durable \in [Op -> Record \cup {Absent}])'
      BY <1>a DEF Record, Absent
    <3>4. (mtime \in [Op -> Nat] /\ writes \in Nat)'
      BY <1>a
    <3> QED BY <3>2, <3>3, <3>4
  <2>5. /\ (svc \in [Unit -> [active : ActiveState, inv : Nat]])'
        /\ (job \in [Unit -> Job])'
        /\ (inflight \in [Unit -> SUBSET Op])'
    BY <1>a DEF Job, JobPending, ActiveState
  <2>6. (started \subseteq Conn /\ applied \subseteq Op)'
    BY <1>a
  <2> QED BY <2>1, <2>2, <2>3, <2>4, <2>5, <2>6
<1>2. BusyIsHeldByOne'
  BY <1>1, <1>b DEF TypeOK, BusyIsHeldByOne, Exclusive
<1>3. AtMostOnce'
  BY <1>1, <1>a, <1>b, <1>c, <1>d DEF TypeOK, AtMostOnce, StartedInv, StartedOK, OwnRecord,
     Recorded, Commanded
<1>4. DeadIsIdle'
  BY <1>1, <1>b DEF TypeOK, DeadIsIdle, Handling, Exclusive
<1>5. Unanswered'
  BY <1>1, <1>b DEF TypeOK, Unanswered
<1>6. StartedInv'
  BY <1>1, <1>a, <1>b, <1>c, <1>d DEF TypeOK, StartedInv, StartedOK, RecordInv, RecordOK,
     Commanded, Recorded
<1>7. RecordInv'
  <2> SUFFICES ASSUME NEW d \in Conn PROVE RecordOK(d)'
    BY DEF RecordInv
  <2>1. CASE d = c
    BY <1>1, <1>a, <1>b, <1>c, <1>d, <2>1 DEF TypeOK, RecordInv, RecordOK, BusyIsHeldByOne,
       StartedInv, StartedOK, Commanded, Recorded, Exclusive, Outcome
  <2>2. CASE d # c
    BY <1>1, <1>a, <1>b, <1>c, <1>d, <2>2 DEF TypeOK, RecordInv, RecordOK, BusyIsHeldByOne,
       StartedInv, StartedOK, Commanded, Recorded, Exclusive, Outcome
  <2> QED BY <2>1, <2>2
<1>8. OwnRecord'
  BY <1>1, <1>a, <1>b, <1>c, <1>d DEF TypeOK, OwnRecord, BusyIsHeldByOne, RecordInv, RecordOK,
     StartedInv, StartedOK, Commanded, Recorded, Exclusive
<1>9. ToldInv'
  <2> SUFFICES ASSUME NEW d \in started' PROVE ToldOK(d)'
    BY DEF ToldInv
  <2>1. CASE d = c
    BY <1>1, <1>a, <1>b, <1>c, <1>d, <2>1 DEF TypeOK, ToldInv, ToldOK, StartedInv, StartedOK,
       RecordInv, RecordOK, OwnRecord, Unanswered, Commanded, Recorded, Outcome
  <2>2. CASE d # c
    <3>1. (d \in started /\ body[d].op # body[c].op) \/ UNCHANGED ledgerVars
      BY <1>1, <1>a, <1>b, <1>c, <1>d, <2>2 DEF StartedInv, StartedOK, RecordInv, RecordOK
    <3> QED BY <1>1, <1>a, <1>b, <1>c, <1>d, <2>2, <3>1 DEF TypeOK, ToldInv, ToldOK, StartedInv,
               StartedOK
  <2> QED BY <2>1, <2>2
<1>10. JobInv'
  BY <1>1, <1>a, <1>b, <1>c, <1>d DEF TypeOK, JobInv, JobOK, BusyIsHeldByOne, RecordInv, RecordOK,
     StartedInv, StartedOK, Commanded, Recorded, Exclusive
<1>11. AppliedInv'
  BY <1>1, <1>a, <1>b, <1>c, <1>d DEF TypeOK, AppliedInv, AppliedOK, RecordInv, RecordOK, JobInv,
     JobOK, Commanded, Recorded
<1> QED BY <1>1, <1>2, <1>3, <1>4, <1>5, <1>6, <1>7, <1>8, <1>9, <1>10, <1>11

\* The open record is made durable before the next stage is reached.
LEMMA IntentReturnsInv ==
  ASSUME SyncsDirectories, IInv, NEW c \in Conn, IntentReturns(c)
  PROVE  IInv'
<1> USE NoneAssumption DEF IInv, ledgerVars, hostVars, history, requestVars
<1>a. pc[c] = "closed" \/ (body[c] \in Body /\ body[c].op \in Op /\ body[c].unit \in Unit)
  BY BodyAssumption DEF IntentReturns, Goto, TypeOK, Handling, Exclusive, SyncDirectory, Leave,
     Answer
<1>b. /\ \A d \in Conn : d # c => /\ pc'[d] = pc[d] /\ reply'[d] = reply[d]
                                 /\ attempt'[d] = attempt[d] /\ body'[d] = body[d]
      /\ pc'[c] # "closed"
  BY DEF IntentReturns, Goto, TypeOK, SyncDirectory, Leave, Answer
<1>d. \A d \in started : d \in Conn /\ body[d].op \in Op
  BY BodyAssumption DEF TypeOK, StartedInv, StartedOK
<1> USE DEF IntentReturns, Goto, SyncDirectory, Leave, Answer
<1>1. TypeOK'
  <2> USE DEF TypeOK, Stage, Handling, Exclusive, Outcome
  <2>1. /\ (up \in BOOLEAN /\ busy \in BOOLEAN /\ crashes \in Nat)'
        /\ (pc \in [Conn -> Stage])'
        /\ (body \in [Conn -> Body \cup {None}])'
        /\ (\A d \in Conn : pc[d] \in Handling => body[d] \in Body)'
    BY <1>a
  <2>2. (attempt \in [Conn -> Attempt])'
    <3>1. attempt[c] \in Attempt
      OBVIOUS
    <3>2. attempt'[c] \in Attempt
      BY <3>1, <1>a DEF Attempt, NoAttempt, RecordInv, RecordOK, JobInv, JobOK
    <3> QED BY <3>2, <1>b DEF Attempt, NoAttempt
  <2>3. (reply \in [Conn -> Response \cup {None}])'
    <3>1. attempt[c].outcome \in Outcome \/ pc[c] # "prune"
      BY DEF RecordInv, RecordOK
    <3>2. reply'[c] \in Response \cup {None}
      BY <1>a, <3>1 DEF Response, Record, Absent
    <3> QED BY <3>2
  <2>4. /\ (ledger \in [Op -> Record \cup {Absent}])'
        /\ (durable \in [Op -> Record \cup {Absent}])'
        /\ (mtime \in [Op -> Nat] /\ writes \in Nat)'
    <3>1. attempt[c].outcome \in Outcome \/ pc[c] # "settle"
      BY DEF RecordInv, RecordOK
        <3>2. (ledger \in [Op -> Record \cup {Absent}])'
      BY <1>a, <3>1 DEF Record, Absent
    <3>3. (durable \in [Op -> Record \cup {Absent}])'
      BY <1>a DEF Record, Absent
    <3>4. (mtime \in [Op -> Nat] /\ writes \in Nat)'
      BY <1>a
    <3> QED BY <3>2, <3>3, <3>4
  <2>5. /\ (svc \in [Unit -> [active : ActiveState, inv : Nat]])'
        /\ (job \in [Unit -> Job])'
        /\ (inflight \in [Unit -> SUBSET Op])'
    BY <1>a DEF Job, JobPending, ActiveState
  <2>6. (started \subseteq Conn /\ applied \subseteq Op)'
    BY <1>a
  <2> QED BY <2>1, <2>2, <2>3, <2>4, <2>5, <2>6
<1>2. BusyIsHeldByOne'
  BY <1>1, <1>b DEF TypeOK, BusyIsHeldByOne, Exclusive
<1>3. AtMostOnce'
  BY <1>1, <1>a, <1>b, <1>d DEF TypeOK, AtMostOnce, StartedInv, StartedOK, OwnRecord, Recorded,
     Commanded
<1>4. DeadIsIdle'
  BY <1>1, <1>b DEF TypeOK, DeadIsIdle, Handling, Exclusive
<1>5. Unanswered'
  BY <1>1, <1>b DEF TypeOK, Unanswered
<1>6. StartedInv'
  BY <1>1, <1>a, <1>b, <1>d DEF TypeOK, StartedInv, StartedOK, RecordInv, RecordOK, Commanded,
     Recorded
<1>7. RecordInv'
  <2> SUFFICES ASSUME NEW d \in Conn PROVE RecordOK(d)'
    BY DEF RecordInv
  <2>1. CASE d = c
    BY <1>1, <1>a, <1>b, <1>d, <2>1 DEF TypeOK, RecordInv, RecordOK, BusyIsHeldByOne, StartedInv,
       StartedOK, Commanded, Recorded, Exclusive, Outcome
  <2>2. CASE d # c
    BY <1>1, <1>a, <1>b, <1>d, <2>2 DEF TypeOK, RecordInv, RecordOK, BusyIsHeldByOne, StartedInv,
       StartedOK, Commanded, Recorded, Exclusive, Outcome
  <2> QED BY <2>1, <2>2
<1>8. OwnRecord'
  BY <1>1, <1>a, <1>b, <1>d DEF TypeOK, OwnRecord, BusyIsHeldByOne, RecordInv, RecordOK,
     StartedInv, StartedOK, Commanded, Recorded, Exclusive
<1>9. ToldInv'
  BY <1>1, <1>a, <1>b, <1>d DEF TypeOK, ToldInv, ToldOK, StartedInv, StartedOK, RecordInv,
     RecordOK, OwnRecord, Unanswered, Commanded, Recorded, Outcome
<1>10. JobInv'
  BY <1>1, <1>a, <1>b, <1>d DEF TypeOK, JobInv, JobOK, BusyIsHeldByOne, RecordInv, RecordOK,
     StartedInv, StartedOK, Commanded, Recorded, Exclusive
<1>11. AppliedInv'
  BY <1>1, <1>a, <1>b, <1>d DEF TypeOK, AppliedInv, AppliedOK, RecordInv, RecordOK, JobInv, JobOK,
     Commanded, Recorded
<1> QED BY <1>1, <1>2, <1>3, <1>4, <1>5, <1>6, <1>7, <1>8, <1>9, <1>10, <1>11

\* The one step that adds to started: its record is durable and its own.
LEMMA RestartInv ==
  ASSUME SyncsDirectories, IInv, NEW c \in Conn, Restart(c)
  PROVE  IInv'
<1> USE NoneAssumption DEF IInv, ledgerVars, hostVars, history, requestVars
<1>a. pc[c] = "closed" \/ (body[c] \in Body /\ body[c].op \in Op /\ body[c].unit \in Unit)
  BY BodyAssumption DEF Restart, Goto, TypeOK, Handling, Exclusive
<1>b. /\ \A d \in Conn : d # c => /\ pc'[d] = pc[d] /\ reply'[d] = reply[d]
                                 /\ attempt'[d] = attempt[d] /\ body'[d] = body[d]
      /\ pc'[c] # "closed"
  BY DEF Restart, Goto, TypeOK
<1>c. \/ pc'[c] = "waiting" /\ c \in started' /\ job'[body[c].unit] = "queued" /\ body[c].op \in inflight'[body[c].unit]
      \/ pc'[c] = "after" /\ attempt'[c].jobResult = "failed"
  BY <1>a DEF Restart, Goto, TypeOK, Attempt, NoAttempt
<1>d. \A d \in started : d \in Conn /\ body[d].op \in Op
  BY BodyAssumption DEF TypeOK, StartedInv, StartedOK
<1> USE DEF Restart, Goto
<1>1. TypeOK'
  <2> USE DEF TypeOK, Stage, Handling, Exclusive, Outcome
  <2>1. /\ (up \in BOOLEAN /\ busy \in BOOLEAN /\ crashes \in Nat)'
        /\ (pc \in [Conn -> Stage])'
        /\ (body \in [Conn -> Body \cup {None}])'
        /\ (\A d \in Conn : pc[d] \in Handling => body[d] \in Body)'
    BY <1>a
  <2>2. (attempt \in [Conn -> Attempt])'
    <3>1. attempt[c] \in Attempt
      OBVIOUS
    <3>2. attempt'[c] \in Attempt
      BY <3>1, <1>a DEF Attempt, NoAttempt, RecordInv, RecordOK, JobInv, JobOK
    <3> QED BY <3>2, <1>b DEF Attempt, NoAttempt
  <2>3. (reply \in [Conn -> Response \cup {None}])'
    <3>1. attempt[c].outcome \in Outcome \/ pc[c] # "prune"
      BY DEF RecordInv, RecordOK
    <3>2. reply'[c] \in Response \cup {None}
      BY <1>a, <3>1 DEF Response, Record, Absent
    <3> QED BY <3>2
  <2>4. /\ (ledger \in [Op -> Record \cup {Absent}])'
        /\ (durable \in [Op -> Record \cup {Absent}])'
        /\ (mtime \in [Op -> Nat] /\ writes \in Nat)'
    <3>1. attempt[c].outcome \in Outcome \/ pc[c] # "settle"
      BY DEF RecordInv, RecordOK
        <3> QED BY <1>a, <3>1 DEF Record, Absent
  <2>5. /\ (svc \in [Unit -> [active : ActiveState, inv : Nat]])'
        /\ (job \in [Unit -> Job])'
        /\ (inflight \in [Unit -> SUBSET Op])'
    BY <1>a DEF Job, JobPending, ActiveState
  <2>6. (started \subseteq Conn /\ applied \subseteq Op)'
    BY <1>a
  <2> QED BY <2>1, <2>2, <2>3, <2>4, <2>5, <2>6
<1>2. BusyIsHeldByOne'
  BY <1>1, <1>b DEF TypeOK, BusyIsHeldByOne, Exclusive
<1>3. AtMostOnce'
  BY <1>1, <1>a, <1>b, <1>c, <1>d DEF TypeOK, AtMostOnce, StartedInv, StartedOK, OwnRecord,
     Recorded, Commanded
<1>4. DeadIsIdle'
  BY <1>1, <1>b DEF TypeOK, DeadIsIdle, Handling, Exclusive
<1>5. Unanswered'
  BY <1>1, <1>b DEF TypeOK, Unanswered
<1>6. StartedInv'
  <2> SUFFICES ASSUME NEW d \in started' PROVE StartedOK(d)'
    BY DEF StartedInv
  <2>1. CASE d = c
    BY <1>1, <1>a, <1>b, <1>c, <1>d, <2>1 DEF TypeOK, StartedInv, StartedOK, RecordInv, RecordOK,
       Commanded, Recorded
  <2>2. CASE d # c
    BY <1>1, <1>a, <1>b, <1>c, <1>d, <2>2 DEF TypeOK, StartedInv, StartedOK, RecordInv, RecordOK,
       Commanded, Recorded
  <2> QED BY <2>1, <2>2
<1>7. RecordInv'
  BY <1>1, <1>a, <1>b, <1>c, <1>d DEF TypeOK, RecordInv, RecordOK, BusyIsHeldByOne, StartedInv,
     StartedOK, Commanded, Recorded, Exclusive, Outcome
<1>8. OwnRecord'
  BY <1>1, <1>a, <1>b, <1>c, <1>d DEF TypeOK, OwnRecord, BusyIsHeldByOne, RecordInv, RecordOK,
     StartedInv, StartedOK, Commanded, Recorded, Exclusive
<1>9. ToldInv'
  BY <1>1, <1>a, <1>b, <1>c, <1>d DEF TypeOK, ToldInv, ToldOK, StartedInv, StartedOK, RecordInv,
     RecordOK, OwnRecord, Unanswered, Commanded, Recorded, Outcome
<1>10. JobInv'
  <2> SUFFICES ASSUME NEW d \in Conn PROVE JobOK(d)'
    BY DEF JobInv
  <2>1. CASE d = c
    BY <1>1, <1>a, <1>b, <1>c, <1>d, <2>1 DEF TypeOK, JobInv, JobOK, BusyIsHeldByOne, RecordInv,
       RecordOK, StartedInv, StartedOK, Commanded, Recorded, Exclusive
  <2>2. CASE d # c
    BY <1>1, <1>a, <1>b, <1>c, <1>d, <2>2 DEF TypeOK, JobInv, JobOK, BusyIsHeldByOne, RecordInv,
       RecordOK, StartedInv, StartedOK, Commanded, Recorded, Exclusive
  <2> QED BY <2>1, <2>2
<1>11. AppliedInv'
  BY <1>1, <1>a, <1>b, <1>c, <1>d DEF TypeOK, AppliedInv, AppliedOK, RecordInv, RecordOK, JobInv,
     JobOK, Commanded, Recorded
<1> QED BY <1>1, <1>2, <1>3, <1>4, <1>5, <1>6, <1>7, <1>8, <1>9, <1>10, <1>11

\* "done" is taken from a job that was this connection's.
LEMMA CommandEndsInv ==
  ASSUME SyncsDirectories, IInv, NEW c \in Conn, CommandEnds(c)
  PROVE  IInv'
<1> USE NoneAssumption DEF IInv, ledgerVars, hostVars, history, requestVars
<1>a. pc[c] = "closed" \/ (body[c] \in Body /\ body[c].op \in Op /\ body[c].unit \in Unit)
  BY BodyAssumption DEF CommandEnds, Goto, TypeOK, Handling, Exclusive
<1>b. /\ \A d \in Conn : d # c => /\ pc'[d] = pc[d] /\ reply'[d] = reply[d]
                                 /\ attempt'[d] = attempt[d] /\ body'[d] = body[d]
      /\ pc'[c] # "closed"
  BY DEF CommandEnds, Goto, TypeOK
<1>c. /\ pc[c] = "waiting" /\ pc'[c] = "after" /\ attempt'[c].jobResult # None
      /\ attempt'[c].jobResult = "done" => job[body[c].unit] = "done"
  BY <1>a DEF CommandEnds, Goto, TypeOK, Attempt, NoAttempt
<1>d. \A d \in started : d \in Conn /\ body[d].op \in Op
  BY BodyAssumption DEF TypeOK, StartedInv, StartedOK
<1> USE DEF CommandEnds, Goto
<1>1. TypeOK'
  <2> USE DEF TypeOK, Stage, Handling, Exclusive, Outcome
  <2>1. /\ (up \in BOOLEAN /\ busy \in BOOLEAN /\ crashes \in Nat)'
        /\ (pc \in [Conn -> Stage])'
        /\ (body \in [Conn -> Body \cup {None}])'
        /\ (\A d \in Conn : pc[d] \in Handling => body[d] \in Body)'
    BY <1>a
  <2>2. (attempt \in [Conn -> Attempt])'
    <3>1. attempt[c] \in Attempt
      OBVIOUS
    <3>2. attempt'[c] \in Attempt
      BY <3>1, <1>a DEF Attempt, NoAttempt, RecordInv, RecordOK, JobInv, JobOK
    <3> QED BY <3>2, <1>b DEF Attempt, NoAttempt
  <2>3. (reply \in [Conn -> Response \cup {None}])'
    <3>1. attempt[c].outcome \in Outcome \/ pc[c] # "prune"
      BY DEF RecordInv, RecordOK
    <3>2. reply'[c] \in Response \cup {None}
      BY <1>a, <3>1 DEF Response, Record, Absent
    <3> QED BY <3>2
  <2>4. /\ (ledger \in [Op -> Record \cup {Absent}])'
        /\ (durable \in [Op -> Record \cup {Absent}])'
        /\ (mtime \in [Op -> Nat] /\ writes \in Nat)'
    <3>1. attempt[c].outcome \in Outcome \/ pc[c] # "settle"
      BY DEF RecordInv, RecordOK
        <3> QED BY <1>a, <3>1 DEF Record, Absent
  <2>5. /\ (svc \in [Unit -> [active : ActiveState, inv : Nat]])'
        /\ (job \in [Unit -> Job])'
        /\ (inflight \in [Unit -> SUBSET Op])'
    BY <1>a DEF Job, JobPending, ActiveState
  <2>6. (started \subseteq Conn /\ applied \subseteq Op)'
    BY <1>a
  <2> QED BY <2>1, <2>2, <2>3, <2>4, <2>5, <2>6
<1>2. BusyIsHeldByOne'
  BY <1>1, <1>b DEF TypeOK, BusyIsHeldByOne, Exclusive
<1>3. AtMostOnce'
  BY <1>1, <1>a, <1>b, <1>c, <1>d DEF TypeOK, AtMostOnce, StartedInv, StartedOK, OwnRecord,
     Recorded, Commanded
<1>4. DeadIsIdle'
  BY <1>1, <1>b DEF TypeOK, DeadIsIdle, Handling, Exclusive
<1>5. Unanswered'
  BY <1>1, <1>b DEF TypeOK, Unanswered
<1>6. StartedInv'
  BY <1>1, <1>a, <1>b, <1>c, <1>d DEF TypeOK, StartedInv, StartedOK, RecordInv, RecordOK,
     Commanded, Recorded
<1>7. RecordInv'
  BY <1>1, <1>a, <1>b, <1>c, <1>d DEF TypeOK, RecordInv, RecordOK, BusyIsHeldByOne, StartedInv,
     StartedOK, Commanded, Recorded, Exclusive, Outcome
<1>8. OwnRecord'
  BY <1>1, <1>a, <1>b, <1>c, <1>d DEF TypeOK, OwnRecord, BusyIsHeldByOne, RecordInv, RecordOK,
     StartedInv, StartedOK, Commanded, Recorded, Exclusive
<1>9. ToldInv'
  BY <1>1, <1>a, <1>b, <1>c, <1>d DEF TypeOK, ToldInv, ToldOK, StartedInv, StartedOK, RecordInv,
     RecordOK, OwnRecord, Unanswered, Commanded, Recorded, Outcome
<1>10. JobInv'
  <2> SUFFICES ASSUME NEW d \in Conn PROVE JobOK(d)'
    BY DEF JobInv
  <2>1. CASE d = c
    BY <1>1, <1>a, <1>b, <1>c, <1>d, <2>1 DEF TypeOK, JobInv, JobOK, BusyIsHeldByOne, RecordInv,
       RecordOK, StartedInv, StartedOK, Commanded, Recorded, Exclusive
  <2>2. CASE d # c
    BY <1>1, <1>a, <1>b, <1>c, <1>d, <2>2 DEF TypeOK, JobInv, JobOK, BusyIsHeldByOne, RecordInv,
       RecordOK, StartedInv, StartedOK, Commanded, Recorded, Exclusive
  <2> QED BY <2>1, <2>2
<1>11. AppliedInv'
  BY <1>1, <1>a, <1>b, <1>c, <1>d DEF TypeOK, AppliedInv, AppliedOK, RecordInv, RecordOK, JobInv,
     JobOK, Commanded, Recorded
<1> QED BY <1>1, <1>2, <1>3, <1>4, <1>5, <1>6, <1>7, <1>8, <1>9, <1>10, <1>11

\* "success" needs jobResult "done".
LEMMA ObserveInv ==
  ASSUME SyncsDirectories, IInv, NEW c \in Conn, Observe(c)
  PROVE  IInv'
<1> USE NoneAssumption DEF IInv, ledgerVars, hostVars, history, requestVars
<1>a. pc[c] = "closed" \/ (body[c] \in Body /\ body[c].op \in Op /\ body[c].unit \in Unit)
  BY BodyAssumption DEF Observe, Goto, TypeOK, Handling, Exclusive
<1>b. /\ \A d \in Conn : d # c => /\ pc'[d] = pc[d] /\ reply'[d] = reply[d]
                                 /\ attempt'[d] = attempt[d] /\ body'[d] = body[d]
      /\ pc'[c] # "closed"
  BY DEF Observe, Goto, TypeOK
<1>c. /\ pc[c] = "after" /\ pc'[c] = "settle" /\ attempt'[c].outcome \in Outcome
      /\ attempt'[c].outcome = "success" => attempt[c].jobResult = "done"
  BY <1>a DEF Observe, Goto, TypeOK, Attempt, NoAttempt, Outcome
<1>d. \A d \in started : d \in Conn /\ body[d].op \in Op
  BY BodyAssumption DEF TypeOK, StartedInv, StartedOK
<1> USE DEF Observe, Goto
<1>1. TypeOK'
  <2> USE DEF TypeOK, Stage, Handling, Exclusive, Outcome
  <2>1. /\ (up \in BOOLEAN /\ busy \in BOOLEAN /\ crashes \in Nat)'
        /\ (pc \in [Conn -> Stage])'
        /\ (body \in [Conn -> Body \cup {None}])'
        /\ (\A d \in Conn : pc[d] \in Handling => body[d] \in Body)'
    BY <1>a
  <2>2. (attempt \in [Conn -> Attempt])'
    <3>1. attempt[c] \in Attempt
      OBVIOUS
    <3>2. attempt'[c] \in Attempt
      BY <3>1, <1>a DEF Attempt, NoAttempt, RecordInv, RecordOK, JobInv, JobOK
    <3> QED BY <3>2, <1>b DEF Attempt, NoAttempt
  <2>3. (reply \in [Conn -> Response \cup {None}])'
    <3>1. attempt[c].outcome \in Outcome \/ pc[c] # "prune"
      BY DEF RecordInv, RecordOK
    <3>2. reply'[c] \in Response \cup {None}
      BY <1>a, <3>1 DEF Response, Record, Absent
    <3> QED BY <3>2
  <2>4. /\ (ledger \in [Op -> Record \cup {Absent}])'
        /\ (durable \in [Op -> Record \cup {Absent}])'
        /\ (mtime \in [Op -> Nat] /\ writes \in Nat)'
    <3>1. attempt[c].outcome \in Outcome \/ pc[c] # "settle"
      BY DEF RecordInv, RecordOK
        <3> QED BY <1>a, <3>1 DEF Record, Absent
  <2>5. /\ (svc \in [Unit -> [active : ActiveState, inv : Nat]])'
        /\ (job \in [Unit -> Job])'
        /\ (inflight \in [Unit -> SUBSET Op])'
    BY <1>a DEF Job, JobPending, ActiveState
  <2>6. (started \subseteq Conn /\ applied \subseteq Op)'
    BY <1>a
  <2> QED BY <2>1, <2>2, <2>3, <2>4, <2>5, <2>6
<1>2. BusyIsHeldByOne'
  BY <1>1, <1>b DEF TypeOK, BusyIsHeldByOne, Exclusive
<1>3. AtMostOnce'
  BY <1>1, <1>a, <1>b, <1>c, <1>d DEF TypeOK, AtMostOnce, StartedInv, StartedOK, OwnRecord,
     Recorded, Commanded
<1>4. DeadIsIdle'
  BY <1>1, <1>b DEF TypeOK, DeadIsIdle, Handling, Exclusive
<1>5. Unanswered'
  BY <1>1, <1>b DEF TypeOK, Unanswered
<1>6. StartedInv'
  BY <1>1, <1>a, <1>b, <1>c, <1>d DEF TypeOK, StartedInv, StartedOK, RecordInv, RecordOK,
     Commanded, Recorded
<1>7. RecordInv'
  <2> SUFFICES ASSUME NEW d \in Conn PROVE RecordOK(d)'
    BY DEF RecordInv
  <2>1. CASE d = c
    BY <1>1, <1>a, <1>b, <1>c, <1>d, <2>1 DEF TypeOK, RecordInv, RecordOK, BusyIsHeldByOne,
       StartedInv, StartedOK, Commanded, Recorded, Exclusive, Outcome
  <2>2. CASE d # c
    BY <1>1, <1>a, <1>b, <1>c, <1>d, <2>2 DEF TypeOK, RecordInv, RecordOK, BusyIsHeldByOne,
       StartedInv, StartedOK, Commanded, Recorded, Exclusive, Outcome
  <2> QED BY <2>1, <2>2
<1>8. OwnRecord'
  BY <1>1, <1>a, <1>b, <1>c, <1>d DEF TypeOK, OwnRecord, BusyIsHeldByOne, RecordInv, RecordOK,
     StartedInv, StartedOK, Commanded, Recorded, Exclusive
<1>9. ToldInv'
  BY <1>1, <1>a, <1>b, <1>c, <1>d DEF TypeOK, ToldInv, ToldOK, StartedInv, StartedOK, RecordInv,
     RecordOK, OwnRecord, Unanswered, Commanded, Recorded, Outcome
<1>10. JobInv'
  <2> SUFFICES ASSUME NEW d \in Conn PROVE JobOK(d)'
    BY DEF JobInv
  <2>1. CASE d = c
    BY <1>1, <1>a, <1>b, <1>c, <1>d, <2>1 DEF TypeOK, JobInv, JobOK, BusyIsHeldByOne, RecordInv,
       RecordOK, StartedInv, StartedOK, Commanded, Recorded, Exclusive
  <2>2. CASE d # c
    BY <1>1, <1>a, <1>b, <1>c, <1>d, <2>2 DEF TypeOK, JobInv, JobOK, BusyIsHeldByOne, RecordInv,
       RecordOK, StartedInv, StartedOK, Commanded, Recorded, Exclusive
  <2> QED BY <2>1, <2>2
<1>11. AppliedInv'
  BY <1>1, <1>a, <1>b, <1>c, <1>d DEF TypeOK, AppliedInv, AppliedOK, RecordInv, RecordOK, JobInv,
     JobOK, Commanded, Recorded
<1> QED BY <1>1, <1>2, <1>3, <1>4, <1>5, <1>6, <1>7, <1>8, <1>9, <1>10, <1>11

\* The record is overwritten by the connection that owns it.
LEMMA SettleInv ==
  ASSUME SyncsDirectories, IInv, NEW c \in Conn, Settle(c)
  PROVE  IInv'
<1> USE NoneAssumption DEF IInv, ledgerVars, hostVars, history, requestVars
<1>a. pc[c] = "closed" \/ (body[c] \in Body /\ body[c].op \in Op /\ body[c].unit \in Unit)
  BY BodyAssumption DEF Settle, Goto, TypeOK, Handling, Exclusive, Rename, Leave, Answer
<1>b. /\ \A d \in Conn : d # c => /\ pc'[d] = pc[d] /\ reply'[d] = reply[d]
                                 /\ attempt'[d] = attempt[d] /\ body'[d] = body[d]
      /\ pc'[c] # "closed"
  BY DEF Settle, Goto, TypeOK, Rename, Leave, Answer
<1>c. /\ attempt[c].outcome \in Outcome
      /\ ledger[body[c].op] # Absent /\ ledger[body[c].op].outcome = "unknown"
      /\ \/ /\ pc'[c] = "settled" /\ attempt' = attempt
            /\ ledger'[body[c].op] # Absent /\ ledger'[body[c].op].outcome = attempt[c].outcome
         \/ pc'[c] = "answered" /\ ledger' = ledger
  BY <1>a DEF Settle, Goto, TypeOK, Absent, Outcome, RecordInv, RecordOK, Recorded, Commanded,
     Rename, Leave, Answer
<1>d. \A d \in started : d \in Conn /\ body[d].op \in Op
  BY BodyAssumption DEF TypeOK, StartedInv, StartedOK
<1> USE DEF Settle, Goto, Rename, Leave, Answer
<1>1. TypeOK'
  <2> USE DEF TypeOK, Stage, Handling, Exclusive, Outcome
  <2>1. /\ (up \in BOOLEAN /\ busy \in BOOLEAN /\ crashes \in Nat)'
        /\ (pc \in [Conn -> Stage])'
        /\ (body \in [Conn -> Body \cup {None}])'
        /\ (\A d \in Conn : pc[d] \in Handling => body[d] \in Body)'
    BY <1>a
  <2>2. (attempt \in [Conn -> Attempt])'
    <3>1. attempt[c] \in Attempt
      OBVIOUS
    <3>2. attempt'[c] \in Attempt
      BY <3>1, <1>a DEF Attempt, NoAttempt, RecordInv, RecordOK, JobInv, JobOK
    <3> QED BY <3>2, <1>b DEF Attempt, NoAttempt
  <2>3. (reply \in [Conn -> Response \cup {None}])'
    <3>1. attempt[c].outcome \in Outcome \/ pc[c] # "prune"
      BY DEF RecordInv, RecordOK
    <3>2. reply'[c] \in Response \cup {None}
      BY <1>a, <3>1 DEF Response, Record, Absent
    <3> QED BY <3>2
  <2>4. /\ (ledger \in [Op -> Record \cup {Absent}])'
        /\ (durable \in [Op -> Record \cup {Absent}])'
        /\ (mtime \in [Op -> Nat] /\ writes \in Nat)'
    <3>1. attempt[c].outcome \in Outcome \/ pc[c] # "settle"
      BY DEF RecordInv, RecordOK
        <3>2. (ledger \in [Op -> Record \cup {Absent}])'
      BY <1>a, <3>1 DEF Record, Absent
    <3>3. (durable \in [Op -> Record \cup {Absent}])'
      BY <1>a DEF Record, Absent
    <3>4. (mtime \in [Op -> Nat] /\ writes \in Nat)'
      BY <1>a
    <3> QED BY <3>2, <3>3, <3>4
  <2>5. /\ (svc \in [Unit -> [active : ActiveState, inv : Nat]])'
        /\ (job \in [Unit -> Job])'
        /\ (inflight \in [Unit -> SUBSET Op])'
    BY <1>a DEF Job, JobPending, ActiveState
  <2>6. (started \subseteq Conn /\ applied \subseteq Op)'
    BY <1>a
  <2> QED BY <2>1, <2>2, <2>3, <2>4, <2>5, <2>6
<1>2. BusyIsHeldByOne'
  BY <1>1, <1>b DEF TypeOK, BusyIsHeldByOne, Exclusive
<1>3. AtMostOnce'
  BY <1>1, <1>a, <1>b, <1>c, <1>d DEF TypeOK, AtMostOnce, StartedInv, StartedOK, OwnRecord,
     Recorded, Commanded
<1>4. DeadIsIdle'
  BY <1>1, <1>b DEF TypeOK, DeadIsIdle, Handling, Exclusive
<1>5. Unanswered'
  BY <1>1, <1>b DEF TypeOK, Unanswered
<1>6. StartedInv'
  <2> SUFFICES ASSUME NEW d \in started' PROVE StartedOK(d)'
    BY DEF StartedInv
  <2>1. CASE d = c
    BY <1>1, <1>a, <1>b, <1>c, <1>d, <2>1 DEF TypeOK, StartedInv, StartedOK, RecordInv, RecordOK,
       Commanded, Recorded
  <2>2. CASE d # c
    BY <1>1, <1>a, <1>b, <1>c, <1>d, <2>2 DEF TypeOK, StartedInv, StartedOK, RecordInv, RecordOK,
       Commanded, Recorded
  <2> QED BY <2>1, <2>2
<1>7. RecordInv'
  <2> SUFFICES ASSUME NEW d \in Conn PROVE RecordOK(d)'
    BY DEF RecordInv
  <2>1. CASE d = c
    BY <1>1, <1>a, <1>b, <1>c, <1>d, <2>1 DEF TypeOK, RecordInv, RecordOK, BusyIsHeldByOne,
       StartedInv, StartedOK, Commanded, Recorded, Exclusive, Outcome
  <2>2. CASE d # c
    BY <1>1, <1>a, <1>b, <1>c, <1>d, <2>2 DEF TypeOK, RecordInv, RecordOK, BusyIsHeldByOne,
       StartedInv, StartedOK, Commanded, Recorded, Exclusive, Outcome
  <2> QED BY <2>1, <2>2
<1>8. OwnRecord'
  BY <1>1, <1>a, <1>b, <1>c, <1>d DEF TypeOK, OwnRecord, BusyIsHeldByOne, RecordInv, RecordOK,
     StartedInv, StartedOK, Commanded, Recorded, Exclusive
<1>9. ToldInv'
  <2> SUFFICES ASSUME NEW d \in started' PROVE ToldOK(d)'
    BY DEF ToldInv
  <2>1. CASE d = c
    BY <1>1, <1>a, <1>b, <1>c, <1>d, <2>1 DEF TypeOK, ToldInv, ToldOK, StartedInv, StartedOK,
       RecordInv, RecordOK, OwnRecord, Unanswered, Commanded, Recorded, Outcome
  <2>2. CASE d # c
    <3>1. d \in started /\ body[d].op # body[c].op
      BY <1>a, <1>b, <1>d, <2>2 DEF StartedInv, OwnRecord, Recorded, Commanded
    <3> QED BY <1>1, <1>a, <1>b, <1>c, <1>d, <2>2, <3>1 DEF TypeOK, ToldInv, ToldOK, StartedInv,
               StartedOK
  <2> QED BY <2>1, <2>2
<1>10. JobInv'
  BY <1>1, <1>a, <1>b, <1>c, <1>d DEF TypeOK, JobInv, JobOK, BusyIsHeldByOne, RecordInv, RecordOK,
     StartedInv, StartedOK, Commanded, Recorded, Exclusive
<1>11. AppliedInv'
  <2>1. pc[c] = "settle" /\ attempt[c].outcome = "success" => body[c].op \in applied
    BY DEF JobInv, JobOK
  <2> SUFFICES ASSUME NEW o \in Op PROVE AppliedOK(o)'
    BY DEF AppliedInv
  <2>2. AppliedOK(o) /\ UNCHANGED <<durable, applied>>
    BY DEF AppliedInv
  <2>3. CASE ledger' = ledger
    BY <2>2, <2>3 DEF AppliedOK
  <2>4. CASE ledger' # ledger
    <3>1. pc[c] = "settle" /\ ledger' = [ledger EXCEPT
            ![body[c].op] = [outcome |-> attempt[c].outcome, body |-> body[c]]]
      BY <2>4
    <3>2. body[c].op \in Op /\ ledger \in [Op -> Record \cup {Absent}]
      BY <1>a, <3>1 DEF TypeOK
    <3> QED BY <2>1, <2>2, <3>1, <3>2 DEF AppliedOK
  <2> QED BY <2>3, <2>4
<1> QED BY <1>1, <1>2, <1>3, <1>4, <1>5, <1>6, <1>7, <1>8, <1>9, <1>10, <1>11

\* The settled record is made durable before the caller is told.
LEMMA SettleReturnsInv ==
  ASSUME SyncsDirectories, IInv, NEW c \in Conn, SettleReturns(c)
  PROVE  IInv'
<1> USE NoneAssumption DEF IInv, ledgerVars, hostVars, history, requestVars
<1>a. pc[c] = "closed" \/ (body[c] \in Body /\ body[c].op \in Op /\ body[c].unit \in Unit)
  BY BodyAssumption DEF SettleReturns, Goto, TypeOK, Handling, Exclusive, SyncDirectory, Leave,
     Answer
<1>b. /\ \A d \in Conn : d # c => /\ pc'[d] = pc[d] /\ reply'[d] = reply[d]
                                 /\ attempt'[d] = attempt[d] /\ body'[d] = body[d]
      /\ pc'[c] # "closed"
  BY DEF SettleReturns, Goto, TypeOK, SyncDirectory, Leave, Answer
<1>d. \A d \in started : d \in Conn /\ body[d].op \in Op
  BY BodyAssumption DEF TypeOK, StartedInv, StartedOK
<1> USE DEF SettleReturns, Goto, SyncDirectory, Leave, Answer
<1>1. TypeOK'
  <2> USE DEF TypeOK, Stage, Handling, Exclusive, Outcome
  <2>1. /\ (up \in BOOLEAN /\ busy \in BOOLEAN /\ crashes \in Nat)'
        /\ (pc \in [Conn -> Stage])'
        /\ (body \in [Conn -> Body \cup {None}])'
        /\ (\A d \in Conn : pc[d] \in Handling => body[d] \in Body)'
    BY <1>a
  <2>2. (attempt \in [Conn -> Attempt])'
    <3>1. attempt[c] \in Attempt
      OBVIOUS
    <3>2. attempt'[c] \in Attempt
      BY <3>1, <1>a DEF Attempt, NoAttempt, RecordInv, RecordOK, JobInv, JobOK
    <3> QED BY <3>2, <1>b DEF Attempt, NoAttempt
  <2>3. (reply \in [Conn -> Response \cup {None}])'
    <3>1. attempt[c].outcome \in Outcome \/ pc[c] # "prune"
      BY DEF RecordInv, RecordOK
    <3>2. reply'[c] \in Response \cup {None}
      BY <1>a, <3>1 DEF Response, Record, Absent
    <3> QED BY <3>2
  <2>4. /\ (ledger \in [Op -> Record \cup {Absent}])'
        /\ (durable \in [Op -> Record \cup {Absent}])'
        /\ (mtime \in [Op -> Nat] /\ writes \in Nat)'
    <3>1. attempt[c].outcome \in Outcome \/ pc[c] # "settle"
      BY DEF RecordInv, RecordOK
        <3>2. (ledger \in [Op -> Record \cup {Absent}])'
      BY <1>a, <3>1 DEF Record, Absent
    <3>3. (durable \in [Op -> Record \cup {Absent}])'
      BY <1>a DEF Record, Absent
    <3>4. (mtime \in [Op -> Nat] /\ writes \in Nat)'
      BY <1>a
    <3> QED BY <3>2, <3>3, <3>4
  <2>5. /\ (svc \in [Unit -> [active : ActiveState, inv : Nat]])'
        /\ (job \in [Unit -> Job])'
        /\ (inflight \in [Unit -> SUBSET Op])'
    BY <1>a DEF Job, JobPending, ActiveState
  <2>6. (started \subseteq Conn /\ applied \subseteq Op)'
    BY <1>a
  <2> QED BY <2>1, <2>2, <2>3, <2>4, <2>5, <2>6
<1>2. BusyIsHeldByOne'
  BY <1>1, <1>b DEF TypeOK, BusyIsHeldByOne, Exclusive
<1>3. AtMostOnce'
  BY <1>1, <1>a, <1>b, <1>d DEF TypeOK, AtMostOnce, StartedInv, StartedOK, OwnRecord, Recorded,
     Commanded
<1>4. DeadIsIdle'
  BY <1>1, <1>b DEF TypeOK, DeadIsIdle, Handling, Exclusive
<1>5. Unanswered'
  BY <1>1, <1>b DEF TypeOK, Unanswered
<1>6. StartedInv'
  BY <1>1, <1>a, <1>b, <1>d DEF TypeOK, StartedInv, StartedOK, RecordInv, RecordOK, Commanded,
     Recorded
<1>7. RecordInv'
  <2> SUFFICES ASSUME NEW d \in Conn PROVE RecordOK(d)'
    BY DEF RecordInv
  <2>1. CASE d = c
    BY <1>1, <1>a, <1>b, <1>d, <2>1 DEF TypeOK, RecordInv, RecordOK, BusyIsHeldByOne, StartedInv,
       StartedOK, Commanded, Recorded, Exclusive, Outcome
  <2>2. CASE d # c
    BY <1>1, <1>a, <1>b, <1>d, <2>2 DEF TypeOK, RecordInv, RecordOK, BusyIsHeldByOne, StartedInv,
       StartedOK, Commanded, Recorded, Exclusive, Outcome
  <2> QED BY <2>1, <2>2
<1>8. OwnRecord'
  BY <1>1, <1>a, <1>b, <1>d DEF TypeOK, OwnRecord, BusyIsHeldByOne, RecordInv, RecordOK,
     StartedInv, StartedOK, Commanded, Recorded, Exclusive
<1>9. ToldInv'
  BY <1>1, <1>a, <1>b, <1>d DEF TypeOK, ToldInv, ToldOK, StartedInv, StartedOK, RecordInv,
     RecordOK, OwnRecord, Unanswered, Commanded, Recorded, Outcome
<1>10. JobInv'
  BY <1>1, <1>a, <1>b, <1>d DEF TypeOK, JobInv, JobOK, BusyIsHeldByOne, RecordInv, RecordOK,
     StartedInv, StartedOK, Commanded, Recorded, Exclusive
<1>11. AppliedInv'
  BY <1>1, <1>a, <1>b, <1>d DEF TypeOK, AppliedInv, AppliedOK, RecordInv, RecordOK, JobInv, JobOK,
     Commanded, Recorded
<1> QED BY <1>1, <1>2, <1>3, <1>4, <1>5, <1>6, <1>7, <1>8, <1>9, <1>10, <1>11

\* Pruning removes records together with the memory of what they stood for.
LEMMA FinishInv ==
  ASSUME SyncsDirectories, IInv, NEW c \in Conn, Finish(c)
  PROVE  IInv'
<1> USE NoneAssumption DEF IInv, ledgerVars, hostVars, history, requestVars
<1>a. pc[c] = "closed" \/ (body[c] \in Body /\ body[c].op \in Op /\ body[c].unit \in Unit)
  BY BodyAssumption DEF Finish, Goto, TypeOK, Handling, Exclusive, Leave, Answer
<1>b. /\ \A d \in Conn : d # c => /\ pc'[d] = pc[d] /\ reply'[d] = reply[d]
                                 /\ attempt'[d] = attempt[d] /\ body'[d] = body[d]
      /\ pc'[c] # "closed"
  BY DEF Finish, Goto, TypeOK, Leave, Answer
<1>c. Forgotten
  BY PruneEffect DEF Finish
<1>d. \A d \in started : d \in Conn /\ body[d].op \in Op
  BY BodyAssumption DEF TypeOK, StartedInv, StartedOK
<1> USE DEF Finish, Goto, Leave, Answer
<1>1. TypeOK'
  <2> USE DEF TypeOK, Stage, Handling, Exclusive, Outcome
  <2>1. /\ (up \in BOOLEAN /\ busy \in BOOLEAN /\ crashes \in Nat)'
        /\ (pc \in [Conn -> Stage])'
        /\ (body \in [Conn -> Body \cup {None}])'
        /\ (\A d \in Conn : pc[d] \in Handling => body[d] \in Body)'
    BY <1>a
  <2>2. (attempt \in [Conn -> Attempt])'
    <3>1. attempt[c] \in Attempt
      OBVIOUS
    <3>2. attempt'[c] \in Attempt
      BY <3>1, <1>a DEF Attempt, NoAttempt, RecordInv, RecordOK, JobInv, JobOK
    <3> QED BY <3>2, <1>b DEF Attempt, NoAttempt
  <2>3. (reply \in [Conn -> Response \cup {None}])'
    <3>1. attempt[c].outcome \in Outcome \/ pc[c] # "prune"
      BY DEF RecordInv, RecordOK
    <3>2. reply'[c] \in Response \cup {None}
      BY <1>a, <3>1 DEF Response, Record, Absent
    <3> QED BY <3>2
  <2>4. /\ (ledger \in [Op -> Record \cup {Absent}])'
        /\ (durable \in [Op -> Record \cup {Absent}])'
        /\ (mtime \in [Op -> Nat] /\ writes \in Nat)'
    <3>1. attempt[c].outcome \in Outcome \/ pc[c] # "settle"
      BY DEF RecordInv, RecordOK
        <3> QED BY <1>a, <3>1, <1>c DEF Record, Absent, Forgotten
  <2>5. /\ (svc \in [Unit -> [active : ActiveState, inv : Nat]])'
        /\ (job \in [Unit -> Job])'
        /\ (inflight \in [Unit -> SUBSET Op])'
    BY <1>a DEF Job, JobPending, ActiveState
  <2>6. (started \subseteq Conn /\ applied \subseteq Op)'
    BY <1>a, <1>c DEF Forgotten
  <2> QED BY <2>1, <2>2, <2>3, <2>4, <2>5, <2>6
<1>2. BusyIsHeldByOne'
  BY <1>1, <1>b DEF TypeOK, BusyIsHeldByOne, Exclusive
<1>3. AtMostOnce'
  BY <1>1, <1>a, <1>b, <1>c, <1>d DEF TypeOK, AtMostOnce, StartedInv, StartedOK, OwnRecord,
     Recorded, Commanded, Forgotten, Absent
<1>4. DeadIsIdle'
  BY <1>1, <1>b DEF TypeOK, DeadIsIdle, Handling, Exclusive
<1>5. Unanswered'
  BY <1>1, <1>b DEF TypeOK, Unanswered
<1>6. StartedInv'
  BY <1>1, <1>a, <1>b, <1>c, <1>d DEF TypeOK, StartedInv, StartedOK, RecordInv, RecordOK,
     Commanded, Recorded, Forgotten, Absent
<1>7. RecordInv'
  BY <1>1, <1>a, <1>b, <1>c, <1>d DEF TypeOK, RecordInv, RecordOK, BusyIsHeldByOne, StartedInv,
     StartedOK, Commanded, Recorded, Exclusive, Outcome, Forgotten, Absent
<1>8. OwnRecord'
  BY <1>1, <1>a, <1>b, <1>c, <1>d DEF TypeOK, OwnRecord, BusyIsHeldByOne, RecordInv, RecordOK,
     StartedInv, StartedOK, Commanded, Recorded, Exclusive, Forgotten, Absent
<1>9. ToldInv'
  <2> SUFFICES ASSUME NEW d \in started' PROVE ToldOK(d)'
    BY DEF ToldInv
  <2>1. CASE d = c
    <3>1. ledger'[body[c].op] = ledger[body[c].op] /\ durable'[body[c].op] = durable[body[c].op]
      BY <1>c, <1>d, <2>1 DEF Forgotten
    <3>2. /\ attempt[c].outcome \in Outcome
          /\ ledger[body[c].op].outcome = attempt[c].outcome
          /\ durable[body[c].op] = ledger[body[c].op]
      BY DEF RecordInv, RecordOK, Recorded, Commanded
    <3>3. \/ reply'[c] = [code |-> "OK", outcome |-> attempt[c].outcome]
          \/ reply'[c] = [code |-> "HOST_UNAVAILABLE", outcome |-> "unknown"]
      BY DEF TypeOK
    <3> QED BY <2>1, <3>1, <3>2, <3>3 DEF ToldOK, Outcome
  <2>2. CASE d # c
    BY <1>1, <1>a, <1>b, <1>c, <1>d, <2>2 DEF TypeOK, ToldInv, ToldOK, StartedInv, StartedOK,
       RecordInv, RecordOK, OwnRecord, Unanswered, Commanded, Recorded, Outcome, Forgotten, Absent
  <2> QED BY <2>1, <2>2
<1>10. JobInv'
  BY <1>1, <1>a, <1>b, <1>c, <1>d DEF TypeOK, JobInv, JobOK, BusyIsHeldByOne, RecordInv, RecordOK,
     StartedInv, StartedOK, Commanded, Recorded, Exclusive, Forgotten, Absent
<1>11. AppliedInv'
  BY <1>1, <1>a, <1>b, <1>c, <1>d DEF TypeOK, AppliedInv, AppliedOK, RecordInv, RecordOK, JobInv,
     JobOK, Commanded, Recorded, Forgotten, Absent
<1> QED BY <1>1, <1>2, <1>3, <1>4, <1>5, <1>6, <1>7, <1>8, <1>9, <1>10, <1>11

\* A start prunes and takes nothing up.
LEMMA StartInv == ASSUME SyncsDirectories, IInv, Start PROVE IInv'
<1> USE DEF IInv, Start, requestVars, hostVars
<1>1. Forgotten
  BY PruneEffect
<1>2. TypeOK'
  BY <1>1 DEF TypeOK, Forgotten
<1>3. BusyIsHeldByOne' /\ DeadIsIdle' /\ Unanswered'
  BY DEF BusyIsHeldByOne, DeadIsIdle, Unanswered
<1>4. AtMostOnce' /\ OwnRecord'
  BY <1>1 DEF AtMostOnce, OwnRecord, Forgotten, DeadIsIdle, Recorded, Commanded, Handling, Exclusive
<1>5. StartedInv'
  BY <1>1, BodyAssumption DEF StartedInv, StartedOK, Forgotten
<1>6. RecordInv' /\ JobInv'
  BY DEF RecordInv, RecordOK, JobInv, JobOK, DeadIsIdle, Recorded, Commanded, Handling, Exclusive
<1>7. ToldInv'
  BY <1>1, BodyAssumption DEF ToldInv, ToldOK, StartedInv, StartedOK, Forgotten
<1>8. AppliedInv'
  BY <1>1 DEF AppliedInv, AppliedOK, Forgotten, Absent
<1> QED BY <1>2, <1>3, <1>4, <1>5, <1>6, <1>7, <1>8

\* After a crash of the helper no connection is being handled.
LEMMA DropInv ==
  ASSUME IInv, Drop
  PROVE  /\ (up \in BOOLEAN /\ busy \in BOOLEAN)' /\ (pc \in [Conn -> Stage])'
         /\ (\A c \in Conn : pc[c] \notin Handling)'
         /\ (attempt \in [Conn -> Attempt])'
         /\ BusyIsHeldByOne' /\ AtMostOnce' /\ DeadIsIdle' /\ Unanswered' /\ OwnRecord'
         /\ RecordInv' /\ JobInv'
         /\ \A c \in started : pc'[c] \in Commanded \cup {"answered", "dropped"}
<1> USE DEF IInv, Drop, history
<1>1. (up \in BOOLEAN /\ busy \in BOOLEAN)' /\ (pc \in [Conn -> Stage])'
  BY DEF TypeOK, Stage
<1>2. (\A c \in Conn : pc[c] \notin Handling)'
  BY DEF Handling, Exclusive
<1>3. (attempt \in [Conn -> Attempt])'
  BY DEF Attempt, NoAttempt
<1>4. BusyIsHeldByOne' /\ DeadIsIdle'
  BY <1>2 DEF BusyIsHeldByOne, DeadIsIdle, Handling
<1>5. AtMostOnce'
  BY DEF AtMostOnce
<1>6. Unanswered'
  BY DEF Unanswered, Handling, Exclusive
<1>7. OwnRecord' /\ RecordInv' /\ JobInv'
  BY <1>2 DEF OwnRecord, RecordInv, RecordOK, JobInv, JobOK, Handling, Exclusive, Recorded,
     Commanded
<1>8. \A c \in started : pc'[c] \in Commanded \cup {"answered", "dropped"}
  BY DEF TypeOK, StartedInv, StartedOK, Handling, Exclusive, Commanded
<1> QED BY <1>1, <1>2, <1>3, <1>4, <1>5, <1>6, <1>7, <1>8

\* The helper dies; the unit, its job and the disk stay.
LEMMA HelperCrashInv == ASSUME SyncsDirectories, IInv, HelperCrash PROVE IInv'
<1> USE DEF IInv, HelperCrash, ledgerVars, hostVars, history
<1>1. Drop
  OBVIOUS
<1>2. TypeOK'
  <2>1. (crashes \in Nat)'
    BY DEF TypeOK
  <2>2. (\A c \in Conn : pc[c] \in Handling => body[c] \in Body)'
    BY DropInv, <1>1
  <2> QED BY DropInv, <1>1, <2>1, <2>2 DEF TypeOK, Drop
<1>3. StartedInv' /\ ToldInv' /\ AppliedInv'
  BY DropInv, <1>1 DEF Drop, StartedInv, StartedOK, ToldInv, ToldOK, AppliedInv, AppliedOK
<1> QED BY <1>1, <1>2, <1>3, DropInv

\* A power loss brings back durable records; none that stands for a started
\* restart is missing among them.
LEMMA HostCrashInv == ASSUME SyncsDirectories, IInv, HostCrash PROVE IInv'
<1> USE DEF IInv, history
<1>1. Drop
  BY DEF HostCrash
<1>2. /\ \A o \in Op : ledger'[o] = ledger[o] \/ ledger'[o] = durable[o]
      /\ (ledger \in [Op -> Record \cup {Absent}])' /\ durable' = ledger'
  BY DEF HostCrash, TypeOK
<1>3. (svc \in [Unit -> [active : ActiveState, inv : Nat]])' /\ (job \in [Unit -> Job])'
      /\ (inflight \in [Unit -> SUBSET Op])'
  BY DEF HostCrash, TypeOK, ActiveState, Job
<1>4. (crashes \in Nat /\ mtime \in [Op -> Nat] /\ writes \in Nat)'
  BY DEF HostCrash, TypeOK
<1>5. TypeOK'
  BY DropInv, <1>1, <1>2, <1>3, <1>4 DEF TypeOK, Drop, Handling, Exclusive
<1>6. \A c \in started : body[c] \in Body /\ body[c].op \in Op
  BY BodyAssumption DEF StartedInv, StartedOK
<1>7. StartedInv'
  BY DropInv, <1>1, <1>2, <1>6 DEF Drop, StartedInv, StartedOK
<1>8. ToldInv'
  BY <1>1, <1>2, <1>6 DEF Drop, ToldInv, ToldOK
<1>9. AppliedInv'
  BY <1>1, <1>2 DEF Drop, AppliedInv, AppliedOK
<1> QED BY <1>1, <1>5, <1>7, <1>8, <1>9, DropInv

\* Systemd takes a job to its end for every operation that waits for it.
LEMMA SystemdInv == ASSUME SyncsDirectories, IInv, NEW u \in Unit, Systemd(u) PROVE IInv'
<1> USE DEF IInv, Systemd, requestVars, ledgerVars
<1> USE DEF JobStops, JobStarts, JobFails, ServiceChanges
<1>1. TypeOK'
  <2>1. (svc \in [Unit -> [active : ActiveState, inv : Nat]])'
    <3>1. svc[u] \in [active : ActiveState, inv : Nat]
      BY DEF TypeOK
    <3>2. svc'[u] \in [active : ActiveState, inv : Nat]
      BY <3>1 DEF TypeOK, ActiveState
    <3>3. \A v \in Unit : v # u => svc'[v] = svc[v]
      BY DEF TypeOK
    <3>4. svc' = [svc EXCEPT ![u] = svc'[u]] \/ svc' = svc
      BY DEF TypeOK
    <3> QED BY <3>2, <3>3, <3>4 DEF TypeOK
  <2>2. (job \in [Unit -> Job] /\ inflight \in [Unit -> SUBSET Op] /\ applied \subseteq Op)'
    BY DEF TypeOK, Job, JobPending
  <2> QED BY <2>1, <2>2 DEF TypeOK
<1>2. BusyIsHeldByOne' /\ AtMostOnce' /\ DeadIsIdle' /\ Unanswered' /\ OwnRecord'
  BY DEF BusyIsHeldByOne, AtMostOnce, DeadIsIdle, Unanswered, OwnRecord
<1>3. StartedInv' /\ RecordInv' /\ ToldInv'
  BY DEF StartedInv, StartedOK, RecordInv, RecordOK, ToldInv, ToldOK
<1>4. applied \subseteq applied'
  OBVIOUS
<1>5. JobInv'
  <2> SUFFICES ASSUME NEW c \in Conn PROVE JobOK(c)'
    BY DEF JobInv
  <2>1. pc[c] = "waiting" => body[c].unit \in Unit /\ body[c].op \in Op
    BY BodyAssumption DEF TypeOK, Handling, Exclusive
  <2>2. CASE body[c].unit = u
    BY <1>4, <2>1, <2>2 DEF TypeOK, JobInv, JobOK, JobPending
  <2>3. CASE body[c].unit # u
    BY <1>4, <2>1, <2>3 DEF TypeOK, JobInv, JobOK, JobPending
  <2> QED BY <2>2, <2>3
<1>6. AppliedInv'
  BY <1>4 DEF AppliedInv, AppliedOK
<1> QED BY <1>1, <1>2, <1>3, <1>5, <1>6

\* The helper begins with nothing recorded and nothing asked.
LEMMA InitInv == Init => IInv
<1> SUFFICES ASSUME Init PROVE IInv
  OBVIOUS
<1> USE DEF Init
<1>1. TypeOK
  BY DEF TypeOK, Stage, Handling, Exclusive, Attempt, NoAttempt, ActiveState, Job
<1>2. BusyIsHeldByOne /\ AtMostOnce /\ DeadIsIdle /\ Unanswered
  BY DEF BusyIsHeldByOne, AtMostOnce, DeadIsIdle, Unanswered, Handling, Exclusive
<1>3. StartedInv /\ RecordInv /\ OwnRecord /\ ToldInv
  BY DEF StartedInv, RecordInv, RecordOK, OwnRecord, ToldInv, Recorded, Commanded
<1>4. JobInv /\ AppliedInv
  BY DEF JobInv, JobOK, AppliedInv, AppliedOK, Absent
<1> QED BY <1>1, <1>2, <1>3, <1>4 DEF IInv

\* No step of the helper, of systemd or of a crash leaves the invariant.
LEMMA NextInv == ASSUME SyncsDirectories, IInv, [Next]_vars PROVE IInv'
<1>1. CASE Start
  BY <1>1, StartInv
<1>2. ASSUME NEW c \in Conn, Arrive(c) PROVE IInv'
  BY <1>2, ArriveInv
<1>3. ASSUME NEW c \in Conn, Handle(c) PROVE IInv'
  BY <1>3, CheckPolicyInv, LookupInv, InspectInv, RecordIntentInv, IntentReturnsInv, RestartInv,
     CommandEndsInv, ObserveInv, SettleInv, SettleReturnsInv, FinishInv DEF Handle
<1>4. CASE HelperCrash
  BY <1>4, HelperCrashInv
<1>5. CASE HostCrash
  BY <1>5, HostCrashInv
<1>6. ASSUME NEW u \in Unit, Systemd(u) PROVE IInv'
  BY <1>6, SystemdInv
<1>7. CASE UNCHANGED vars
  BY <1>7 DEF vars, requestVars, ledgerVars, hostVars, history, IInv, TypeOK, BusyIsHeldByOne,
     AtMostOnce, DeadIsIdle, Unanswered, StartedInv, StartedOK, RecordInv, RecordOK, OwnRecord,
     ToldInv, ToldOK, JobInv, JobOK, AppliedInv, AppliedOK
<1> QED BY <1>1, <1>2, <1>3, <1>4, <1>5, <1>6, <1>7 DEF Next

\* The inductive invariant holds in every reachable state.
THEOREM Inductive == SyncsDirectories /\ Spec => []IInv
<1>1. SyncsDirectories /\ IInv /\ [Next]_vars => IInv'
  BY NextInv
<1>2. CASE SyncsDirectories
  BY <1>1, <1>2, InitInv, PTL DEF Spec
<1>3. CASE ~SyncsDirectories
  BY <1>3, PTL
<1> QED BY <1>2, <1>3

\* Every variable keeps its type.
THEOREM TypeCorrect == SyncsDirectories /\ Spec => []TypeOK
<1>1. IInv => TypeOK
  BY DEF IInv
<1> QED BY <1>1, Inductive, PTL

\* The busy flag of the helper is a lock that is never leaked and never shared.
THEOREM BusyIsALock == SyncsDirectories /\ Spec => []BusyIsHeldByOne
<1>1. IInv => BusyIsHeldByOne
  BY DEF IInv
<1> QED BY <1>1, Inductive, PTL

\* An operation whose record is retained is handed to systemd at most once,
\* whatever is retried, repeated concurrently or cut short by a crash.
THEOREM RestartsAtMostOnce == SyncsDirectories /\ Spec => []AtMostOnce
<1>1. IInv => AtMostOnce
  BY DEF IInv
<1> QED BY <1>1, Inductive, PTL

\* No power loss makes the helper forget a restart it may have carried out.
THEOREM RecordPrecedesRestart == SyncsDirectories /\ Spec => []WriteAhead
<1>1. IInv => WriteAhead
  BY DEF IInv, StartedInv, StartedOK, WriteAhead
<1> QED BY <1>1, Inductive, PTL

\* What the executing caller was told is what every later retry will read.
THEOREM AnswersAreDurable == SyncsDirectories /\ Spec => []AnswerSurvives
<1>1. IInv => AnswerSurvives
  BY DEF IInv, ToldInv, ToldOK, AnswerSurvives
<1> QED BY <1>1, Inductive, PTL

\* Receipts that say success are about the operation's own restart.
THEOREM SuccessIsEarned == SyncsDirectories /\ Spec => []SuccessIsReal
<1>1. IInv => SuccessIsReal
  BY DEF IInv, AppliedInv, AppliedOK, SuccessIsReal
<1> QED BY <1>1, Inductive, PTL

\* A repetition is never refused for the state of the unit or of the helper: its
\* receipt is looked at first, and it is that of the same request.
LEMMA RepetitionsAreKnown ==
  ASSUME SyncsDirectories, IInv, [Next]_vars,
         NEW c \in started, NEW d \in Conn, body[d] = body[c],
         reply'[d] # reply[d], reply'[d].outcome = "not_started"
  PROVE  reply'[d].code \in {"PERMISSION_DENIED", "INTERNAL_ERROR"}
<1> USE DEF IInv, Goto, Answer, Leave
<1>1. /\ body[d] \in Body
      /\ ledger[body[d].op] # Absent /\ ledger[body[d].op].body = body[d]
  BY DEF StartedInv, StartedOK
<1>2. ~Arrive(d)
  BY <1>1, NoneAssumption DEF Arrive, Unanswered
<1>3. CASE Handle(d)
  <2>1. CASE CheckPolicy(d)
    BY <2>1 DEF CheckPolicy, TypeOK
  <2>2. CASE Lookup(d)
    <3>1. ledger[body[d].op].outcome # "not_started"
      BY <1>1, BodyAssumption DEF TypeOK, Record, Outcome
    <3>2. reply' = [reply EXCEPT ![d] = [code |-> "INTERNAL_ERROR", outcome |-> "not_started"]]
      BY <1>1, <2>2, <3>1 DEF Lookup, TypeOK
    <3> QED BY <3>2 DEF TypeOK
  <2>3. ~Inspect(d)
    BY <1>1 DEF Inspect, RecordInv, RecordOK
  <2>4. CASE RecordIntent(d) \/ IntentReturns(d)
    BY <2>4 DEF RecordIntent, IntentReturns, TypeOK
  <2>5. ~Restart(d) /\ ~CommandEnds(d) /\ ~Observe(d)
    BY DEF Restart, CommandEnds, Observe
  <2>6. ~Settle(d) /\ ~SettleReturns(d) /\ ~Finish(d)
    BY DEF Settle, SettleReturns, Finish, TypeOK, RecordInv, RecordOK, Outcome
  <2> QED BY <1>3, <2>1, <2>2, <2>3, <2>4, <2>5, <2>6 DEF Handle
<1>4. ASSUME NEW e \in Conn, e # d, Arrive(e) \/ Handle(e) PROVE reply'[d] = reply[d]
  BY <1>4 DEF TypeOK, Arrive, Handle, CheckPolicy, Lookup, Inspect, RecordIntent, IntentReturns,
     Restart, CommandEnds, Observe, Settle, SettleReturns, Finish
<1>5. CASE Start \/ HelperCrash \/ HostCrash \/ (\E u \in Unit : Systemd(u)) \/ UNCHANGED vars
  BY <1>5 DEF Start, HelperCrash, HostCrash, Drop, Systemd, vars
<1> QED BY <1>2, <1>3, <1>4, <1>5 DEF Next

\* not_started is only ever said to a caller whose request restarted nothing, and
\* to the repetition of one that did only while its receipt is out of reach.
THEOREM RefusalsAreTrue == SyncsDirectories /\ Spec => NotStartedIsTrue
<1>1. IInv => \A c \in started : reply[c] # None => reply[c].outcome # "not_started"
  BY DEF IInv, ToldInv, ToldOK
<1>2. SyncsDirectories /\ IInv /\ [Next]_vars
        => [\A c \in started, d \in Conn :
              body[d] = body[c] /\ reply'[d] # reply[d] /\ reply'[d].outcome = "not_started"
                => reply'[d].code \in {"PERMISSION_DENIED", "INTERNAL_ERROR"}]_vars
  BY RepetitionsAreKnown
<1>3. CASE SyncsDirectories
  BY <1>1, <1>2, <1>3, Inductive, PTL DEF Spec, NotStartedIsTrue
<1>4. CASE ~SyncsDirectories
  BY <1>4, PTL
<1> QED BY <1>3, <1>4

-----------------------------------------------------------------------------
(* The refinement of ActionPromise. *)

Executed == {body[c].op : c \in started}

\* A step that changes neither ledger, disk nor started is a stutter outside.
LEMMA Stutter ==
  ASSUME UNCHANGED <<ledger, durable, started>>, \A c \in started : body'[c] = body[c]
  PROVE  UNCHANGED Promise!vars
BY DEF Promise!vars

\* Pruning is Promise!Forget.
LEMMA PruneForgets ==
  ASSUME IInv, NEW gone \in SUBSET Op, Prune(gone), UNCHANGED body
  PROVE  Promise!Forget
<1>1. [o \in Op |-> ledger[o].outcome]'
        = [o \in Op |-> IF o \in gone THEN "absent" ELSE ledger[o].outcome]
  BY DEF Prune, Absent
<1>2. Executed' = Executed \ gone
  BY DEF Prune, Executed
<1> QED BY <1>1, <1>2 DEF Promise!Forget, Executed, Prune

\* Syncing the directory is Promise!Save.
LEMMA SyncSaves ==
  ASSUME SyncsDirectories, SyncDirectory, UNCHANGED body
  PROVE  Promise!Save
BY DEF SyncDirectory, Promise!Save

\* A helper that begins has promised nothing.
LEMMA InitRefines == Init => Promise!Init
BY DEF Init, Promise!Init, Absent

\* The intent is recorded while nobody has carried the operation out.
LEMMA RecordIntentRefines ==
  ASSUME SyncsDirectories, IInv, NEW c \in Conn, RecordIntent(c)
  PROVE  [Promise!Next]_(Promise!vars)
<1> USE DEF RecordIntent, Goto, Leave, Answer, ledgerVars, history
<1>1. body[c] \in Body /\ body[c].op \in Op /\ pc[c] = "record"
  BY BodyAssumption DEF IInv, TypeOK, Handling, Exclusive
<1>2. CASE UNCHANGED ledgerVars
  BY <1>2, Stutter DEF IInv
<1>3. CASE Rename(body[c], "unknown")
  <2>1. ledger[body[c].op] = Absent /\ ledger[body[c].op].outcome = "absent"
    BY <1>1 DEF IInv, RecordInv, RecordOK, Absent
  <2>2. body[c].op \notin Executed
    BY <2>1 DEF IInv, StartedInv, StartedOK, Executed
  <2>3. [o \in Op |-> ledger[o].outcome]'
          = [[o \in Op |-> ledger[o].outcome] EXCEPT ![body[c].op] = "unknown"]
    BY <1>1, <1>3 DEF IInv, TypeOK, Rename
  <2>4. Executed' = Executed
    BY DEF Executed
  <2>5. \E o \in Op : Promise!Accept(o)
    BY <1>1, <1>3, <2>1, <2>2, <2>3, <2>4 DEF Promise!Accept, Executed, Rename
  <2> QED BY <2>5 DEF Promise!Next
<1> QED BY <1>2, <1>3

\* The job is queued while the operation's fate is open, for the first time.
LEMMA RestartRefines ==
  ASSUME SyncsDirectories, IInv, NEW c \in Conn, Restart(c)
  PROVE  [Promise!Next]_(Promise!vars)
<1> USE DEF Restart, Goto, ledgerVars
<1>1. body[c] \in Body /\ body[c].op \in Op /\ pc[c] = "restart"
  BY BodyAssumption DEF IInv, TypeOK, Handling, Exclusive
<1>2. CASE UNCHANGED started
  BY <1>2, Stutter
<1>3. CASE started' = started \cup {c}
  <2>1. ledger[body[c].op].outcome = "unknown" /\ durable[body[c].op] = ledger[body[c].op]
    BY <1>1 DEF IInv, RecordInv, RecordOK, Recorded, Commanded
  <2>2. c \notin started
    BY <1>1 DEF IInv, StartedInv, StartedOK, Commanded
  <2>3. body[c].op \notin Executed
    BY <1>1, <2>2 DEF IInv, TypeOK, OwnRecord, Recorded, Executed
  <2>4. Executed' = Executed \cup {body[c].op}
    BY <1>3 DEF Executed
  <2>5. \E o \in Op : Promise!Execute(o)
    BY <1>1, <2>1, <2>3, <2>4 DEF Promise!Execute, Executed
  <2> QED BY <2>5 DEF Promise!Next
<1> QED BY <1>2, <1>3

\* The receipt decides the operation's fate, or leaves it unknown.
LEMMA SettleRefines ==
  ASSUME SyncsDirectories, IInv, NEW c \in Conn, Settle(c)
  PROVE  [Promise!Next]_(Promise!vars)
<1> USE DEF Settle, Goto, Leave, Answer, ledgerVars, history
<1>1. body[c] \in Body /\ body[c].op \in Op /\ pc[c] = "settle"
  BY BodyAssumption DEF IInv, TypeOK, Handling, Exclusive
<1>2. CASE UNCHANGED ledgerVars
  BY <1>2, Stutter DEF IInv
<1>3. CASE Rename(body[c], attempt[c].outcome)
  <2>1. ledger[body[c].op].outcome = "unknown" /\ attempt[c].outcome \in Outcome
    BY <1>1 DEF IInv, RecordInv, RecordOK, Recorded, Commanded
  <2>2. attempt[c].outcome = "success" => body[c].op \in Executed
    BY <1>1 DEF IInv, JobInv, JobOK, Executed
  <2>3. [o \in Op |-> ledger[o].outcome]'
          = [[o \in Op |-> ledger[o].outcome] EXCEPT ![body[c].op] = attempt[c].outcome]
    BY <1>1, <1>3 DEF IInv, TypeOK, Rename
  <2>4. Executed' = Executed
    BY DEF Executed
  <2>5. CASE attempt[c].outcome = "unknown"
    BY <1>1, <1>3, <2>1, <2>3, <2>4, <2>5 DEF Promise!vars, Executed, Rename
  <2>6. CASE attempt[c].outcome \in {"success", "failed"}
    <3>1. \E o \in Op : Promise!Decide(o)
      BY <1>1, <1>3, <2>1, <2>2, <2>3, <2>4, <2>6 DEF Promise!Decide, Promise!Decided, Executed, Rename
    <3> QED BY <3>1 DEF Promise!Next
  <2> QED BY <2>1, <2>5, <2>6 DEF Outcome
<1> QED BY <1>2, <1>3

\* A power loss undoes what was not saved, and hides no execution.
LEMMA HostCrashRefines ==
  ASSUME SyncsDirectories, IInv, HostCrash
  PROVE  [Promise!Next]_(Promise!vars)
<1>1. UNCHANGED <<body, started>> /\ durable' = ledger'
  BY DEF HostCrash, Drop, history
<1>2. PICK undone \in SUBSET Op :
        ledger' = [o \in Op |-> IF o \in undone THEN durable[o] ELSE ledger[o]]
  BY DEF HostCrash
<1>3. [o \in Op |-> ledger[o].outcome]'
        = [o \in Op |-> IF o \in undone THEN durable[o].outcome ELSE ledger[o].outcome]
  BY <1>2
<1>4. \A o \in Executed : ledger'[o].outcome # "absent"
  <2> SUFFICES ASSUME NEW c \in started PROVE ledger'[body[c].op].outcome # "absent"
    BY DEF Executed
  <2>1. /\ body[c].op \in Op
        /\ ledger[body[c].op] \in Record /\ durable[body[c].op] \in Record
    BY BodyAssumption DEF IInv, TypeOK, StartedInv, StartedOK
  <2> QED BY <1>2, <2>1 DEF Record, Outcome
<1>5. Executed \subseteq Op
  BY BodyAssumption DEF IInv, StartedInv, StartedOK, Executed
<1>6. Promise!Revert
  BY <1>1, <1>2, <1>3, <1>4, <1>5 DEF Promise!Revert, Executed
<1> QED BY <1>6 DEF Promise!Next

\* Each action is one of the promise, or nothing of the promise changes.
LEMMA StepRefines ==
  ASSUME SyncsDirectories, IInv, [Next]_vars
  PROVE  [Promise!Next]_(Promise!vars)
<1>1. CASE Start
  <2>1. Promise!Forget
    BY <1>1, PruneForgets DEF Start, requestVars, Pruned, Retained
  <2> QED BY <2>1 DEF Promise!Next
<1>2. ASSUME NEW c \in Conn, Arrive(c) PROVE [Promise!Next]_(Promise!vars)
  <2>1. pc[c] = "closed" /\ UNCHANGED <<ledger, durable, started>> /\ \A d \in Conn : d # c => body'[d] = body[d]
    BY <1>2 DEF Arrive, Goto, Answer, ledgerVars, history, IInv, TypeOK
  <2>2. c \notin started
    BY <2>1 DEF IInv, StartedInv, StartedOK, Commanded
  <2> QED BY <2>1, <2>2, Stutter DEF IInv, TypeOK
<1>3. ASSUME NEW c \in Conn, Handle(c) PROVE [Promise!Next]_(Promise!vars)
  <2>1. CASE RecordIntent(c)
    BY <2>1, RecordIntentRefines
  <2>2. CASE Restart(c)
    BY <2>2, RestartRefines
  <2>3. CASE Settle(c)
    BY <2>3, SettleRefines
  <2>4. CASE Finish(c)
    <3>1. Promise!Forget
      BY <2>4, PruneForgets DEF Finish, Pruned, Retained
    <3> QED BY <3>1 DEF Promise!Next
  <2>5. CASE IntentReturns(c) \/ SettleReturns(c)
    <3>1. CASE SyncDirectory
      BY <2>5, <3>1, SyncSaves DEF IntentReturns, SettleReturns, Promise!Next
    <3>2. CASE UNCHANGED <<ledgerVars, history>>
      BY <2>5, <3>2, Stutter DEF IntentReturns, SettleReturns, ledgerVars, history
    <3> QED BY <2>5, <3>1, <3>2 DEF IntentReturns, SettleReturns
  <2>6. CASE CheckPolicy(c) \/ Lookup(c) \/ Inspect(c) \/ CommandEnds(c) \/ Observe(c)
    BY <2>6, Stutter DEF CheckPolicy, Lookup, Inspect, CommandEnds, Observe, ledgerVars, history,
       requestVars
  <2> QED BY <1>3, <2>1, <2>2, <2>3, <2>4, <2>5, <2>6 DEF Handle
<1>4. CASE HelperCrash
  BY <1>4, Stutter DEF HelperCrash, Drop, ledgerVars, history
<1>5. CASE HostCrash
  BY <1>5, HostCrashRefines
<1>6. ASSUME NEW u \in Unit, Systemd(u) PROVE [Promise!Next]_(Promise!vars)
  BY <1>6, Stutter DEF Systemd, requestVars, ledgerVars
<1>7. CASE UNCHANGED vars
  BY <1>7, Stutter DEF vars, requestVars, ledgerVars, history
<1> QED BY <1>1, <1>2, <1>3, <1>4, <1>5, <1>6, <1>7 DEF Next

\* The helper implements the contract its callers rely on: an intent is recorded,
\* carried out at most once and decided once, and only forgetting the record or a
\* power loss before anything was done returns an operation to its beginning.
THEOREM Refinement == SyncsDirectories /\ Spec => KeepsPromise
<1>1. SyncsDirectories /\ IInv /\ [Next]_vars => [Promise!Next]_(Promise!vars)
  BY StepRefines
<1>2. CASE SyncsDirectories
  BY <1>1, <1>2, InitRefines, Inductive, PTL DEF Spec, KeepsPromise, Promise!Spec
<1>3. CASE ~SyncsDirectories
  BY <1>3, PTL
<1> QED BY <1>2, <1>3

=============================================================================
