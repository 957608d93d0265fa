------------------------- MODULE CorrelationProofs -------------------------
(***************************************************************************)
(* Proofs about Correlation for any number of requests, any alerts and any *)
(* number of status changes.                                               *)
(*                                                                         *)
(* What makes the properties inductive: a handler that has decided keeps   *)
(* in base an earlier content of its incident, one that was right for the  *)
(* alerts the incident had then; alerts are only ever added, so it is      *)
(* still right when the handler's alert joins them (RequestKept).  And a   *)
(* handler that has written holds the row's lock, so that an incident that *)
(* is not stale still shows what the handler has read (CurrentKept).       *)
(***************************************************************************)
EXTENDS Correlation, FiniteSetTheorems, TLAPS

Request == [pc : {"idle", "decided", "written", "done", "failed"},
            alert : Alerts \cup {NoAlert}, target : Requests \cup {None},
            base : Row, row : Row]

Highest(row) == row.stage \in row.stages /\ \A s \in row.stages : s <= row.stage

\* What holds of the content of incident i at any time, and from then on.
RightFor(row, i) ==
  /\ Highest(row)
  /\ row.count >= 1 /\ row.count <= Cardinality(Members(i))
  /\ ShowsOnly(row, AlertsOf(i))

IncidentKept(i) ==
  /\ Present(i) => i \in Members(i) /\ RightFor(db[i], i)
  /\ ~Present(i) => Members(i) = {}

Opens(r) == req[r].target = r /\ req[r].row = Opened(req[r].alert)

Attaches(r) ==
  /\ req[r].target \in Requests \ {r} /\ Present(req[r].target)
  /\ req[r].base.status # "absent" /\ RightFor(req[r].base, req[r].target)
  /\ req[r].row = Merged(req[r].base, req[r].alert)

RequestKept(r) ==
  /\ req[r].pc # "done" => ~Present(r) /\ member[r] = None
  /\ req[r].pc \in {"decided", "written", "done"} => req[r].alert \in Alerts
  /\ req[r].pc \in {"decided", "written"} => Opens(r) \/ Attaches(r)

LockKept ==
  \A q, r \in Requests :
    req[q].pc = "written" /\ req[r].pc = "written" /\ req[q].target = req[r].target => q = r

CurrentKept(r) ==
  req[r].pc = "written" /\ req[r].target # r /\ req[r].target \notin stale =>
    Contents(db[req[r].target]) = Contents(req[r].base)

IInv ==
  /\ TypeOK
  /\ \A i \in Requests : IncidentKept(i) /\ RequestKept(i) /\ CurrentKept(i)
  /\ LockKept
  /\ ExactUnlessStale

-----------------------------------------------------------------------------
(* The rows the handlers build.                                            *)

\* The parts of an alert are in range.
LEMMA AlertParts ==
  ASSUME NEW a \in Alerts
  PROVE  /\ a.time \in Nat /\ a.sev \in Severities /\ StageOf(a) \in Stages
         /\ Hosts(a.src) \subseteq AllHosts /\ Hosts(a.dst) \subseteq AllHosts
  BY AlertsAssumption DEF StageOf, Larger, Stages, NoStage, Hosts, AllHosts

LEMMA NoRowType == NoRow \in Row
  BY DEF NoRow, Row, Severities, Stages

LEMMA OpenedType == \A a \in Alerts : Opened(a) \in Row
  BY AlertParts DEF Opened, Row, Active

LEMMA MergedType ==
  ASSUME NEW row \in Row, NEW a \in Alerts
  PROVE  Merged(row, a) \in Row
<1>1. /\ HigherSeverity(row.sev, a.sev) \in Severities
      /\ FurtherStage(row.stage, StageOf(a)) \in Stages
      /\ Larger(row.last, a.time) \in Nat
  BY AlertParts DEF HigherSeverity, FurtherStage, Larger, Row
<1>2. /\ row.stages \cup {StageOf(a)} \in SUBSET Stages
      /\ row.count + 1 \in Nat
      /\ row.srcs \cup Hosts(a.src) \in SUBSET AllHosts
      /\ row.dsts \cup Hosts(a.dst) \in SUBSET AllHosts
      /\ row.status \in Active \cup {"closed", "absent"}
  BY AlertParts DEF Row
<1> QED
  BY <1>1, <1>2 DEF Merged, Row

\* A stage joins the stages seen together with the current one.
LEMMA MergedHighest ==
  ASSUME NEW row \in Row, NEW a \in Alerts, Highest(row)
  PROVE  Highest(Merged(row, a))
<1>1. /\ Merged(row, a).stage = FurtherStage(row.stage, StageOf(a))
      /\ Merged(row, a).stages = row.stages \cup {StageOf(a)}
  BY DEF Merged, Row
<1>2. StageOf(a) \in Int /\ row.stage \in Int /\ row.stages \subseteq Int
  BY AlertParts DEF Row, Stages
<1> QED
  BY <1>1, <1>2 DEF Highest, FurtherStage, Larger

LEMMA ShowsOnlyMore ==
  ASSUME NEW row, NEW A, NEW B, A \subseteq B, ShowsOnly(row, A)
  PROVE  ShowsOnly(row, B)
  BY DEF ShowsOnly

LEMMA MergedShowsOnly ==
  ASSUME NEW row \in Row, NEW a \in Alerts, NEW A, ShowsOnly(row, A)
  PROVE  ShowsOnly(Merged(row, a), A \cup {a})
<1>1. /\ Merged(row, a).sev \in {row.sev, a.sev}
      /\ Merged(row, a).last \in {row.last, a.time}
      /\ Merged(row, a).stages = row.stages \cup {StageOf(a)}
      /\ Merged(row, a).srcs = row.srcs \cup Hosts(a.src)
      /\ Merged(row, a).dsts = row.dsts \cup Hosts(a.dst)
  BY DEF Merged, Row, HigherSeverity, Larger
<1> QED
  BY <1>1 DEF ShowsOnly

\* An attach to a row that leaves out nothing leaves out nothing.
LEMMA MergedShowsAll ==
  ASSUME NEW row \in Row, NEW a \in Alerts, NEW A \in SUBSET Alerts, ShowsAll(row, A)
  PROVE  ShowsAll(Merged(row, a), A \cup {a})
<1>1. /\ Merged(row, a).sev = Larger(row.sev, a.sev)
      /\ Merged(row, a).last = Larger(row.last, a.time)
      /\ Merged(row, a).stages = row.stages \cup {StageOf(a)}
      /\ Merged(row, a).srcs = row.srcs \cup Hosts(a.src)
      /\ Merged(row, a).dsts = row.dsts \cup Hosts(a.dst)
  BY DEF Merged, Row, HigherSeverity
<1>2. /\ row.sev \in Int /\ row.last \in Int
      /\ \A b \in A \cup {a} : b.sev \in Int /\ b.time \in Int
  BY AlertParts DEF Row, Severities
<1>3. \A b \in A \cup {a} : b.sev <= Merged(row, a).sev /\ b.time <= Merged(row, a).last
  BY <1>1, <1>2 DEF ShowsAll, Larger
<1>4. /\ {StageOf(b) : b \in A \cup {a}} \subseteq Merged(row, a).stages
      /\ UNION {Hosts(b.src) : b \in A \cup {a}} \subseteq Merged(row, a).srcs
      /\ UNION {Hosts(b.dst) : b \in A \cup {a}} \subseteq Merged(row, a).dsts
  BY <1>1 DEF ShowsAll
<1> QED
  BY <1>3, <1>4 DEF ShowsAll

LEMMA OpenedShows ==
  ASSUME NEW a \in Alerts
  PROVE  /\ Highest(Opened(a)) /\ Opened(a).count = 1 /\ Opened(a).status = "open"
         /\ ShowsOnly(Opened(a), {a}) /\ ShowsAll(Opened(a), {a})
<1>1. StageOf(a) \in Int /\ a.sev \in Int /\ a.time \in Int
  BY AlertParts DEF Stages, Severities
<1> QED
  BY <1>1 DEF Opened, Highest, ShowsOnly, ShowsAll

\* The properties of rows do not look at the status.
LEMMA StatusApart ==
  ASSUME NEW row \in Row, NEW row2 \in Row, Contents(row) = Contents(row2)
  PROVE  /\ row2.count = row.count
         /\ Highest(row) => Highest(row2)
         /\ \A A : ShowsOnly(row, A) => ShowsOnly(row2, A)
         /\ \A A : ShowsAll(row, A) => ShowsAll(row2, A)
<1>1. /\ row.sev = row2.sev /\ row.stage = row2.stage /\ row.stages = row2.stages
      /\ row.count = row2.count /\ row.last = row2.last
      /\ row.srcs = row2.srcs /\ row.dsts = row2.dsts
  BY DEF Contents, Row
<1> QED
  BY <1>1 DEF Highest, ShowsOnly, ShowsAll
-----------------------------------------------------------------------------
(* The initial state, and the steps that write nothing.                    *)

LEMMA InitIInv == Init => IInv
<1> SUFFICES ASSUME Init PROVE IInv
  OBVIOUS
<1>1. IdleRequest \in Request
  BY NoRowType DEF IdleRequest, Request
<1>2. TypeOK
  BY <1>1, NoRowType, AlertsAssumption DEF Init, TypeOK, Request
<1>3. \A i \in Requests : ~Present(i) /\ member[i] = None /\ req[i].pc = "idle"
  BY DEF Init, Present, NoRow, IdleRequest
<1>4. \A i \in Requests : Members(i) = {}
  BY <1>3, RequestsAssumption DEF Members
<1> QED
  BY <1>2, <1>3, <1>4 DEF IInv, IncidentKept, RequestKept, CurrentKept, LockKept, ExactUnlessStale

\* A handler that moves on without writing: its alert is its own until it commits.
LEMMA SameIncidents ==
  ASSUME IInv, NEW r \in Requests, member[r] = None, member' = member,
         req' \in [Requests -> Request], \A q \in Requests \ {r} : req'[q] = req[q]
  PROVE  \A i \in Requests : Members(i)' = Members(i) /\ AlertsOf(i)' = AlertsOf(i)
<1> SUFFICES ASSUME NEW i \in Requests
             PROVE  Members(i)' = Members(i) /\ AlertsOf(i)' = AlertsOf(i)
  OBVIOUS
<1>1. Members(i)' = Members(i)
  BY DEF Members
<1>2. r \notin Members(i)
  BY RequestsAssumption DEF Members
<1>3. \A q \in Members(i) : req'[q].alert = req[q].alert
  BY <1>2 DEF Members
<1> QED
  BY <1>1, <1>3 DEF AlertsOf

LEMMA ReadIInv ==
  ASSUME IInv, NEW r \in Requests, Read(r)
  PROVE  IInv'
<1>1. req[r].pc = "idle" /\ member[r] = None /\ ~Present(r)
  BY DEF Read, IInv, RequestKept
<1>2. PICK alert \in Alerts, i \in Requests, base \in Row :
        /\ req' = [req EXCEPT ![r] = [pc |-> "decided", alert |-> alert, target |-> i, base |-> base,
                                      row |-> IF i = r THEN Opened(alert) ELSE Merged(base, alert)]]
        /\ i # r => base = db[i] /\ Present(i)
  <2>1. PICK alert \in Alerts :
          \/ req' = [req EXCEPT ![r] = [pc |-> "decided", alert |-> alert, target |-> r,
                                        base |-> NoRow, row |-> Opened(alert)]]
          \/ \E i \in Matches(alert) :
               req' = [req EXCEPT ![r] = [pc |-> "decided", alert |-> alert, target |-> i,
                                          base |-> db[i], row |-> Merged(db[i], alert)]]
    BY DEF Read
  <2>2. CASE req' = [req EXCEPT ![r] = [pc |-> "decided", alert |-> alert, target |-> r,
                                        base |-> NoRow, row |-> Opened(alert)]]
    BY <2>2, NoRowType
  <2>3. ASSUME NEW i \in Matches(alert),
               req' = [req EXCEPT ![r] = [pc |-> "decided", alert |-> alert, target |-> i,
                                          base |-> db[i], row |-> Merged(db[i], alert)]]
        PROVE  i \in Requests /\ Present(i) /\ i # r /\ db[i] \in Row
    BY <1>1 DEF Matches, Candidates, Active, Present, IInv, TypeOK
  <2> QED
    BY <2>1, <2>2, <2>3
<1>3. (IF i = r THEN Opened(alert) ELSE Merged(base, alert)) \in Row
  BY OpenedType, MergedType
<1>4. /\ req' \in [Requests -> Request] /\ \A q \in Requests \ {r} : req'[q] = req[q]
      /\ req'[r].pc = "decided" /\ req'[r].alert = alert /\ req'[r].target = i
      /\ req'[r].base = base /\ req'[r].row = IF i = r THEN Opened(alert) ELSE Merged(base, alert)
  BY <1>2, <1>3 DEF Request, IInv, TypeOK
<1>5. UNCHANGED <<db, member, trigger, stale, changes>>
  BY DEF Read
<1>6. TypeOK'
  BY <1>4, <1>5 DEF IInv, TypeOK, Request
<1>7. \A k \in Requests : Members(k)' = Members(k) /\ AlertsOf(k)' = AlertsOf(k)
  BY <1>1, <1>4, <1>5, SameIncidents
<1>8. \A k \in Requests : Present(k)' = Present(k)
  BY <1>5 DEF Present
<1>9. \A k \in Requests : IncidentKept(k)'
  BY <1>5, <1>7, <1>8 DEF IInv, IncidentKept, RightFor
<1>10. ASSUME NEW q \in Requests PROVE RequestKept(q)'
  <2>1. CASE q = r
    <3>1. CASE i = r
      BY <1>1, <1>4, <1>5, <1>8, <2>1, <3>1 DEF RequestKept, Opens
    <3>2. CASE i # r
      <4>1. base = db[i] /\ Present(i) /\ RightFor(base, i) /\ base.status # "absent"
        BY <1>2, <3>2 DEF IInv, IncidentKept, Present
      <4>2. RightFor(base, i)'
        BY <4>1, <1>7 DEF RightFor
      <4>3. Attaches(r)'
        BY <1>4, <1>8, <3>2, <4>1, <4>2 DEF Attaches
      <4> QED
        BY <1>1, <1>4, <1>5, <1>8, <2>1, <4>3 DEF RequestKept
    <3> QED
      BY <3>1, <3>2
  <2>2. CASE q # r
    <3>1. req'[q] = req[q]
      BY <1>4, <2>2
    <3> QED
      BY <3>1, <1>5, <1>7, <1>8 DEF IInv, RequestKept, Opens, Attaches, RightFor
  <2> QED
    BY <2>1, <2>2
<1>11. LockKept' /\ \A q \in Requests : CurrentKept(q)'
  BY <1>4, <1>5 DEF IInv, LockKept, CurrentKept
<1>12. ExactUnlessStale'
  BY <1>5, <1>7, <1>8 DEF IInv, ExactUnlessStale
<1> QED
  BY <1>6, <1>9, <1>10, <1>11, <1>12 DEF IInv

\* Writing, failing and a failing commit move a handler on and leave the tables.
LEMMA MovedOn ==
  ASSUME IInv, NEW r \in Requests, NEW pc \in {"written", "failed"},
         req[r].pc \in {"decided", "written"}, req' = [req EXCEPT ![r].pc = pc],
         UNCHANGED <<db, member>>
  PROVE  /\ req' \in [Requests -> Request]
         /\ \A q \in Requests \ {r} : req'[q] = req[q]
         /\ req'[r].pc = pc /\ req'[r].target = req[r].target /\ req'[r].base = req[r].base
         /\ \A i \in Requests : Members(i)' = Members(i) /\ AlertsOf(i)' = AlertsOf(i)
         /\ \A i \in Requests : Present(i)' = Present(i)
         /\ \A i \in Requests : IncidentKept(i)' /\ RequestKept(i)'
<1>1. /\ req' \in [Requests -> Request]
      /\ \A q \in Requests \ {r} : req'[q] = req[q]
      /\ req'[r].pc = pc /\ req'[r].alert = req[r].alert /\ req'[r].target = req[r].target
      /\ req'[r].base = req[r].base /\ req'[r].row = req[r].row
  BY DEF Request, IInv, TypeOK
<1>2. member[r] = None
  BY DEF IInv, RequestKept
<1>3. \A i \in Requests : Members(i)' = Members(i) /\ AlertsOf(i)' = AlertsOf(i)
  BY <1>1, <1>2, SameIncidents
<1>4. \A i \in Requests : Present(i)' = Present(i)
  BY DEF Present
<1>5. \A i \in Requests : IncidentKept(i)'
  BY <1>3, <1>4 DEF IInv, IncidentKept, RightFor
<1>6. ASSUME NEW q \in Requests PROVE RequestKept(q)'
  <2>1. RequestKept(q)
    BY DEF IInv
  <2>2. /\ req'[q].alert = req[q].alert /\ req'[q].target = req[q].target
        /\ req'[q].base = req[q].base /\ req'[q].row = req[q].row
    BY <1>1
  <2>3. Opens(q) => Opens(q)'
    BY <2>2 DEF Opens
  <2>4. Attaches(q) => Attaches(q)'
    BY <2>2, <1>3, <1>4 DEF Attaches, RightFor
  <2> QED
    BY <1>1, <1>4, <2>1, <2>2, <2>3, <2>4 DEF RequestKept
<1> QED
  BY <1>1, <1>3, <1>4, <1>5, <1>6

LEMMA WriteIInv ==
  ASSUME IInv, NEW r \in Requests, Write(r)
  PROVE  IInv'
<1> DEFINE Overtaken == Contents(db[req[r].target]) # Contents(req[r].base)
<1>1. /\ req[r].pc = "decided" /\ ~Locked(req[r].target)
      /\ req' = [req EXCEPT ![r].pc = "written"]
      /\ stale' = IF Overtaken THEN stale \cup {req[r].target} ELSE stale
      /\ trigger' = [trigger EXCEPT ![r] = IF req[r].alert.sev >= High THEN "posted" ELSE @]
      /\ UNCHANGED <<db, member, changes>>
  BY DEF Write
<1>2. req[r].target \in Requests
  BY <1>1 DEF IInv, RequestKept, Opens, Attaches
<1>3. /\ req' \in [Requests -> Request]
      /\ \A q \in Requests \ {r} : req'[q] = req[q]
      /\ req'[r].pc = "written" /\ req'[r].target = req[r].target /\ req'[r].base = req[r].base
      /\ \A i \in Requests : Members(i)' = Members(i) /\ AlertsOf(i)' = AlertsOf(i)
      /\ \A i \in Requests : Present(i)' = Present(i)
      /\ \A i \in Requests : IncidentKept(i)' /\ RequestKept(i)'
  BY <1>1, MovedOn
<1>4. stale \subseteq stale' /\ stale' \subseteq Requests
  BY <1>1, <1>2 DEF IInv, TypeOK
<1>5. trigger' \in [Requests -> {"none", "posted", "rejected", "unanswered"}]
  BY <1>1 DEF IInv, TypeOK
<1>6. TypeOK'
  BY <1>1, <1>3, <1>4, <1>5 DEF IInv, TypeOK, Request
<1>7. LockKept'
  BY <1>1, <1>3 DEF IInv, LockKept, Locked
<1>8. \A q \in Requests : CurrentKept(q)'
  BY <1>1, <1>3, <1>4 DEF IInv, CurrentKept
<1>9. ExactUnlessStale'
  BY <1>1, <1>3, <1>4 DEF IInv, ExactUnlessStale
<1> QED
  BY <1>3, <1>6, <1>7, <1>8, <1>9 DEF IInv

LEMMA GiveUpIInv ==
  ASSUME IInv, NEW r \in Requests, Fail(r) \/ CommitFails(r)
  PROVE  IInv'
<1>1. /\ req[r].pc \in {"decided", "written"} /\ req' = [req EXCEPT ![r].pc = "failed"]
      /\ UNCHANGED <<db, member, trigger, stale, changes>>
  BY DEF Fail, CommitFails
<1>2. /\ req' \in [Requests -> Request]
      /\ \A q \in Requests \ {r} : req'[q] = req[q]
      /\ req'[r].pc = "failed"
      /\ \A i \in Requests : Members(i)' = Members(i) /\ AlertsOf(i)' = AlertsOf(i)
      /\ \A i \in Requests : Present(i)' = Present(i)
      /\ \A i \in Requests : IncidentKept(i)' /\ RequestKept(i)'
  BY <1>1, MovedOn
<1>3. TypeOK'
  BY <1>1, <1>2 DEF IInv, TypeOK, Request
<1>4. LockKept' /\ \A q \in Requests : CurrentKept(q)'
  BY <1>1, <1>2 DEF IInv, LockKept, CurrentKept
<1>5. ExactUnlessStale'
  BY <1>1, <1>2 DEF IInv, ExactUnlessStale
<1> QED
  BY <1>2, <1>3, <1>4, <1>5 DEF IInv

LEMMA ChangeStatusIInv ==
  ASSUME IInv, NEW i \in Requests, NEW status \in Active \cup {"closed"}, ChangeStatus(i, status)
  PROVE  IInv'
<1>1. /\ Present(i) /\ db' = [db EXCEPT ![i].status = status]
      /\ UNCHANGED <<member, req, trigger, stale>> /\ changes' = changes + 1 /\ changes < MaxChanges
  BY DEF ChangeStatus
<1>2. db' \in [Requests -> Row]
  <2>1. db[i] \in Row
    BY DEF IInv, TypeOK
  <2>2. [db[i] EXCEPT !.status = status] \in Row
    BY <2>1 DEF Row
  <2> QED
    BY <1>1, <2>2 DEF IInv, TypeOK
<1>3. TypeOK'
  BY <1>1, <1>2, AlertsAssumption DEF IInv, TypeOK
<1>4. \A k \in Requests : Present(k)' = Present(k)
  BY <1>1 DEF Present, Active, IInv, TypeOK, Row
<1>5. \A k \in Requests : Contents(db'[k]) = Contents(db[k])
  BY <1>1 DEF Contents, IInv, TypeOK, Row
<1>6. \A k \in Requests : Members(k)' = Members(k) /\ AlertsOf(k)' = AlertsOf(k)
  BY <1>1 DEF Members, AlertsOf
<1>7. ASSUME NEW k \in Requests PROVE IncidentKept(k)'
  <2>1. IncidentKept(k)
    BY DEF IInv
  <2>2. RightFor(db[k], k) => RightFor(db[k], k)'
    BY <1>2, <1>5, <1>6, StatusApart DEF IInv, TypeOK, RightFor
  <2> QED
    BY <1>4, <1>6, <2>1, <2>2 DEF IncidentKept
<1>8. \A k \in Requests : RequestKept(k)'
  BY <1>1, <1>4, <1>6 DEF IInv, RequestKept, Opens, Attaches, RightFor
<1>9. LockKept' /\ \A k \in Requests : CurrentKept(k)'
  BY <1>1, <1>5 DEF IInv, LockKept, RequestKept, Opens, Attaches, CurrentKept
<1>10. ExactUnlessStale'
  BY <1>1, <1>2, <1>4, <1>5, <1>6, StatusApart DEF IInv, TypeOK, ExactUnlessStale
<1> QED
  BY <1>3, <1>7, <1>8, <1>9, <1>10 DEF IInv

-----------------------------------------------------------------------------
(* The commit, where a handler's row and its alert appear together.        *)

LEMMA CommitIInv ==
  ASSUME IInv, NEW r \in Requests, Commit(r)
  PROVE  IInv'
<1>1. PICK i \in Requests, a \in Alerts, row \in Row :
        /\ i = req[r].target /\ a = req[r].alert
        /\ row = [req[r].row EXCEPT !.status = IF i = r THEN "open" ELSE db[i].status]
        /\ req[r].row \in Row
  <2>1. req[r].target \in Requests /\ req[r].alert \in Alerts /\ req[r].row \in Row
    BY DEF Commit, IInv, TypeOK, RequestKept, Opens, Attaches
  <2>2. db[req[r].target].status \in Active \cup {"closed", "absent"}
    BY <2>1 DEF IInv, TypeOK, Row
  <2>3. \A x \in Active \cup {"closed", "absent"} : [req[r].row EXCEPT !.status = x] \in Row
    BY <2>1 DEF Row
  <2> QED
    BY <2>1, <2>2, <2>3 DEF Active
<1>2. /\ req[r].pc = "written" /\ member[r] = None /\ ~Present(r)
      /\ db' = [db EXCEPT ![i] = row]
      /\ member' = [member EXCEPT ![r] = i]
      /\ req' = [req EXCEPT ![r].pc = "done"]
      /\ UNCHANGED <<trigger, stale, changes>>
  BY <1>1 DEF Commit, IInv, RequestKept
<1>3. /\ req' \in [Requests -> Request]
      /\ \A q \in Requests \ {r} : req'[q] = req[q]
      /\ \A q \in Requests : /\ req'[q].alert = req[q].alert /\ req'[q].target = req[q].target
                            /\ req'[q].base = req[q].base /\ req'[q].row = req[q].row
      /\ req'[r].pc = "done"
  BY <1>2 DEF Request, IInv, TypeOK
<1>4. /\ db'[i] = row /\ \A k \in Requests \ {i} : db'[k] = db[k]
      /\ member'[r] = i /\ \A q \in Requests \ {r} : member'[q] = member[q]
  BY <1>2 DEF IInv, TypeOK
<1>5. TypeOK'
  BY <1>1, <1>2, <1>3 DEF IInv, TypeOK, Request
<1>6. /\ r \notin Members(i) /\ Members(i)' = Members(i) \cup {r}
      /\ \A k \in Requests \ {i} : Members(k)' = Members(k)
  BY <1>2, <1>4, RequestsAssumption DEF Members
<1>7. /\ AlertsOf(i)' = AlertsOf(i) \cup {a}
      /\ \A k \in Requests \ {i} : AlertsOf(k)' = AlertsOf(k)
  BY <1>1, <1>3, <1>6 DEF AlertsOf, Members
<1>8. /\ Cardinality(Members(i)) \in Nat
      /\ Cardinality(Members(i)') = Cardinality(Members(i)) + 1
  <2>1. IsFiniteSet(Members(i))
    BY RequestsAssumption, FS_Subset DEF Members
  <2> QED
    BY <2>1, <1>6, FS_AddElement, FS_CardinalityType
<1>9. Opens(r) \/ Attaches(r)
  BY <1>2 DEF IInv, RequestKept
<1>10. /\ Contents(row) = Contents(req[r].row)
       /\ row.status # "absent"
  <2>1. i # r => db[i].status # "absent"
    BY <1>1, <1>9 DEF Opens, Attaches, Present
  <2> QED
    BY <1>1, <2>1 DEF Contents, Row
<1>11. Present(i)' /\ \A k \in Requests \ {i} : Present(k)' = Present(k)
  BY <1>4, <1>10 DEF Present
<1>12. RightFor(row, i)'
  <2>1. CASE Opens(r)
    <3>1. req[r].row = Opened(a)
      BY <1>1, <2>1 DEF Opens
    <3>2. Highest(row) /\ row.count = 1 /\ ShowsOnly(row, {a})
      BY <1>1, <1>10, <3>1, OpenedShows, StatusApart
    <3>3. ShowsOnly(row, AlertsOf(i)')
      BY <1>7, <3>2, ShowsOnlyMore
    <3> QED
      BY <1>8, <3>2, <3>3 DEF RightFor
  <2>2. CASE Attaches(r)
    <3>1. /\ req[r].base \in Row /\ RightFor(req[r].base, i) /\ req[r].row = Merged(req[r].base, a)
      BY <1>1, <2>2 DEF Attaches, IInv, TypeOK
    <3>2. Highest(row) /\ ShowsOnly(row, AlertsOf(i) \cup {a})
      BY <1>1, <1>10, <3>1, MergedHighest, MergedShowsOnly, StatusApart DEF RightFor
    <3>3. row.count = req[r].base.count + 1 /\ req[r].base.count \in Nat
      BY <1>1, <3>1 DEF Merged, Row
    <3> QED
      BY <1>7, <1>8, <3>1, <3>2, <3>3 DEF RightFor
  <2> QED
    BY <1>9, <2>1, <2>2
<1>13. ASSUME NEW k \in Requests PROVE IncidentKept(k)'
  <2>1. CASE k = i
    <3>1. i \in Members(i)'
      BY <1>1, <1>6, <1>9 DEF Opens, Attaches, IInv, IncidentKept
    <3> QED
      BY <1>4, <1>11, <1>12, <2>1, <3>1 DEF IncidentKept
  <2>2. CASE k # i
    BY <1>4, <1>6, <1>7, <1>11, <2>2 DEF IInv, IncidentKept, RightFor
  <2> QED
    BY <2>1, <2>2
<1>14. ASSUME NEW q \in Requests PROVE RequestKept(q)'
  <2>0. RequestKept(q)
    BY DEF IInv
  <2>1. CASE q = r
    BY <1>1, <1>3, <2>1 DEF RequestKept
  <2>2. CASE q # r
    <3>1. req[q].pc # "done" => q # i
      BY <1>1, <1>9, <2>0, <2>2 DEF Opens, Attaches, RequestKept
    <3>2. Opens(q) => Opens(q)'
      BY <1>3 DEF Opens
    <3>3. ASSUME Attaches(q) PROVE Attaches(q)'
      <4>1. PICK t \in Requests, b \in Row :
              t = req[q].target /\ b = req[q].base /\ RightFor(b, t)
        BY <3>3 DEF Attaches, IInv, TypeOK
      <4>2. Cardinality(Members(t)) \in Nat
        BY RequestsAssumption, FS_Subset, FS_CardinalityType DEF Members
      <4>3. Cardinality(Members(t)') \in Nat /\ Cardinality(Members(t)) <= Cardinality(Members(t)')
        <5>1. CASE t = i
          BY <1>8, <5>1
        <5>2. CASE t # i
          BY <1>6, <4>2, <5>2
        <5> QED
          BY <5>1, <5>2
      <4>4. AlertsOf(t) \subseteq AlertsOf(t)'
        BY <1>7
      <4>5. ShowsOnly(b, AlertsOf(t)')
        BY <4>1, <4>4, ShowsOnlyMore DEF RightFor
      <4>6. RightFor(b, t)'
        BY <4>1, <4>2, <4>3, <4>5 DEF RightFor, Row
      <4> QED
        BY <1>3, <1>11, <3>3, <4>1, <4>6 DEF Attaches
    <3> QED
      BY <1>3, <1>4, <1>11, <2>0, <2>2, <3>1, <3>2, <3>3 DEF RequestKept
  <2> QED
    BY <2>1, <2>2
<1>15. LockKept'
  BY <1>3 DEF IInv, LockKept
<1>16. ASSUME NEW q \in Requests PROVE CurrentKept(q)'
  <2>1. req'[q].pc = "written" => req[q].pc = "written" /\ q # r
    BY <1>3
  <2>2. req[q].pc = "written" /\ q # r => req[q].target # i
    BY <1>1, <1>2 DEF IInv, LockKept
  <2>3. req[q].pc = "written" => req[q].target \in Requests
    BY DEF IInv, RequestKept, Opens, Attaches
  <2> QED
    BY <1>2, <1>3, <1>4, <2>1, <2>2, <2>3 DEF IInv, CurrentKept
<1>17. ExactUnlessStale'
  <2> SUFFICES ASSUME NEW k \in Requests, Present(k)', k \notin stale
               PROVE  db'[k].count = Cardinality(Members(k)') /\ ShowsAll(db'[k], AlertsOf(k)')
    BY <1>2 DEF ExactUnlessStale
  <2>1. CASE k # i
    BY <1>4, <1>6, <1>7, <1>11, <2>1 DEF IInv, ExactUnlessStale
  <2>2. CASE k = i /\ Opens(r)
    <3>1. Members(i) = {} /\ AlertsOf(i) = {}
      BY <1>1, <1>2, <2>2 DEF Opens, IInv, IncidentKept, AlertsOf
    <3>2. Cardinality(Members(i)') = 1 /\ AlertsOf(i)' = {a}
      BY <1>7, <1>8, <3>1, FS_EmptySet
    <3>3. req[r].row = Opened(a)
      BY <1>1, <2>2 DEF Opens
    <3>4. row.count = 1 /\ ShowsAll(row, {a})
      BY <1>1, <1>10, <3>3, OpenedShows, StatusApart
    <3> QED
      BY <1>4, <2>2, <3>2, <3>4
  <2>3. CASE k = i /\ Attaches(r)
    <3>1. PICK b \in Row : b = req[r].base /\ req[r].row = Merged(b, a)
      BY <1>1, <2>3 DEF Attaches, IInv, TypeOK
    <3>2. Contents(db[i]) = Contents(b)
      BY <1>1, <1>2, <2>3, <3>1 DEF IInv, CurrentKept, Attaches
    <3>3. db[i].count = Cardinality(Members(i)) /\ ShowsAll(db[i], AlertsOf(i))
      BY <1>1, <2>3 DEF IInv, ExactUnlessStale, Attaches
    <3>4. b.count = Cardinality(Members(i)) /\ ShowsAll(b, AlertsOf(i))
      BY <3>2, <3>3, StatusApart DEF IInv, TypeOK
    <3>5. AlertsOf(i) \in SUBSET Alerts
      <4>1. \A q \in Members(i) : req[q].pc = "done"
        BY RequestsAssumption DEF Members, IInv, RequestKept
      <4> QED
        BY <4>1 DEF AlertsOf, Members, IInv, RequestKept
    <3>6. ShowsAll(Merged(b, a), AlertsOf(i) \cup {a})
      BY <3>4, <3>5, MergedShowsAll
    <3>7. row.count = b.count + 1 /\ ShowsAll(row, AlertsOf(i) \cup {a})
      BY <1>1, <1>10, <3>1, <3>6, StatusApart DEF Merged
    <3> QED
      BY <1>4, <1>7, <1>8, <2>3, <3>4, <3>7
  <2> QED
    BY <1>9, <2>1, <2>2, <2>3
<1> QED
  BY <1>5, <1>13, <1>14, <1>15, <1>16, <1>17 DEF IInv

-----------------------------------------------------------------------------
(* The theorems.                                                           *)

LEMMA NextIInv == IInv /\ [Next]_vars => IInv'
<1> SUFFICES ASSUME IInv, [Next]_vars PROVE IInv'
  OBVIOUS
<1>1. ASSUME NEW r \in Requests, Read(r) PROVE IInv'
  BY <1>1, ReadIInv
<1>2. ASSUME NEW r \in Requests, Write(r) PROVE IInv'
  BY <1>2, WriteIInv
<1>3. ASSUME NEW r \in Requests, Fail(r) \/ CommitFails(r) PROVE IInv'
  BY <1>3, GiveUpIInv
<1>4. ASSUME NEW r \in Requests, Commit(r) PROVE IInv'
  BY <1>4, CommitIInv
<1>5. ASSUME NEW i \in Requests, NEW status \in Active \cup {"closed"}, ChangeStatus(i, status)
      PROVE  IInv'
  BY <1>5, ChangeStatusIInv
<1>6. ASSUME UNCHANGED <<db, member, req, stale, changes>>,
             trigger' \in [Requests -> {"none", "posted", "rejected", "unanswered"}]
      PROVE  IInv'
  <2>1. TypeOK'
    BY <1>6 DEF IInv, TypeOK
  <2>2. \A i \in Requests : /\ Members(i)' = Members(i) /\ AlertsOf(i)' = AlertsOf(i)
                            /\ Present(i)' = Present(i)
    BY <1>6 DEF Members, AlertsOf, Present
  <2>3. \A i \in Requests : IncidentKept(i)' /\ RequestKept(i)' /\ CurrentKept(i)'
    BY <1>6, <2>2 DEF IInv, IncidentKept, RequestKept, CurrentKept, Opens, Attaches, RightFor
  <2>4. LockKept' /\ ExactUnlessStale'
    BY <1>6, <2>2 DEF IInv, LockKept, ExactUnlessStale
  <2> QED
    BY <2>1, <2>3, <2>4 DEF IInv
<1>7. ASSUME NEW r \in Requests, DefendAnswered(r) \/ DefendUnanswered(r) PROVE IInv'
  BY <1>6, <1>7 DEF DefendAnswered, DefendUnanswered, IInv, TypeOK
<1>8. CASE Finished \/ UNCHANGED vars
  BY <1>6, <1>8 DEF Finished, vars, IInv, TypeOK
<1> QED
  BY <1>1, <1>2, <1>3, <1>4, <1>5, <1>7, <1>8 DEF Next

\* The invariant of this module holds in every state the engine reaches, however
\* handlers, commits, failures and an analyst's changes interleave.
THEOREM Inductive == Spec => []IInv
  BY InitIInv, NextIInv, PTL DEF Spec

\* The tables and the handlers' locals keep their types: what _create_incident and
\* _add_alert_to_incident build from an incident's row is again such a row.
THEOREM TypeCorrect == Spec => []TypeOK
<1>1. IInv => TypeOK
  BY DEF IInv
<1> QED
  BY <1>1, Inductive, PTL

\* For any number of handlers, lost updates included, alert_count never exceeds
\* the rows of incident_alerts.
THEOREM CountNeverExceedsAlertsHolds == Spec => []CountNeverExceedsAlerts
<1>1. IInv => CountNeverExceedsAlerts
  BY DEF IInv, IncidentKept, RightFor, CountNeverExceedsAlerts
<1> QED
  BY <1>1, Inductive, PTL

\* The current kill-chain stage is the furthest of the stages seen, also when the
\* update of one handler overwrites that of another.
THEOREM StageIsHighestSeenHolds == Spec => []StageIsHighestSeen
<1>1. IInv => StageIsHighestSeen
  BY DEF IInv, IncidentKept, RightFor, Highest, StageIsHighestSeen
<1> QED
  BY <1>1, Inductive, PTL

\* Failed and rolled-back handlers leave no trace in an incident, and no alert
\* contributes to an incident it does not belong to.
THEOREM OnlyMembersContributeHolds == Spec => []OnlyMembersContribute
<1>1. IInv => OnlyMembersContribute
  BY DEF IInv, IncidentKept, RightFor, OnlyMembersContribute
<1> QED
  BY <1>1, Inductive, PTL

\* The only way an incident can miss an alert's contribution is a write based on a
\* read that another handler had overtaken.
THEOREM ExactUnlessStaleHolds == Spec => []ExactUnlessStale
<1>1. IInv => ExactUnlessStale
  BY DEF IInv
<1> QED
  BY <1>1, Inductive, PTL

\* Whatever fails or is overwritten, an incident shows its own alerts and no more.
THEOREM RowsFromAlertsHolds == Spec => []RowsFromAlerts
<1>1. TypeOK /\ CountNeverExceedsAlerts /\ StageIsHighestSeen /\ OnlyMembersContribute
        <=> RowsFromAlerts
  BY DEF RowsFromAlerts
<1> QED
  BY <1>1, TypeCorrect, CountNeverExceedsAlertsHolds, StageIsHighestSeenHolds,
     OnlyMembersContributeHolds, PTL
=============================================================================
