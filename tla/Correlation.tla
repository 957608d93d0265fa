---------------------------- MODULE Correlation ----------------------------
(***************************************************************************)
(* The correlation engine: POST /correlate and PUT /incidents/{id}/status  *)
(* against the incidents and incident_alerts tables.                       *)
(*                                                                         *)
(* Each request handler is one database transaction (get_db): it reads the *)
(* active incidents, decides, writes, and its dependency commits after the *)
(* handler has returned.  PostgreSQL runs it at READ COMMITTED, so a read  *)
(* sees what is committed, and an UPDATE waits for the row's writer and    *)
(* then replaces the columns it names by values computed before.           *)
(*                                                                         *)
(* An incident is named by the request that opened it (incident_id is      *)
(* fresh).  Sources and destinations are hosts, times are minutes, and     *)
(* severities and kill-chain stages are their ranks in models.py.          *)
(***************************************************************************)
EXTENDS Integers, FiniteSets

CONSTANTS
  Requests,    \* the POST /correlate requests of a behaviour
  Alerts,      \* the alerts they may carry
  MaxChanges   \* bound: status changes by analysts

None == "none"
NoStage == -1
Stages == 0..9
Severities == 0..4
High == 3

Host(x) == x # None

ASSUME RequestsAssumption == IsFiniteSet(Requests) /\ None \notin Requests

ASSUME AlertsAssumption ==
  /\ MaxChanges \in Nat
  /\ \A a \in Alerts :
       /\ DOMAIN a = {"src", "dst", "time", "sev", "stage"}
       /\ a.time \in Nat /\ a.sev \in Severities /\ a.stage \in Stages \cup {NoStage}

VARIABLES
  db,        \* the committed rows of incidents
  member,    \* the committed rows of incident_alerts: the incident of a request
  req,       \* the handler of each request
  trigger,   \* the _trigger_defense task of each request
  stale,     \* history: incidents that took a write based on an outdated read
  changes

vars == <<db, member, req, trigger, stale, changes>>

-----------------------------------------------------------------------------
Active == {"open", "investigating"}
NoRow == [status |-> "absent", sev |-> 0, stage |-> 0, stages |-> {}, count |-> 0,
          last |-> 0, srcs |-> {}, dsts |-> {}]

AllHosts == {a.src : a \in Alerts} \cup {a.dst : a \in Alerts}

NoAlert == [src |-> None, dst |-> None, time |-> 0, sev |-> 0, stage |-> NoStage]
IdleRequest == [pc |-> "idle", alert |-> NoAlert, target |-> None, base |-> NoRow, row |-> NoRow]

Present(i) == db[i].status # "absent"
Members(i) == {r \in Requests : member[r] = i}

\* The columns an attach replaces: all but the status.
Contents(row) == [row EXCEPT !.status = "open"]

Larger(x, y) == IF x >= y THEN x ELSE y

\* An alert without a known tactic is filed under reconnaissance.
StageOf(alert) == Larger(alert.stage, 0)

Init ==
  /\ db = [i \in Requests |-> NoRow]
  /\ member = [r \in Requests |-> None]
  /\ req = [r \in Requests |-> IdleRequest]
  /\ trigger = [r \in Requests |-> "none"]
  /\ stale = {}
  /\ changes = 0

-----------------------------------------------------------------------------
(* Scoring, in units of 1/10000.                                           *)

Window == 15
Threshold == 6000

\* 0.4 * exp(-d / Window) for d = 0, ..., Window minutes.
Decay == <<4000, 3742, 3501, 3275, 3064, 2866, 2681, 2508,
           2347, 2195, 2054, 1921, 1797, 1681, 1573, 1472>>

Proximity(d) == IF d <= Window THEN Decay[d + 1] ELSE 0

Distance(s, t) == IF s <= t THEN t - s ELSE s - t

Score(alert, row) ==
  Proximity(Distance(alert.time, row.last))
    + (IF Host(alert.src) /\ alert.src \in row.srcs THEN 2000 ELSE 0)
    + (IF Host(alert.dst) /\ alert.dst \in row.dsts THEN 2000 ELSE 0)
    + (IF alert.stage # NoStage /\ alert.stage >= row.stage THEN 2000 ELSE 0)

Candidates == {i \in Requests : db[i].status \in Active}

\* The select has no order: of several best incidents any may come first.
Matches(alert) ==
  {i \in Candidates :
     /\ Score(alert, db[i]) >= Threshold
     /\ \A j \in Candidates : Score(alert, db[j]) <= Score(alert, db[i])}

-----------------------------------------------------------------------------
(* The rows the handler writes.                                            *)

Hosts(x) == IF Host(x) THEN {x} ELSE {}

\* _create_incident
Opened(alert) ==
  [status |-> "open", sev |-> alert.sev, stage |-> StageOf(alert), stages |-> {StageOf(alert)},
   count |-> 1, last |-> alert.time, srcs |-> Hosts(alert.src), dsts |-> Hosts(alert.dst)]

\* Mutant: the severity of the latest alert.
HigherSeverityMutant(old, new) == new

HigherSeverity(old, new) == Larger(old, new)

FurtherStage(old, new) == Larger(old, new)

\* _add_alert_to_incident
Merged(row, alert) ==
  [status |-> row.status,
   sev |-> HigherSeverity(row.sev, alert.sev),
   stage |-> FurtherStage(row.stage, StageOf(alert)),
   stages |-> row.stages \cup {StageOf(alert)},
   count |-> row.count + 1,
   last |-> Larger(row.last, alert.time),
   srcs |-> row.srcs \cup Hosts(alert.src),
   dsts |-> row.dsts \cup Hosts(alert.dst)]

-----------------------------------------------------------------------------
(* POST /correlate                                                         *)

\* The select of the active incidents, the scoring, and the values to write:
\* there is no await between the rows' arrival and the first write.
Read(r) ==
  /\ req[r].pc = "idle"
  /\ \E alert \in Alerts :
       \/ /\ Matches(alert) = {}
          /\ req' = [req EXCEPT ![r] = [pc |-> "decided", alert |-> alert, target |-> r,
                                        base |-> NoRow, row |-> Opened(alert)]]
       \/ \E i \in Matches(alert) :
            req' = [req EXCEPT ![r] = [pc |-> "decided", alert |-> alert, target |-> i,
                                       base |-> db[i], row |-> Merged(db[i], alert)]]
  /\ UNCHANGED <<db, member, trigger, stale, changes>>

Locked(i) == \E q \in Requests : req[q].pc = "written" /\ req[q].target = i

\* The writes, and the handler's return: the defense task is created here, the
\* row stays locked until the commit.
Write(r) ==
  LET i == req[r].target
  IN  /\ req[r].pc = "decided"
      /\ ~Locked(i)
      /\ req' = [req EXCEPT ![r].pc = "written"]
      /\ stale' = IF Contents(db[i]) # Contents(req[r].base) THEN stale \cup {i} ELSE stale
      /\ trigger' = [trigger EXCEPT ![r] = IF req[r].alert.sev >= High THEN "posted" ELSE @]
      /\ UNCHANGED <<db, member, changes>>

\* An exception before the return: 500, rolled back.
Fail(r) ==
  /\ req[r].pc = "decided"
  /\ req' = [req EXCEPT ![r].pc = "failed"]
  /\ UNCHANGED <<db, member, trigger, stale, changes>>

Commit(r) ==
  LET i == req[r].target
  IN  /\ req[r].pc = "written"
      /\ db' = [db EXCEPT ![i] = [req[r].row EXCEPT !.status = IF i = r THEN "open" ELSE db[i].status]]
      /\ member' = [member EXCEPT ![r] = i]
      /\ req' = [req EXCEPT ![r].pc = "done"]
      /\ UNCHANGED <<trigger, stale, changes>>

\* Mutant: the incident's row is committed by itself, before the alert's.
CommitFailsMutant(r) ==
  LET i == req[r].target
  IN  /\ req[r].pc = "written"
      /\ db' = [db EXCEPT ![i] = [req[r].row EXCEPT !.status = IF i = r THEN "open" ELSE db[i].status]]
      /\ req' = [req EXCEPT ![r].pc = "failed"]
      /\ UNCHANGED <<member, trigger, stale, changes>>

\* The connection breaks at the commit; the defense task is already on its way.
CommitFails(r) ==
  /\ req[r].pc = "written"
  /\ req' = [req EXCEPT ![r].pc = "failed"]
  /\ UNCHANGED <<db, member, trigger, stale, changes>>

-----------------------------------------------------------------------------
(* _trigger_defense: POST /defend carries no Authorization header, and the *)
(* orchestrator's route depends on a bearer token.                         *)

DefendAnswered(r) ==
  /\ trigger[r] = "posted"
  /\ trigger' = [trigger EXCEPT ![r] = "rejected"]
  /\ UNCHANGED <<db, member, req, stale, changes>>

DefendUnanswered(r) ==
  /\ trigger[r] = "posted"
  /\ trigger' = [trigger EXCEPT ![r] = "unanswered"]
  /\ UNCHANGED <<db, member, req, stale, changes>>

\* PUT /incidents/{id}/status: what it writes does not depend on what it read.
ChangeStatus(i, status) ==
  /\ Present(i)
  /\ ~Locked(i)
  /\ changes < MaxChanges
  /\ changes' = changes + 1
  /\ db' = [db EXCEPT ![i].status = status]
  /\ UNCHANGED <<member, req, trigger, stale>>

Finished ==
  /\ \A r \in Requests : req[r].pc \in {"done", "failed"} /\ trigger[r] # "posted"
  /\ UNCHANGED vars

Next ==
  \/ \E r \in Requests :
       \/ Read(r) \/ Write(r) \/ Fail(r) \/ Commit(r) \/ CommitFails(r)
       \/ DefendAnswered(r) \/ DefendUnanswered(r)
  \/ \E i \in Requests, status \in Active \cup {"closed"} : ChangeStatus(i, status)
  \/ Finished

Spec == Init /\ [][Next]_vars
-----------------------------------------------------------------------------
(* Properties.                                                             *)

Row == [status : Active \cup {"closed", "absent"}, sev : Severities, stage : Stages,
        stages : SUBSET Stages, count : Nat, last : Nat,
        srcs : SUBSET AllHosts, dsts : SUBSET AllHosts]

\* The tables and the handlers' locals stay within what the code builds.
TypeOK ==
  /\ db \in [Requests -> Row]
  /\ member \in [Requests -> Requests \cup {None}]
  /\ req \in [Requests -> [pc : {"idle", "decided", "written", "done", "failed"},
                           alert : Alerts \cup {NoAlert}, target : Requests \cup {None},
                           base : Row, row : Row]]
  /\ trigger \in [Requests -> {"none", "posted", "rejected", "unanswered"}]
  /\ stale \subseteq Requests
  /\ changes \in 0..MaxChanges

AlertsOf(i) == {req[r].alert : r \in Members(i)}

\* What a row shows comes from the alerts.
ShowsOnly(row, alerts) ==
  /\ \E a \in alerts : row.sev = a.sev
  /\ \E a \in alerts : row.last = a.time
  /\ row.stages \subseteq {StageOf(a) : a \in alerts}
  /\ row.srcs \subseteq UNION {Hosts(a.src) : a \in alerts}
  /\ row.dsts \subseteq UNION {Hosts(a.dst) : a \in alerts}

\* A row leaves out nothing of the alerts.
ShowsAll(row, alerts) ==
  /\ \A a \in alerts : a.sev <= row.sev /\ a.time <= row.last
  /\ {StageOf(a) : a \in alerts} \subseteq row.stages
  /\ UNION {Hosts(a.src) : a \in alerts} \subseteq row.srcs
  /\ UNION {Hosts(a.dst) : a \in alerts} \subseteq row.dsts

\* However handlers interleave or fail, an incident never counts more alerts
\* than incident_alerts holds for it, and it holds at least the one it opened with.
CountNeverExceedsAlerts ==
  \A i \in Requests : Present(i) =>
    /\ db[i].count >= 1 /\ i \in Members(i)
    /\ db[i].count <= Cardinality(Members(i))

\* Also after lost updates the current stage is the furthest of the stages the
\* incident shows: the two columns are never of different origins.
StageIsHighestSeen ==
  \A i \in Requests : Present(i) =>
    /\ db[i].stage \in db[i].stages
    /\ \A s \in db[i].stages : s <= db[i].stage

\* What an incident shows comes from alerts it holds: a rolled-back handler
\* leaves nothing behind, and no alert contributes to an incident of another.
OnlyMembersContribute ==
  \A i \in Requests : Present(i) => ShowsOnly(db[i], AlertsOf(i))

\* Whatever fails or is overwritten, the rows are well formed and made of
\* nothing but the alerts they hold.
RowsFromAlerts ==
  TypeOK /\ CountNeverExceedsAlerts /\ StageIsHighestSeen /\ OnlyMembersContribute

\* An incident misses something of its alerts only if one of its writes was
\* based on a read that another handler had overtaken.
ExactUnlessStale ==
  \A i \in Requests : Present(i) /\ i \notin stale =>
    db[i].count = Cardinality(Members(i)) /\ ShowsAll(db[i], AlertsOf(i))

-----------------------------------------------------------------------------
(* What the repository says of the program, and the program does not do.   *)

\* models.py:120, severity is the "Highest severity among member alerts".
SeverityIsHighest ==
  \A i \in Requests : Present(i) => \A r \in Members(i) : req[r].alert.sev <= db[i].sev

\* README.md:107, correlation calls POST /defend with a bearer token: a defense
\* the orchestrator answers is accepted.
DefenseIsAccepted == \A r \in Requests : trigger[r] # "rejected"
=============================================================================
