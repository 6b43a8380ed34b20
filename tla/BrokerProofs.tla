---------------------------- MODULE BrokerProofs ----------------------------
(***************************************************************************)
(* The onboarding broker, for any number of concurrent requests and flows  *)
(* and any value of its bounds: no handle of a live grant is dropped, the  *)
(* records stay valid, a revocation that is reported is complete, browser  *)
(* states are single use, and the steady stage follows exact provisioning. *)
(*                                                                         *)
(* A handler holds no lock, so the inductive invariant is about what one   *)
(* knows of the record value it read although the record has moved on:     *)
(* every session in such a value belongs to that record and was issued and *)
(* recorded long ago (a session enters one record, once), so a session the *)
(* handler has retired cannot come alive again, and the comparison of the  *)
(* swap says that the record holds nothing but what the handler has seen.  *)
(***************************************************************************)
EXTENDS Broker, FiniteSetTheorems, TLAPS

Browser == {"entry", "provision", "steady"}
Issuing == {"provision", "steady"}

\* The flow's record is consumed and the next stage is not saved yet
Pending == {"finish", "create", "config", "members", "cleanup", "save"}

\* The request's session is in no record
Unrecorded == Pending \cup {"idle", "put", "swap", "redirected"}

-----------------------------------------------------------------------------
(* The parts of the invariant.                                              *)

\* What a request is doing fits the endpoint it hit
ShapeOK(j) ==
    /\ j.pc = "idle" => j = NoJob
    /\ j.role \in Browser => j.flow \in Flows
    /\ j.pc \in Pending => j.role \in Browser /\ j.on = None
    /\ j.pc = "finish" => j.role \in Issuing
    /\ j.pc \in {"create", "config", "members", "cleanup"} => j.role = "provision"
    /\ j.pc = "save" => j.role \in {"entry", "provision"}
    /\ j.pc \in {"put", "swap"} => j.role \in Issuing /\ j.on \in RecordNames
    /\ j.pc = "clean" => j.role \in Issuing \cup {"start"} /\ j.on \in Queues
    /\ j.pc = "retire" => j.role \in Issuing \cup {"start", "revoke"} /\ j.on \in RecordNames
    /\ j.pc = "revoke" => j.role = "revoke" /\ j.on \in RecordNames
    /\ j.pc \in {"check", "resume", "prove"} => j.role = "start"
    /\ j.pc \in {"resume", "prove"} => j.on = "ready"
    /\ j.pc = "installed" => j.role \in Issuing /\ j.on \in RecordNames
    /\ j.pc = "rejected" => j.role \in Issuing

\* The browser endpoints that may still act on a flow in the given stage
From(stage) ==
    IF stage \in {"fresh", "entry"} THEN Browser
    ELSE IF stage = "provision" THEN Issuing
    ELSE IF stage = "steady" THEN {"steady"} ELSE {}
After(role) == From(role) \ {role}

FlowOK ==
    /\ \A r \in Requests, f \in Flows : job[r].flow = f => job[r].role \notin From(flow[f])
    /\ \A r \in Requests : job[r].pc \in Pending =>
        /\ flow[job[r].flow] = "gone"
        /\ \A q \in Requests : job[q].flow = job[r].flow => job[q].role \notin After(job[r].role)
    /\ SingleUse

\* How far request r, which provisions the space, has checked it
Checked(r) ==
    /\ job[r].pc = "members" => space \in {"exact", "otherMembers"}
    /\ job[r].pc = "cleanup" /\ ~job[r].bad => space = "exact"
    /\ job[r].pc = "save" /\ job[r].role = "provision" => space = "exact"

SpaceOK ==
    /\ \A f \in Flows : flow[f] = "steady" => space = "exact"
    /\ \A r \in Requests : Checked(r)

\* A value the record n may have
RecordOK(n, rec) ==
    /\ rec \in RecordType /\ IsFiniteSet(rec.others) /\ Cardinality(rec.others) <= maxRetired
    /\ rec.active \notin rec.others
    /\ rec.active # None <=> (n = "ready" /\ rec.exists)
    /\ ~rec.exists => rec = Absent

\* Session s was put into record n
Recorded(s, n) ==
    job[s].pc \notin Unrecorded /\ job[s].role \in Issuing /\ job[s].on = n

VaultOK ==
    \A n \in RecordNames :
        RecordOK(n, vault[n]) /\ \A s \in Sessions(vault[n]) : Recorded(s, n)

\* The value q read is one its record had, and what was active since is not
\* among the sessions it retires
SeenOK(q) ==
    LET j == job[q] IN
    j.pc \in {"retire", "swap", "resume", "prove"} =>
        /\ RecordOK(j.on, j.seen)
        /\ \A s \in Sessions(j.seen) : Recorded(s, j.on)
        /\ vault["ready"].active # None => vault["ready"].active \notin j.seen.others
        /\ j.pc # "swap" => j.seen.exists

\* The sessions a handler retires
Target(j) == IF j.role = "revoke" THEN Sessions(j.seen) ELSE j.seen.others

RetireOK(q) ==
    LET j == job[q] IN
    j.pc = "retire" =>
        /\ j.todo \cup j.kept \subseteq Target(j)
        /\ \A s \in Target(j) : s \in live => s \in j.todo \cup j.kept

PutOK(q) ==
    LET j == job[q] IN
    /\ j.pc \in {"put", "swap"} /\ j.on = "ready" => q \in live \cap local
    /\ j.pc = "swap" => Cardinality(Replacement(j.on, j.seen, q).others) <= maxRetired

\* The records a revocation has still to go through
Remaining(on) ==
    IF on = "ready" THEN RecordNames ELSE IF on = "steady" THEN Queues ELSE {"provisioning"}

RevokeOK(q) ==
    LET j == job[q] IN
    /\ \A s \in j.begun : job[s].pc \notin Unrecorded
    /\ j.role = "revoke" /\ j.pc \in {"revoke", "retire"} /\ ~j.bad =>
        \A s \in j.begun : s \in live => \E n \in Remaining(j.on) : s \in Sessions(vault[n])
    /\ j.pc = "revoked" => \A s \in j.begun : s \notin live

\* Where the session of request q is
SessionOK(q) ==
    LET j == job[q] IN
    /\ j.pc \in {"idle", "finish"} => q \notin live \cup local
    /\ j.role = "provision" /\ j.pc \in {"save", "redirected"} => q \notin live \cup local
    /\ j.pc \in {"clean", "retire", "installed", "rejected"} /\ j.role \in Issuing /\ j.on # None
        /\ q \in live => q \in Sessions(vault[j.on])

JobOK(q) ==
    ShapeOK(job[q]) /\ SeenOK(q) /\ RetireOK(q) /\ PutOK(q) /\ RevokeOK(q) /\ SessionOK(q)

IInv ==
    /\ TypeOK /\ live \subseteq local
    /\ FlowOK /\ SpaceOK /\ VaultOK
    /\ \A q \in Requests : JobOK(q)
    /\ ActiveUntouched
-----------------------------------------------------------------------------
(* What a step of request r may do to the state the others rely on.         *)

Others(r) == \A q \in Requests \ {r} : job'[q] = job[q]

\* A recorded session stays that of its record
Keeps(r) ==
    /\ job[r].pc \notin Unrecorded => job'[r].pc \notin Unrecorded
    /\ job[r].pc \notin Unrecorded /\ job[r].role \in Issuing =>
        job'[r].role = job[r].role /\ job'[r].on = job[r].on
    /\ job[r].role = "revoke" => job'[r].role = "revoke"

\* Only a callback issues a session, its own; nobody touches an unrecorded one
Grants(r) ==
    /\ \A s \in live' : s \in live \/ (s = r /\ job[r].pc = "finish")
    /\ \A s \in local' :
        \/ s \in local
        \/ s = r /\ job[r].pc = "finish"
        \/ job[s].pc \notin Unrecorded
    /\ \A s \in Requests \ {r} :
        job[s].pc \in Unrecorded /\ s \in live /\ s \in local => s \in live' /\ s \in local'

\* A record forgets no live session, and a new active one was in no record
Remembers(r) ==
    /\ \A n \in RecordNames : \A s \in Sessions(vault[n]) :
        s \in live' => s \in Sessions(vault'[n])
    /\ \/ vault'["ready"].active \in {vault["ready"].active, None}
       \/ vault'["ready"].active = r /\ job[r].pc \in Unrecorded

\* An exact space stays exact
Settles ==
    /\ space = "exact" => space' = "exact"
    /\ space = "otherMembers" => space' \in {"exact", "otherMembers"}

\* A recorded session stays recorded in a step of another request or its own
LEMMA RecordedStable ==
    ASSUME NEW r \in Requests, Others(r), Keeps(r), NEW s \in Requests
    PROVE  /\ job[s].pc \notin Unrecorded => job'[s].pc \notin Unrecorded
           /\ \A n \in RecordNames : Recorded(s, n) => Recorded(s, n)'
  BY DEF Others, Keeps, Recorded

\* The sessions of a well typed record are requests
LEMMA SessionsType ==
    ASSUME NEW rec \in RecordType
    PROVE  /\ Sessions(rec) \subseteq Requests /\ rec.others \subseteq Sessions(rec)
           /\ rec.active # None => rec.active \in Sessions(rec)
           /\ \A s \in Sessions(rec) : s = rec.active \/ s \in rec.others
  BY DEF Sessions, RecordType

\* What every request knows stays true when another one moves
LEMMA JobStable ==
    ASSUME IInv, NEW r \in Requests, NEW q \in Requests, q # r, Others(r), Keeps(r), Grants(r),
           Remembers(r)
    PROVE  JobOK(q)'
<1>1. job'[q] = job[q] /\ JobOK(q) /\ job[q] \in JobType
  BY DEF Others, IInv, TypeOK
<1>2. \A s \in Requests : job[s].pc \notin Unrecorded => job'[s].pc \notin Unrecorded
  BY RecordedStable
<1>3. \A s \in Requests, n \in RecordNames : Recorded(s, n) => Recorded(s, n)'
  BY RecordedStable
<1>4. \A s \in Requests : job[s].pc \notin Unrecorded /\ s \in live' => s \in live
  BY DEF Grants, Unrecorded, Pending
<1>5. SeenOK(q)'
  <2> SUFFICES ASSUME job[q].pc \in {"retire", "swap", "resume", "prove"}
               PROVE  /\ \A s \in Sessions(job[q].seen) : Recorded(s, job[q].on)'
                      /\ vault'["ready"].active # None =>
                            vault'["ready"].active \notin job[q].seen.others
    BY <1>1 DEF SeenOK, JobOK, RecordOK
  <2>1. /\ RecordOK(job[q].on, job[q].seen)
        /\ \A s \in Sessions(job[q].seen) : Recorded(s, job[q].on)
        /\ vault["ready"].active # None => vault["ready"].active \notin job[q].seen.others
    BY <1>1 DEF JobOK, SeenOK
  <2>2. /\ Sessions(job[q].seen) \subseteq Requests
        /\ job[q].seen.others \subseteq Sessions(job[q].seen)
    BY <2>1, SessionsType DEF RecordOK
  <2>3. job[q].on \in RecordNames
    BY <1>1 DEF JobOK, ShapeOK, RecordNames
  <2>4. r \in job[q].seen.others => job[r].pc \notin Unrecorded
    BY <2>1, <2>2 DEF Recorded
  <2> QED
    <3>1. \A s \in Sessions(job[q].seen) : Recorded(s, job[q].on)'
      BY <1>1, <1>3, <2>1, <2>2, <2>3 DEF Recorded
    <3>2. vault'["ready"].active # None => vault'["ready"].active \notin job[q].seen.others
      BY <2>1, <2>4 DEF Remembers
    <3> QED
      BY <3>1, <3>2
<1>6. RetireOK(q)'
  <2> SUFFICES ASSUME job[q].pc = "retire", NEW s \in Target(job[q]), s \in live'
               PROVE  s \in live
    BY <1>1 DEF RetireOK, JobOK, Target
  <2>1. RecordOK(job[q].on, job[q].seen) /\ \A x \in Sessions(job[q].seen) : Recorded(x, job[q].on)
    BY <1>1 DEF JobOK, SeenOK
  <2>2. s \in Sessions(job[q].seen) /\ Sessions(job[q].seen) \subseteq Requests
    BY <2>1, SessionsType DEF RecordOK, Target
  <2> QED
    BY <1>4, <2>1, <2>2 DEF Recorded
<1>7. PutOK(q)'
  <2>1. job[q].pc \in {"put", "swap"} => job[q].pc \in Unrecorded
    BY DEF Unrecorded
  <2> QED
    BY <1>1, <2>1 DEF PutOK, JobOK, Grants
<1>8. RevokeOK(q)'
  <2>1. job[q].begun \subseteq Requests
    BY <1>1 DEF JobType
  <2>2. \A n \in Remaining(job[q].on) : n \in RecordNames
    BY DEF Remaining, RecordNames, Queues
  <2>3. RevokeOK(q)
    BY <1>1 DEF JobOK
  <2>4. \A s \in job[q].begun : s \in live' => s \in live
    BY <1>4, <2>1, <2>3 DEF RevokeOK
  <2> QED
    BY <1>1, <1>2, <2>1, <2>2, <2>3, <2>4 DEF RevokeOK, Remembers
<1>9. SessionOK(q)'
  <2>1. SessionOK(q) /\ ShapeOK(job[q])
    BY <1>1 DEF JobOK
  <2>2. q \in live' => q \in live
    BY DEF Grants
  <2>3. job[q].pc \in {"idle", "finish", "save", "redirected"} =>
            job[q].pc \in Unrecorded /\ (q \in local' => q \in local)
    BY DEF Grants, Unrecorded, Pending
  <2>4. job[q].pc \in {"clean", "retire", "installed", "rejected"} /\ job[q].on # None =>
            job[q].on \in RecordNames
    BY <1>1 DEF JobType
  <2> QED
    BY <1>1, <2>1, <2>2, <2>3, <2>4 DEF SessionOK, Remembers
<1> QED
  BY <1>1, <1>5, <1>6, <1>7, <1>8, <1>9 DEF JobOK

-----------------------------------------------------------------------------
(* The frame of a step, part by part.                                       *)

\* The flow and the endpoint of a request stay, and only a request that had
\* consumed its stage may still save the next; or it has no flow at all
KeepsFlow(r) ==
    \/ /\ job'[r].flow = job[r].flow /\ job'[r].role = job[r].role
       /\ job'[r].pc \in Pending => job[r].pc \in Pending
    \/ job'[r].flow = None /\ job'[r].role \notin Browser /\ job'[r].pc \notin Pending

\* A flow gets its entry token, or ends
FlowsEnd ==
    \A f \in Flows : flow'[f] \in {flow[f], "gone"} \/ (flow[f] = "fresh" /\ flow'[f] = "entry")

\* A recorded session is not revoked
Spares == \A s \in live \cap local : job[s].pc \notin Unrecorded => s \in live' \cap local'

Typed ==
    /\ job' \in [Requests -> JobType] /\ flow' \in [Flows -> Stages] /\ space' \in Spaces
    /\ vault' \in [RecordNames -> RecordType]
    /\ live' \subseteq local' /\ local' \subseteq Requests

\* A step that starts from a consumed stage of its flow or from none
LEMMA FlowFrame ==
    ASSUME IInv, NEW r \in Requests, Others(r), KeepsFlow(r), FlowsEnd
    PROVE  FlowOK'
<1>1. job \in [Requests -> JobType] /\ flow \in [Flows -> Stages] /\ FlowOK /\ ShapeOK(job[r])
  BY DEF IInv, TypeOK, JobOK
<1>2. None \notin Flows
  BY BrokerAssumption
<1>3. \A f \in Flows : /\ From(flow'[f]) \subseteq From(flow[f])
                       /\ flow[f] = "gone" => flow'[f] = "gone"
  BY DEF FlowsEnd, From
<1>4. \A q \in Requests, f \in Flows :
          job'[q].flow = f /\ job'[q].role \in Browser => job[q].flow = f /\ job[q].role = job'[q].role
  BY <1>2 DEF Others, KeepsFlow
<1>5. \A x : From(x) \subseteq Browser /\ After(x) \subseteq Browser
  BY DEF From, After, Browser, Issuing
<1>6. \A q \in Requests, f \in Flows : job'[q].flow = f => job'[q].role \notin From(flow'[f])
  BY <1>1, <1>3, <1>4, <1>5 DEF FlowOK
<1>7. ASSUME NEW q \in Requests, job'[q].pc \in Pending
      PROVE  /\ flow'[job'[q].flow] = "gone"
             /\ \A p \in Requests : job'[p].flow = job'[q].flow => job'[p].role \notin After(job'[q].role)
  <2>1. /\ job[q].pc \in Pending /\ job'[q].flow = job[q].flow /\ job'[q].role = job[q].role
        /\ job[q].flow \in Flows
    BY <1>1, <1>7 DEF Others, KeepsFlow, IInv, JobOK, ShapeOK
  <2>2. /\ flow[job[q].flow] = "gone"
        /\ \A p \in Requests : job[p].flow = job[q].flow => job[p].role \notin After(job[q].role)
    BY <1>1, <2>1 DEF FlowOK
  <2> QED
    BY <1>3, <1>4, <1>5, <2>1, <2>2
<1>8. SingleUse'
  <2>1. \A q \in Requests : job'[q].role \in Browser =>
            job[q].flow = job'[q].flow /\ job[q].role = job'[q].role
    BY DEF Others, KeepsFlow
  <2> QED
    BY <1>1, <2>1 DEF FlowOK, SingleUse, Browser
<1> QED
  BY <1>6, <1>7, <1>8 DEF FlowOK

\* A space that was checked stays as good
LEMMA SpaceFrame ==
    ASSUME IInv, NEW r \in Requests, Others(r), FlowsEnd, Settles, Checked(r)'
    PROVE  SpaceOK'
<1>1. SpaceOK
  BY DEF IInv
<1>2. \A f \in Flows : flow'[f] = "steady" => flow[f] = "steady"
  BY DEF FlowsEnd
<1>3. \A q \in Requests : Checked(q)'
  BY <1>1 DEF SpaceOK, Others, Settles, Checked
<1> QED
  BY <1>1, <1>2, <1>3 DEF SpaceOK, Settles

\* A record that is not written stays valid
LEMMA VaultFrame ==
    ASSUME IInv, NEW r \in Requests, Others(r), Keeps(r), NEW n \in RecordNames, vault'[n] = vault[n]
    PROVE  RecordOK(n, vault'[n]) /\ \A s \in Sessions(vault'[n]) : Recorded(s, n)'
<1>1. RecordOK(n, vault[n]) /\ \A s \in Sessions(vault[n]) : Recorded(s, n)
  BY DEF IInv, VaultOK
<1>2. Sessions(vault[n]) \subseteq Requests
  BY <1>1, SessionsType DEF RecordOK
<1> QED
  BY <1>1, <1>2, RecordedStable

\* The active session is recorded
LEMMA ActiveRecorded ==
    ASSUME IInv, vault["ready"].exists
    PROVE  /\ vault["ready"].active \in Requests /\ Recorded(vault["ready"].active, "ready")
           /\ vault["ready"].active # None
<1>1. "ready" \in RecordNames
  BY DEF RecordNames
<1>2. /\ RecordOK("ready", vault["ready"])
      /\ \A s \in Sessions(vault["ready"]) : Recorded(s, "ready")
  BY <1>1 DEF IInv, VaultOK
<1>3. vault["ready"].active # None /\ vault["ready"].active \in Sessions(vault["ready"])
  BY <1>2, SessionsType DEF RecordOK
<1> QED
  BY <1>2, <1>3, SessionsType DEF RecordOK

\* The active session stays untouched in a step that spares recorded sessions
LEMMA ActiveFrame ==
    ASSUME IInv, NEW r \in Requests, Others(r), Keeps(r), Spares,
           vault'["ready"].active = vault["ready"].active,
           vault'["ready"].exists => vault["ready"].exists
    PROVE  ActiveUntouched'
<1>1. ActiveUntouched
  BY DEF IInv
<1>2. \A q \in Requests : job[q].role = "revoke" => job'[q].role = "revoke"
  BY DEF Others, Keeps
<1>3. vault["ready"].exists => job[vault["ready"].active].pc \notin Unrecorded
  BY ActiveRecorded DEF Recorded
<1> QED
  BY <1>1, <1>2, <1>3 DEF ActiveUntouched, Spares

\* No session of a record is dropped while it is live
Remembered == \A s \in Handles : s \in live' => s \in Handles'

\* A step of request r that keeps to the frame preserves the invariant
LEMMA StepOK ==
    ASSUME IInv, NEW r \in Requests, Typed, Others(r), Keeps(r), Grants(r), Remembers(r),
           FlowOK', SpaceOK', VaultOK', JobOK(r)', ActiveUntouched'
    PROVE  IInv' /\ Remembered
<1>1. \A q \in Requests : JobOK(q)'
  BY JobStable
<1>2. TypeOK'
  BY DEF Typed, TypeOK
<1>3. Remembered
  BY DEF Remembered, Handles, Remembers
<1> QED
  BY <1>1, <1>2, <1>3 DEF IInv, Typed

\* A step that only moves the request and perhaps gives out or ends a flow
LEMMA QuietStep ==
    ASSUME IInv, NEW r \in Requests, job' \in [Requests -> JobType], flow' \in [Flows -> Stages],
           UNCHANGED <<live, local, vault, space>>, Others(r), Keeps(r), KeepsFlow(r), FlowsEnd,
           Checked(r)', JobOK(r)'
    PROVE  IInv' /\ Remembered
<1>1. Typed
  BY DEF Typed, IInv, TypeOK
<1>2. Grants(r) /\ Remembers(r) /\ Settles /\ Spares
  BY DEF Grants, Remembers, Settles, Spares
<1>3. VaultOK'
  BY VaultFrame DEF VaultOK
<1> QED
  BY <1>1, <1>2, <1>3, FlowFrame, SpaceFrame, ActiveFrame, StepOK

-----------------------------------------------------------------------------
(* What a request becomes.                                                  *)

\* Set moves one request, and a handler that has answered keeps what it was
LEMMA SetOK ==
    ASSUME TypeOK, NEW r \in Requests, NEW new \in JobType, Set(r, new)
    PROVE  /\ job' \in [Requests -> JobType] /\ Others(r)
           /\ job'[r].pc = new.pc /\ job'[r].role = new.role /\ job'[r].flow = new.flow
           /\ job'[r].on = new.on /\ job'[r].begun = new.begun
           /\ new.pc \notin Answers => job'[r] = new
<1>1. Absent \in RecordType
  BY DEF Absent, RecordType
<1>2. NoJob \in JobType
  BY <1>1 DEF NoJob, JobType
<1>3. Ended(new) \in JobType
  BY <1>2 DEF Ended, JobType
<1>4. /\ Ended(new).pc = new.pc /\ Ended(new).role = new.role /\ Ended(new).flow = new.flow
      /\ Ended(new).on = new.on /\ Ended(new).begun = new.begun
  BY DEF Ended, NoJob
<1>5. job \in [Requests -> JobType]
  BY DEF TypeOK
<1>6. job'[r] = IF new.pc \in Answers THEN Ended(new) ELSE new
  BY <1>5 DEF Set
<1> HIDE DEF Ended, NoJob, JobType
<1> QED
  BY <1>3, <1>4, <1>5, <1>6 DEF Set, Others

\* The job before a request and the value of an empty record are well typed
LEMMA Typing ==
    /\ Absent \in RecordType /\ NoJob \in JobType
    /\ \A a \in Requests \cup {None}, o \in SUBSET Requests : Record(a, o) \in RecordType
    /\ Sessions(Absent) = {}
  BY DEF Absent, RecordType, NoJob, JobType, Record, Sessions

\* A handler that has answered with neither a session nor a revocation to vouch for
Plain == {"ready", "unavailable", "full", "authorize", "unretained", "incomplete", "failed"}

\* A request with a plain answer relies on nothing
LEMMA PlainOK ==
    ASSUME IInv, NEW r \in Requests, Others(r), Keeps(r), job'[r].pc \in Plain,
           job'[r].role = job[r].role, job'[r].flow = job[r].flow, job'[r].begun = job[r].begun
    PROVE  JobOK(r)' /\ KeepsFlow(r) /\ Checked(r)'
<1>1. JobOK(r) /\ job[r] \in JobType
  BY DEF IInv, TypeOK
<1>2. \A s \in job[r].begun : s \in Requests /\ job'[s].pc \notin Unrecorded
  BY <1>1, RecordedStable DEF JobOK, RevokeOK, JobType
<1>3. ShapeOK(job'[r])
  BY <1>1 DEF JobOK, ShapeOK, Plain, Pending
<1>4. SeenOK(r)' /\ RetireOK(r)' /\ PutOK(r)' /\ SessionOK(r)' /\ RevokeOK(r)'
  BY <1>2 DEF SeenOK, RetireOK, PutOK, SessionOK, RevokeOK, Plain
<1>5. KeepsFlow(r) /\ Checked(r)'
  BY DEF KeepsFlow, Checked, Plain, Pending
<1> QED
  BY <1>3, <1>4, <1>5 DEF JobOK

\* The same of a request that goes on before it has read a record
LEMMA AheadOK ==
    ASSUME IInv, NEW r \in Requests, Others(r), Keeps(r), ShapeOK(job'[r]),
           job'[r].pc \in {"finish", "create", "config", "members", "cleanup", "save", "put", "clean",
                           "check", "redirected", "rejected", "installed"},
           job'[r].role = job[r].role, job'[r].begun = job[r].begun,
           (job'[r].pc = "put" /\ job'[r].on = "ready") => r \in live' \cap local',
           SessionOK(r)'
    PROVE  JobOK(r)'
<1>1. JobOK(r) /\ job[r] \in JobType
  BY DEF IInv, TypeOK
<1>2. \A s \in job[r].begun : s \in Requests /\ job'[s].pc \notin Unrecorded
  BY <1>1, RecordedStable DEF JobOK, RevokeOK, JobType
<1>3. SeenOK(r)' /\ RetireOK(r)' /\ PutOK(r)' /\ RevokeOK(r)'
  BY <1>2 DEF SeenOK, RetireOK, PutOK, RevokeOK
<1> QED
  BY <1>3 DEF JobOK

\* What is read from a record is a value its readers may rely on
LEMMA ReadOK ==
    ASSUME IInv, NEW n \in RecordNames
    PROVE  /\ vault[n] \in RecordType /\ RecordOK(n, vault[n])
           /\ Sessions(vault[n]) \subseteq Requests /\ vault[n].others \subseteq Sessions(vault[n])
           /\ \A s \in Sessions(vault[n]) : Recorded(s, n)
           /\ vault["ready"].active # None => vault["ready"].active \notin vault[n].others
<1>1. /\ RecordOK(n, vault[n]) /\ \A s \in Sessions(vault[n]) : Recorded(s, n)
      /\ RecordOK("ready", vault["ready"]) /\ \A s \in Sessions(vault["ready"]) : Recorded(s, "ready")
  BY DEF IInv, VaultOK, RecordNames
<1>2. /\ vault[n] \in RecordType /\ Sessions(vault[n]) \subseteq Requests
      /\ vault[n].others \subseteq Sessions(vault[n])
      /\ vault["ready"].active # None => vault["ready"].active \in Sessions(vault["ready"])
  BY <1>1, SessionsType DEF RecordOK
<1>3. n = "ready" => vault["ready"].active \notin vault[n].others
  BY <1>1 DEF RecordOK
<1> QED
  BY <1>1, <1>2, <1>3 DEF Recorded

\* Where AfterClean leads, for the endpoints that clean a record
LEMMA AfterCleanValues ==
    /\ \A role \in Issuing : /\ AfterClean(role, "ready") = "installed"
                             /\ AfterClean(role, "steady") = "rejected"
                             /\ AfterClean(role, "provisioning") = "rejected"
    /\ AfterClean("start", "ready") = "ready" /\ AfterClean("start", "steady") = "clean"
    /\ AfterClean("start", "provisioning") = "check"
<1>1. \A role : AfterClean(role, "ready") = IF role = "start" THEN "ready" ELSE "installed"
  BY Zenon DEF AfterClean
<1>2. "steady" # "ready" /\ "provisioning" # "ready" /\ "provisioning" # "steady"
  OBVIOUS
<1>3. \A role : role # "start" =>
          AfterClean(role, "steady") = "rejected" /\ AfterClean(role, "provisioning") = "rejected"
  BY <1>2, Zenon DEF AfterClean
<1>4. AfterClean("start", "steady") = "clean" /\ AfterClean("start", "provisioning") = "check"
  BY <1>2, Zenon DEF AfterClean
<1>5. \A role \in Issuing : role # "start"
  BY DEF Issuing
<1> QED
  BY <1>1, <1>3, <1>4, <1>5

\* The endpoints that clean records
Cleaners == Issuing \cup {"start"}

\* What CleanDone makes of a job
LEMMA CleanDoneShape ==
    ASSUME NEW j \in JobType, j.role \in Cleaners, j.on \in RecordNames
    PROVE  LET d == CleanDone(j) IN
           /\ d \in JobType
           /\ d.role = j.role /\ d.flow = j.flow /\ d.begun = j.begun
           /\ j.role \in Issuing =>
                d.on = j.on /\ d.pc = IF j.on = "ready" THEN "installed" ELSE "rejected"
           /\ j.role = "start" =>
                /\ j.on = "ready" => d.pc = "ready"
                /\ j.on = "steady" => d.pc = "clean" /\ d.on = "provisioning"
                /\ j.on = "provisioning" => d.pc = "check"
<1>1. /\ j.role \in Issuing => AfterClean(j.role, j.on) = IF j.on = "ready" THEN "installed" ELSE "rejected"
      /\ j.role = "start" =>
            /\ j.on = "ready" => AfterClean(j.role, j.on) = "ready"
            /\ j.on = "steady" => AfterClean(j.role, j.on) = "clean"
            /\ j.on = "provisioning" => AfterClean(j.role, j.on) = "check"
  BY AfterCleanValues DEF RecordNames, Queues
<1>2. AfterClean(j.role, j.on) \in {"idle"} \cup Working \cup Answers
  BY <1>1 DEF RecordNames, Queues, Cleaners, Working, Answers
<1>3. j.role \in Issuing => j.role # "start"
  BY DEF Issuing
<1> DEFINE on == IF j.role = "start" /\ j.on = "steady" THEN "provisioning" ELSE j.on
           d == CleanDone(j)
<1>4. on \in RecordNames
  BY DEF RecordNames, Queues
<1>5. d = [j EXCEPT !.pc = AfterClean(j.role, j.on), !.seen = Absent, !.kept = {}, !.on = on]
  BY DEF CleanDone
<1>6. d \in JobType
  BY <1>2, <1>4, <1>5, Typing DEF JobType
<1>7. /\ d.role = j.role /\ d.flow = j.flow /\ d.begun = j.begun
      /\ d.pc = AfterClean(j.role, j.on) /\ d.on = on
  BY <1>5 DEF JobType
<1> HIDE DEF d
<1> QED
  BY <1>1, <1>3, <1>6, <1>7 DEF d

\* The cleanup of a record is over
LEMMA CleanOverOK ==
    ASSUME IInv, NEW r \in Requests, NEW j \in JobType, Set(r, CleanDone(j)),
           j.role = job[r].role, j.flow = job[r].flow, j.on = job[r].on, j.begun = job[r].begun,
           job[r].pc \in {"clean", "retire", "swap", "prove"}, job[r].role # "revoke",
           job[r].role \in Issuing /\ r \in live' => r \in Sessions(vault'[job[r].on])
    PROVE  /\ job' \in [Requests -> JobType] /\ Others(r) /\ Keeps(r) /\ KeepsFlow(r)
           /\ Checked(r)' /\ JobOK(r)'
           /\ job[r].role \in Issuing => job'[r].on = job[r].on /\ job'[r].pc \notin Unrecorded
<1>1. TypeOK /\ ShapeOK(job[r])
  BY DEF IInv, JobOK
<1>2. j.role \in Cleaners /\ j.on \in RecordNames
  BY <1>1 DEF ShapeOK, Cleaners, Issuing, RecordNames, Queues
<1> DEFINE d == CleanDone(j)
<1>3. /\ d \in JobType
      /\ d.role = j.role /\ d.flow = j.flow /\ d.begun = j.begun
      /\ j.role \in Issuing =>
            d.on = j.on /\ d.pc = IF j.on = "ready" THEN "installed" ELSE "rejected"
      /\ j.role = "start" =>
            /\ j.on = "ready" => d.pc = "ready"
            /\ j.on = "steady" => d.pc = "clean" /\ d.on = "provisioning"
            /\ j.on = "provisioning" => d.pc = "check"
  BY <1>2, CleanDoneShape
<1> HIDE DEF d
<1>4. /\ job' \in [Requests -> JobType] /\ Others(r)
      /\ job'[r].pc = d.pc /\ job'[r].role = d.role /\ job'[r].flow = d.flow
      /\ job'[r].on = d.on /\ job'[r].begun = d.begun
  BY <1>1, <1>3, SetOK DEF d
<1>5. job'[r].pc \in {"installed", "rejected", "ready", "clean", "check"}
  BY <1>2, <1>3, <1>4 DEF Cleaners, RecordNames, Queues
<1>6. Keeps(r) /\ KeepsFlow(r) /\ Checked(r)'
  <2>1. job[r].role \in Issuing => job'[r].role = job[r].role /\ job'[r].on = job[r].on
    BY <1>3, <1>4
  <2> QED
    BY <1>3, <1>4, <1>5, <2>1 DEF Keeps, KeepsFlow, Checked, Unrecorded, Pending
<1>7. CASE job'[r].pc = "ready"
  BY <1>3, <1>4, <1>6, <1>7, PlainOK DEF Plain, Unrecorded, Pending
<1>8. CASE job'[r].pc # "ready"
  <2>1. job'[r].role = "start" /\ job'[r].pc = "clean" => job'[r].on = "provisioning"
    BY <1>2, <1>3, <1>4, <1>8 DEF RecordNames, Queues
  <2>2. job'[r].pc \in {"installed", "rejected"} => job'[r].role \in Issuing
    BY <1>2, <1>3, <1>4 DEF Cleaners, RecordNames, Queues
  <2>3. job'[r].pc \in {"clean", "check"} => job'[r].role = "start"
    BY <1>2, <1>3, <1>4 DEF Cleaners, RecordNames, Queues
  <2>4. job'[r].role \in Issuing => job'[r].on = job[r].on /\ job'[r].on \in RecordNames
    BY <1>2, <1>3, <1>4
  <2>5. ShapeOK(job'[r])
    BY <1>1, <1>3, <1>4, <1>5, <2>1, <2>2, <2>3, <2>4 DEF ShapeOK, Issuing, Browser, Pending, Queues
  <2>6. SessionOK(r)'
    BY <1>3, <1>4, <1>5, <2>3, <2>4 DEF SessionOK, Issuing
  <2>7. JobOK(r)'
    BY <1>3, <1>4, <1>5, <1>6, <1>8, <2>5, <2>6, AheadOK
  <2>8. job[r].role \in Issuing => job'[r].on = job[r].on /\ job'[r].pc \notin Unrecorded
    BY <1>3, <1>4, <1>5 DEF Unrecorded, Pending
  <2> QED
    BY <1>4, <1>6, <2>7, <2>8
<1> QED
  BY <1>7, <1>8

\* A request that starts to retire the sessions of a record value it holds
LEMMA RetiringOK ==
    ASSUME IInv, NEW r \in Requests, NEW j \in JobType, NEW rec \in RecordType,
           j.role = job[r].role, j.flow = job[r].flow, j.on = job[r].on, j.begun = job[r].begun,
           j.bad = job[r].bad, job[r].pc \in {"clean", "swap", "prove", "revoke"},
           Set(r, Retiring(j, rec, IF job[r].role = "revoke" THEN Sessions(rec) ELSE rec.others)),
           RecordOK(job[r].on, rec), rec.exists,
           \A s \in Sessions(rec) \ {r} : Recorded(s, job[r].on),
           r \in Sessions(rec) => job[r].role \in Issuing,
           vault'["ready"].active # None => vault'["ready"].active \notin rec.others,
           job[r].role = "revoke" => UNCHANGED <<live, vault>>,
           job[r].role \in Issuing /\ r \in live' => r \in Sessions(vault'[job[r].on])
    PROVE  /\ job' \in [Requests -> JobType] /\ Others(r) /\ Keeps(r) /\ KeepsFlow(r)
           /\ Checked(r)' /\ JobOK(r)'
           /\ job'[r].on = job[r].on /\ job'[r].role = job[r].role /\ job'[r].pc = "retire"
<1>1. TypeOK /\ JobOK(r) /\ job[r] \in JobType
  BY DEF IInv, TypeOK
<1>2. /\ Sessions(rec) \subseteq Requests /\ rec.others \subseteq Sessions(rec)
  BY SessionsType
<1> DEFINE sessions == IF job[r].role = "revoke" THEN Sessions(rec) ELSE rec.others
           new == Retiring(j, rec, sessions)
<1>3. sessions \subseteq Requests
  BY <1>2
<1>4. /\ new \in JobType /\ new.pc = "retire" /\ new.role = job[r].role /\ new.flow = job[r].flow
      /\ new.on = job[r].on /\ new.begun = job[r].begun /\ new.bad = job[r].bad /\ new.seen = rec
      /\ new.todo = sessions /\ new.kept = {}
  BY <1>3 DEF Retiring, JobType, Working
<1>5. Set(r, new)
  OBVIOUS
<1> HIDE DEF new
<1>6. job' \in [Requests -> JobType] /\ Others(r) /\ job'[r] = new
  BY <1>1, <1>4, <1>5, SetOK DEF Answers
<1>7. Keeps(r) /\ KeepsFlow(r) /\ Checked(r)'
  BY <1>4, <1>6 DEF Keeps, KeepsFlow, Checked, Unrecorded, Pending
<1>8. job[r].on \in RecordNames
  BY <1>1 DEF JobOK, ShapeOK, RecordNames, Queues
<1>9. \A s \in Sessions(rec) :
          job'[s].pc \notin Unrecorded /\ job'[s].role \in Issuing /\ job'[s].on = job[r].on
  <2> SUFFICES ASSUME NEW s \in Sessions(rec)
               PROVE  job'[s].pc \notin Unrecorded /\ job'[s].role \in Issuing /\ job'[s].on = job[r].on
    OBVIOUS
  <2>1. CASE s = r
    BY <1>4, <1>6, <2>1 DEF Unrecorded, Pending
  <2>2. CASE s # r
    BY <1>2, <1>6, <2>2 DEF Others, Recorded
  <2> QED
    BY <2>1, <2>2
<1>10. ShapeOK(job'[r])
  BY <1>1, <1>4, <1>6, <1>8 DEF JobOK, ShapeOK, Pending, Browser, Issuing
<1>11. SeenOK(r)'
  BY <1>4, <1>6, <1>9 DEF SeenOK, Recorded
<1>12. RetireOK(r)' /\ PutOK(r)'
  BY <1>4, <1>6 DEF RetireOK, PutOK, Target
<1>13. RevokeOK(r)'
  <2>1. \A s \in job[r].begun : s \in Requests /\ job'[s].pc \notin Unrecorded
    BY <1>1, <1>6, <1>7, RecordedStable DEF JobOK, RevokeOK, JobType
  <2>2. job[r].role = "revoke" => job[r].pc = "revoke"
    BY <1>1 DEF JobOK, ShapeOK, Issuing
  <2> QED
    BY <1>1, <1>4, <1>6, <2>1, <2>2 DEF JobOK, RevokeOK
<1>14. SessionOK(r)'
  BY <1>4, <1>6 DEF SessionOK
<1> QED
  BY <1>4, <1>6, <1>7, <1>10, <1>11, <1>12, <1>13, <1>14 DEF JobOK

\* What NextRecord makes of a job
LEMMA NextRecordShape ==
    ASSUME NEW j \in JobType, NEW bad \in BOOLEAN
    PROVE  LET new == NextRecord(j, bad)
               worse == j.bad \/ bad
           IN  /\ new \in JobType
               /\ new.role = j.role /\ new.flow = j.flow /\ new.begun = j.begun
               /\ new.bad = worse /\ new.on = IF j.on = "ready" THEN "steady" ELSE "provisioning"
               /\ new.pc = IF j.on # "provisioning" THEN "revoke"
                           ELSE IF worse THEN "incomplete" ELSE "revoked"
<1> DEFINE new == NextRecord(j, bad)
           worse == j.bad \/ bad
           on == IF j.on = "ready" THEN "steady" ELSE "provisioning"
           pc == IF j.on # "provisioning" THEN "revoke"
                 ELSE IF worse THEN "incomplete" ELSE "revoked"
<1>1. new = [j EXCEPT !.bad = worse, !.tries = 0, !.seen = Absent, !.kept = {}, !.on = on, !.pc = pc]
  BY DEF NextRecord
<1>2. on \in RecordNames /\ pc \in Working \cup Answers /\ worse \in BOOLEAN
  BY DEF RecordNames, Queues, Working, Answers, JobType
<1> HIDE DEF worse, on, pc, new
<1>3. /\ new \in JobType
      /\ new.role = j.role /\ new.flow = j.flow /\ new.begun = j.begun
      /\ new.bad = worse /\ new.on = on /\ new.pc = pc
  BY <1>1, <1>2, Typing DEF JobType
<1> QED
  BY <1>3 DEF new, worse, on, pc

\* A revocation that goes on to the next record, or ends
LEMMA NextRecordOK ==
    ASSUME IInv, NEW r \in Requests, NEW bad \in BOOLEAN, Set(r, NextRecord(job[r], bad)),
           job[r].role = "revoke", job[r].pc \in {"revoke", "retire"}, live' = live, Remembers(r),
           ~bad => Sessions(vault'[job[r].on]) = {}
    PROVE  /\ job' \in [Requests -> JobType] /\ Others(r) /\ Keeps(r) /\ KeepsFlow(r)
           /\ Checked(r)' /\ JobOK(r)'
<1>1. TypeOK /\ JobOK(r) /\ job[r] \in JobType
  BY DEF IInv, TypeOK
<1>2. job[r].on \in RecordNames
  BY <1>1 DEF JobOK, ShapeOK
<1> DEFINE new == NextRecord(job[r], bad)
           worse == job[r].bad \/ bad
<1>4. /\ new \in JobType
      /\ new.role = job[r].role /\ new.flow = job[r].flow /\ new.begun = job[r].begun
      /\ new.bad = worse /\ new.on = IF job[r].on = "ready" THEN "steady" ELSE "provisioning"
      /\ new.pc = IF job[r].on # "provisioning" THEN "revoke"
                  ELSE IF worse THEN "incomplete" ELSE "revoked"
  BY <1>1, NextRecordShape
<1> HIDE DEF worse, new
<1>5. Set(r, new)
  BY DEF new
<1>6. /\ job' \in [Requests -> JobType] /\ Others(r)
      /\ job'[r].pc = new.pc /\ job'[r].role = new.role /\ job'[r].flow = new.flow
      /\ job'[r].on = new.on /\ job'[r].begun = new.begun
      /\ new.pc \notin Answers => job'[r] = new
  BY <1>1, <1>4, <1>5, SetOK
<1>7. Keeps(r) /\ KeepsFlow(r) /\ Checked(r)'
  BY <1>4, <1>6 DEF Keeps, KeepsFlow, Checked, Unrecorded, Pending, Issuing
<1>8. \A s \in job[r].begun : s \in Requests /\ job'[s].pc \notin Unrecorded
  BY <1>1, <1>6, <1>7, RecordedStable DEF JobOK, RevokeOK, JobType
<1>9. ASSUME ~worse, NEW s \in job[r].begun, s \in live'
      PROVE  /\ job[r].on # "provisioning"
             /\ \E n \in Remaining(new.on) : s \in Sessions(vault'[n])
  <2>1. PICK n \in Remaining(job[r].on) : s \in Sessions(vault[n])
    BY <1>1, <1>9 DEF JobOK, RevokeOK, worse
  <2>2. n \in RecordNames
    BY DEF Remaining, RecordNames, Queues
  <2>3. s \in Sessions(vault'[n])
    BY <1>9, <2>1, <2>2 DEF Remembers
  <2>4. n # job[r].on
    BY <1>9, <2>3 DEF worse
  <2> QED
    BY <1>2, <1>4, <2>1, <2>2, <2>3, <2>4 DEF Remaining, RecordNames, Queues
<1>10. ShapeOK(job'[r])
  BY <1>1, <1>4, <1>6 DEF JobOK, ShapeOK, Pending, Browser, Issuing, RecordNames, Queues
<1>11. SeenOK(r)' /\ RetireOK(r)' /\ PutOK(r)' /\ SessionOK(r)'
  BY <1>4, <1>6 DEF SeenOK, RetireOK, PutOK, SessionOK
<1>12. RevokeOK(r)'
  BY <1>4, <1>6, <1>8, <1>9 DEF RevokeOK, Answers
<1> QED
  BY <1>6, <1>7, <1>10, <1>11, <1>12 DEF JobOK

-----------------------------------------------------------------------------
(* The steps that only read: one lemma for each action.                     *)

\* handleStart begins
LEMMA StartBeginStep ==
    ASSUME IInv, NEW r \in Requests, StartBegin(r)
    PROVE  IInv' /\ Remembered
<1> DEFINE new == [NoJob EXCEPT !.pc = "clean", !.role = "start", !.on = "steady"]
<1>1. TypeOK /\ job[r] = NoJob
  BY DEF IInv, JobOK, ShapeOK, StartBegin, At
<1>2. /\ new \in JobType /\ new.pc = "clean" /\ new.role = "start" /\ new.flow = None
      /\ new.on = "steady" /\ new.begun = {}
  BY Typing DEF NoJob, JobType, Working, Endpoints, RecordNames, Queues
<1>3. Set(r, new)
  BY DEF StartBegin
<1> HIDE DEF new
<1>4. job' \in [Requests -> JobType] /\ Others(r) /\ job'[r] = new
  BY <1>1, <1>2, <1>3, SetOK DEF Answers
<1>5. Keeps(r) /\ KeepsFlow(r) /\ Checked(r)'
  BY <1>1, <1>2, <1>4, BrokerAssumption
     DEF Keeps, KeepsFlow, Checked, NoJob, Unrecorded, Pending, Browser, Endpoints
<1>6. JobOK(r)'
  <2>1. ShapeOK(job'[r])
    BY <1>2, <1>4 DEF ShapeOK, Pending, Browser, Issuing, Queues
  <2> QED
    BY <1>2, <1>4, <2>1 DEF JobOK, SeenOK, RetireOK, PutOK, RevokeOK, SessionOK, Issuing
<1>7. UNCHANGED <<live, local, vault, flow, space>> /\ FlowsEnd /\ flow' \in [Flows -> Stages]
  BY <1>1 DEF StartBegin, FlowsEnd, TypeOK
<1> QED
  BY <1>4, <1>5, <1>6, <1>7, QuietStep

\* handleRevoke begins: what the records hold is what it has to revoke
LEMMA RevokeBeginStep ==
    ASSUME IInv, NEW r \in Requests, RevokeBegin(r)
    PROVE  IInv' /\ Remembered
<1> DEFINE new == [NoJob EXCEPT !.pc = "revoke", !.role = "revoke", !.on = "ready", !.begun = Handles]
<1>1. TypeOK /\ job[r] = NoJob
  BY DEF IInv, JobOK, ShapeOK, RevokeBegin, At
<1>2. Handles \subseteq Requests /\ \A s \in Handles : job[s].pc \notin Unrecorded
  BY ReadOK DEF Handles, Recorded
<1>3. /\ new \in JobType /\ new.pc = "revoke" /\ new.role = "revoke" /\ new.flow = None
      /\ new.on = "ready" /\ new.begun = Handles
  BY <1>2, Typing DEF NoJob, JobType, Working, Endpoints, RecordNames, Queues
<1>4. Set(r, new)
  BY DEF RevokeBegin
<1> HIDE DEF new
<1>5. job' \in [Requests -> JobType] /\ Others(r) /\ job'[r] = new
  BY <1>1, <1>3, <1>4, SetOK DEF Answers
<1>6. Keeps(r) /\ KeepsFlow(r) /\ Checked(r)'
  BY <1>1, <1>3, <1>5 DEF Keeps, KeepsFlow, Checked, NoJob, Unrecorded, Pending, Browser
<1>7. UNCHANGED <<live, local, vault, flow, space>> /\ FlowsEnd /\ flow' \in [Flows -> Stages]
  BY <1>1 DEF RevokeBegin, FlowsEnd, TypeOK
<1>8. JobOK(r)'
  <2>1. ShapeOK(job'[r])
    BY <1>3, <1>5 DEF ShapeOK, Pending, Browser, Issuing, RecordNames
  <2>2. \A s \in Handles : job'[s].pc \notin Unrecorded
    BY <1>2, <1>5, <1>6, RecordedStable
  <2>3. \A s \in Handles : \E n \in Remaining("ready") : s \in Sessions(vault'[n])
    BY <1>7 DEF Handles, Remaining
  <2>4. RevokeOK(r)'
    BY <1>3, <1>5, <2>2, <2>3 DEF RevokeOK
  <2> QED
    BY <1>3, <1>5, <2>1, <2>4 DEF JobOK, SeenOK, RetireOK, PutOK, SessionOK
<1> QED
  BY <1>5, <1>6, <1>7, <1>8, QuietStep

\* A queue is read, or found empty or unreadable
LEMMA CleanReadStep ==
    ASSUME IInv, NEW r \in Requests, CleanRead(r)
    PROVE  IInv' /\ Remembered
<1>1. TypeOK /\ JobOK(r) /\ job[r] \in JobType /\ job[r].pc = "clean"
  BY DEF IInv, TypeOK, CleanRead, At
<1>2. /\ job[r].on \in RecordNames /\ job[r].on \in Queues /\ job[r].role \in Cleaners
      /\ job[r].role # "revoke"
  BY <1>1 DEF JobOK, ShapeOK, RecordNames, Queues, Cleaners, Issuing
<1>3. UNCHANGED <<live, local, vault, flow, space>> /\ FlowsEnd /\ flow' \in [Flows -> Stages]
  BY <1>1 DEF CleanRead, FlowsEnd, TypeOK
<1>4. job[r].role \in Issuing /\ r \in live' => r \in Sessions(vault'[job[r].on])
  BY <1>1, <1>2, <1>3, BrokerAssumption DEF JobOK, SessionOK, RecordNames, Queues
<1>5. CASE Set(r, CleanDone(job[r]))
  BY <1>1, <1>2, <1>3, <1>4, <1>5, CleanOverOK, QuietStep
<1> DEFINE rec == vault[job[r].on]
<1>6. CASE rec.others # {} /\ Set(r, Retiring(job[r], rec, rec.others))
  <2>1. /\ rec \in RecordType /\ RecordOK(job[r].on, rec)
        /\ \A s \in Sessions(rec) : Recorded(s, job[r].on)
        /\ vault["ready"].active # None => vault["ready"].active \notin rec.others
    BY <1>2, ReadOK
  <2>2. rec.exists
    BY <1>6, <2>1 DEF RecordOK, Absent
  <2>3. r \in Sessions(rec) => job[r].role \in Issuing
    BY <2>1 DEF Recorded
  <2>4. Set(r, Retiring(job[r], rec, IF job[r].role = "revoke" THEN Sessions(rec) ELSE rec.others))
    BY <1>2, <1>6
  <2> HIDE DEF rec
  <2>5. /\ job' \in [Requests -> JobType] /\ Others(r) /\ Keeps(r) /\ KeepsFlow(r)
        /\ Checked(r)' /\ JobOK(r)'
    BY <1>1, <1>2, <1>3, <1>4, <2>1, <2>2, <2>3, <2>4, RetiringOK
  <2> QED
    BY <1>3, <2>5, QuietStep
<1> QED
  BY <1>5, <1>6 DEF CleanRead

\* handleRevoke reads a record, or passes one that is absent
LEMMA RevokeReadStep ==
    ASSUME IInv, NEW r \in Requests, RevokeRead(r)
    PROVE  IInv' /\ Remembered
<1>1. TypeOK /\ JobOK(r) /\ job[r] \in JobType /\ job[r].pc = "revoke"
  BY DEF IInv, TypeOK, RevokeRead, At
<1>2. job[r].on \in RecordNames /\ job[r].role = "revoke"
  BY <1>1 DEF JobOK, ShapeOK
<1>3. UNCHANGED <<live, local, vault, flow, space>> /\ FlowsEnd /\ flow' \in [Flows -> Stages]
  BY <1>1 DEF RevokeRead, FlowsEnd, TypeOK
<1> DEFINE rec == vault[job[r].on]
<1>4. /\ rec \in RecordType /\ RecordOK(job[r].on, rec)
      /\ \A s \in Sessions(rec) : Recorded(s, job[r].on)
      /\ vault["ready"].active # None => vault["ready"].active \notin rec.others
  BY <1>2, ReadOK
<1>5. CASE rec.exists
  <2>1. Set(r, Retiring(job[r], rec, IF job[r].role = "revoke" THEN Sessions(rec) ELSE rec.others))
    BY <1>2, <1>5 DEF RevokeRead
  <2>2. r \in Sessions(rec) => job[r].role \in Issuing
    BY <1>4 DEF Recorded
  <2>3. job[r].role \notin Issuing
    BY <1>2 DEF Issuing
  <2> HIDE DEF rec
  <2>4. /\ job' \in [Requests -> JobType] /\ Others(r) /\ Keeps(r) /\ KeepsFlow(r)
        /\ Checked(r)' /\ JobOK(r)'
    BY <1>1, <1>2, <1>3, <1>4, <1>5, <2>1, <2>2, <2>3, RetiringOK
  <2> QED
    BY <1>3, <2>4, QuietStep
<1>6. CASE ~rec.exists
  <2>1. Set(r, NextRecord(job[r], FALSE))
    BY <1>6 DEF RevokeRead
  <2>2. Sessions(vault'[job[r].on]) = {}
    BY <1>3, <1>4, <1>6, Typing DEF RecordOK
  <2>3. Remembers(r)
    BY <1>3 DEF Remembers
  <2> QED
    BY <1>1, <1>2, <1>3, <2>1, <2>2, <2>3, NextRecordOK, QuietStep
<1> QED
  BY <1>5, <1>6

\* Goto changes the place of one request only
LEMMA GotoOK ==
    ASSUME IInv, NEW r \in Requests, NEW label \in Working \cup Answers, Goto(r, label)
    PROVE  /\ job' \in [Requests -> JobType] /\ Others(r)
           /\ job'[r].pc = label /\ job'[r].role = job[r].role /\ job'[r].flow = job[r].flow
           /\ job'[r].on = job[r].on /\ job'[r].begun = job[r].begun
           /\ label \notin Answers =>
                /\ job'[r].seen = job[r].seen /\ job'[r].todo = job[r].todo
                /\ job'[r].kept = job[r].kept /\ job'[r].bad = job[r].bad
<1> DEFINE new == [job[r] EXCEPT !.pc = label]
<1>1. TypeOK /\ job[r] \in JobType
  BY DEF IInv, TypeOK
<1>2. /\ new \in JobType /\ new.pc = label /\ new.role = job[r].role /\ new.flow = job[r].flow
      /\ new.on = job[r].on /\ new.begun = job[r].begun /\ new.seen = job[r].seen
      /\ new.todo = job[r].todo /\ new.kept = job[r].kept /\ new.bad = job[r].bad
  BY <1>1 DEF JobType
<1>3. Set(r, new)
  BY DEF Goto
<1> HIDE DEF new
<1> QED
  BY <1>1, <1>2, <1>3, SetOK

\* A handler that gives a plain answer
LEMMA PlainGoto ==
    ASSUME IInv, NEW r \in Requests, NEW label \in Plain, Goto(r, label)
    PROVE  /\ job' \in [Requests -> JobType] /\ Others(r) /\ Keeps(r) /\ KeepsFlow(r)
           /\ Checked(r)' /\ JobOK(r)'
           /\ job'[r].pc = label /\ job'[r].role = job[r].role /\ job'[r].on = job[r].on
<1>1. label \in Answers
  BY DEF Plain, Answers
<1>2. /\ job' \in [Requests -> JobType] /\ Others(r)
      /\ job'[r].pc = label /\ job'[r].role = job[r].role /\ job'[r].flow = job[r].flow
      /\ job'[r].on = job[r].on /\ job'[r].begun = job[r].begun
  BY <1>1, GotoOK
<1>3. Keeps(r)
  BY <1>2 DEF Keeps, Plain, Unrecorded, Pending
<1> QED
  BY <1>2, <1>3, PlainOK

\* The value that replaces a finite record is finite
LEMMA ReplacementFinite ==
    ASSUME NEW r \in Requests, NEW on \in RecordNames, NEW rec \in RecordType, IsFiniteSet(rec.others)
    PROVE  IsFiniteSet(Replacement(on, rec, r).others)
<1>1. IsFiniteSet({rec.active}) /\ IsFiniteSet({r})
  BY FS_Singleton
<1>2. IsFiniteSet({rec.active} \ {None})
  BY <1>1, FS_Difference
<1>3. IsFiniteSet(Sessions(rec)) /\ IsFiniteSet(rec.others \cup {r})
  BY <1>1, <1>2, FS_Union DEF Sessions
<1>4. IsFiniteSet(Sessions(rec) \ {r})
  BY <1>3, FS_Difference
<1> QED
  BY <1>3, <1>4 DEF Replacement, Record

\* A record is read to be replaced, or found full
LEMMA PutReadStep ==
    ASSUME IInv, NEW r \in Requests, PutRead(r)
    PROVE  IInv' /\ Remembered
<1>1. TypeOK /\ JobOK(r) /\ job[r] \in JobType /\ job[r].pc = "put"
  BY DEF IInv, TypeOK, PutRead, At
<1>2. job[r].on \in RecordNames /\ job[r].role \in Issuing
  BY <1>1 DEF JobOK, ShapeOK
<1>3. UNCHANGED <<live, local, vault, flow, space>> /\ FlowsEnd /\ flow' \in [Flows -> Stages]
  BY <1>1 DEF PutRead, FlowsEnd, TypeOK
<1> DEFINE rec == vault[job[r].on]
           others == Replacement(job[r].on, rec, r).others
<1>4. CASE Goto(r, "unretained")
  <2>1. "unretained" \in Plain
    BY DEF Plain
  <2> QED
    BY <1>3, <1>4, <2>1, PlainGoto, QuietStep
<1>5. CASE ~(Cardinality(others) > maxRetired) /\ Set(r, [job[r] EXCEPT !.pc = "swap", !.seen = rec])
  <2> DEFINE new == [job[r] EXCEPT !.pc = "swap", !.seen = rec]
  <2>1. /\ rec \in RecordType /\ RecordOK(job[r].on, rec)
        /\ \A s \in Sessions(rec) : s \in Requests /\ Recorded(s, job[r].on)
        /\ vault["ready"].active # None => vault["ready"].active \notin rec.others
    BY <1>2, ReadOK
  <2>2. Cardinality(others) <= maxRetired
    <3>4. IsFiniteSet(others)
      BY <1>2, <2>1, ReplacementFinite DEF RecordOK
    <3>5. Cardinality(others) \in Nat
      BY <3>4, FS_CardinalityType
    <3> HIDE DEF others
    <3> QED
      BY <1>5, <3>5, BrokerAssumption DEF others
  <2>3. /\ new \in JobType /\ new.pc = "swap" /\ new.role = job[r].role /\ new.flow = job[r].flow
        /\ new.on = job[r].on /\ new.begun = job[r].begun /\ new.seen = rec
    BY <1>1, <2>1 DEF JobType, Working
  <2>4. Set(r, new)
    BY <1>5
  <2> HIDE DEF new
  <2>5. job' \in [Requests -> JobType] /\ Others(r) /\ job'[r] = new
    BY <1>1, <2>3, <2>4, SetOK DEF Answers
  <2>6. Keeps(r) /\ KeepsFlow(r) /\ Checked(r)'
    BY <1>1, <1>2, <2>3, <2>5 DEF Keeps, KeepsFlow, Checked, Unrecorded, Pending, Issuing
  <2>7. \A s \in Sessions(rec) :
            job'[s].pc \notin Unrecorded /\ job'[s].role \in Issuing /\ job'[s].on = job[r].on
    BY <1>1, <2>1, <2>5 DEF Recorded, Others, Unrecorded
  <2>8. ShapeOK(job'[r])
    BY <1>1, <1>2, <2>3, <2>5 DEF JobOK, ShapeOK, Pending, Browser
  <2>9. SeenOK(r)'
    BY <1>3, <2>1, <2>3, <2>5, <2>7 DEF SeenOK, Recorded
  <2>10. PutOK(r)'
    BY <1>1, <1>3, <2>2, <2>3, <2>5 DEF JobOK, PutOK
  <2>11. RevokeOK(r)'
    <3>1. \A s \in job[r].begun : s \in Requests /\ job'[s].pc \notin Unrecorded
      BY <1>1, <2>5, <2>6, RecordedStable DEF JobOK, RevokeOK, JobType
    <3> QED
      BY <2>3, <2>5, <3>1 DEF RevokeOK
  <2>12. RetireOK(r)' /\ SessionOK(r)'
    BY <2>3, <2>5 DEF RetireOK, SessionOK
  <2>13. JobOK(r)'
    BY <2>8, <2>9, <2>10, <2>11, <2>12 DEF JobOK
  <2> QED
    BY <1>3, <2>5, <2>6, <2>13, QuietStep
<1> QED
  BY <1>4, <1>5 DEF PutRead

\* A step of a callback to which the provider may have issued its session
LEMMA IssueStep ==
    ASSUME IInv, NEW r \in Requests, job' \in [Requests -> JobType], Others(r), Keeps(r),
           KeepsFlow(r), Checked(r)', JobOK(r)', UNCHANGED <<vault, flow, space>>,
           UNCHANGED <<live, local>> \/ (job[r].pc = "finish" /\ Issued(r))
    PROVE  IInv' /\ Remembered
<1>1. FlowsEnd
  BY DEF FlowsEnd
<1>2. Typed
  BY DEF Typed, IInv, TypeOK, Issued
<1>3. Grants(r) /\ Remembers(r) /\ Settles /\ Spares
  BY DEF Grants, Remembers, Settles, Spares, Issued
<1>4. VaultOK'
  BY VaultFrame DEF VaultOK
<1> QED
  BY <1>1, <1>2, <1>3, <1>4, FlowFrame, SpaceFrame, ActiveFrame, StepOK

\* A handler ends without an answer; a callback may have been given its session
LEMMA FailStep ==
    ASSUME IInv, NEW r \in Requests, Fail(r)
    PROVE  IInv' /\ Remembered
<1>1. "failed" \in Plain
  BY DEF Plain
<1>2. /\ job' \in [Requests -> JobType] /\ Others(r) /\ Keeps(r) /\ KeepsFlow(r)
      /\ Checked(r)' /\ JobOK(r)'
  BY <1>1, PlainGoto DEF Fail
<1> QED
  BY <1>2, IssueStep DEF Fail, At

\* The session of a finished callback is handed on, refused or forgotten
LEMMA FinishGoto ==
    ASSUME IInv, NEW r \in Requests, job[r].pc = "finish", Goto(r, "rejected"),
           UNCHANGED <<vault, flow, space>>, UNCHANGED <<live, local>> \/ Issued(r)
    PROVE  IInv' /\ Remembered
<1>1. JobOK(r) /\ ShapeOK(job[r])
  BY DEF IInv, JobOK
<1>2. /\ job' \in [Requests -> JobType] /\ Others(r)
      /\ job'[r].pc = "rejected" /\ job'[r].role = job[r].role /\ job'[r].flow = job[r].flow
      /\ job'[r].on = job[r].on /\ job'[r].begun = job[r].begun
  BY GotoOK DEF Answers
<1>3. job[r].role \in Issuing /\ job[r].on = None
  BY <1>1 DEF ShapeOK, Pending
<1>4. Keeps(r) /\ KeepsFlow(r) /\ Checked(r)'
  BY <1>2, <1>3 DEF Keeps, KeepsFlow, Checked, Unrecorded, Pending, Issuing
<1>5. ShapeOK(job'[r]) /\ SessionOK(r)'
  BY <1>1, <1>2, <1>3 DEF ShapeOK, SessionOK, Pending, Browser, Issuing
<1>6. JobOK(r)'
  BY <1>2, <1>4, <1>5, AheadOK
<1> QED
  BY <1>2, <1>4, <1>6, IssueStep

\* finishSession of the create-only grant
LEMMA FinishProvisioningStep ==
    ASSUME IInv, NEW r \in Requests, FinishProvisioning(r)
    PROVE  IInv' /\ Remembered
<1>1. /\ TypeOK /\ JobOK(r) /\ ShapeOK(job[r]) /\ job[r] \in JobType
      /\ job[r].pc = "finish" /\ job[r].role = "provision" /\ UNCHANGED <<vault, flow, space>>
  BY DEF IInv, TypeOK, JobOK, FinishProvisioning, At
<1>2. CASE Goto(r, "rejected") /\ (UNCHANGED <<live, local>> \/ Issued(r))
  BY <1>1, <1>2, FinishGoto
<1>3. ASSUME NEW right \in BOOLEAN, Issued(r),
             Set(r, [job[r] EXCEPT !.pc = IF right THEN "create" ELSE "cleanup", !.bad = ~right])
      PROVE  IInv' /\ Remembered
  <2> DEFINE pc == IF right THEN "create" ELSE "cleanup"
             new == [job[r] EXCEPT !.pc = pc, !.bad = ~right]
  <2>1. pc \in {"create", "cleanup"} /\ (pc = "cleanup" => ~right) /\ (~right) \in BOOLEAN
    OBVIOUS
  <2>2. /\ new.pc = pc /\ new.role = job[r].role /\ new.flow = job[r].flow
        /\ new.on = job[r].on /\ new.begun = job[r].begun /\ new.bad = ~right
    BY <1>1 DEF JobType
  <2>3. new \in JobType
    BY <1>1, <2>1 DEF JobType, Working
  <2>4. Set(r, new)
    BY <1>3
  <2> HIDE DEF new, pc
  <2>5. job' \in [Requests -> JobType] /\ Others(r) /\ job'[r] = new
    BY <1>1, <2>1, <2>2, <2>3, <2>4, SetOK DEF Answers
  <2>6. Keeps(r) /\ KeepsFlow(r)
    BY <1>1, <2>1, <2>2, <2>5 DEF Keeps, KeepsFlow, Unrecorded, Pending
  <2>7. Checked(r)'
    BY <2>1, <2>2, <2>5 DEF Checked
  <2>8. ShapeOK(job'[r]) /\ SessionOK(r)'
    BY <1>1, <2>1, <2>2, <2>5 DEF ShapeOK, SessionOK, Pending, Browser, Issuing
  <2>9. JobOK(r)'
    BY <2>1, <2>2, <2>5, <2>6, <2>8, AheadOK
  <2> QED
    BY <1>1, <1>3, <2>5, <2>6, <2>7, <2>9, IssueStep
<1> QED
  BY <1>2, <1>3 DEF FinishProvisioning

\* A steady session goes to the ready record or to its queue
LEMMA FinishSteadyStep ==
    ASSUME IInv, NEW r \in Requests, FinishSteady(r)
    PROVE  IInv' /\ Remembered
<1>1. /\ TypeOK /\ JobOK(r) /\ ShapeOK(job[r]) /\ job[r] \in JobType
      /\ job[r].pc = "finish" /\ job[r].role = "steady" /\ UNCHANGED <<vault, flow, space>> /\ Issued(r)
  BY DEF IInv, TypeOK, JobOK, FinishSteady, At
<1>2. PICK on \in {"ready", "steady"} : Set(r, [job[r] EXCEPT !.pc = "put", !.on = on])
  BY DEF FinishSteady
<1> DEFINE new == [job[r] EXCEPT !.pc = "put", !.on = on]
<1>3. /\ new \in JobType /\ new.pc = "put" /\ new.role = job[r].role /\ new.flow = job[r].flow
      /\ new.on = on /\ new.begun = job[r].begun
  BY <1>1 DEF JobType, Working, RecordNames, Queues
<1>4. Set(r, new)
  BY <1>2
<1> HIDE DEF new
<1>5. job' \in [Requests -> JobType] /\ Others(r) /\ job'[r] = new
  BY <1>1, <1>3, <1>4, SetOK DEF Answers
<1>6. Keeps(r) /\ KeepsFlow(r) /\ Checked(r)'
  BY <1>1, <1>3, <1>5 DEF Keeps, KeepsFlow, Checked, Unrecorded, Pending
<1>7. ShapeOK(job'[r]) /\ SessionOK(r)'
  BY <1>1, <1>3, <1>5 DEF ShapeOK, SessionOK, Pending, Browser, Issuing, RecordNames, Queues
<1>8. r \in live' \cap local'
  BY <1>1 DEF Issued
<1>9. JobOK(r)'
  BY <1>3, <1>5, <1>6, <1>7, <1>8, AheadOK
<1> QED
  BY <1>1, <1>5, <1>6, <1>9, IssueStep

\* The create-only session serves the three checks of Ensure
Ensuring == {"config", "members", "cleanup"}

\* A failed check is remembered
LEMMA FailsBad ==
    ASSUME IInv, NEW r \in Requests, EnsureFails(r)
    PROVE  job'[r].bad
<1> DEFINE new == [job[r] EXCEPT !.pc = "cleanup", !.bad = TRUE]
<1>1. TypeOK /\ job[r] \in JobType
  BY DEF IInv, TypeOK
<1>2. new \in JobType /\ new.pc = "cleanup" /\ new.bad = TRUE
  BY <1>1 DEF JobType, Working
<1>3. Set(r, new)
  BY DEF EnsureFails
<1> HIDE DEF new
<1> QED
  BY <1>1, <1>2, <1>3, SetOK DEF Answers

\* A check of Ensure leads to the next or to the cleanup
LEMMA EnsureJob ==
    ASSUME IInv, NEW r \in Requests, job[r].pc \in {"create", "config", "members"},
           NEW label \in Ensuring, Goto(r, label) \/ EnsureFails(r)
    PROVE  /\ job' \in [Requests -> JobType] /\ Others(r) /\ Keeps(r) /\ KeepsFlow(r)
           /\ JobOK(r)'
           /\ \/ Goto(r, label) /\ job'[r].pc = label /\ job'[r].bad = job[r].bad
              \/ job'[r].pc = "cleanup" /\ job'[r].bad
<1>1. TypeOK /\ JobOK(r) /\ ShapeOK(job[r]) /\ job[r] \in JobType
  BY DEF IInv, TypeOK, JobOK
<1>2. /\ job' \in [Requests -> JobType] /\ Others(r)
      /\ job'[r].role = job[r].role /\ job'[r].flow = job[r].flow
      /\ job'[r].on = job[r].on /\ job'[r].begun = job[r].begun
      /\ \/ Goto(r, label) /\ job'[r].pc = label /\ job'[r].bad = job[r].bad
         \/ job'[r].pc = "cleanup" /\ job'[r].bad
  <2>1. CASE Goto(r, label)
    <3>1. label \in Working /\ label \notin Answers
      BY DEF Ensuring, Working, Answers
    <3> QED
      BY <2>1, <3>1, GotoOK
  <2>2. CASE EnsureFails(r)
    <3> DEFINE new == [job[r] EXCEPT !.pc = "cleanup", !.bad = TRUE]
    <3>1. /\ new \in JobType /\ new.pc = "cleanup" /\ new.role = job[r].role /\ new.flow = job[r].flow
          /\ new.on = job[r].on /\ new.begun = job[r].begun /\ new.bad = TRUE
      BY <1>1 DEF JobType, Working
    <3>2. Set(r, new)
      BY <2>2 DEF EnsureFails
    <3> HIDE DEF new
    <3> QED
      BY <1>1, <3>1, <3>2, SetOK DEF Answers
  <2> QED
    BY <2>1, <2>2
<1>3. job'[r].pc \in Ensuring
  BY <1>2 DEF Ensuring
<1>4. Keeps(r) /\ KeepsFlow(r)
  BY <1>2, <1>3 DEF Keeps, KeepsFlow, Unrecorded, Pending, Ensuring
<1>5. ShapeOK(job'[r]) /\ SessionOK(r)'
  BY <1>1, <1>2, <1>3 DEF ShapeOK, SessionOK, Pending, Browser, Issuing, Ensuring
<1>6. JobOK(r)'
  BY <1>2, <1>3, <1>4, <1>5, AheadOK DEF Ensuring
<1> QED
  BY <1>2, <1>4, <1>6

\* create of spaceprovision
LEMMA CreateSpaceStep ==
    ASSUME IInv, NEW r \in Requests, CreateSpace(r)
    PROVE  IInv' /\ Remembered
<1>1. "config" \in Ensuring /\ job[r].pc = "create" /\ (Goto(r, "config") \/ EnsureFails(r))
  BY DEF CreateSpace, Ensuring, At
<1>2. /\ job' \in [Requests -> JobType] /\ Others(r) /\ Keeps(r) /\ KeepsFlow(r) /\ JobOK(r)'
      /\ job'[r].pc = "config" \/ (job'[r].pc = "cleanup" /\ job'[r].bad)
  BY <1>1, EnsureJob
<1>3. UNCHANGED <<live, local, vault, flow>> /\ FlowsEnd
  BY DEF CreateSpace, FlowsEnd
<1>4. space' \in {space, IF space = "absent" THEN "exact" ELSE space} /\ space \in Spaces
  BY DEF CreateSpace, IInv, TypeOK
<1>5. space' \in Spaces /\ Settles
  BY <1>4 DEF Spaces, Settles
<1>6. Typed
  BY <1>2, <1>3, <1>5 DEF Typed, IInv, TypeOK
<1>7. Grants(r) /\ Remembers(r) /\ Spares /\ Checked(r)'
  BY <1>2, <1>3 DEF Grants, Remembers, Spares, Checked
<1>8. VaultOK'
  BY <1>2, <1>3, VaultFrame DEF VaultOK
<1> QED
  BY <1>2, <1>3, <1>5, <1>6, <1>7, <1>8, FlowFrame, SpaceFrame, ActiveFrame, StepOK

\* verifyConfig
LEMMA VerifyConfigStep ==
    ASSUME IInv, NEW r \in Requests, VerifyConfig(r)
    PROVE  IInv' /\ Remembered
<1>1. /\ "members" \in Ensuring /\ job[r].pc = "config"
      /\ (space \in {"exact", "otherMembers"} /\ Goto(r, "members")) \/ EnsureFails(r)
  BY DEF VerifyConfig, Ensuring, At
<1>2. UNCHANGED <<live, local, vault, flow, space>> /\ FlowsEnd /\ flow' \in [Flows -> Stages]
  BY DEF VerifyConfig, FlowsEnd, IInv, TypeOK
<1>3. CASE space \in {"exact", "otherMembers"} /\ Goto(r, "members")
  <2>1. /\ job' \in [Requests -> JobType] /\ Others(r) /\ Keeps(r) /\ KeepsFlow(r) /\ JobOK(r)'
        /\ job'[r].pc = "members" \/ (job'[r].pc = "cleanup" /\ job'[r].bad)
    BY <1>1, <1>3, EnsureJob
  <2>2. Checked(r)'
    BY <1>2, <1>3, <2>1 DEF Checked
  <2> QED
    BY <1>2, <2>1, <2>2, QuietStep
<1>4. CASE EnsureFails(r)
  <2>1. "cleanup" \in Ensuring
    BY DEF Ensuring
  <2>2. /\ job' \in [Requests -> JobType] /\ Others(r) /\ Keeps(r) /\ KeepsFlow(r) /\ JobOK(r)'
        /\ job'[r].pc = "cleanup"
    BY <1>1, <1>4, <2>1, EnsureJob
  <2>3. job'[r].bad
    BY <1>4, FailsBad
  <2>4. Checked(r)'
    BY <2>2, <2>3 DEF Checked
  <2> QED
    BY <1>2, <2>2, <2>4, QuietStep
<1> QED
  BY <1>1, <1>3, <1>4

\* verifyMembers: both checks together leave only the exact space
LEMMA VerifyMembersStep ==
    ASSUME IInv, NEW r \in Requests, VerifyMembers(r)
    PROVE  IInv' /\ Remembered
<1>1. /\ "cleanup" \in Ensuring /\ job[r].pc = "members"
      /\ (space \in {"exact", "otherPolicy"} /\ Goto(r, "cleanup")) \/ EnsureFails(r)
  BY DEF VerifyMembers, Ensuring, At
<1>2. UNCHANGED <<live, local, vault, flow, space>> /\ FlowsEnd /\ flow' \in [Flows -> Stages]
  BY DEF VerifyMembers, FlowsEnd, IInv, TypeOK
<1>3. /\ job' \in [Requests -> JobType] /\ Others(r) /\ Keeps(r) /\ KeepsFlow(r) /\ JobOK(r)'
      /\ job'[r].pc = "cleanup"
  BY <1>1, EnsureJob
<1>4. Checked(r)'
  <2>1. CASE space \in {"exact", "otherPolicy"}
    <3>1. space \in {"exact", "otherMembers"}
      BY <1>1 DEF IInv, SpaceOK, Checked
    <3> QED
      BY <1>2, <1>3, <2>1, <3>1 DEF Checked
  <2>2. CASE EnsureFails(r)
    BY <1>3, <2>2, FailsBad DEF Checked
  <2> QED
    BY <1>1, <2>1, <2>2
<1> QED
  BY <1>2, <1>3, <1>4, QuietStep

\* cleanupSession: the create-only session is gone, or goes to its queue
LEMMA CleanupSessionStep ==
    ASSUME IInv, NEW r \in Requests, CleanupSession(r)
    PROVE  IInv' /\ Remembered
<1>1. /\ TypeOK /\ JobOK(r) /\ ShapeOK(job[r]) /\ job[r] \in JobType
      /\ job[r].pc = "cleanup" /\ job[r].role = "provision" /\ job[r].on = None
  BY DEF IInv, TypeOK, JobOK, ShapeOK, CleanupSession, At, Pending
<1>2. PICK pc \in {"save", "rejected", "put"}, on \in {None, "provisioning"} :
        /\ Set(r, [job[r] EXCEPT !.bad = FALSE, !.pc = pc, !.on = on])
        /\ pc = "put" <=> on = "provisioning"
        /\ pc = "save" => ~job[r].bad
        /\ pc # "put" => live' = live \ {r} /\ local' = local \ {r}
        /\ \/ UNCHANGED <<live, local>>
           \/ live' = live \ {r} /\ local' \in {local, local \ {r}}
  <2> DEFINE j == [job[r] EXCEPT !.bad = FALSE]
  <2>1. \A pc : [j EXCEPT !.pc = pc] = [job[r] EXCEPT !.bad = FALSE, !.pc = pc, !.on = None]
    BY <1>1 DEF JobType
  <2>2. [j EXCEPT !.pc = "put", !.on = "provisioning"]
            = [job[r] EXCEPT !.bad = FALSE, !.pc = "put", !.on = "provisioning"]
    BY <1>1 DEF JobType
  <2>3. "provisioning" # None
    BY BrokerAssumption DEF RecordNames, Queues
  <2>4. CASE /\ Set(r, [j EXCEPT !.pc = IF ~job[r].bad THEN "save" ELSE "rejected"])
             /\ live' = live \ {r} /\ local' = local \ {r}
    <3>1. CASE ~job[r].bad
      <4>1. Set(r, [job[r] EXCEPT !.bad = FALSE, !.pc = "save", !.on = None])
        BY <2>1, <2>4, <3>1
      <4> QED
        BY <2>3, <2>4, <3>1, <4>1
    <3>2. CASE job[r].bad
      <4>1. Set(r, [job[r] EXCEPT !.bad = FALSE, !.pc = "rejected", !.on = None])
        BY <2>1, <2>4, <3>2
      <4> QED
        BY <2>3, <2>4, <3>2, <4>1
    <3> QED
      BY <3>1, <3>2
  <2>5. CASE /\ Set(r, [j EXCEPT !.pc = "put", !.on = "provisioning"])
             /\ \/ UNCHANGED <<live, local>>
                \/ live' = live \ {r} /\ local' \in {local, local \ {r}}
    BY <2>2, <2>3, <2>5
  <2> QED
    BY <2>4, <2>5 DEF CleanupSession
<1> DEFINE new == [job[r] EXCEPT !.bad = FALSE, !.pc = pc, !.on = on]
<1>3. /\ new \in JobType /\ new.pc = pc /\ new.role = job[r].role /\ new.flow = job[r].flow
      /\ new.on = on /\ new.begun = job[r].begun
  BY <1>1 DEF JobType, Working, Answers, RecordNames, Queues
<1>4. Set(r, new)
  BY <1>2
<1> HIDE DEF new
<1>5. /\ job' \in [Requests -> JobType] /\ Others(r)
      /\ job'[r].pc = pc /\ job'[r].role = job[r].role /\ job'[r].flow = job[r].flow
      /\ job'[r].on = on /\ job'[r].begun = job[r].begun
  BY <1>1, <1>3, <1>4, SetOK
<1>6. Keeps(r) /\ KeepsFlow(r)
  BY <1>1, <1>5 DEF Keeps, KeepsFlow, Unrecorded, Pending
<1>7. Checked(r)'
  BY <1>1, <1>2, <1>5 DEF Checked, CleanupSession, IInv, SpaceOK
<1>8. ShapeOK(job'[r]) /\ SessionOK(r)'
  BY <1>1, <1>2, <1>5, BrokerAssumption
     DEF ShapeOK, SessionOK, Pending, Browser, Issuing, RecordNames, Queues
<1>9. on # "ready"
  BY BrokerAssumption DEF RecordNames
<1>10. JobOK(r)'
  BY <1>5, <1>6, <1>8, <1>9, AheadOK
<1>11. UNCHANGED <<vault, flow, space>> /\ FlowsEnd /\ Settles
  BY DEF CleanupSession, FlowsEnd, Settles
<1>12. Typed
  BY <1>2, <1>5, <1>11 DEF Typed, IInv, TypeOK
<1>13. Grants(r) /\ Remembers(r) /\ Spares
  BY <1>1, <1>2, <1>11 DEF Grants, Remembers, Spares, Unrecorded, Pending
<1>14. VaultOK'
  BY <1>5, <1>6, <1>11, VaultFrame DEF VaultOK
<1> QED
  BY <1>5, <1>6, <1>7, <1>10, <1>11, <1>12, <1>13, <1>14, FlowFrame, SpaceFrame, ActiveFrame, StepOK

\* Another client of the owner changes the space
LEMMA OwnerStep ==
    ASSUME IInv, OwnerChanges
    PROVE  IInv' /\ Remembered
<1>1. UNCHANGED <<live, local, vault, flow, job>> /\ space \in Spaces /\ space # "exact"
  BY DEF OwnerChanges, IInv, TypeOK
<1>2. space' \in Spaces /\ (space = "otherMembers" => space' = "exact")
  BY <1>1 DEF OwnerChanges, Spaces, Drifted
<1>3. TypeOK' /\ FlowOK' /\ VaultOK' /\ ActiveUntouched' /\ live' \subseteq local'
  BY <1>1, <1>2 DEF IInv, TypeOK, FlowOK, SingleUse, VaultOK, Recorded, ActiveUntouched
<1>4. SpaceOK'
  BY <1>1, <1>2 DEF IInv, SpaceOK, Checked
<1>5. \A q \in Requests : JobOK(q)'
  BY <1>1 DEF IInv, JobOK, SeenOK, RetireOK, PutOK, RevokeOK, SessionOK, Recorded
<1>6. Remembered
  BY <1>1 DEF Remembered, Handles
<1> QED
  BY <1>3, <1>4, <1>5, <1>6 DEF IInv

\* A flow record expires
LEMMA ExpireStep ==
    ASSUME IInv, NEW f \in Flows, Expire(f)
    PROVE  IInv' /\ Remembered
<1>1. UNCHANGED <<live, local, vault, job, space>> /\ flow' = [flow EXCEPT ![f] = "gone"]
  BY DEF Expire
<1>2. flow \in [Flows -> Stages] /\ flow' \in [Flows -> Stages]
  BY <1>1 DEF IInv, TypeOK, Stages
<1>3. \A g \in Flows : flow'[g] \in {flow[g], "gone"}
  BY <1>1, <1>2
<1>4. TypeOK' /\ VaultOK' /\ ActiveUntouched' /\ live' \subseteq local'
  BY <1>1, <1>2 DEF IInv, TypeOK, VaultOK, Recorded, ActiveUntouched
<1>5. FlowOK'
  <2>1. From("gone") = {}
    BY DEF From
  <2>2. \A r \in Requests : job[r].pc \in Pending => job[r].flow \in Flows
    BY DEF IInv, JobOK, ShapeOK
  <2> QED
    BY <1>1, <1>3, <2>1, <2>2 DEF IInv, FlowOK, SingleUse
<1>6. SpaceOK'
  BY <1>1, <1>3 DEF IInv, SpaceOK, Checked
<1>7. \A q \in Requests : JobOK(q)'
  BY <1>1 DEF IInv, JobOK, SeenOK, RetireOK, PutOK, RevokeOK, SessionOK, Recorded
<1>8. Remembered
  BY <1>1 DEF Remembered, Handles
<1> QED
  BY <1>4, <1>5, <1>6, <1>7, <1>8 DEF IInv

\* Manager.Finish failed
LEMMA FinishRejectedStep ==
    ASSUME IInv, NEW r \in Requests, FinishRejected(r)
    PROVE  IInv' /\ Remembered
  BY FinishGoto DEF FinishRejected, At

-----------------------------------------------------------------------------
(* The browser flow: a stage is consumed once, and the next one follows it. *)

\* A stage is never after itself, and of two stages one is after the other
LEMMA StageOrder ==
    /\ \A a \in Browser : a \in From(a) /\ a \notin After(a) /\ After(a) \subseteq From(a)
    /\ \A a, b \in Browser : a = b \/ a \in After(b) \/ b \in After(a)
    /\ From("provision") = After("entry") /\ From("steady") = After("provision")
    /\ From("gone") = {}
  BY DEF Browser, Issuing, From, After

\* handleBrowserEntry and consumeCallback take the flow's record
LEMMA ConsumeStep ==
    ASSUME IInv, NEW r \in Requests, Consume(r)
    PROVE  IInv' /\ Remembered
<1>1. /\ TypeOK /\ job[r] = NoJob /\ JobOK(r) /\ job[r].pc = "idle"
      /\ UNCHANGED <<live, local, vault, space>>
  BY DEF IInv, JobOK, ShapeOK, Consume, At
<1>2. PICK role \in Browser, f \in Flows :
        /\ flow[f] = role /\ flow' = [flow EXCEPT ![f] = "gone"]
        /\ Set(r, [NoJob EXCEPT !.role = role, !.flow = f,
                                !.pc = IF role = "entry" THEN "save" ELSE "finish"])
  BY DEF Consume, Browser
<1> DEFINE pc == IF role = "entry" THEN "save" ELSE "finish"
           new == [NoJob EXCEPT !.role = role, !.flow = f, !.pc = pc]
<1>3. pc \in {"save", "finish"} /\ (pc = "save" <=> role = "entry") /\ role \in Endpoints
  BY DEF Browser, Endpoints
<1>4. /\ new \in JobType /\ new.pc = pc /\ new.role = role /\ new.flow = f
      /\ new.on = None /\ new.begun = {}
  BY <1>3, Typing DEF NoJob, JobType, Working
<1>5. Set(r, new)
  BY <1>2
<1> HIDE DEF new, pc
<1>6. job' \in [Requests -> JobType] /\ Others(r) /\ job'[r] = new
  BY <1>1, <1>3, <1>4, <1>5, SetOK DEF Answers
<1>7. Keeps(r) /\ Checked(r)'
  BY <1>1, <1>3, <1>4, <1>6, BrokerAssumption
     DEF Keeps, Checked, NoJob, Unrecorded, Pending, Endpoints
<1>8. /\ flow \in [Flows -> Stages] /\ flow' \in [Flows -> Stages]
      /\ flow'[f] = "gone" /\ \A g \in Flows \ {f} : flow'[g] = flow[g]
  BY <1>1, <1>2 DEF TypeOK, Stages
<1>9. JobOK(r)'
  <2>1. ShapeOK(job'[r])
    BY <1>3, <1>4, <1>6 DEF ShapeOK, Pending, Browser, Issuing
  <2>2. SessionOK(r)'
    BY <1>1, <1>3, <1>4, <1>6 DEF JobOK, SessionOK
  <2> QED
    BY <1>3, <1>4, <1>6, <2>1, <2>2 DEF JobOK, SeenOK, RetireOK, PutOK, RevokeOK
<1>10. FlowOK'
  <2>1. \A q \in Requests \ {r} : job'[q] = job[q]
    BY <1>6 DEF Others
  <2>2. \A q \in Requests : job[q].flow = f => job[q].role \notin From(role)
    BY <1>2 DEF IInv, FlowOK
  <2>3. job'[r].flow = f /\ job'[r].role = role
    BY <1>4, <1>6
  <2>4. \A q \in Requests, g \in Flows : job'[q].flow = g => job'[q].role \notin From(flow'[g])
    BY <1>8, <2>1, <2>3, StageOrder DEF IInv, FlowOK
  <2>5. ASSUME NEW q \in Requests, job'[q].pc \in Pending
        PROVE  /\ flow'[job'[q].flow] = "gone"
               /\ \A p \in Requests : job'[p].flow = job'[q].flow => job'[p].role \notin After(job'[q].role)
    <3>1. CASE q = r
      BY <1>8, <2>1, <2>2, <2>3, <3>1, StageOrder
    <3>2. CASE q # r
      <4>1. /\ job[q].pc \in Pending /\ job[q].flow \in Flows /\ flow[job[q].flow] = "gone"
            /\ \A p \in Requests : job[p].flow = job[q].flow => job[p].role \notin After(job[q].role)
        BY <2>1, <2>5, <3>2 DEF IInv, FlowOK, JobOK, ShapeOK
      <4>2. job[q].flow # f
        BY <1>2, <4>1 DEF Browser
      <4> QED
        BY <1>8, <2>1, <2>3, <3>2, <4>1, <4>2
    <3> QED
      BY <3>1, <3>2
  <2>6. SingleUse'
    <3>1. \A q \in Requests : job[q].flow = f => job[q].role # role
      BY <2>2, StageOrder
    <3> QED
      BY <2>1, <2>3, <3>1 DEF SingleUse, IInv, FlowOK
  <2> QED
    BY <2>4, <2>5, <2>6 DEF FlowOK
<1>11. FlowsEnd /\ Settles /\ Spares /\ Grants(r) /\ Remembers(r)
  BY <1>1, <1>8 DEF FlowsEnd, Settles, Spares, Grants, Remembers
<1>12. Typed
  BY <1>1, <1>6, <1>8 DEF Typed, TypeOK, IInv
<1>13. VaultOK'
  BY <1>1, <1>6, <1>7, VaultFrame DEF VaultOK
<1> QED
  BY <1>1, <1>6, <1>7, <1>9, <1>10, <1>11, <1>12, <1>13, SpaceFrame, ActiveFrame, StepOK

\* saveOAuthFlow makes the next stage the flow's only one
LEMMA SaveFlowStep ==
    ASSUME IInv, NEW r \in Requests, SaveFlow(r)
    PROVE  IInv' /\ Remembered
<1>1. /\ TypeOK /\ JobOK(r) /\ ShapeOK(job[r]) /\ job[r].pc = "save"
      /\ UNCHANGED <<live, local, vault, space>>
  BY DEF IInv, JobOK, SaveFlow, At
<1> DEFINE f == job[r].flow
           next == IF job[r].role = "entry" THEN "provision" ELSE "steady"
<1>2. /\ job[r].role \in {"entry", "provision"} /\ f \in Flows /\ flow[f] = "gone"
      /\ \A q \in Requests : job[q].flow = f => job[q].role \notin After(job[r].role)
  BY <1>1 DEF ShapeOK, Browser, Pending, IInv, FlowOK
<1>3. /\ job' \in [Requests -> JobType] /\ Others(r)
      /\ job'[r].pc = "redirected" /\ job'[r].role = job[r].role /\ job'[r].flow = job[r].flow
      /\ job'[r].on = job[r].on /\ job'[r].begun = job[r].begun
  BY GotoOK DEF SaveFlow, Answers
<1>4. /\ flow \in [Flows -> Stages] /\ flow' \in [Flows -> Stages]
      /\ flow'[f] = next /\ \A g \in Flows \ {f} : flow'[g] = flow[g]
  BY <1>1, <1>2 DEF SaveFlow, TypeOK, Stages
<1>5. Keeps(r) /\ Checked(r)'
  BY <1>1, <1>3 DEF Keeps, Checked, Unrecorded, Pending
<1>6. JobOK(r)'
  <2>1. ShapeOK(job'[r]) /\ SessionOK(r)'
    BY <1>1, <1>3 DEF ShapeOK, SessionOK, JobOK, Pending
  <2> QED
    BY <1>3, <1>5, <2>1, AheadOK
<1>7. FlowOK'
  <2>1. \A q \in Requests : job'[q].flow = job[q].flow /\ job'[q].role = job[q].role
    BY <1>3 DEF Others
  <2>2. From(next) = After(job[r].role) /\ job[r].role \in Browser
    BY <1>2, StageOrder DEF Browser
  <2>3. \A q \in Requests, g \in Flows : job'[q].flow = g => job'[q].role \notin From(flow'[g])
    BY <1>2, <1>4, <2>1, <2>2 DEF IInv, FlowOK
  <2>4. ASSUME NEW q \in Requests, job'[q].pc \in Pending
        PROVE  /\ flow'[job'[q].flow] = "gone"
               /\ \A p \in Requests : job'[p].flow = job'[q].flow => job'[p].role \notin After(job'[q].role)
    <3>1. q # r
      BY <1>3, <2>4 DEF Pending
    <3>2. job[q].pc \in Pending /\ job[q].flow \in Flows /\ job[q].role \in Browser
      BY <1>3, <2>4, <3>1 DEF Others, IInv, JobOK, ShapeOK
    <3>3. /\ flow[job[q].flow] = "gone"
          /\ \A p \in Requests : job[p].flow = job[q].flow => job[p].role \notin After(job[q].role)
      BY <3>2 DEF IInv, FlowOK
    <3>4. job[q].flow # f
      <4> SUFFICES ASSUME job[q].flow = f PROVE FALSE
        OBVIOUS
      <4>1. job[q].role \notin After(job[r].role) /\ job[r].role \notin After(job[q].role)
        BY <1>2, <3>3
      <4>2. job[q].role = job[r].role
        BY <2>2, <3>2, <4>1, StageOrder
      <4> QED
        BY <2>2, <3>1, <4>2 DEF IInv, FlowOK, SingleUse, Browser
    <3> QED
      BY <1>4, <2>1, <3>2, <3>3, <3>4
  <2>5. SingleUse'
    BY <2>1 DEF IInv, FlowOK, SingleUse
  <2> QED
    BY <2>3, <2>4, <2>5 DEF FlowOK
<1>8. SpaceOK'
  <2>1. space = "exact" => space' = "exact"
    BY <1>1
  <2>2. \A g \in Flows : flow'[g] = "steady" => space' = "exact"
    <3>1. next = "steady" => space = "exact"
      BY <1>1, <1>2 DEF IInv, SpaceOK, Checked
    <3> QED
      BY <1>1, <1>4, <3>1 DEF IInv, SpaceOK
  <2>3. \A q \in Requests : Checked(q)'
    BY <1>1, <1>3, <1>5 DEF IInv, SpaceOK, Checked, Others
  <2> QED
    BY <2>2, <2>3 DEF SpaceOK
<1>9. Spares /\ Grants(r) /\ Remembers(r)
  BY <1>1 DEF Spares, Grants, Remembers
<1>10. Typed
  BY <1>1, <1>3, <1>4 DEF Typed, TypeOK, IInv
<1>11. VaultOK'
  BY <1>1, <1>3, <1>5, VaultFrame DEF VaultOK
<1> QED
  BY <1>1, <1>3, <1>5, <1>6, <1>7, <1>8, <1>9, <1>10, <1>11, ActiveFrame, StepOK

-----------------------------------------------------------------------------
(* handleStart: the check of the active session.                            *)

\* A new entry token, or none
LEMMA AuthorizeOK ==
    ASSUME IInv, NEW r \in Requests,
           Authorize(r) \/ Reauthorize(r) \/ (Goto(r, "unavailable") /\ UNCHANGED flow)
    PROVE  /\ FlowsEnd /\ flow' \in [Flows -> Stages]
           /\ job' \in [Requests -> JobType] /\ Others(r) /\ Keeps(r) /\ KeepsFlow(r)
           /\ Checked(r)' /\ JobOK(r)'
<1>1. /\ \/ \E f \in Flows : flow[f] = "fresh" /\ flow' = [flow EXCEPT ![f] = "entry"]
         \/ UNCHANGED flow
      /\ \E label \in {"authorize", "full", "unavailable"} : Goto(r, label)
  BY DEF Authorize, Reauthorize
<1>2. FlowsEnd /\ flow' \in [Flows -> Stages]
  <2>1. flow \in [Flows -> Stages] /\ "entry" \in Stages
    BY DEF IInv, TypeOK, Stages
  <2> QED
    BY <1>1, <2>1 DEF FlowsEnd
<1>3. {"authorize", "full", "unavailable"} \subseteq Plain
  BY DEF Plain
<1> QED
  BY <1>1, <1>2, <1>3, PlainGoto

\* What a request that holds the ready record's value relies on
LEMMA HoldOK ==
    ASSUME IInv, NEW r \in Requests, Others(r), Keeps(r), job'[r].pc \in {"resume", "prove"},
           job'[r].on = "ready", job[r].role = "start", job'[r].role = "start",
           job'[r].begun = job[r].begun, NEW rec \in RecordType, job'[r].seen = rec,
           RecordOK("ready", rec), rec.exists, \A s \in Sessions(rec) : Recorded(s, "ready"),
           vault' = vault, vault["ready"].active # None => vault["ready"].active \notin rec.others
    PROVE  JobOK(r)'
<1>1. JobOK(r) /\ job[r] \in JobType
  BY DEF IInv, TypeOK
<1>2. \A s \in job[r].begun : s \in Requests /\ job'[s].pc \notin Unrecorded
  BY <1>1, RecordedStable DEF JobOK, RevokeOK, JobType
<1>3. \A s \in Sessions(rec) : Recorded(s, "ready")'
  BY RecordedStable, SessionsType DEF RecordNames
<1>4. ShapeOK(job'[r])
  BY DEF ShapeOK, Pending, Browser
<1>5. SeenOK(r)'
  BY <1>3 DEF SeenOK, Recorded
<1>6. RetireOK(r)' /\ PutOK(r)' /\ RevokeOK(r)' /\ SessionOK(r)'
  BY <1>2 DEF RetireOK, PutOK, RevokeOK, SessionOK
<1> QED
  BY <1>4, <1>5, <1>6 DEF JobOK

\* handleStart reads the ready record
LEMMA CheckReadStep ==
    ASSUME IInv, NEW r \in Requests, CheckRead(r)
    PROVE  IInv' /\ Remembered
<1>1. /\ TypeOK /\ JobOK(r) /\ job[r] \in JobType /\ job[r].pc = "check" /\ job[r].role = "start"
      /\ UNCHANGED <<live, local, vault, space>> /\ "ready" \in RecordNames
  BY DEF IInv, TypeOK, JobOK, ShapeOK, CheckRead, At, RecordNames
<1>2. CASE vault["ready"].exists
  <2> DEFINE rec == vault["ready"]
             new == [job[r] EXCEPT !.pc = "resume", !.on = "ready", !.seen = rec]
  <2>1. /\ rec \in RecordType /\ RecordOK("ready", rec)
        /\ \A s \in Sessions(rec) : Recorded(s, "ready")
        /\ vault["ready"].active # None => vault["ready"].active \notin rec.others
    BY <1>1, ReadOK
  <2>2. /\ new \in JobType /\ new.pc = "resume" /\ new.role = job[r].role /\ new.flow = job[r].flow
        /\ new.on = "ready" /\ new.begun = job[r].begun /\ new.seen = rec
    BY <1>1, <2>1 DEF JobType, Working
  <2>3. Set(r, new) /\ UNCHANGED flow
    BY <1>2 DEF CheckRead
  <2> HIDE DEF new
  <2>4. job' \in [Requests -> JobType] /\ Others(r) /\ job'[r] = new
    BY <1>1, <2>2, <2>3, SetOK DEF Answers
  <2>5. Keeps(r) /\ KeepsFlow(r) /\ Checked(r)'
    BY <1>1, <2>2, <2>4 DEF Keeps, KeepsFlow, Checked, Unrecorded, Pending, Issuing
  <2>6. JobOK(r)'
    BY <1>1, <1>2, <2>1, <2>2, <2>4, <2>5, HoldOK
  <2>7. FlowsEnd /\ flow' \in [Flows -> Stages]
    BY <1>1, <2>3 DEF FlowsEnd, TypeOK
  <2> QED
    BY <1>1, <2>4, <2>5, <2>6, <2>7, QuietStep
<1>3. CASE ~vault["ready"].exists
  <2>1. Authorize(r)
    BY <1>3 DEF CheckRead
  <2> QED
    BY <1>1, <2>1, AuthorizeOK, QuietStep
<1> QED
  BY <1>2, <1>3

\* What a request at the resume or the proof knows of the value it holds
LEMMA HeldOK ==
    ASSUME IInv, NEW r \in Requests, job[r].pc \in {"resume", "prove"}
    PROVE  LET rec == job[r].seen IN
           /\ job[r].role = "start" /\ job[r].on = "ready" /\ rec \in RecordType
           /\ RecordOK("ready", rec) /\ rec.exists /\ \A s \in Sessions(rec) : Recorded(s, "ready")
           /\ vault["ready"].active # None => vault["ready"].active \notin rec.others
           /\ rec.active \in Sessions(rec) /\ rec.active \in Requests
<1>1. JobOK(r) /\ job[r] \in JobType
  BY DEF IInv, TypeOK
<1>2. job[r].role = "start" /\ job[r].on = "ready" /\ job[r].seen \in RecordType
  BY <1>1 DEF JobOK, ShapeOK, JobType
<1>3. /\ RecordOK("ready", job[r].seen) /\ job[r].seen.exists
      /\ \A s \in Sessions(job[r].seen) : Recorded(s, "ready")
      /\ vault["ready"].active # None => vault["ready"].active \notin job[r].seen.others
  BY <1>1, <1>2 DEF JobOK, SeenOK
<1>4. job[r].seen.active # None
  BY <1>3 DEF RecordOK
<1> QED
  BY <1>2, <1>3, <1>4, SessionsType

\* handleStart resumes the session
LEMMA CheckResumeStep ==
    ASSUME IInv, NEW r \in Requests, CheckResume(r)
    PROVE  IInv' /\ Remembered
<1>1. /\ TypeOK /\ job[r].pc = "resume" /\ UNCHANGED <<live, local, vault, space>>
  BY DEF IInv, CheckResume, At
<1>2. CASE Goto(r, "prove") /\ UNCHANGED flow
  <2>1. /\ job' \in [Requests -> JobType] /\ Others(r)
        /\ job'[r].pc = "prove" /\ job'[r].role = job[r].role /\ job'[r].flow = job[r].flow
        /\ job'[r].on = job[r].on /\ job'[r].begun = job[r].begun /\ job'[r].seen = job[r].seen
    BY <1>2, GotoOK DEF Working, Answers
  <2>2. Keeps(r) /\ KeepsFlow(r) /\ Checked(r)'
    BY <2>1 DEF Keeps, KeepsFlow, Checked, Unrecorded, Pending
  <2>3. JobOK(r)'
    BY <1>1, <2>1, <2>2, HeldOK, HoldOK
  <2>4. FlowsEnd /\ flow' \in [Flows -> Stages]
    BY <1>1, <1>2 DEF FlowsEnd, TypeOK
  <2> QED
    BY <1>1, <2>1, <2>2, <2>3, <2>4, QuietStep
<1>3. CASE Reauthorize(r) \/ (Goto(r, "unavailable") /\ UNCHANGED flow)
  BY <1>1, <1>3, AuthorizeOK, QuietStep
<1> QED
  BY <1>2, <1>3 DEF CheckResume

\* The live proof answers, and a nonce may be saved with the session's tokens
LEMMA CheckAnswerStep ==
    ASSUME IInv, NEW r \in Requests, CheckAnswer(r)
    PROVE  IInv' /\ Remembered
<1> DEFINE rec == job[r].seen
<1>1. /\ TypeOK /\ job[r] \in JobType /\ job[r].pc = "prove" /\ UNCHANGED <<live, vault, space>>
      /\ local' \in {local, local \cup {rec.active}}
  BY DEF IInv, TypeOK, CheckAnswer, At
<1>2. /\ job[r].role = "start" /\ job[r].on = "ready" /\ rec \in RecordType
      /\ RecordOK("ready", rec) /\ rec.exists /\ \A s \in Sessions(rec) : Recorded(s, "ready")
      /\ vault["ready"].active # None => vault["ready"].active \notin rec.others
      /\ rec.active \in Sessions(rec) /\ rec.active \in Requests
  BY <1>1, HeldOK
<1>3. job[r].role \notin Issuing /\ job[r].role # "revoke"
  BY <1>2 DEF Issuing
<1>4. /\ FlowsEnd /\ flow' \in [Flows -> Stages]
      /\ job' \in [Requests -> JobType] /\ Others(r) /\ Keeps(r) /\ KeepsFlow(r)
      /\ Checked(r)' /\ JobOK(r)'
  <2>1. CASE UNCHANGED flow /\ Set(r, CleanDone(job[r]))
    <3>1. FlowsEnd /\ flow' \in [Flows -> Stages]
      BY <1>1, <2>1 DEF FlowsEnd, TypeOK
    <3> QED
      BY <1>1, <1>3, <2>1, <3>1, CleanOverOK
  <2>2. CASE UNCHANGED flow /\ Set(r, Retiring(job[r], rec, rec.others))
    <3>1. FlowsEnd /\ flow' \in [Flows -> Stages]
      BY <1>1, <2>2 DEF FlowsEnd, TypeOK
    <3>2. Set(r, Retiring(job[r], rec, IF job[r].role = "revoke" THEN Sessions(rec) ELSE rec.others))
      BY <1>3, <2>2
    <3>3. r \notin Sessions(rec)
      BY <1>2, <1>3 DEF Recorded
    <3> HIDE DEF rec
    <3>4. RecordOK(job[r].on, rec) /\ \A s \in Sessions(rec) \ {r} : Recorded(s, job[r].on)
      BY <1>2
    <3>5. vault'["ready"].active # None => vault'["ready"].active \notin rec.others
      BY <1>1, <1>2
    <3>6. /\ job' \in [Requests -> JobType] /\ Others(r) /\ Keeps(r) /\ KeepsFlow(r)
          /\ Checked(r)' /\ JobOK(r)'
      BY <1>1, <1>2, <1>3, <3>2, <3>3, <3>4, <3>5, RetiringOK
    <3> QED
      BY <3>1, <3>6
  <2>3. CASE Reauthorize(r) \/ (Goto(r, "unavailable") /\ UNCHANGED flow)
    BY <2>3, AuthorizeOK
  <2> QED
    BY <2>1, <2>2, <2>3 DEF CheckAnswer
<1>5. Typed
  BY <1>1, <1>2, <1>4 DEF Typed, IInv, TypeOK
<1>6. Grants(r) /\ Remembers(r) /\ Settles /\ Spares
  BY <1>1, <1>2 DEF Grants, Remembers, Settles, Spares, Recorded
<1>7. VaultOK'
  BY <1>1, <1>4, VaultFrame DEF VaultOK
<1> QED
  BY <1>1, <1>4, <1>5, <1>6, <1>7, FlowFrame, SpaceFrame, ActiveFrame, StepOK

-----------------------------------------------------------------------------
(* The steps that retire a session or write a record.                       *)

\* One session is retired, or kept because that was not confirmed
LEMMA RetireStep ==
    ASSUME IInv, NEW r \in Requests, Retire(r)
    PROVE  IInv' /\ Remembered
<1>1. /\ TypeOK /\ JobOK(r) /\ ShapeOK(job[r]) /\ job[r] \in JobType /\ job[r].pc = "retire"
      /\ UNCHANGED <<vault, flow, space>> /\ live \subseteq local /\ local \subseteq Requests
  BY DEF IInv, TypeOK, JobOK, Retire, At
<1>2. PICK s \in job[r].todo, kept \in SUBSET Requests :
        /\ kept \in {job[r].kept, job[r].kept \cup {s}}
        /\ Set(r, [job[r] EXCEPT !.todo = @ \ {s}, !.kept = kept])
        /\ live' \in {live, live \ {s}} /\ local' \in {local, local \ {s}} /\ live' \subseteq local'
        /\ s \in live' => s \in kept
  <2>1. PICK s \in job[r].todo :
          LET rest == [job[r] EXCEPT !.todo = @ \ {s}]
              Revoked == live' = IF s \in local THEN live \ {s} ELSE live
          IN  \/ Set(r, rest) /\ Revoked /\ local' = local \ {s}
              \/ /\ Set(r, [rest EXCEPT !.kept = @ \cup {s}])
                 /\ UNCHANGED <<live, local>> \/ (Revoked /\ local' \in {local, local \ {s}})
    BY DEF Retire
  <2> DEFINE rest == [job[r] EXCEPT !.todo = @ \ {s}]
             Moved(k) == [job[r] EXCEPT !.todo = @ \ {s}, !.kept = k]
             Revoked == live' = IF s \in local THEN live \ {s} ELSE live
  <2>5. job[r].kept \in SUBSET Requests /\ job[r].kept \cup {s} \in SUBSET Requests
    BY <1>1 DEF JobType
  <2>2. rest = Moved(job[r].kept) /\ [rest EXCEPT !.kept = @ \cup {s}] = Moved(job[r].kept \cup {s})
    BY <1>1 DEF JobType
  <2>3. CASE Set(r, rest) /\ Revoked /\ local' = local \ {s}
    <3>1. Set(r, Moved(job[r].kept))
      BY <2>2, <2>3
    <3>2. live' \in {live, live \ {s}} /\ live' \subseteq local' /\ s \notin live'
      BY <1>1, <2>3
    <3> QED
      BY <2>3, <2>5, <3>1, <3>2
  <2>4. CASE /\ Set(r, [rest EXCEPT !.kept = @ \cup {s}])
             /\ UNCHANGED <<live, local>> \/ (Revoked /\ local' \in {local, local \ {s}})
    <3>1. Set(r, Moved(job[r].kept \cup {s}))
      BY <2>2, <2>4
    <3>2. live' \in {live, live \ {s}} /\ local' \in {local, local \ {s}} /\ live' \subseteq local'
      BY <1>1, <2>4
    <3> QED
      BY <2>5, <3>1, <3>2
  <2> QED
    BY <2>1, <2>3, <2>4
<1> DEFINE j == job[r]
           new == [job[r] EXCEPT !.todo = @ \ {s}, !.kept = kept]
<1>3. /\ new \in JobType /\ new.pc = "retire" /\ new.role = j.role /\ new.flow = j.flow
      /\ new.on = j.on /\ new.begun = j.begun /\ new.bad = j.bad /\ new.seen = j.seen
      /\ new.todo = j.todo \ {s} /\ new.kept = kept
  BY <1>1 DEF JobType
<1>4. Set(r, new)
  BY <1>2
<1> HIDE DEF new
<1>5. job' \in [Requests -> JobType] /\ Others(r) /\ job'[r] = new
  BY <1>1, <1>3, <1>4, SetOK DEF Answers
<1>6. Keeps(r) /\ KeepsFlow(r) /\ Checked(r)'
  BY <1>1, <1>3, <1>5 DEF Keeps, KeepsFlow, Checked, Unrecorded, Pending
<1>7. /\ RecordOK(j.on, j.seen) /\ j.seen.exists /\ \A x \in Sessions(j.seen) : Recorded(x, j.on)
      /\ vault["ready"].active # None => vault["ready"].active \notin j.seen.others
      /\ j.todo \cup j.kept \subseteq Target(j) /\ j.on \in RecordNames
      /\ \A x \in Target(j) : x \in live => x \in j.todo \cup j.kept
  BY <1>1 DEF JobOK, SeenOK, RetireOK, ShapeOK
<1>8. /\ Target(j) \subseteq Sessions(j.seen) /\ Sessions(j.seen) \subseteq Requests
      /\ job[s].pc \notin Unrecorded /\ s \in Requests
  BY <1>7, SessionsType DEF Target, RecordOK, Recorded
<1>9. JobOK(r)'
  <2>1. ShapeOK(job'[r])
    BY <1>1, <1>3, <1>5 DEF ShapeOK, Pending
  <2>2. \A x \in Sessions(j.seen) :
            job'[x].pc \notin Unrecorded /\ job'[x].role \in Issuing /\ job'[x].on = j.on
    BY <1>5, <1>6, <1>7, <1>8, RecordedStable DEF Recorded
  <2>3. SeenOK(r)'
    BY <1>1, <1>3, <1>5, <1>7, <2>2 DEF SeenOK, Recorded
  <2>4. RetireOK(r)'
    BY <1>2, <1>3, <1>5, <1>7 DEF RetireOK, Target
  <2>5. RevokeOK(r)'
    <3>1. \A x \in j.begun : x \in Requests /\ job'[x].pc \notin Unrecorded
      BY <1>1, <1>5, <1>6, RecordedStable DEF JobOK, RevokeOK, JobType
    <3>2. live' \subseteq live
      BY <1>2
    <3> QED
      BY <1>1, <1>3, <1>5, <3>1, <3>2 DEF JobOK, RevokeOK
  <2>6. SessionOK(r)'
    BY <1>1, <1>2, <1>3, <1>5 DEF JobOK, SessionOK
  <2>7. PutOK(r)'
    BY <1>3, <1>5 DEF PutOK
  <2> QED
    BY <2>1, <2>3, <2>4, <2>5, <2>6, <2>7 DEF JobOK
<1>10. Typed
  BY <1>1, <1>2, <1>5 DEF Typed, TypeOK
<1>11. Grants(r) /\ Remembers(r) /\ Settles /\ FlowsEnd
  BY <1>1, <1>2, <1>8 DEF Grants, Remembers, Settles, FlowsEnd
<1>12. VaultOK'
  BY <1>1, <1>5, <1>6, VaultFrame DEF VaultOK
<1>13. ActiveUntouched'
  <2> SUFFICES ASSUME \A q \in Requests : job'[q].role # "revoke", vault'["ready"].exists
               PROVE  vault'["ready"].active \in live' \cap local'
    BY DEF ActiveUntouched
  <2>1. vault["ready"].active \in live \cap local
    BY <1>1, <1>3, <1>5 DEF IInv, ActiveUntouched, Others
  <2>2. s \in j.seen.others
    BY <1>3, <1>5, <1>7 DEF Target
  <2>3. vault["ready"].active # s
    BY <1>1, <1>7, <2>2, ActiveRecorded
  <2> QED
    BY <1>1, <1>2, <2>1, <2>3
<1> QED
  BY <1>1, <1>5, <1>6, <1>9, <1>10, <1>11, <1>12, <1>13, FlowFrame, SpaceFrame, StepOK

\* A handler that has gone through its sessions kept all that are still live
LEMMA RetiredOK ==
    ASSUME IInv, NEW r \in Requests, job[r].pc = "retire", job[r].todo = {}
    PROVE  LET j == job[r] IN
           /\ j.on \in RecordNames /\ RecordOK(j.on, j.seen) /\ j.seen.exists
           /\ \A s \in Sessions(j.seen) : Recorded(s, j.on)
           /\ j.kept \subseteq Target(j) /\ \A s \in Target(j) : s \in live => s \in j.kept
  BY DEF IInv, JobOK, SeenOK, RetireOK, ShapeOK

\* A record is rewritten with every session of it that is live
LEMMA RememberWrite ==
    ASSUME IInv, NEW r \in Requests, NEW n \in RecordNames, NEW rec \in RecordType,
           vault' = [vault EXCEPT ![n] = rec], live' = live,
           \A s \in Sessions(vault[n]) : s \in live => s \in Sessions(rec),
           \/ rec.active \in {vault[n].active, None}
           \/ rec.active = r /\ job[r].pc \in Unrecorded
    PROVE  /\ Remembers(r) /\ vault' \in [RecordNames -> RecordType]
           /\ vault'[n] = rec /\ \A m \in RecordNames \ {n} : vault'[m] = vault[m]
<1>1. vault \in [RecordNames -> RecordType] /\ "ready" \in RecordNames
  BY DEF IInv, TypeOK, RecordNames
<1> QED
  BY <1>1 DEF Remembers

\* A record is written with sessions that belong to it
LEMMA VaultWrite ==
    ASSUME IInv, NEW r \in Requests, Others(r), Keeps(r), NEW n \in RecordNames,
           NEW rec \in RecordType, vault'[n] = rec, \A m \in RecordNames \ {n} : vault'[m] = vault[m],
           RecordOK(n, rec), \A s \in Sessions(rec) : Recorded(s, n) \/ (s = r /\ Recorded(r, n)')
    PROVE  VaultOK'
<1>1. Sessions(rec) \subseteq Requests
  BY SessionsType
<1>2. \A s \in Sessions(rec) : Recorded(s, n)'
  BY <1>1, RecordedStable
<1> QED
  BY <1>2, VaultFrame DEF VaultOK

\* cleanupDiscarded and cleanupRetired write what they could not retire
LEMMA CleanSwapStep ==
    ASSUME IInv, NEW r \in Requests, CleanSwap(r)
    PROVE  IInv' /\ Remembered
<1> DEFINE j == job[r]
           rec == Record(j.seen.active, j.kept)
<1>1. /\ TypeOK /\ JobOK(r) /\ job[r] \in JobType /\ j.pc = "retire" /\ j.todo = {}
      /\ j.role # "revoke" /\ UNCHANGED <<live, local, flow, space>> /\ Set(r, CleanDone(j))
      /\ FlowsEnd /\ flow' \in [Flows -> Stages]
  BY DEF IInv, TypeOK, CleanSwap, At, FlowsEnd
<1>2. /\ j.on \in RecordNames /\ RecordOK(j.on, j.seen) /\ j.seen.exists
      /\ \A s \in Sessions(j.seen) : Recorded(s, j.on)
      /\ j.kept \subseteq j.seen.others /\ \A s \in j.seen.others : s \in live => s \in j.kept
  BY <1>1, RetiredOK DEF Target
<1>3. j.role \in Issuing /\ r \in live => r \in Sessions(vault[j.on])
  BY <1>1, <1>2, BrokerAssumption DEF JobOK, SessionOK
<1>4. CASE UNCHANGED vault
  <2>1. /\ job' \in [Requests -> JobType] /\ Others(r) /\ Keeps(r) /\ KeepsFlow(r)
        /\ Checked(r)' /\ JobOK(r)'
    BY <1>1, <1>3, <1>4, CleanOverOK
  <2> QED
    BY <1>1, <1>4, <2>1, QuietStep
<1>5. CASE vault[j.on] = j.seen /\ vault' = [vault EXCEPT ![j.on] = rec]
  <2>1. /\ rec \in RecordType /\ rec.exists /\ rec.active = j.seen.active /\ rec.others = j.kept
    BY <1>1, <1>2, Typing DEF Record, RecordOK, RecordType
  <2>2. /\ Sessions(rec) = ({j.seen.active} \ {None}) \cup j.kept
        /\ Sessions(j.seen) = ({j.seen.active} \ {None}) \cup j.seen.others
    BY <2>1 DEF Sessions
  <2>3. RecordOK(j.on, rec)
    <3>1. IsFiniteSet(j.kept) /\ Cardinality(j.kept) <= Cardinality(j.seen.others)
      BY <1>2, FS_Subset DEF RecordOK
    <3>2. Cardinality(j.kept) \in Nat /\ Cardinality(j.seen.others) \in Nat
      BY <1>2, <3>1, FS_CardinalityType DEF RecordOK
    <3>3. Cardinality(j.kept) <= maxRetired
      BY <1>2, <3>1, <3>2, BrokerAssumption DEF RecordOK
    <3> QED
      BY <1>2, <2>1, <3>1, <3>3 DEF RecordOK
  <2> HIDE DEF rec
  <2>4. /\ Remembers(r) /\ vault' \in [RecordNames -> RecordType]
        /\ vault'[j.on] = rec /\ \A m \in RecordNames \ {j.on} : vault'[m] = vault[m]
    BY <1>1, <1>2, <1>5, <2>1, <2>2, RememberWrite
  <2>5. j.role \in Issuing /\ r \in live' => r \in Sessions(vault'[j.on])
    BY <1>1, <1>2, <1>3, <2>4 DEF Remembers
  <2>6. /\ job' \in [Requests -> JobType] /\ Others(r) /\ Keeps(r) /\ KeepsFlow(r)
        /\ Checked(r)' /\ JobOK(r)'
    BY <1>1, <2>5, CleanOverOK
  <2>7. VaultOK'
    BY <1>2, <2>1, <2>2, <2>3, <2>4, <2>6, VaultWrite
  <2>8. Typed /\ Grants(r) /\ Settles /\ Spares
    BY <1>1, <2>4, <2>6 DEF Typed, IInv, TypeOK, Grants, Settles, Spares
  <2>9. /\ vault'["ready"].active = vault["ready"].active
        /\ vault'["ready"].exists => vault["ready"].exists
    BY <1>2, <1>5, <2>1, <2>4 DEF RecordNames
  <2> QED
    BY <1>1, <2>4, <2>6, <2>7, <2>8, <2>9, FlowFrame, SpaceFrame, ActiveFrame, StepOK
<1> QED
  BY <1>4, <1>5 DEF CleanSwap

\* A record is deleted only when none of its sessions is live
LEMMA DeletedOK ==
    ASSUME IInv, NEW r \in Requests, job[r].pc = "retire", job[r].todo = {}, job[r].role = "revoke",
           vault' \in {vault, Deleted(job[r])}, live' = live
    PROVE  /\ Remembers(r) /\ vault' \in [RecordNames -> RecordType]
           /\ \A n \in RecordNames : vault'[n] \in {vault[n], Absent}
           /\ job[r].kept = {} /\ vault[job[r].on] = job[r].seen /\ vault' = Deleted(job[r])
                => vault'[job[r].on] = Absent
<1> DEFINE j == job[r]
<1>1. /\ j.on \in RecordNames /\ RecordOK(j.on, j.seen) /\ Target(j) = Sessions(j.seen)
      /\ \A s \in Sessions(j.seen) : s \in live => s \in j.kept
      /\ vault \in [RecordNames -> RecordType]
  BY RetiredOK DEF Target, IInv, TypeOK
<1>2. CASE vault' = vault /\ ~(j.kept = {} /\ vault[j.on] = j.seen /\ vault' = Deleted(j))
  BY <1>1, <1>2 DEF Remembers
<1>3. CASE j.kept = {} /\ vault[j.on] = j.seen /\ vault' = Deleted(j)
  <2>1. vault' = [vault EXCEPT ![j.on] = Absent]
    BY <1>3 DEF Deleted
  <2>2. Absent \in RecordType /\ Absent.active = None
    BY Typing DEF Absent
  <2>3. /\ Remembers(r) /\ vault' \in [RecordNames -> RecordType]
        /\ vault'[j.on] = Absent /\ \A m \in RecordNames \ {j.on} : vault'[m] = vault[m]
    BY <1>1, <1>3, <2>1, <2>2, RememberWrite
  <2> QED
    BY <2>3
<1> QED
  BY <1>2, <1>3 DEF Deleted

\* A step of handleRevoke that may delete a record
LEMMA DeleteStep ==
    ASSUME IInv, NEW r \in Requests, job[r].role = "revoke", UNCHANGED <<live, local, flow, space>>,
           Remembers(r), vault' \in [RecordNames -> RecordType],
           \A n \in RecordNames : vault'[n] \in {vault[n], Absent},
           job' \in [Requests -> JobType], Others(r), Keeps(r), KeepsFlow(r), Checked(r)', JobOK(r)'
    PROVE  IInv' /\ Remembered
<1>1. FlowsEnd /\ Typed /\ Grants(r) /\ Settles
  BY DEF FlowsEnd, Typed, IInv, TypeOK, Grants, Settles
<1>2. VaultOK'
  <2> SUFFICES ASSUME NEW n \in RecordNames
               PROVE  RecordOK(n, vault'[n]) /\ \A s \in Sessions(vault'[n]) : Recorded(s, n)'
    BY DEF VaultOK
  <2>1. CASE vault'[n] = vault[n]
    BY <2>1, VaultFrame
  <2>2. CASE vault'[n] = Absent
    <3>1. IsFiniteSet({}) /\ Cardinality({}) = 0
      BY FS_EmptySet
    <3>2. RecordOK(n, Absent)
      BY <3>1, Typing, BrokerAssumption DEF RecordOK, Absent
    <3> QED
      BY <2>2, <3>2, Typing
  <2> QED
    BY <2>1, <2>2
<1>3. ActiveUntouched'
  BY DEF ActiveUntouched, Keeps
<1> QED
  BY <1>1, <1>2, <1>3, FlowFrame, SpaceFrame, StepOK

\* handleRevoke deletes the record it has read, or reads it again
LEMMA RevokeDeleteStep ==
    ASSUME IInv, NEW r \in Requests, RevokeDelete(r)
    PROVE  IInv' /\ Remembered
<1> DEFINE j == job[r]
           unchanged == vault[j.on] = j.seen
<1>1. /\ TypeOK /\ JobOK(r) /\ job[r] \in JobType /\ j.pc = "retire" /\ j.todo = {}
      /\ j.role = "revoke" /\ UNCHANGED <<live, local, flow, space>> /\ vault' = Deleted(j)
  BY DEF IInv, TypeOK, RevokeDelete, At
<1>2. /\ Remembers(r) /\ vault' \in [RecordNames -> RecordType]
      /\ \A n \in RecordNames : vault'[n] \in {vault[n], Absent}
      /\ j.kept = {} /\ unchanged => vault'[j.on] = Absent
  BY <1>1, DeletedOK
<1>3. /\ job' \in [Requests -> JobType] /\ Others(r) /\ Keeps(r) /\ KeepsFlow(r)
      /\ Checked(r)' /\ JobOK(r)'
  <2>1. CASE Set(r, NextRecord(j, TRUE))
    BY <1>1, <1>2, <2>1, NextRecordOK
  <2>2. CASE j.kept = {} /\ unchanged /\ Set(r, NextRecord(j, FALSE))
    <3>1. Sessions(vault'[j.on]) = {}
      BY <1>2, <2>2, Typing
    <3> QED
      BY <1>1, <1>2, <2>2, <3>1, NextRecordOK
  <2>3. CASE Set(r, [j EXCEPT !.pc = "revoke", !.tries = @ + 1, !.seen = Absent])
    <3> DEFINE tries == j.tries + 1
               new == [j EXCEPT !.pc = "revoke", !.tries = tries, !.seen = Absent]
    <3>8. tries \in Nat /\ Set(r, new)
      BY <1>1, <2>3 DEF JobType
    <3> HIDE DEF tries
    <3>1. /\ new \in JobType /\ new.pc = "revoke" /\ new.role = j.role /\ new.flow = j.flow
          /\ new.on = j.on /\ new.begun = j.begun /\ new.bad = j.bad
      BY <1>1, <3>8, Typing DEF JobType, Working
    <3>2. Set(r, new)
      BY <3>8
    <3> HIDE DEF new
    <3>3. job' \in [Requests -> JobType] /\ Others(r) /\ job'[r] = new
      BY <1>1, <3>1, <3>2, SetOK DEF Answers
    <3>4. Keeps(r) /\ KeepsFlow(r) /\ Checked(r)'
      BY <1>1, <3>1, <3>3 DEF Keeps, KeepsFlow, Checked, Unrecorded, Pending
    <3>5. ShapeOK(job'[r])
      BY <1>1, <3>1, <3>3 DEF JobOK, ShapeOK, Pending
    <3>6. RevokeOK(r)'
      <4>1. \A s \in j.begun : s \in Requests /\ job'[s].pc \notin Unrecorded
        BY <1>1, <3>3, <3>4, RecordedStable DEF JobOK, RevokeOK, JobType
      <4>2. \A n \in Remaining(j.on) : n \in RecordNames
        BY DEF Remaining, RecordNames, Queues
      <4> QED
        BY <1>1, <1>2, <3>1, <3>3, <4>1, <4>2 DEF JobOK, RevokeOK, Remembers
    <3>7. SeenOK(r)' /\ RetireOK(r)' /\ PutOK(r)' /\ SessionOK(r)'
      BY <3>1, <3>3 DEF SeenOK, RetireOK, PutOK, SessionOK
    <3> QED
      BY <3>3, <3>4, <3>5, <3>6, <3>7 DEF JobOK
  <2> QED
    BY <2>1, <2>2, <2>3 DEF RevokeDelete
<1> QED
  BY <1>1, <1>2, <1>3, DeleteStep

\* The store fails under handleRevoke
LEMMA RevokeErrorStep ==
    ASSUME IInv, NEW r \in Requests, RevokeError(r)
    PROVE  IInv' /\ Remembered
<1>1. /\ job[r].pc \in {"revoke", "retire"} /\ job[r].role = "revoke"
      /\ UNCHANGED <<live, local, flow, space>> /\ Set(r, NextRecord(job[r], TRUE))
  BY DEF RevokeError, At
<1>2. /\ Remembers(r) /\ vault' \in [RecordNames -> RecordType]
      /\ \A n \in RecordNames : vault'[n] \in {vault[n], Absent}
  <2>1. CASE vault' = vault
    BY <1>1, <2>1 DEF Remembers, IInv, TypeOK
  <2>2. CASE At(r, "retire") /\ job[r].todo = {} /\ vault' \in {vault, Deleted(job[r])}
    BY <1>1, <2>2, DeletedOK DEF At
  <2> QED
    BY <2>1, <2>2 DEF RevokeError
<1>3. /\ job' \in [Requests -> JobType] /\ Others(r) /\ Keeps(r) /\ KeepsFlow(r)
      /\ Checked(r)' /\ JobOK(r)'
  BY <1>1, <1>2, NextRecordOK
<1> QED
  BY <1>1, <1>2, <1>3, DeleteStep

\* The record value that remembers session r as well
LEMMA ReplacementOK ==
    ASSUME IInv, NEW r \in Requests, job[r].pc = "swap"
    PROVE  LET next == Replacement(job[r].on, job[r].seen, r) IN
           /\ job[r].on \in RecordNames /\ job[r].role \in Issuing
           /\ next \in RecordType /\ RecordOK(job[r].on, next) /\ next.exists
           /\ Sessions(next) = Sessions(job[r].seen) \cup {r} /\ r \notin Sessions(job[r].seen)
           /\ \A s \in Sessions(job[r].seen) : Recorded(s, job[r].on)
           /\ next.active = IF job[r].on = "ready" THEN r ELSE None
           /\ job[r].on = "ready" => r \notin next.others
<1> DEFINE on == job[r].on
           seen == job[r].seen
           next == Replacement(on, seen, r)
<1>1. /\ on \in RecordNames /\ job[r].role \in Issuing /\ RecordOK(on, seen) /\ seen \in RecordType
      /\ \A s \in Sessions(seen) : Recorded(s, on)
      /\ Cardinality(next.others) <= maxRetired
  BY DEF IInv, JobOK, ShapeOK, SeenOK, PutOK, RecordOK
<1>2. r \notin Sessions(seen)
  BY <1>1 DEF Recorded, Unrecorded
<1>3. /\ Sessions(seen) = ({seen.active} \ {None}) \cup seen.others /\ Sessions(seen) \subseteq Requests
      /\ seen.others \subseteq Requests /\ None \notin Requests
      /\ on # "ready" => seen.active = None
  BY <1>1, SessionsType, BrokerAssumption DEF Sessions, RecordOK
<1>4. IsFiniteSet(next.others)
  BY <1>1, ReplacementFinite DEF RecordOK
<1>5. CASE on = "ready"
  <2>1. /\ next = Record(r, Sessions(seen) \ {r}) /\ next.active = r /\ next.exists
        /\ next.others = Sessions(seen)
    BY <1>2, <1>5 DEF Replacement, Record
  <2>2. next \in RecordType /\ Sessions(next) = Sessions(seen) \cup {r}
    BY <1>3, <2>1, Typing DEF Sessions
  <2>3. RecordOK(on, next)
    BY <1>1, <1>2, <1>3, <1>4, <1>5, <2>1, <2>2 DEF RecordOK
  <2> QED
    BY <1>1, <1>2, <1>5, <2>1, <2>2, <2>3
<1>6. CASE on # "ready"
  <2>1. /\ next = Record(None, seen.others \cup {r}) /\ next.active = None /\ next.exists
        /\ next.others = seen.others \cup {r}
    BY <1>6 DEF Replacement, Record
  <2>2. next \in RecordType /\ Sessions(next) = Sessions(seen) \cup {r}
    BY <1>3, <1>6, <2>1, Typing DEF Sessions
  <2>3. RecordOK(on, next)
    BY <1>1, <1>3, <1>4, <1>6, <2>1, <2>2 DEF RecordOK
  <2> QED
    BY <1>1, <1>2, <1>6, <2>1, <2>2, <2>3
<1> QED
  BY <1>5, <1>6

\* A step of a callback that records its session
LEMMA PutStep ==
    ASSUME IInv, NEW r \in Requests, job[r].pc = "swap", vault[job[r].on] = job[r].seen,
           vault' = [vault EXCEPT ![job[r].on] = Replacement(job[r].on, job[r].seen, r)],
           UNCHANGED <<live, local, flow, space>>, job' \in [Requests -> JobType], Others(r),
           Keeps(r), KeepsFlow(r), Checked(r)', JobOK(r)', job'[r].pc \notin Unrecorded,
           job'[r].role = job[r].role, job'[r].on = job[r].on
    PROVE  IInv' /\ Remembered
<1> DEFINE on == job[r].on
           next == Replacement(on, job[r].seen, r)
<1>1. /\ on \in RecordNames /\ job[r].role \in Issuing
      /\ next \in RecordType /\ RecordOK(on, next) /\ next.exists
      /\ Sessions(next) = Sessions(vault[on]) \cup {r}
      /\ \A s \in Sessions(vault[on]) : Recorded(s, on)
      /\ next.active = IF on = "ready" THEN r ELSE None
  BY ReplacementOK
<1>2. "swap" \in Unrecorded
  BY DEF Unrecorded
<1>3. vault' = [vault EXCEPT ![on] = next] /\ live' = live
  OBVIOUS
<1> HIDE DEF next, on
<1>8. next.active \in {vault[on].active, None} \/ (next.active = r /\ job[r].pc \in Unrecorded)
  BY <1>1, <1>2
<1>9. \A s \in Sessions(vault[on]) : s \in live => s \in Sessions(next)
  BY <1>1
<1>4. /\ Remembers(r) /\ vault' \in [RecordNames -> RecordType]
      /\ vault'[on] = next /\ \A m \in RecordNames \ {on} : vault'[m] = vault[m]
  BY <1>1, <1>3, <1>8, <1>9, RememberWrite
<1>5. VaultOK'
  <2> SUFFICES ASSUME NEW n \in RecordNames
               PROVE  RecordOK(n, vault'[n]) /\ \A s \in Sessions(vault'[n]) : Recorded(s, n)'
    BY DEF VaultOK
  <2>1. CASE n # on
    BY <1>4, <2>1, VaultFrame
  <2>2. CASE n = on
    <3>1. \A s \in Sessions(next) : s \in Requests /\ Recorded(s, n)'
      <4>1. Recorded(r, n)'
        BY <1>1, <2>2 DEF Recorded, on
      <4>2. \A s \in Sessions(vault[on]) : s \in Requests /\ Recorded(s, n)
        BY <1>1, <2>2, ReadOK
      <4> QED
        BY <1>1, <4>1, <4>2, RecordedStable
    <3> QED
      BY <1>1, <1>4, <2>2, <3>1
  <2> QED
    BY <2>1, <2>2
<1>6. FlowsEnd /\ Typed /\ Grants(r) /\ Settles /\ Spares
  BY <1>4 DEF FlowsEnd, Typed, IInv, TypeOK, Grants, Settles, Spares
<1>7. ActiveUntouched'
  <2>1. CASE on = "ready"
    <3>1. r \in live \cap local
      BY <2>1 DEF IInv, JobOK, PutOK, on
    <3> QED
      BY <1>1, <1>4, <2>1, <3>1 DEF ActiveUntouched
  <2>2. CASE on # "ready"
    <3>1. vault'["ready"] = vault["ready"]
      BY <1>4, <2>2 DEF RecordNames
    <3> QED
      BY <1>6, <3>1, ActiveFrame
  <2> QED
    BY <2>1, <2>2
<1> QED
  BY <1>4, <1>5, <1>6, <1>7, FlowFrame, SpaceFrame, StepOK

\* The compare-and-swap that records a callback's session
LEMMA PutSwapStep ==
    ASSUME IInv, NEW r \in Requests, PutSwap(r)
    PROVE  IInv' /\ Remembered
<1> DEFINE j == job[r]
           next == Replacement(j.on, j.seen, r)
           swapped == vault[j.on] = j.seen
<1>1. /\ TypeOK /\ JobOK(r) /\ job[r] \in JobType /\ j.pc = "swap"
      /\ UNCHANGED <<live, local, flow, space>>
      /\ FlowsEnd /\ flow' \in [Flows -> Stages]
  BY DEF IInv, TypeOK, PutSwap, At, FlowsEnd
<1>2. /\ j.on \in RecordNames /\ j.role \in Issuing /\ j.role # "revoke"
      /\ next \in RecordType /\ RecordOK(j.on, next) /\ next.exists
      /\ Sessions(next) = Sessions(j.seen) \cup {r} /\ r \notin Sessions(j.seen)
      /\ \A s \in Sessions(j.seen) : Recorded(s, j.on)
      /\ next.active = IF j.on = "ready" THEN r ELSE None
      /\ j.on = "ready" => r \notin next.others
  BY <1>1, ReplacementOK DEF Issuing
<1>3. CASE ~swapped
  <2>1. UNCHANGED vault
    BY <1>3 DEF PutSwap
  <2>2. CASE Set(r, [j EXCEPT !.pc = "unretained"])
    <3>1. "unretained" \in Plain /\ Goto(r, "unretained")
      BY <2>2 DEF Plain, Goto
    <3> QED
      BY <1>1, <2>1, <3>1, PlainGoto, QuietStep
  <2>3. CASE Set(r, [j EXCEPT !.pc = "put", !.tries = @ + 1, !.seen = Absent])
    <3> DEFINE tries == j.tries + 1
               new == [j EXCEPT !.pc = "put", !.tries = tries, !.seen = Absent]
    <3>1. tries \in Nat /\ Set(r, new)
      BY <1>1, <2>3 DEF JobType
    <3> HIDE DEF tries
    <3>2. /\ new \in JobType /\ new.pc = "put" /\ new.role = j.role /\ new.flow = j.flow
          /\ new.on = j.on /\ new.begun = j.begun
      BY <1>1, <3>1, Typing DEF JobType, Working
    <3> HIDE DEF new
    <3>3. job' \in [Requests -> JobType] /\ Others(r) /\ job'[r] = new
      BY <1>1, <3>1, <3>2, SetOK DEF Answers
    <3>4. Keeps(r) /\ KeepsFlow(r) /\ Checked(r)'
      BY <1>1, <1>2, <3>2, <3>3 DEF Keeps, KeepsFlow, Checked, Unrecorded, Pending
    <3>5. ShapeOK(job'[r]) /\ SessionOK(r)'
      BY <1>1, <1>2, <3>2, <3>3 DEF JobOK, ShapeOK, SessionOK, Pending, Browser, Issuing
    <3>6. job'[r].on = "ready" => r \in live' \cap local'
      BY <1>1, <3>2, <3>3 DEF JobOK, PutOK
    <3>7. JobOK(r)'
      BY <3>2, <3>3, <3>4, <3>5, <3>6, AheadOK
    <3> QED
      BY <1>1, <2>1, <3>3, <3>4, <3>7, QuietStep
  <2> QED
    BY <1>3, <2>2, <2>3 DEF PutSwap
<1>4. CASE swapped
  <2>1. vault' = [vault EXCEPT ![j.on] = next] /\ Set(r, PutDone(j, next))
    BY <1>4 DEF PutSwap
  <2>2. vault'[j.on] = next
    BY <1>1, <1>2, <2>1 DEF TypeOK
  <2>3. r \in Sessions(vault'[j.on])
    BY <1>2, <2>2
  <2>4. CASE j.on \in Queues
    <3> DEFINE new == [j EXCEPT !.pc = "clean", !.seen = Absent, !.tries = 0]
    <3>1. Set(r, new)
      BY <2>1, <2>4 DEF PutDone
    <3>2. /\ new \in JobType /\ new.pc = "clean" /\ new.role = j.role /\ new.flow = j.flow
          /\ new.on = j.on /\ new.begun = j.begun
      BY <1>1, Typing DEF JobType, Working
    <3> HIDE DEF new
    <3>3. job' \in [Requests -> JobType] /\ Others(r) /\ job'[r] = new
      BY <1>1, <3>1, <3>2, SetOK DEF Answers
    <3>4. Keeps(r) /\ KeepsFlow(r) /\ Checked(r)' /\ job'[r].pc \notin Unrecorded
      BY <1>1, <1>2, <3>2, <3>3 DEF Keeps, KeepsFlow, Checked, Unrecorded, Pending
    <3>5. ShapeOK(job'[r])
      BY <1>1, <1>2, <2>4, <3>2, <3>3 DEF JobOK, ShapeOK, Pending, Browser, Issuing
    <3>6. SessionOK(r)'
      BY <1>2, <2>3, <3>2, <3>3 DEF SessionOK
    <3>7. JobOK(r)'
      BY <3>2, <3>3, <3>4, <3>5, <3>6, AheadOK
    <3> QED
      BY <1>1, <1>4, <2>1, <3>2, <3>3, <3>4, <3>7, PutStep
  <2>5. CASE j.on \notin Queues /\ next.others = {}
    <3>1. Set(r, CleanDone(j))
      BY <2>1, <2>5 DEF PutDone
    <3>2. /\ job' \in [Requests -> JobType] /\ Others(r) /\ Keeps(r) /\ KeepsFlow(r)
          /\ Checked(r)' /\ JobOK(r)' /\ job'[r].on = j.on /\ job'[r].pc \notin Unrecorded
      BY <1>1, <1>2, <2>3, <3>1, CleanOverOK
    <3>3. job'[r].role = j.role
      <4> DEFINE d == CleanDone(j)
      <4>1. d \in JobType /\ d.role = j.role
        BY <1>1, <1>2, CleanDoneShape DEF Cleaners
      <4> HIDE DEF d
      <4> QED
        BY <1>1, <3>1, <4>1, SetOK DEF d
    <3> QED
      BY <1>1, <1>4, <2>1, <3>2, <3>3, PutStep
  <2>6. CASE j.on \notin Queues /\ next.others # {}
    <3> DEFINE k == [j EXCEPT !.tries = 0]
    <3>1. Set(r, Retiring(k, next, next.others))
      BY <2>1, <2>6 DEF PutDone
    <3>2. /\ k \in JobType /\ k.role = j.role /\ k.flow = j.flow /\ k.on = j.on
          /\ k.begun = j.begun /\ k.bad = j.bad
      BY <1>1 DEF JobType
    <3>3. Set(r, Retiring(k, next, IF j.role = "revoke" THEN Sessions(next) ELSE next.others))
      BY <1>2, <3>1
    <3>4. j.on = "ready"
      BY <1>2, <2>6 DEF RecordNames
    <3>5. vault'["ready"].active \notin next.others
      BY <1>2, <2>2, <3>4
    <3>6. \A s \in Sessions(next) \ {r} : Recorded(s, j.on)
      BY <1>2
    <3> HIDE DEF k, next
    <3>7. /\ job' \in [Requests -> JobType] /\ Others(r) /\ Keeps(r) /\ KeepsFlow(r)
          /\ Checked(r)' /\ JobOK(r)'
          /\ job'[r].on = job[r].on /\ job'[r].role = job[r].role /\ job'[r].pc = "retire"
      BY <1>1, <1>2, <2>3, <3>2, <3>3, <3>5, <3>6, RetiringOK
    <3>8. job'[r].pc \notin Unrecorded
      BY <3>7 DEF Unrecorded, Pending
    <3> QED
      BY <1>1, <1>4, <2>1, <3>7, <3>8, PutStep DEF next
  <2> QED
    BY <2>4, <2>5, <2>6
<1> QED
  BY <1>3, <1>4

\* The swap takes effect and yet returns an error
LEMMA PutErrorStep ==
    ASSUME IInv, NEW r \in Requests, PutError(r)
    PROVE  IInv' /\ Remembered
<1>1. "failed" \in Plain /\ "failed" \notin Unrecorded
  BY DEF Plain, Unrecorded, Pending
<1>2. /\ job' \in [Requests -> JobType] /\ Others(r) /\ Keeps(r) /\ KeepsFlow(r)
      /\ Checked(r)' /\ JobOK(r)'
      /\ job'[r].pc = "failed" /\ job'[r].role = job[r].role /\ job'[r].on = job[r].on
  BY <1>1, PlainGoto DEF PutError
<1> QED
  BY <1>1, <1>2, PutStep DEF PutError, At

-----------------------------------------------------------------------------
(* The invariant, and what follows from it.                                 *)

\* Before the first request there is nothing to rely on
LEMMA InitOK == Init => IInv
<1> SUFFICES ASSUME Init PROVE IInv
  OBVIOUS
<1>1. \A r \in Requests : job[r] = NoJob
  BY DEF Init
<1>2. /\ NoJob.pc = "idle" /\ NoJob.role = None /\ NoJob.flow = None /\ NoJob.begun = {}
      /\ None \notin Endpoints /\ None \notin Flows
  BY BrokerAssumption DEF NoJob
<1>3. TypeOK
  BY Typing DEF Init, TypeOK, Stages, Spaces
<1>4. FlowOK
  BY <1>1, <1>2 DEF FlowOK, SingleUse, Pending, Endpoints
<1>5. SpaceOK
  BY <1>1, <1>2 DEF Init, SpaceOK, Checked
<1>6. VaultOK
  <2>1. IsFiniteSet({}) /\ Cardinality({}) = 0
    BY FS_EmptySet
  <2>2. \A n \in RecordNames : RecordOK(n, Absent)
    BY <2>1, Typing, BrokerAssumption DEF RecordOK, Absent
  <2> QED
    BY <2>2, Typing DEF Init, VaultOK
<1>7. \A q \in Requests : JobOK(q)
  <2> SUFFICES ASSUME NEW q \in Requests PROVE JobOK(q)
    OBVIOUS
  <2>1. ShapeOK(job[q])
    BY <1>1, <1>2 DEF ShapeOK, Pending, Browser, Endpoints
  <2> QED
    BY <1>1, <1>2, <2>1 DEF Init, JobOK, SeenOK, RetireOK, PutOK, RevokeOK, SessionOK
<1>8. ActiveUntouched
  BY DEF Init, ActiveUntouched, Absent, RecordNames
<1> QED
  BY <1>3, <1>4, <1>5, <1>6, <1>7, <1>8 DEF IInv, Init

\* Every step preserves the invariant and drops no handle of a live session
LEMMA NextOK ==
    ASSUME IInv, [Next]_vars
    PROVE  IInv' /\ Remembered
<1>1. CASE UNCHANGED vars
  <2>1. UNCHANGED <<live, local, vault, flow, space, job>>
    BY <1>1 DEF vars
  <2>2. TypeOK' /\ FlowOK' /\ SpaceOK' /\ VaultOK' /\ ActiveUntouched' /\ live' \subseteq local'
    BY <2>1 DEF IInv, TypeOK, FlowOK, SingleUse, SpaceOK, Checked, VaultOK, Recorded, ActiveUntouched
  <2>3. \A q \in Requests : JobOK(q)'
    BY <2>1 DEF IInv, JobOK, SeenOK, RetireOK, PutOK, RevokeOK, SessionOK, Recorded
  <2> QED
    BY <2>1, <2>2, <2>3 DEF IInv, Remembered, Handles
<1>2. ASSUME NEW r \in Requests, StartBegin(r) \/ RevokeBegin(r) \/ Consume(r) \/ Fail(r)
      PROVE  IInv' /\ Remembered
  BY <1>2, StartBeginStep, RevokeBeginStep, ConsumeStep, FailStep
<1>3. ASSUME NEW r \in Requests, Handler(r)
      PROVE  IInv' /\ Remembered
  BY <1>3, CleanReadStep, RetireStep, CleanSwapStep, RevokeReadStep, RevokeDeleteStep,
     RevokeErrorStep, PutReadStep, PutSwapStep, PutErrorStep, FinishProvisioningStep,
     CreateSpaceStep, VerifyConfigStep, VerifyMembersStep, CleanupSessionStep, FinishSteadyStep,
     FinishRejectedStep, SaveFlowStep, CheckReadStep, CheckResumeStep, CheckAnswerStep
     DEF Handler
<1> QED
  BY <1>1, <1>2, <1>3, ExpireStep, OwnerStep DEF Next

\* The inductive invariant holds in every state the broker reaches
THEOREM BrokerInvariant == Spec => []IInv
<1>1. IInv /\ [Next]_vars => IInv'
  BY NextOK
<1> QED
  BY <1>1, InitOK, PTL DEF Spec

\* The broker's state has its types
THEOREM BrokerTypeCorrect == Spec => []TypeOK
<1>1. IInv => TypeOK
  BY DEF IInv
<1> QED
  BY <1>1, BrokerInvariant, PTL

\* No handler writes a record that validReadyRecord or validDiscardedRecord refuses
THEOREM RecordsStayValid == Spec => []RecordsValid
<1>1. IInv => RecordsValid
  BY DEF IInv, VaultOK, RecordOK, RecordsValid
<1> QED
  BY <1>1, BrokerInvariant, PTL

\* A record forgets a session only once the provider has revoked it
THEOREM HandlesKept == Spec => HandleKept
<1>1. IInv /\ [Next]_vars => [\A s \in Handles : s \in live' => s \in Handles']_vars
  BY NextOK DEF Remembered
<1> QED
  BY <1>1, BrokerInvariant, PTL DEF Spec, HandleKept

\* handleRevoke answers "revoked" only when all that was recorded is revoked
THEOREM RevocationComplete == Spec => []RevokeComplete
<1>1. IInv => RevokeComplete
  BY DEF IInv, JobOK, RevokeOK, RevokeComplete, At
<1> QED
  BY <1>1, BrokerInvariant, PTL

\* Without a revoke request nobody revokes the active session
THEOREM ActiveSurvives == Spec => []ActiveUntouched
<1>1. IInv => ActiveUntouched
  BY DEF IInv
<1> QED
  BY <1>1, BrokerInvariant, PTL

\* A callback that answered left the handle of its session in a record
THEOREM SessionsRetained == Spec => []Retained
<1>1. ASSUME IInv, NEW r \in Requests, r \in live,
             At(r, "installed") \/ (At(r, "rejected") /\ job[r].on # None)
      PROVE  r \in Handles
  <2>1. ShapeOK(job[r]) /\ SessionOK(r) /\ job[r] \in JobType
    BY <1>1 DEF IInv, JobOK, TypeOK
  <2>2. job[r].on \in RecordNames /\ job[r].on # None
    BY <1>1, <2>1, BrokerAssumption DEF JobType, ShapeOK, At
  <2>3. r \in Sessions(vault[job[r].on])
    BY <1>1, <2>1, <2>2 DEF ShapeOK, SessionOK, At
  <2> QED
    BY <2>2, <2>3 DEF Handles
<1>2. IInv => Retained
  BY <1>1 DEF Retained
<1> QED
  BY <1>2, BrokerInvariant, PTL

\* The steady stage begins with the exact space and without the creating grant
THEOREM StagesProvisioned == Spec => []ProvisionedExactly
<1>1. IInv => ProvisionedExactly
  BY DEF IInv, SpaceOK, JobOK, SessionOK, ProvisionedExactly
<1> QED
  BY <1>1, BrokerInvariant, PTL

\* Two requests never continue the same stage of the same flow
THEOREM FlowsSingleUse == Spec => []SingleUse
<1>1. IInv => SingleUse
  BY DEF IInv, FlowOK
<1> QED
  BY <1>1, BrokerInvariant, PTL

\* Every action of a request moves that request alone
LEMMA MovesOne ==
    ASSUME IInv, NEW r \in Requests, NEW q \in Requests, q # r,
           StartBegin(r) \/ RevokeBegin(r) \/ Consume(r) \/ Fail(r) \/ Handler(r)
    PROVE  job'[q] = job[q]
<1>1. job \in [Requests -> JobType]
  BY DEF IInv, TypeOK
<1>2. ASSUME NEW new, Set(r, new) PROVE job'[q] = job[q]
  BY <1>1, <1>2 DEF Set
<1>3. \E new : Set(r, new)
  <2>1. CASE StartBegin(r) \/ RevokeBegin(r) \/ Consume(r) \/ Fail(r)
    BY <2>1 DEF StartBegin, RevokeBegin, Consume, Fail, Goto
  <2>2. CASE CleanRead(r) \/ Retire(r) \/ CleanSwap(r) \/ RevokeRead(r) \/ RevokeDelete(r)
             \/ RevokeError(r)
    BY <2>2 DEF CleanRead, Retire, CleanSwap, RevokeRead, RevokeDelete, RevokeError
  <2>3. CASE PutRead(r) \/ PutSwap(r) \/ PutError(r)
    BY <2>3 DEF PutRead, PutSwap, PutError, Goto
  <2>4. CASE FinishProvisioning(r) \/ CreateSpace(r) \/ VerifyConfig(r) \/ VerifyMembers(r)
             \/ CleanupSession(r) \/ FinishSteady(r) \/ FinishRejected(r)
    BY <2>4 DEF FinishProvisioning, CreateSpace, VerifyConfig, VerifyMembers, CleanupSession,
                FinishSteady, FinishRejected, EnsureFails, Goto
  <2>5. CASE SaveFlow(r) \/ CheckRead(r) \/ CheckResume(r) \/ CheckAnswer(r)
    BY <2>5 DEF SaveFlow, CheckRead, CheckResume, CheckAnswer, Authorize, Reauthorize, Goto
  <2> QED
    BY <2>1, <2>2, <2>3, <2>4, <2>5 DEF Handler
<1> QED
  BY <1>2, <1>3

\* The record a revocation passes without error is gone
Drained(r) ==
    (/\ job[r].role = "revoke" /\ job[r].pc \in {"revoke", "retire"} /\ ~job'[r].bad
     /\ job'[r].on # job[r].on \/ job'[r].pc = "revoked")
    => ~vault'[job[r].on].exists

\* A revocation that goes on from a record it could not finish says so
LEMMA NextRecordDrains ==
    ASSUME IInv, NEW r \in Requests, NEW bad \in BOOLEAN, Set(r, NextRecord(job[r], bad)),
           job[r].on \in RecordNames, ~bad => ~vault'[job[r].on].exists
    PROVE  Drained(r)
<1> DEFINE new == NextRecord(job[r], bad)
<1>1. TypeOK /\ job[r] \in JobType
  BY DEF IInv, TypeOK
<1>2. /\ new \in JobType
      /\ new.bad = (job[r].bad \/ bad) /\ new.on = IF job[r].on = "ready" THEN "steady" ELSE "provisioning"
      /\ new.pc = IF job[r].on # "provisioning" THEN "revoke"
                  ELSE IF job[r].bad \/ bad THEN "incomplete" ELSE "revoked"
  BY <1>1, NextRecordShape
<1>3. Set(r, new)
  OBVIOUS
<1> HIDE DEF new
<1>4. /\ job'[r].pc = new.pc /\ job'[r].on = new.on
      /\ new.pc \notin Answers => job'[r] = new
  BY <1>1, <1>2, <1>3, SetOK
<1>5. CASE bad
  <2>1. new.bad /\ new.pc # "revoked"
    BY <1>2, <1>5
  <2>2. job[r].on # "provisioning" => job'[r].bad
    BY <1>2, <1>4, <2>1 DEF Answers
  <2>3. job[r].on = "provisioning" => job'[r].on = job[r].on
    BY <1>2, <1>4
  <2> QED
    BY <1>4, <2>1, <2>2, <2>3 DEF Drained
<1>6. CASE ~bad
  BY <1>6 DEF Drained
<1> QED
  BY <1>5, <1>6

\* A request that stays with its record and does not report passes none
LEMMA StaysDrained ==
    ASSUME NEW r \in Requests, job'[r].on = job[r].on, job'[r].pc # "revoked"
    PROVE  Drained(r)
  BY DEF Drained

\* A step of the revocation passes a record without error only when it is gone
LEMMA StepDrains ==
    ASSUME IInv, [Next]_vars, NEW r \in Requests
    PROVE  Drained(r)
<1> SUFFICES ASSUME job[r].role = "revoke", job[r].pc \in {"revoke", "retire"}
             PROVE  Drained(r)
  BY DEF Drained
<1>1. JobOK(r) /\ ShapeOK(job[r]) /\ job[r].on \in RecordNames /\ job[r] \in JobType /\ TypeOK
  BY DEF IInv, JobOK, ShapeOK, TypeOK
<1>2. CASE job'[r] = job[r]
  BY <1>2, StaysDrained
<1>3. CASE Retire(r)
  <2>1. PICK todo \in SUBSET Requests, kept \in SUBSET Requests :
          Set(r, [job[r] EXCEPT !.todo = todo, !.kept = kept])
    <3>1. PICK s \in job[r].todo :
            \/ Set(r, [job[r] EXCEPT !.todo = @ \ {s}])
            \/ Set(r, [[job[r] EXCEPT !.todo = @ \ {s}] EXCEPT !.kept = @ \cup {s}])
      BY <1>3 DEF Retire
    <3>2. /\ [job[r] EXCEPT !.todo = @ \ {s}]
                = [job[r] EXCEPT !.todo = job[r].todo \ {s}, !.kept = job[r].kept]
          /\ [[job[r] EXCEPT !.todo = @ \ {s}] EXCEPT !.kept = @ \cup {s}]
                = [job[r] EXCEPT !.todo = job[r].todo \ {s}, !.kept = job[r].kept \cup {s}]
          /\ job[r].todo \ {s} \in SUBSET Requests /\ job[r].kept \in SUBSET Requests
          /\ job[r].kept \cup {s} \in SUBSET Requests
      BY <1>1 DEF JobType
    <3> QED
      BY <3>1, <3>2
  <2> DEFINE new == [job[r] EXCEPT !.todo = todo, !.kept = kept]
  <2>2. new \in JobType /\ new.on = job[r].on /\ new.pc = job[r].pc
    BY <1>1 DEF JobType
  <2>3. Set(r, new)
    BY <2>1
  <2> HIDE DEF new
  <2>4. job'[r].on = job[r].on /\ job'[r].pc = job[r].pc
    BY <1>1, <2>2, <2>3, SetOK
  <2> QED
    BY <2>4, StaysDrained
<1>4. CASE RevokeRead(r)
  <2>1. vault' = vault
    BY <1>4 DEF RevokeRead
  <2>2. CASE vault[job[r].on].exists
    <3> DEFINE rec == vault[job[r].on]
               new == Retiring(job[r], rec, Sessions(rec))
    <3>1. Set(r, new)
      BY <1>4, <2>2 DEF RevokeRead
    <3>2. rec \in RecordType /\ Sessions(rec) \subseteq Requests
      BY <1>1, ReadOK
    <3>3. new \in JobType /\ new.on = job[r].on /\ new.pc = "retire"
      BY <1>1, <3>2 DEF Retiring, JobType, Working
    <3> HIDE DEF new
    <3>4. job'[r].on = job[r].on /\ job'[r].pc = "retire"
      BY <1>1, <3>1, <3>3, SetOK
    <3> QED
      BY <3>4, StaysDrained
  <2>3. CASE ~vault[job[r].on].exists
    <3>1. Set(r, NextRecord(job[r], FALSE))
      BY <1>4, <2>3 DEF RevokeRead
    <3> QED
      BY <1>1, <2>1, <2>3, <3>1, NextRecordDrains
  <2> QED
    BY <2>2, <2>3
<1>5. CASE RevokeDelete(r)
  <2> DEFINE j == job[r]
  <2>1. CASE Set(r, NextRecord(j, TRUE))
    BY <1>1, <2>1, NextRecordDrains
  <2>2. CASE j.kept = {} /\ vault[j.on] = j.seen /\ Set(r, NextRecord(j, FALSE))
    <3>1. vault' = Deleted(j) /\ live' = live /\ j.pc = "retire" /\ j.todo = {} /\ j.role = "revoke"
      BY <1>5 DEF RevokeDelete, At
    <3>2. vault'[j.on] = Absent
      BY <2>2, <3>1, DeletedOK
    <3>3. ~vault'[j.on].exists
      BY <3>2 DEF Absent
    <3> QED
      BY <1>1, <2>2, <3>3, NextRecordDrains
  <2>3. CASE Set(r, [j EXCEPT !.pc = "revoke", !.tries = @ + 1, !.seen = Absent])
    <3> DEFINE tries == j.tries + 1
               new == [j EXCEPT !.pc = "revoke", !.tries = tries, !.seen = Absent]
    <3>1. tries \in Nat /\ Set(r, new)
      BY <1>1, <2>3 DEF JobType
    <3> HIDE DEF tries
    <3>2. new \in JobType /\ new.pc = "revoke" /\ new.on = j.on
      BY <1>1, <3>1, Typing DEF JobType, Working
    <3> HIDE DEF new
    <3>3. job'[r].on = job[r].on /\ job'[r].pc = "revoke"
      BY <1>1, <3>1, <3>2, SetOK
    <3> QED
      BY <3>3, StaysDrained
  <2> QED
    BY <1>5, <2>1, <2>2, <2>3 DEF RevokeDelete
<1>6. CASE RevokeError(r)
  BY <1>1, <1>6, NextRecordDrains DEF RevokeError
<1>7. CASE Fail(r)
  <2>1. "failed" \in Plain
    BY DEF Plain
  <2>2. job'[r].on = job[r].on /\ job'[r].pc = "failed"
    BY <1>7, <2>1, PlainGoto DEF Fail
  <2> QED
    BY <2>2, StaysDrained
<1>8. ASSUME NEW q \in Requests,
             StartBegin(q) \/ RevokeBegin(q) \/ Consume(q) \/ Fail(q) \/ Handler(q)
      PROVE  Drained(r)
  <2>1. CASE q # r
    BY <1>2, <1>8, <2>1, MovesOne
  <2>2. CASE q = r
    <3>1. ~(StartBegin(r) \/ RevokeBegin(r) \/ Consume(r))
      BY DEF StartBegin, RevokeBegin, Consume, At
    <3>2. ~(CleanRead(r) \/ CleanSwap(r) \/ PutRead(r) \/ PutSwap(r) \/ PutError(r))
      BY DEF CleanRead, CleanSwap, PutRead, PutSwap, PutError, At
    <3>3. ~(FinishProvisioning(r) \/ CreateSpace(r) \/ VerifyConfig(r) \/ VerifyMembers(r)
            \/ CleanupSession(r) \/ FinishSteady(r) \/ FinishRejected(r))
      BY DEF FinishProvisioning, CreateSpace, VerifyConfig, VerifyMembers, CleanupSession,
             FinishSteady, FinishRejected, At
    <3>4. ~(SaveFlow(r) \/ CheckRead(r) \/ CheckResume(r) \/ CheckAnswer(r))
      BY DEF SaveFlow, CheckRead, CheckResume, CheckAnswer, At
    <3> QED
      BY <1>3, <1>4, <1>5, <1>6, <1>7, <1>8, <2>2, <3>1, <3>2, <3>3, <3>4 DEF Handler
  <2> QED
    BY <2>1, <2>2
<1>9. CASE UNCHANGED vars \/ (\E f \in Flows : Expire(f)) \/ OwnerChanges
  <2>1. job' = job
    BY <1>9 DEF vars, Expire, OwnerChanges
  <2> QED
    BY <1>2, <2>1
<1> QED
  BY <1>8, <1>9 DEF Next

\* handleRevoke passes over a record without error only when the record is gone
THEOREM RevocationDrains == Spec => RevokeDrains
<1>1. IInv /\ [Next]_vars => \A r \in Requests : Drained(r)
  BY StepDrains
<1>2. (\A r \in Requests : Drained(r)) =>
        [\A r \in Requests :
            LET j == job[r] IN
            /\ j.role = "revoke" /\ j.pc \in {"revoke", "retire"} /\ ~job'[r].bad
            /\ job'[r].on # j.on \/ job'[r].pc = "revoked"
            => ~vault'[j.on].exists]_vars
  BY DEF Drained
<1> QED
  BY <1>1, <1>2, BrokerInvariant, PTL DEF Spec, RevokeDrains

=============================================================================
