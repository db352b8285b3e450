---------------------------- MODULE SnapshotProofs ----------------------------
(***************************************************************************)
(* Proofs about VmSnapshots: the table of a machine's snapshots stays a    *)
(* forest, and while nothing went wrong in the open the XML files are      *)
(* closed under the parents they name and go with the machine; for any     *)
(* names of snapshots and any bounds.                                      *)
(***************************************************************************)
EXTENDS VmSnapshots, SequenceTheorems, FiniteSetTheorems, TLAPS

-----------------------------------------------------------------------------
(* The table *)

\* The table: no trace of a snapshot without a row, at most one is current, and
\* every set of snapshots has one whose parent is not in it.
TableOK ==
  /\ rows \in [Snaps -> Rows]
  /\ \A s \in Snaps \ Existing : rows[s] = NoRow
  /\ \A s, t \in Current : s = t
  /\ \A s \in Existing : rows[s].parent \in Existing \cup {NoSnap}
  /\ \A S \in SUBSET Existing : S # {} => \E s \in S : rows[s].parent \notin S

\* The snapshot a deletion is at, and those the deletion of the machine will come
\* to, have rows.
SubjectOK ==
  /\ job.left \subseteq Existing
  /\ job.left # {} => job.op = "_delete_vm"
  /\ job.op \in {"_delete_snapshot", "_delete_vm"} /\ job.pc = "domain" =>
       job.snap \in Existing \ job.left

LEMMA NoRowIs ==
  /\ NoRow \in Rows
  /\ NoRow.status = "none" /\ NoRow.parent = NoSnap /\ NoRow.current = FALSE
BY DEF NoRow, Rows, SnapshotStatus, Parents

LEMMA NoRowFields ==
  ASSUME NEW r \in Rows, r.status = "none", r.parent = NoSnap, ~r.current
  PROVE  r = NoRow
BY DEF Rows, NoRow

\* What leaves the parents alone and makes at most one snapshot current.
LEMMA ParentsKept ==
  ASSUME TableOK, rows' \in [Snaps -> Rows], Existing' = Existing,
         \A s \in Existing : rows'[s].parent = rows[s].parent,
         \A s \in Snaps \ Existing : rows'[s] = rows[s],
         \A s, t \in Existing : rows'[s].current /\ rows'[t].current => s = t
  PROVE  TableOK'
<1>1. \A s, t \in Current' : s = t
  BY DEF Current
<1>2. \A s \in Snaps \ Existing' : rows'[s] = NoRow'
  BY DEF TableOK, NoRow
<1>3. \A s \in Existing' : rows'[s].parent \in Existing' \cup {NoSnap}
  BY DEF TableOK
<1>4. \A S \in SUBSET Existing' : S # {} => \E s \in S : rows'[s].parent \notin S
  BY DEF TableOK
<1> QED BY <1>1, <1>2, <1>3, <1>4 DEF TableOK, Rows, SnapshotStatus, Parents

\* A deletion hands the children to the parent of the snapshot.  A set without it
\* has one whose parent is outside, with the snapshot or without it.
LEMMA DeletedForest ==
  ASSUME TableOK, NEW s \in Snaps, rows' = Deleted(s)
  PROVE  TableOK'
<1>1. /\ rows'[s] = NoRow
      /\ \A t \in Snaps \ {s} : rows'[t] =
           IF t \in Existing /\ rows[t].parent = s
           THEN [rows[t] EXCEPT !.parent = rows[s].parent] ELSE rows[t]
  BY DEF Deleted, Children
<1>0. rows \in [Snaps -> Rows]
  BY DEF TableOK
<1>2. ASSUME NEW t \in Snaps \ {s}
      PROVE  /\ rows'[t] \in Rows
             /\ rows'[t].status = rows[t].status
             /\ rows'[t].current = rows[t].current
             /\ rows'[t].parent = IF t \in Existing /\ rows[t].parent = s
                                       THEN rows[s].parent ELSE rows[t].parent
             /\ t \notin Existing => rows'[t] = rows[t]
  <2>1. PICK r \in Rows : r = rows[t]
    BY <1>0
  <2>2. PICK p \in Parents : p = rows[s].parent
    BY <1>0 DEF Rows
  <2>3. /\ [r EXCEPT !.parent = p] \in Rows
        /\ [r EXCEPT !.parent = p].status = r.status
        /\ [r EXCEPT !.parent = p].current = r.current
        /\ [r EXCEPT !.parent = p].parent = p
    BY DEF Rows
  <2>4. rows'[t] = IF t \in Existing /\ rows[t].parent = s
                   THEN [r EXCEPT !.parent = p] ELSE r
    BY <1>1, <2>1, <2>2
  <2> QED BY <2>1, <2>2, <2>3, <2>4
<1>3. rows' \in [Snaps -> Rows]
  <2>1. rows' = [t \in Snaps |-> rows'[t]]
    BY DEF Deleted
  <2> QED BY <1>1, <1>2, <2>1, NoRowIs
<1>4. Existing' = Existing \ {s}
  BY <1>1, <1>2, NoRowIs DEF Existing
<1>5. \A t \in Snaps \ Existing' : rows'[t] = NoRow
  BY <1>1, <1>2, <1>4 DEF TableOK
<1>6. \A t, u \in Current' : t = u
  BY <1>2, <1>4 DEF TableOK, Current, Existing
<1>7. rows[s].parent # s
  <2>1. CASE s \in Existing
    <3>1. {s} \in SUBSET Existing /\ {s} # {}
      BY <2>1
    <3>2. \E t \in {s} : rows[t].parent \notin {s}
      BY <3>1 DEF TableOK
    <3> QED BY <3>2
  <2>2. CASE s \notin Existing
    BY <2>2, NoRowIs, SnapshotAssumption DEF TableOK
  <2> QED BY <2>1, <2>2
<1>8. rows[s].parent \in (Existing \ {s}) \cup {NoSnap}
  BY <1>7, NoRowIs DEF TableOK
<1>9. \A t \in Existing' : rows'[t].parent \in Existing' \cup {NoSnap}
  BY <1>2, <1>4, <1>8 DEF TableOK, Existing
<1>10. ASSUME NEW S \in SUBSET Existing', S # {}
       PROVE  \E t \in S : rows'[t].parent \notin S
  <2>1. S \subseteq Existing /\ s \notin S
    BY <1>4
  <2>2. PICK t \in S : rows[t].parent \notin S
    BY <1>10, <2>1 DEF TableOK
  <2>3. CASE rows[t].parent # s
    BY <1>2, <2>1, <2>2, <2>3 DEF Existing
  <2>4. CASE rows[t].parent = s
    <3>1. s \in Existing
      BY <2>1, <2>2, <2>4, SnapshotAssumption DEF TableOK
    <3>2. PICK u \in S \cup {s} : rows[u].parent \notin S \cup {s}
      <4>1. S \cup {s} \in SUBSET Existing /\ S \cup {s} # {}
        BY <2>1, <3>1
      <4> QED BY <4>1 DEF TableOK
    <3>3. CASE u = s
      BY <1>2, <2>1, <2>2, <2>4, <3>2, <3>3 DEF Existing
    <3>4. CASE u # s
      BY <1>2, <2>1, <3>2, <3>4 DEF Existing
    <3> QED BY <3>3, <3>4
  <2> QED BY <2>3, <2>4
<1>11. NoRow' = NoRow
  BY DEF NoRow
<1>12. rows' \in [Snaps -> Rows']
  BY <1>3 DEF Rows, SnapshotStatus, Parents
<1> QED BY <1>5, <1>6, <1>9, <1>10, <1>11, <1>12 DEF TableOK

LEMMA TableFrames ==
  ASSUME [Next]_(vars)
  PROVE  \/ UNCHANGED rows
         \/ \E s \in Snaps : CreateSnapshot(s) \/ RevertSnapshot(s) \/ DeleteSnapshot(s)
         \/ DeleteFinish \/ StartFinish \/ DeleteVmNext \/ MonitorWrite
BY DEF Next, vars, ApiRequest, ApiCreate, ApiRevert, ApiDelete,
       HandlerStep, MonitorStep, StartVm, ShutOffVm, DeleteVm, AckCast,
       CreateCast, RevertCast, PassOn, DeleteCall, ShutOffFinish,
       DeleteVmStart, MonitorRead, DomainExecute, DomainCrash,
       ServiceTimeout, ServiceCrash

LEMMA CurrentOf ==
  ASSUME rows \in [Snaps -> Rows], NEW S, NEW t \in Snaps
  PROVE  /\ WithCurrent(S)[t] \in Rows
         /\ WithCurrent(S)[t].status = rows[t].status
         /\ WithCurrent(S)[t].parent = rows[t].parent
         /\ WithCurrent(S)[t].current <=> t \in S
<1>1. PICK c \in BOOLEAN : c = (t \in S)
  <2>1. t \in S => TRUE = (t \in S)
    OBVIOUS
  <2>2. t \notin S => FALSE = (t \in S)
    OBVIOUS
  <2> QED BY <2>1, <2>2, Zenon
<1>2. WithCurrent(S)[t] = [rows[t] EXCEPT !.current = c]
  BY <1>1, Zenon DEF WithCurrent
<1>3. c <=> t \in S
  BY <1>1, Zenon
<1>4. PICK r \in Rows : r = rows[t]
  OBVIOUS
<1>5. PICK q : q = [r EXCEPT !.current = c]
  OBVIOUS
<1>6. q \in Rows /\ q.status = r.status /\ q.parent = r.parent /\ q.current = c
  BY <1>4, <1>5 DEF Rows
<1>7. WithCurrent(S)[t] = q
  BY <1>2, <1>4, <1>5
<1> QED BY <1>3, <1>4, <1>6, <1>7, Zenon

LEMMA CreatedForest ==
  ASSUME TableOK, NEW s \in Snaps, CreateSnapshot(s)
  PROVE  TableOK'
<1>0. rows \in [Snaps -> Rows] /\ s \notin Existing
  BY DEF TableOK, CreateSnapshot
<1>1. PICK p \in Existing \cup {NoSnap} :
        rows' = [WithCurrent({}) EXCEPT
                        ![s] = [status |-> "creating", parent |-> p, current |-> FALSE]]
  <2> DEFINE q == IF Current = {} THEN NoSnap ELSE CHOOSE c \in Current : TRUE
  <2>1. q \in Existing \cup {NoSnap}
    BY DEF Current
  <2>2. rows' = [WithCurrent({}) EXCEPT
                        ![s] = [status |-> "creating", parent |-> q, current |-> FALSE]]
    BY DEF CreateSnapshot
  <2> QED BY <2>1, <2>2
<1>2. rows'[s] = [status |-> "creating", parent |-> p, current |-> FALSE]
  BY <1>0, <1>1 DEF WithCurrent
<1>3. rows'[s] \in Rows /\ rows'[s].status = "creating" /\ rows'[s].parent = p
      /\ rows'[s].current = FALSE
  BY <1>2 DEF Existing, Rows, SnapshotStatus, Parents
<1>4. ASSUME NEW t \in Snaps \ {s}
      PROVE  /\ rows'[t] \in Rows /\ rows'[t].status = rows[t].status
             /\ rows'[t].parent = rows[t].parent /\ ~rows'[t].current
  <2>1. rows'[t] = WithCurrent({})[t]
    BY <1>1 DEF WithCurrent
  <2> QED BY <1>0, <2>1, CurrentOf
<1>5. rows' \in [Snaps -> Rows]
  <2>1. rows' = [t \in Snaps |-> rows'[t]]
    BY <1>1 DEF WithCurrent
  <2> QED BY <1>3, <1>4, <2>1
<1>6. Existing' = Existing \cup {s}
  BY <1>3, <1>4 DEF Existing
<1>7. \A t \in Snaps \ Existing' : rows'[t] = NoRow
  <2> SUFFICES ASSUME NEW t \in Snaps \ Existing' PROVE rows'[t] = NoRow
    OBVIOUS
  <2>1. t # s /\ rows[t] = NoRow
    BY <1>6 DEF TableOK
  <2> QED BY <1>4, <2>1, NoRowIs, NoRowFields
<1>8. \A t, u \in Current' : t = u
  BY <1>3, <1>4 DEF Current, Existing
<1>9. \A t \in Existing' : rows'[t].parent \in Existing' \cup {NoSnap}
  BY <1>3, <1>4, <1>6 DEF TableOK, Existing
<1>10. ASSUME NEW S \in SUBSET Existing', S # {}
       PROVE  \E t \in S : rows'[t].parent \notin S
  <2>1. CASE S = {s}
    BY <1>0, <1>3, <2>1, SnapshotAssumption
  <2>2. CASE S # {s}
    <3>1. S \ {s} \in SUBSET Existing /\ S \ {s} # {}
      BY <1>6, <1>10, <2>2
    <3>2. PICK t \in S \ {s} : rows[t].parent \notin S \ {s}
      BY <3>1 DEF TableOK
    <3>3. rows[t].parent # s /\ t \in Snaps
      BY <1>0, <3>1, <3>2, SnapshotAssumption DEF TableOK, Existing
    <3> QED BY <1>4, <3>2, <3>3
  <2> QED BY <2>1, <2>2
<1>11. NoRow' = NoRow
  BY DEF NoRow
<1>12. rows' \in [Snaps -> Rows']
  BY <1>5 DEF Rows, SnapshotStatus, Parents
<1> QED BY <1>7, <1>8, <1>9, <1>10, <1>11, <1>12 DEF TableOK

LEMMA TableStep ==
  ASSUME TableOK, SubjectOK, TypeOK, [Next]_(vars)
  PROVE  TableOK'
<1>0. /\ rows \in [Snaps -> Rows] /\ job.left \subseteq Snaps /\ mon.cur \in Snaps \cup {NoSnap}
      /\ \A s \in Existing : rows[s].current => s \in Current
      /\ Existing \subseteq Snaps
  BY DEF TableOK, TypeOK, Jobs, Monitors, Current, Parents, Existing
<1>1. CASE UNCHANGED rows
  BY <1>0, <1>1, ParentsKept DEF Existing, TableOK
<1>2. ASSUME NEW s \in Snaps, CreateSnapshot(s) PROVE TableOK'
  BY <1>2, CreatedForest
<1>3. ASSUME NEW s \in Snaps, RevertSnapshot(s) PROVE TableOK'
  <2>1. s \in Existing
    BY <1>3 DEF RevertSnapshot, StatusIn, Existing
  <2>2. rows' = [WithCurrent({s}) EXCEPT ![s].status = "reverting"]
    BY <1>3 DEF RevertSnapshot
  <2>3. ASSUME NEW t \in Snaps
        PROVE  /\ rows'[t] \in Rows /\ rows'[t].parent = rows[t].parent
               /\ rows'[t].current <=> t = s
               /\ rows'[t].status = IF t = s THEN "reverting" ELSE rows[t].status
    <3>1. PICK r \in Rows : r = WithCurrent({s})[t]
      BY <1>0, CurrentOf
    <3>2. r.parent = rows[t].parent /\ (r.current <=> t = s) /\ r.status = rows[t].status
      BY <1>0, <3>1, CurrentOf
    <3>3. rows'[t] = IF t = s THEN [r EXCEPT !.status = "reverting"] ELSE r
      BY <2>2, <3>1 DEF WithCurrent
    <3>4. PICK q : q = [r EXCEPT !.status = "reverting"]
      OBVIOUS
    <3>5. q \in Rows /\ q.parent = r.parent /\ q.current = r.current /\ q.status = "reverting"
      BY <3>4 DEF Rows, SnapshotStatus
    <3>6. rows'[t] = IF t = s THEN q ELSE r
      BY <3>3, <3>4
    <3> QED BY <3>2, <3>5, <3>6, Zenon
  <2>4. rows' \in [Snaps -> Rows]
    <3>1. rows' = [t \in Snaps |-> rows'[t]]
      BY <2>2 DEF WithCurrent
    <3> QED BY <2>3, <3>1
  <2>5. Existing' = Existing
    BY <2>1, <2>3 DEF Existing
  <2>6. \A t \in Snaps \ Existing : rows'[t] = rows[t]
    <3> SUFFICES ASSUME NEW t \in Snaps \ Existing PROVE rows'[t] = rows[t]
      OBVIOUS
    <3>1. t # s /\ rows[t] = NoRow
      BY <2>1 DEF TableOK
    <3> QED BY <2>3, <3>1, NoRowIs, NoRowFields
  <2> QED BY <1>0, <2>3, <2>4, <2>5, <2>6, ParentsKept
<1>4. ASSUME NEW s \in Existing, NEW status \in SnapshotStatus,
             rows' = [rows EXCEPT ![s].status = status]
      PROVE  TableOK'
  <2>1. ASSUME NEW t \in Snaps
        PROVE  /\ rows'[t] \in Rows /\ rows'[t].parent = rows[t].parent
               /\ rows'[t].current = rows[t].current
               /\ t # s => rows'[t] = rows[t]
               /\ rows'[t].status = IF t = s THEN status ELSE rows[t].status
    BY <1>0, <1>4 DEF Rows
  <2>2. rows' \in [Snaps -> Rows]
    <3>1. rows' = [t \in Snaps |-> rows'[t]]
      BY <1>0, <1>4
    <3> QED BY <2>1, <3>1
  <2>3. Existing' = Existing
    BY <2>1 DEF Existing, SnapshotStatus
  <2> QED BY <1>0, <2>1, <2>2, <2>3, ParentsKept DEF TableOK
<1>5. CASE DeleteFinish
  <2>1. job.snap \in Existing
    BY <1>5 DEF DeleteFinish, SubjectOK
  <2>2. \/ rows' = Deleted(job.snap)
        \/ rows' = [rows EXCEPT ![job.snap].status = "error"]
        \/ UNCHANGED rows
    BY <1>5 DEF DeleteFinish
  <2> QED BY <1>0, <1>1, <1>4, <2>1, <2>2, DeletedForest DEF SnapshotStatus
<1>6. CASE StartFinish
  <2>1. CASE rows' = [s \in Snaps |-> IF s \in reply.names \cap Existing
                                           THEN [rows[s] EXCEPT !.status = "creating"] ELSE rows[s]]
    <3>1. ASSUME NEW t \in Snaps
          PROVE  /\ rows'[t] \in Rows /\ rows'[t].parent = rows[t].parent
                 /\ rows'[t].current = rows[t].current
                 /\ t \notin Existing => rows'[t] = rows[t]
                 /\ t \in Existing => rows'[t].status \in {"creating", rows[t].status}
      <4>1. \/ rows'[t] = rows[t]
            \/ t \in Existing /\ rows'[t] = [rows[t] EXCEPT !.status = "creating"]
        BY <2>1
      <4> QED BY <1>0, <4>1 DEF Rows, SnapshotStatus
    <3>2. rows' \in [Snaps -> Rows]
      <4>1. rows' = [t \in Snaps |-> rows'[t]]
        BY <2>1
      <4> QED BY <3>1, <4>1
    <3>3. Existing' = Existing
      BY <3>1 DEF Existing
    <3> QED BY <1>0, <3>1, <3>2, <3>3, ParentsKept DEF TableOK
  <2>2. CASE UNCHANGED rows
    BY <1>1, <2>2
  <2> QED BY <1>6, <2>1, <2>2 DEF StartFinish
<1>7. CASE DeleteVmNext
  <2>1. CASE rows' = [s \in Snaps |-> NoRow]
    <3>1. Existing' = {}
      BY <2>1, NoRowIs DEF Existing
    <3>2. NoRow' = NoRow /\ NoRow \in Rows'
      BY NoRowIs DEF NoRow, Rows, SnapshotStatus, Parents
    <3> QED BY <2>1, <3>1, <3>2 DEF TableOK, Current
  <2>2. CASE \E s \in job.left : rows' = Deleted(s)
    BY <1>0, <2>2, DeletedForest
  <2> QED BY <1>1, <1>7, <2>1, <2>2 DEF DeleteVmNext
<1>8. ASSUME NEW s \in Snaps, DeleteSnapshot(s) PROVE TableOK'
  BY <1>4, <1>8, DeletedForest DEF DeleteSnapshot, SetStatus, SnapshotStatus, Existing
<1>9. CASE MonitorWrite
  <2>1. CASE rows' = [s \in Snaps |->
                             IF s \in Existing
                             THEN [rows[s] EXCEPT !.status = Seen(s), !.current = SeenCurrent(s)]
                             ELSE rows[s]]
    <3>1. ASSUME NEW t \in Existing PROVE Seen(t) \in SnapshotStatus
      <4>1. rows[t].status \in SnapshotStatus
        BY <1>0 DEF Existing, Rows
      <4> QED BY <4>1 DEF Seen, SnapshotStatus
    <3>0. ASSUME NEW t \in Existing PROVE SeenCurrent(t) \in BOOLEAN
      <4>1. rows[t].current \in BOOLEAN
        BY <1>0 DEF Rows
      <4> QED BY <4>1, Zenon DEF SeenCurrent
    <3>2. ASSUME NEW t \in Existing
          PROVE  /\ rows'[t] \in Rows /\ rows'[t].parent = rows[t].parent
                 /\ rows'[t].current = SeenCurrent(t)
                 /\ rows'[t].status = Seen(t)
      <4>1. PICK status \in SnapshotStatus, current \in BOOLEAN, r \in Rows :
              status = Seen(t) /\ current = SeenCurrent(t) /\ r = rows[t]
        BY <1>0, <3>0, <3>1
      <4>2. rows'[t] = [r EXCEPT !.status = status, !.current = current]
        BY <1>0, <2>1, <4>1
      <4>3. PICK q : q = [r EXCEPT !.status = status, !.current = current]
        OBVIOUS
      <4>4. q \in Rows /\ q.parent = r.parent /\ q.current = current /\ q.status = status
        BY <4>3 DEF Rows
      <4>5. rows'[t] = q
        BY <4>2, <4>3
      <4> QED BY <4>1, <4>4, <4>5
    <3>3. \A t \in Snaps \ Existing : rows'[t] = rows[t]
      BY <2>1
    <3>4. rows' \in [Snaps -> Rows]
      <4>1. rows' = [t \in Snaps |-> rows'[t]]
        BY <2>1
      <4> QED BY <1>0, <3>2, <3>3, <4>1
    <3>5. Existing' = Existing
      BY <3>1, <3>2, <3>3 DEF Existing, SnapshotStatus
    <3>6. \A t, u \in Existing : SeenCurrent(t) /\ SeenCurrent(u) => t = u
      BY <1>0 DEF SeenCurrent, TableOK
    <3> QED BY <3>2, <3>3, <3>4, <3>5, <3>6, ParentsKept
  <2>2. CASE UNCHANGED rows
    BY <1>1, <2>2
  <2> QED BY <1>9, <2>1, <2>2 DEF MonitorWrite
<1> QED BY <1>1, <1>2, <1>3, <1>5, <1>6, <1>7, <1>8, <1>9, TableFrames

\* The handlers of one snapshot, or of the machine.
LEMMA SnapJobs ==
  ASSUME NEW op \in CastOps \cup {"start_vm", "shut_off_vm"}, NEW s \in Snaps \cup {NoSnap},
         NEW pc \in {"start", "domain"}
  PROVE  /\ Job(op, s, pc) \in Jobs
         /\ Job(op, s, pc).op = op /\ Job(op, s, pc).snap = s
         /\ Job(op, s, pc).left = {} /\ Job(op, s, pc).pc = pc
BY DEF Job, Jobs, Parents, CastOps

LEMMA SnapIdle ==
  /\ NoJob \in Jobs /\ NoJob.op = "none" /\ NoJob.left = {}
  /\ NoJob.pc = "idle" /\ NoJob.snap = NoSnap
BY DEF NoJob, Jobs, Parents

LEMMA SnapEnds ==
  ASSUME job \in Jobs, Done
  PROVE  /\ job' \in Jobs
         /\ \/ job' = NoJob
            \/ job'.pc = "ack" /\ job'.op = job.op /\ job'.left = job.left
<1>1. PICK j \in Jobs : j = job
  OBVIOUS
<1>2. job' = [j EXCEPT !.pc = "ack"] \/ job' = NoJob
  BY <1>1 DEF Done
<1> QED BY <1>1, <1>2, SnapIdle DEF Jobs

LEMMA SnapJobFrames ==
  ASSUME [Next]_(vars)
  PROVE  \/ UNCHANGED job
         \/ StartVm \/ ShutOffVm \/ DeleteVm
         \/ \E s \in Snaps : CreateSnapshot(s) \/ RevertSnapshot(s) \/ DeleteSnapshot(s)
         \/ AckCast \/ CreateCast \/ RevertCast \/ DeleteCall \/ DeleteFinish
         \/ StartFinish \/ ShutOffFinish \/ DeleteVmStart \/ DeleteVmNext
         \/ ServiceCrash
BY DEF Next, vars, ApiRequest, ApiCreate, ApiRevert, ApiDelete,
       HandlerStep, MonitorStep, MonitorRead, MonitorWrite, DomainExecute,
       DomainCrash, ServiceTimeout

\* The rows that are there stay, but those a deletion is done with.
LEMMA RowsStay ==
  ASSUME TypeOK, [Next]_(vars), ~DeleteFinish, ~DeleteVmNext,
         \A s \in Snaps : ~DeleteSnapshot(s)
  PROVE  Existing \subseteq Existing'
<1>0. rows \in [Snaps -> Rows]
  BY DEF TypeOK
<1>1. SUFFICES ASSUME NEW t \in Snaps, rows[t].status # "none" PROVE rows'[t].status # "none"
  BY DEF Existing
<1>2. CASE UNCHANGED rows
  BY <1>1, <1>2
<1>3. ASSUME NEW s \in Snaps, CreateSnapshot(s) PROVE rows'[t].status # "none"
  <2>1. PICK p : rows' = [WithCurrent({}) EXCEPT
                                 ![s] = [status |-> "creating", parent |-> p, current |-> FALSE]]
    BY <1>3 DEF CreateSnapshot
  <2>2. \/ rows'[t] = [status |-> "creating", parent |-> p, current |-> FALSE]
        \/ rows'[t] = WithCurrent({})[t]
    BY <2>1 DEF WithCurrent
  <2> QED BY <1>0, <1>1, <2>1, <2>2, CurrentOf
<1>4. ASSUME NEW s \in Snaps, RevertSnapshot(s) PROVE rows'[t].status # "none"
  <2>1. PICK r \in Rows : r = WithCurrent({s})[t]
    BY <1>0, CurrentOf
  <2>2. r.status # "none"
    BY <1>0, <1>1, <2>1, CurrentOf
  <2>3. rows'[t] = r \/ rows'[t] = [r EXCEPT !.status = "reverting"]
    BY <1>4, <2>1 DEF RevertSnapshot, WithCurrent
  <2> QED BY <2>2, <2>3 DEF Rows
<1>5. CASE StartFinish
  <2>1. PICK r \in Rows : r = rows[t]
    BY <1>0
  <2>2. rows'[t] = r \/ rows'[t] = [r EXCEPT !.status = "creating"]
    BY <1>5, <2>1 DEF StartFinish
  <2> QED BY <1>1, <2>1, <2>2 DEF Rows
<1>6. CASE MonitorWrite
  <2>1. PICK r \in Rows : r = rows[t]
    BY <1>0
  <2>2. PICK status, current : status = Seen(t) /\ current = SeenCurrent(t)
    OBVIOUS
  <2>3. status # "none"
    BY <1>1, <2>2 DEF Seen
  <2>4. rows'[t] = r \/ rows'[t] = [r EXCEPT !.status = status, !.current = current]
    BY <1>6, <2>1, <2>2 DEF MonitorWrite
  <2> QED BY <1>1, <2>1, <2>3, <2>4 DEF Rows
<1> QED BY <1>2, <1>3, <1>4, <1>5, <1>6, TableFrames

\* One deletion takes one row.
LEMMA DeletedRows ==
  ASSUME TypeOK, NEW s, rows' = Deleted(s)
  PROVE  Existing \ {s} \subseteq Existing'
<1> SUFFICES ASSUME NEW t \in Existing \ {s} PROVE t \in Existing'
  OBVIOUS
<1>1. PICK r \in Rows : r = rows[t] /\ r.status # "none" /\ t \in Snaps
  BY DEF TypeOK, Existing
<1>2. PICK p : p = rows[s].parent
  OBVIOUS
<1>3. rows'[t] = r \/ rows'[t] = [r EXCEPT !.parent = p]
  BY <1>1, <1>2 DEF Deleted
<1> QED BY <1>1, <1>3 DEF Rows, Existing

LEMMA SubjectStep ==
  ASSUME TypeOK, SubjectOK, [Next]_(vars)
  PROVE  SubjectOK' /\ job' \in Jobs
<1>0. /\ job \in Jobs
      /\ job = NoJob => job.left = {}
      /\ rows \in [Snaps -> Rows]
  BY SnapIdle DEF TypeOK
<1>1. Existing \subseteq Existing' \/ DeleteFinish \/ DeleteVmNext
      \/ \E s \in Snaps : DeleteSnapshot(s)
  BY RowsStay
<1>2. CASE UNCHANGED job /\ ~DeleteFinish /\ ~DeleteVmNext
           /\ \A s \in Snaps : ~DeleteSnapshot(s)
  BY <1>0, <1>1, <1>2 DEF SubjectOK
<1>3. ASSUME NEW op \in CastOps \cup {"start_vm", "shut_off_vm"}, NEW s \in Snaps \cup {NoSnap},
             NEW pc \in {"start", "domain"}, job' = Job(op, s, pc),
             pc = "domain" => op \in {"start_vm", "shut_off_vm"}
      PROVE  SubjectOK' /\ job' \in Jobs
  BY <1>3, SnapJobs DEF SubjectOK
<1>4. CASE StartVm \/ ShutOffVm \/ DeleteVm
  BY <1>3, <1>4 DEF StartVm, ShutOffVm, DeleteVm, CastOps
<1>5. ASSUME NEW s \in Snaps, CreateSnapshot(s) \/ RevertSnapshot(s) PROVE SubjectOK' /\ job' \in Jobs
  BY <1>3, <1>5 DEF CreateSnapshot, RevertSnapshot, CastOps
<1>6. ASSUME NEW s \in Snaps, DeleteSnapshot(s) PROVE SubjectOK' /\ job' \in Jobs
  <2>1. job = NoJob /\ (UNCHANGED job \/ job' = Job("_delete_snapshot", s, "start"))
    BY <1>6 DEF DeleteSnapshot, Free
  <2>2. UNCHANGED job => SubjectOK' /\ job' \in Jobs
    BY <2>1, SnapIdle DEF SubjectOK
  <2> QED BY <1>3, <2>1, <2>2 DEF CastOps
<1>7. ASSUME Done, job.left \subseteq Existing' PROVE SubjectOK' /\ job' \in Jobs
  BY <1>0, <1>7, SnapEnds, SnapIdle DEF SubjectOK
<1>8. CASE AckCast
  BY <1>8, SnapIdle DEF AckCast, SubjectOK
<1>9. CASE CreateCast \/ RevertCast \/ StartFinish \/ ShutOffFinish
  <2>1. Done /\ ~DeleteFinish /\ ~DeleteVmNext /\ \A s \in Snaps : ~DeleteSnapshot(s)
    BY <1>9, SnapIdle DEF CreateCast, RevertCast, PassOn, StartFinish, ShutOffFinish,
       DeleteFinish, DeleteVmNext, DeleteSnapshot, Free
  <2>2. job.left \subseteq Existing'
    BY <1>1, <2>1 DEF SubjectOK
  <2> QED BY <1>7, <2>1, <2>2
<1>10. CASE DeleteCall
  <2>1. UNCHANGED rows
    BY <1>10 DEF DeleteCall
  <2>2. Existing' = Existing
    BY <2>1 DEF Existing
  <2>3. CASE Done
    BY <1>7, <2>2, <2>3 DEF SubjectOK
  <2>4. CASE job.snap \in Existing /\ job' = [job EXCEPT !.pc = "domain"]
    <3>1. job' \in Jobs /\ job'.left = {} /\ job'.snap = job.snap
      BY <1>0, <1>10, <2>4 DEF Jobs, DeleteCall, SubjectOK
    <3> QED BY <2>2, <2>4, <3>1 DEF SubjectOK
  <2> QED BY <1>10, <2>3, <2>4 DEF DeleteCall
<1>11. CASE DeleteFinish
  <2>1. /\ job.snap \in Existing \ job.left
        /\ \/ rows' = Deleted(job.snap)
           \/ rows' = [rows EXCEPT ![job.snap].status = "error"]
           \/ UNCHANGED rows
    BY <1>11 DEF DeleteFinish, SubjectOK
  <2>2. Existing \ {job.snap} \subseteq Existing'
    <3>1. CASE rows' = Deleted(job.snap)
      BY <3>1, DeletedRows
    <3>2. CASE rows' # Deleted(job.snap)
      BY <1>0, <2>1, <3>2 DEF Existing
    <3> QED BY <3>1, <3>2
  <2>3. job.left \subseteq Existing \ {job.snap}
    BY <2>1 DEF SubjectOK
  <2>4. CASE Done
    BY <1>7, <2>2, <2>3, <2>4
  <2>5. CASE job' = [job EXCEPT !.pc = "next", !.snap = NoSnap]
    <3>1. job' \in Jobs /\ job'.left = job.left /\ job'.pc = "next"
          /\ job'.op = job.op
      BY <1>0, <2>5 DEF Jobs, Parents
    <3> QED BY <2>2, <2>3, <3>1 DEF SubjectOK
  <2> QED BY <1>11, <2>4, <2>5 DEF DeleteFinish
<1>12. CASE DeleteVmStart
  <2>1. UNCHANGED rows
    BY <1>12 DEF DeleteVmStart
  <2>2. Existing' = Existing
    BY <2>1 DEF Existing
  <2>3. CASE Done
    BY <1>7, <2>2, <2>3 DEF SubjectOK
  <2>4. CASE job' = [job EXCEPT !.pc = "next", !.left = Existing]
    <3>1. Existing \subseteq Snaps
      BY DEF Existing
    <3>2. job' \in Jobs /\ job'.left = Existing /\ job'.pc = "next"
          /\ job'.op = "_delete_vm"
      BY <1>0, <1>12, <2>4, <3>1 DEF Jobs, DeleteVmStart
    <3> QED BY <2>2, <3>2 DEF SubjectOK
  <2> QED BY <1>12, <2>3, <2>4 DEF DeleteVmStart
<1>13. CASE DeleteVmNext
  <2>1. ASSUME NEW s \in job.left, rows' = Deleted(s), job' = [job EXCEPT !.left = @ \ {s}]
        PROVE  SubjectOK' /\ job' \in Jobs
    <3>1. job' \in Jobs /\ job'.left = job.left \ {s} /\ job'.pc = "next"
          /\ job'.op = "_delete_vm"
      BY <1>0, <1>13, <2>1 DEF Jobs, DeleteVmNext
    <3>2. Existing \ {s} \subseteq Existing'
      BY <2>1, DeletedRows
    <3> QED BY <3>1, <3>2 DEF SubjectOK
  <2>2. ASSUME NEW s \in job.left, UNCHANGED rows,
               job' = [job EXCEPT !.left = @ \ {s}, !.snap = s, !.pc = "domain"]
        PROVE  SubjectOK' /\ job' \in Jobs
    <3>1. s \in Snaps
      BY <1>0, <2>2 DEF Jobs
    <3>2. job' \in Jobs /\ job'.left = job.left \ {s} /\ job'.snap = s
          /\ job'.op = "_delete_vm"
      BY <1>0, <1>13, <2>2, <3>1 DEF Jobs, Parents, DeleteVmNext
    <3>3. Existing' = Existing
      BY <2>2 DEF Existing
    <3> QED BY <3>2, <3>3 DEF SubjectOK
  <2>3. CASE job.left = {} /\ Done
    BY <1>7, <2>3
  <2> QED BY <1>13, <2>1, <2>2, <2>3 DEF DeleteVmNext
<1>14. CASE ServiceCrash
  <2>1. job' = NoJob
        \/ \E s \in Snaps \cup {NoSnap} :
             job.op \in CastOps /\ job' = Job(job.op, s, "start")
    BY <1>0, <1>14 DEF ServiceCrash, Jobs, Parents
  <2>2. job' = NoJob => SubjectOK' /\ job' \in Jobs
    BY SnapIdle DEF SubjectOK
  <2> QED BY <1>3, <2>1, <2>2
<1> QED BY <1>2, <1>4, <1>5, <1>6, <1>8, <1>9, <1>10, <1>11, <1>12, <1>13, <1>14, SnapJobFrames

\* The pieces of a type that one step may change.
LEMMA SnapPowerStep ==
  ASSUME TypeOK, [Next]_(vars)
  PROVE  power' \in {"running", "paused", "shut_off", "gone"} /\ spoiled' \in BOOLEAN
<1>1. power \in {"running", "paused", "shut_off", "gone"} /\ spoiled \in BOOLEAN
  BY DEF TypeOK
<1>2. power' \in {"running", "paused", "shut_off", "gone"}
  BY <1>1 DEF Next, vars, ApiRequest, ApiCreate, ApiRevert, ApiDelete,
       HandlerStep, MonitorStep, StartVm, ShutOffVm, DeleteVm, AckCast,
       CreateCast, RevertCast, PassOn, DeleteCall, ShutOffFinish,
       DeleteVmStart, MonitorRead, DomainExecute, DomainCrash,
       ServiceTimeout, ServiceCrash, CreateSnapshot, RevertSnapshot, DeleteSnapshot,
       DeleteFinish, StartFinish, DeleteVmNext, MonitorWrite, PowerSeen
<1>3. \/ UNCHANGED spoiled \/ spoiled' = TRUE
      \/ DeleteFinish \/ MonitorWrite \/ DomainExecute \/ DomainCrash
  BY DEF Next, vars, ApiRequest, ApiCreate, ApiRevert, ApiDelete,
       HandlerStep, MonitorStep, StartVm, ShutOffVm, DeleteVm, AckCast,
       CreateCast, RevertCast, PassOn, DeleteCall, ShutOffFinish,
       DeleteVmStart, MonitorRead, ServiceTimeout, ServiceCrash, CreateSnapshot,
       RevertSnapshot, DeleteSnapshot, StartFinish, DeleteVmNext
<1>4. ASSUME NEW P, spoiled' = (spoiled \/ P) PROVE spoiled' \in BOOLEAN
  BY <1>4, Zenon
<1>5. DeleteFinish => spoiled' \in BOOLEAN
  BY <1>4, Zenon DEF DeleteFinish
<1>6. MonitorWrite => spoiled' \in BOOLEAN
  BY <1>1, <1>4, Zenon DEF MonitorWrite
<1>7. DomainCrash => spoiled' \in BOOLEAN
  BY <1>4, Zenon DEF DomainCrash
<1>8. DomainExecute => spoiled' \in BOOLEAN
  BY <1>1, <1>4, Zenon DEF DomainExecute
<1> QED BY <1>1, <1>2, <1>3, <1>5, <1>6, <1>7, <1>8

\* What one execution does to libvirt and to the files.
LEMMA HostFrames ==
  ASSUME [Next]_(vars)
  PROVE  \/ UNCHANGED <<libvirt, files>>
         \/ domQ # <<>> /\ (DomainExecute \/ DomainCrash)
BY DEF Next, vars, ApiRequest, ApiCreate, ApiRevert, ApiDelete,
       HandlerStep, MonitorStep, StartVm, ShutOffVm, DeleteVm, AckCast,
       CreateCast, RevertCast, PassOn, DeleteCall, ShutOffFinish,
       DeleteVmStart, MonitorRead, DomainExecute, DomainCrash,
       ServiceTimeout, ServiceCrash, CreateSnapshot, RevertSnapshot, DeleteSnapshot,
       DeleteFinish, StartFinish, DeleteVmNext, MonitorWrite

Domains == [on : BOOLEAN, parent : [Snaps -> Parents \cup {Absent}], cur : Parents]

LEMMA LibvirtTyped ==
  ASSUME TypeOK, NEW r \in Requests, CanSucceed(r)
  PROVE  LibvirtAfter(r) \in Domains
<1>0. libvirt \in Domains /\ files \in [Snaps -> Parents \cup {Absent}]
  BY DEF TypeOK, Domains
<1>1. PICK l \in Domains : l = libvirt
  BY <1>0
<1>2. r.snap \in Parents /\ l.parent \in [Snaps -> Parents \cup {Absent}] /\ l.cur \in Parents
      /\ NoSnap \in Parents
  BY DEF Requests, Domains, Parents
<1>3. CASE r.op = "create"
  <2>1. PICK f \in [Snaps -> Parents \cup {Absent}] : f = [l.parent EXCEPT ![r.snap] = l.cur]
    BY <1>2
  <2>2. LibvirtAfter(r) = [l EXCEPT !.parent = f, !.cur = r.snap]
    BY <1>1, <1>3, <2>1 DEF LibvirtAfter
  <2> QED BY <1>2, <2>1, <2>2 DEF Domains
<1>4. CASE r.op = "revert"
  BY <1>1, <1>2, <1>4 DEF LibvirtAfter, Domains
<1>5. CASE r.op = "delete" /\ libvirt.on
  <2>1. r.snap \in Snaps /\ libvirt.parent[r.snap] # Absent
    BY <1>5 DEF CanSucceed, InLibvirt
  <2>2. PICK p \in Parents : p = l.parent[r.snap]
    BY <1>1, <1>2, <2>1
  <2>3. PICK f \in [Snaps -> Parents \cup {Absent}] :
          f = [t \in Snaps |-> IF t = r.snap THEN Absent ELSE IF l.parent[t] = r.snap THEN p ELSE l.parent[t]]
    BY <1>2, <2>2
  <2>4. PICK c \in Parents : c = IF l.cur = r.snap THEN p ELSE l.cur
    BY <1>2, <2>2
  <2>5. LibvirtAfter(r) = [l EXCEPT !.parent = f, !.cur = c]
    BY <1>1, <1>5, <2>2, <2>3, <2>4 DEF LibvirtAfter, LibvirtWithout
  <2> QED BY <2>3, <2>4, <2>5 DEF Domains
<1>6. CASE r.op = "delete" /\ ~libvirt.on
  BY <1>0, <1>6 DEF LibvirtAfter
<1>7. CASE r.op = "start"
  <2>1. PICK f \in [Snaps -> Parents \cup {Absent}] :
          f = [s \in Snaps |-> IF s \in Redefined THEN files[s] ELSE Absent]
    BY <1>0
  <2>2. PICK c \in Parents : c = IF r.snap \in Redefined THEN r.snap ELSE NoSnap
    BY <1>2
  <2>3. LibvirtAfter(r) = [on |-> TRUE, cur |-> c, parent |-> f]
    BY <1>7, <2>1, <2>2 DEF LibvirtAfter
  <2> QED BY <2>3 DEF Domains
<1>8. CASE r.op = "turn_off"
  BY <1>2, <1>8 DEF LibvirtAfter, Off, Nowhere, Domains
<1> QED BY <1>3, <1>4, <1>5, <1>6, <1>7, <1>8 DEF Requests

LEMMA FilesTyped ==
  ASSUME TypeOK, NEW r \in Requests
  PROVE  /\ CanSucceed(r) /\ FilesThere(r) =>
              FilesAfter(r) \in [Snaps -> Parents \cup {Absent}]
         /\ \A S : r.snap \in OnDisk =>
              Reparented(S, r.snap) \in [Snaps -> Parents \cup {Absent}]
<1>0. files \in [Snaps -> Parents \cup {Absent}] /\ libvirt.cur \in Parents
  BY DEF TypeOK
<1>1. ASSUME NEW S, r.snap \in OnDisk
      PROVE  Reparented(S, r.snap) \in [Snaps -> Parents \cup {Absent}]
  BY <1>0, <1>1 DEF Reparented, OnDisk
<1>2. CASE r.op = "create"
  BY <1>0, <1>1, <1>2 DEF FilesAfter
<1>3. CASE r.op = "delete"
  <2>1. FilesThere(r) => r.snap \in OnDisk
    BY <1>3 DEF FilesThere
  <2> QED BY <1>1, <1>3, <2>1 DEF FilesAfter
<1>4. CASE r.op \notin {"create", "delete"}
  BY <1>0, <1>1, <1>4 DEF FilesAfter
<1> QED BY <1>2, <1>3, <1>4

LEMMA HostTyped ==
  ASSUME TypeOK, [Next]_(vars)
  PROVE  libvirt' \in Domains /\ files' \in [Snaps -> Parents \cup {Absent}]
<1>0. /\ libvirt \in Domains /\ files \in [Snaps -> Parents \cup {Absent}]
      /\ domQ \in Seq(Requests)
  BY DEF TypeOK, Domains
<1>1. CASE UNCHANGED <<libvirt, files>>
  BY <1>0, <1>1
<1>2. CASE domQ # <<>> /\ (DomainExecute \/ DomainCrash)
  <2>1. PICK r \in Requests : r = Head(domQ)
    BY <1>0, <1>2
  <2>2. \/ UNCHANGED <<libvirt, files>>
        \/ /\ CanSucceed(r) /\ libvirt' = LibvirtAfter(r)
           /\ \/ UNCHANGED files
              \/ FilesThere(r) /\ files' = FilesAfter(r)
              \/ r.snap \in OnDisk /\ \E S : files' = Reparented(S, r.snap)
    BY <1>2, <2>1 DEF DomainExecute, DomainCrash
  <2> QED BY <1>0, <2>2, LibvirtTyped, FilesTyped
<1> QED BY <1>1, <1>2, HostFrames

\* What a step does to the domain queue: a request of the handler goes to its end,
\* the head leaves, or all lose their owner.
QueueSteps ==
  \/ UNCHANGED domQ
  \/ \E op \in {"create", "revert"} :
       job.snap \in Existing /\ domQ' = Append(domQ, Request(op, job.snap, "none"))
  \/ \E s \in Existing \cup job.left :
       domQ' = Append(domQ, [Request("delete", s, "svc") EXCEPT !.children = Children(s)])
  \/ \E c \in Existing \cup {NoSnap} : domQ' = Append(domQ, Request("start", c, "svc"))
  \/ domQ' = Append(domQ, Request("turn_off", NoSnap, "svc"))
  \/ domQ # <<>> /\ domQ' = Tail(domQ)
  \/ domQ' = Disowned

LEMMA QueueGoes ==
  ASSUME [Next]_(vars)
  PROVE  QueueSteps
<1>1. ASSUME NEW h, NEW op \in {"create", "revert"}, PassOn(h, op) PROVE QueueSteps
  BY <1>1 DEF PassOn, CallDomain, QueueSteps
<1>2. CreateCast \/ RevertCast => QueueSteps
  BY <1>1 DEF CreateCast, RevertCast
<1>3. DeleteCall => QueueSteps
  BY DEF DeleteCall, CallDomain, QueueSteps
<1>4. DeleteVmNext => QueueSteps
  BY DEF DeleteVmNext, CallDomain, QueueSteps
<1>5. StartVm => QueueSteps
  BY DEF StartVm, CallDomain, QueueSteps, Current
<1>6. ShutOffVm => QueueSteps
  BY DEF ShutOffVm, CallDomain, QueueSteps
<1>7. DomainExecute => QueueSteps
  BY DEF DomainExecute, QueueSteps
<1>8. ServiceTimeout \/ ServiceCrash => QueueSteps
  BY DEF ServiceTimeout, ServiceCrash, QueueSteps
<1>9. \/ UNCHANGED domQ
      \/ CreateCast \/ RevertCast \/ DeleteCall \/ DeleteVmNext \/ StartVm
      \/ ShutOffVm \/ DomainExecute \/ ServiceTimeout \/ ServiceCrash
  BY DEF Next, vars, ApiRequest, ApiCreate, ApiRevert, ApiDelete,
       HandlerStep, MonitorStep, DeleteVm, AckCast, ShutOffFinish,
       DeleteVmStart, MonitorRead, DomainCrash, CreateSnapshot, RevertSnapshot,
       DeleteSnapshot, DeleteFinish, StartFinish, MonitorWrite
<1>10. UNCHANGED domQ => QueueSteps
  BY DEF QueueSteps
<1> QED BY <1>2, <1>3, <1>4, <1>5, <1>6, <1>7, <1>8, <1>9, <1>10

LEMMA RequestTyped ==
  ASSUME NEW op \in {"create", "revert", "start", "turn_off"}, NEW s \in Snaps \cup {NoSnap},
         NEW owner \in {"svc", "none"}
  PROVE  /\ Request(op, s, owner) \in Requests
         /\ [Request("delete", s, owner) EXCEPT !.children = Children(s)] \in Requests
BY DEF Request, Requests, Parents, Children, Existing

LEMMA SnapQueueStep ==
  ASSUME TypeOK, [Next]_(vars)
  PROVE  domQ' \in Seq(Requests)
<1>0. /\ domQ \in Seq(Requests) /\ job.left \subseteq Snaps /\ Existing \subseteq Snaps
  BY DEF TypeOK, Jobs, Existing
<1>1. ASSUME NEW r \in Requests, domQ' = Append(domQ, r) PROVE domQ' \in Seq(Requests)
  BY <1>0, <1>1
<1>2. CASE domQ' = Disowned
  <2>1. ASSUME NEW i \in 1..Len(domQ) PROVE [domQ[i] EXCEPT !.owner = "none"] \in Requests
    <3>1. PICK r \in Requests : r = domQ[i]
      BY <1>0
    <3>2. [r EXCEPT !.owner = "none"] \in Requests
      BY DEF Requests
    <3> QED BY <3>1, <3>2
  <2>2. DOMAIN domQ = 1..Len(domQ) /\ Len(domQ) \in Nat
    BY <1>0
  <2>3. domQ' \in [1..Len(domQ) -> Requests]
    BY <1>2, <2>1, <2>2 DEF Disowned
  <2> QED BY <2>2, <2>3, SeqDef
<1>3. CASE domQ # <<>> /\ domQ' = Tail(domQ)
  BY <1>0, <1>3
<1>4. ASSUME NEW s \in Existing \cup job.left,
             domQ' = Append(domQ, [Request("delete", s, "svc") EXCEPT !.children = Children(s)])
      PROVE  domQ' \in Seq(Requests)
  BY <1>0, <1>1, <1>4, RequestTyped
<1>5. ASSUME NEW op \in {"create", "revert", "start", "turn_off"},
             NEW s \in Snaps \cup {NoSnap}, NEW owner \in {"svc", "none"},
             domQ' = Append(domQ, Request(op, s, owner))
      PROVE  domQ' \in Seq(Requests)
  BY <1>1, <1>5, RequestTyped
<1> QED BY <1>0, <1>2, <1>3, <1>4, <1>5, QueueGoes DEF QueueSteps

LEMMA FaultRange ==
  ASSUME faults \in 0..MaxFaults, UNCHANGED faults \/ Fault
  PROVE  faults' \in 0..MaxFaults
<1>1. MaxFaults \in Nat
  BY SnapshotAssumption
<1> QED BY <1>1 DEF Fault

LEMMA SnapTypesStep ==
  ASSUME TableOK, SubjectOK, TypeOK, [Next]_(vars)
  PROVE  TypeOK'
<1>1. rows' \in [Snaps -> Rows'] /\ job' \in Jobs'
  <2>1. TableOK' /\ Jobs' = Jobs
    BY TableStep DEF Jobs, Parents, CastOps
  <2> QED BY <2>1, SubjectStep DEF TableOK
<1>2. power' \in {"running", "paused", "shut_off", "gone"} /\ spoiled' \in BOOLEAN
  BY SnapPowerStep
<1>3. /\ libvirt' \in [on : BOOLEAN, parent : [Snaps -> Parents' \cup {Absent}], cur : Parents']
      /\ files' \in [Snaps -> Parents' \cup {Absent}]
  BY HostTyped DEF Domains, Parents
<1>4. domQ' \in Seq(Requests')
  <2>1. Requests' = Requests
    BY DEF Requests, Parents
  <2> QED BY <2>1, SnapQueueStep
<1>5. mon' \in Monitors'
  <2>1. IdleMonitor \in Monitors /\ Monitors' = Monitors /\ mon \in Monitors
    BY DEF IdleMonitor, Monitors, Parents, TypeOK
  <2>2. CASE MonitorRead
    <3>1. PICK p \in {"running", "paused", "shut_off", "gone"}, l \in Domains : p = power /\ l = libvirt
      BY DEF TypeOK, Domains
    <3>2. mon' = [pc |-> "write", power |-> p, on |-> l.on, there |-> InLibvirt, cur |-> l.cur]
      BY <2>2, <3>1 DEF MonitorRead
    <3>3. InLibvirt \subseteq Snaps /\ l.on \in BOOLEAN /\ l.cur \in Parents
      BY DEF InLibvirt, Domains
    <3> QED BY <2>1, <3>2, <3>3 DEF Monitors
  <2>3. UNCHANGED mon \/ mon' = IdleMonitor \/ MonitorRead
    BY DEF Next, vars, ApiRequest, ApiCreate, ApiRevert, ApiDelete,
       HandlerStep, MonitorStep, StartVm, ShutOffVm, DeleteVm, AckCast,
       CreateCast, RevertCast, PassOn, DeleteCall, ShutOffFinish,
       DeleteVmStart, DomainExecute, DomainCrash,
       ServiceTimeout, ServiceCrash, CreateSnapshot, RevertSnapshot, DeleteSnapshot,
       DeleteFinish, StartFinish, DeleteVmNext, MonitorWrite
  <2> QED BY <2>1, <2>2, <2>3
<1>6. reply' \in Replies' /\ faults' \in 0..MaxFaults
  <2>1. /\ reply \in Replies /\ faults \in 0..MaxFaults /\ Replies' = Replies
        /\ NoReply \in Replies
    BY DEF TypeOK, Replies, NoReply
  <2>2. CASE DomainExecute
    <3>1. \/ UNCHANGED reply
          \/ \E res \in {"ok", "err"}, S \in {{}, Redefined} : reply' = [res |-> res, names |-> S]
      BY <2>2 DEF DomainExecute, Answer
    <3>2. Redefined \subseteq Snaps
      BY DEF Redefined, OnDisk
    <3>3. UNCHANGED faults \/ Fault
      BY <2>2 DEF DomainExecute
    <3> QED BY <2>1, <3>1, <3>2, <3>3, FaultRange DEF Replies
  <2>3. CASE ~DomainExecute
    <3>1. UNCHANGED faults \/ Fault
      BY <2>3 DEF Next, vars, ApiRequest, ApiCreate, ApiRevert, ApiDelete,
       HandlerStep, MonitorStep, StartVm, ShutOffVm, DeleteVm, AckCast,
       CreateCast, RevertCast, PassOn, DeleteCall, ShutOffFinish,
       DeleteVmStart, MonitorRead, DomainCrash,
       ServiceTimeout, ServiceCrash, CreateSnapshot, RevertSnapshot, DeleteSnapshot,
       DeleteFinish, StartFinish, DeleteVmNext, MonitorWrite
    <3>2. UNCHANGED reply \/ reply' = NoReply \/ reply' = [NoReply EXCEPT !.res = "timeout"]
      BY <2>3 DEF Next, vars, ApiRequest, ApiCreate, ApiRevert, ApiDelete,
       HandlerStep, MonitorStep, StartVm, ShutOffVm, DeleteVm, AckCast,
       CreateCast, RevertCast, PassOn, DeleteCall, ShutOffFinish,
       DeleteVmStart, MonitorRead, MonitorWrite, DomainCrash,
       ServiceTimeout, ServiceCrash, CreateSnapshot, RevertSnapshot, DeleteSnapshot,
       DeleteFinish, StartFinish, DeleteVmNext
    <3>3. [NoReply EXCEPT !.res = "timeout"] \in Replies
      BY DEF NoReply, Replies
    <3> QED BY <2>1, <3>1, <3>2, <3>3, FaultRange
  <2> QED BY <2>2, <2>3
<1> QED BY <1>1, <1>2, <1>3, <1>4, <1>5, <1>6 DEF TypeOK

\* The invariant of the table: types, the forest, and what the deletion is at.
TableInv == TypeOK /\ TableOK /\ SubjectOK

LEMMA TableInit ==
  ASSUME Init
  PROVE  TableInv
<1>1. TableOK
  <2>1. rows = [s \in Snaps |-> NoRow] /\ Existing = {}
    BY NoRowIs DEF Init, Existing
  <2> QED BY <2>1, NoRowIs DEF TableOK, Current
<1>2. SubjectOK
  BY SnapIdle DEF Init, SubjectOK
<1>3. power \in {"running", "paused", "shut_off", "gone"} /\ job \in Jobs /\ reply \in Replies
  BY SnapIdle DEF Init, NoReply, Replies
<1>4. libvirt \in Domains /\ files \in [Snaps -> Parents \cup {Absent}]
  BY DEF Init, Off, Nowhere, Domains, Parents
<1>5. domQ \in Seq(Requests) /\ faults \in 0..MaxFaults /\ spoiled \in BOOLEAN
  <2>1. domQ = <<>> /\ faults = 0 /\ spoiled = FALSE
    BY DEF Init
  <2>2. 0 \in 0..MaxFaults
    BY SnapshotAssumption
  <2>3. <<>> \in Seq(Requests)
    BY EmptySeq
  <2> QED BY <2>1, <2>2, <2>3
<1>6. mon \in Monitors
  BY DEF Init, IdleMonitor, Monitors, Parents
<1> QED BY <1>1, <1>2, <1>3, <1>4, <1>5, <1>6 DEF TableInv, TypeOK, TableOK, Domains

\* The table's part of the invariant holds in every state.
LEMMA TableInvariance == Spec => []TableInv
<1>1. Init => TableInv
  BY TableInit
<1>2. TableInv /\ [Next]_(vars) => TableInv'
  BY TableStep, SubjectStep, SnapTypesStep DEF TableInv
<1> QED BY <1>1, <1>2, PTL DEF Spec

\* The state of a machine's snapshots has its types.
THEOREM TypeCorrect == Spec => []TypeOK
<1>1. TableInv => TypeOK
  BY DEF TableInv
<1> QED BY <1>1, TableInvariance, PTL

\* The table of snapshots is a forest with at most one current snapshot, whatever
\* is redelivered, fails or comes late.
THEOREM TableIsForest == Spec => []RowsAreForest
<1>1. TableInv => RowsAreForest
  <2> SUFFICES ASSUME TableInv PROVE RowsAreForest
    OBVIOUS
  <2>1. Cardinality(Current) <= 1
    <3>1. CASE Current = {}
      <4>1. Cardinality({}) = 0
        BY FS_EmptySet
      <4> QED BY <3>1, <4>1
    <3>2. ASSUME NEW c \in Current PROVE Cardinality(Current) <= 1
      <4>1. Current = {c}
        BY DEF TableInv, TableOK
      <4>2. Cardinality({c}) = 1
        BY FS_Singleton
      <4> QED BY <4>1, <4>2
    <3> QED BY <3>1, <3>2
  <2> QED BY <2>1 DEF TableInv, TableOK, RowsAreForest
<1> QED BY <1>1, TableInvariance, PTL

-----------------------------------------------------------------------------
(* The files of the snapshots.  While nothing is spoiled *)
(*   - a file belongs to a row, and libvirt has what the files say;                *)
(*   - a file names the parent the table names, or the parent is lost: its file    *)
(*     was deleted when nobody waited for the answer any more.                     *)

DeleteOps == {"_delete_snapshot", "_delete_vm"}

Creates(i, s) == domQ[i].op = "create" /\ domQ[i].snap = s

\* A file of s may still be made.
Coming(s) ==
  \/ job.op = "_create_snapshot" /\ job.snap = s
  \/ \E i \in DOMAIN domQ : Creates(i, s)

Lost(s) == s \in Existing \ OnDisk /\ ~Coming(s)

FilesOK ==
  /\ OnDisk \subseteq Existing
  /\ \A s \in OnDisk : files[s] \in OnDisk \cup {NoSnap}
  /\ \A S \in SUBSET OnDisk : S # {} => \E s \in S : files[s] \notin S
  /\ libvirt.on => libvirt.parent = files
  /\ libvirt.on => libvirt.cur \in OnDisk \cup {NoSnap}

\* A file that names another parent than the table does so because the parent in the
\* table is lost, and so is the last snapshot between the two.
FollowOK ==
  \A t \in OnDisk : files[t] # rows[t].parent =>
    /\ Lost(rows[t].parent)
    /\ files[t] # NoSnap => \E u \in Snaps : Lost(u) /\ rows[u].parent = files[t]

\* The same for the table as it will be when the deletion that has succeeded is
\* written.
ParentAfter(x, t) == IF rows[t].parent = x THEN rows[x].parent ELSE rows[t].parent
DeletedOK ==
  job.op \in DeleteOps /\ reply.res = "ok" =>
    LET x == job.snap IN
    /\ x \notin OnDisk
    /\ \A t \in OnDisk : files[t] # ParentAfter(x, t) =>
         /\ Lost(ParentAfter(x, t))
         /\ files[t] # NoSnap => \E u \in Snaps \ {x} : Lost(u) /\ ParentAfter(x, u) = files[t]

\* What waits for the domain: every creation and deletion is of a snapshot with a
\* row, no creation is behind the deletion, and the deletion knows the children
\* whose files name the snapshot now, or will when it is executed.
Knows(i) ==
  /\ \A k \in DOMAIN domQ : k > i => ~Creates(k, domQ[i].snap)
  /\ ~(job.op = "_create_snapshot" /\ job.snap = domQ[i].snap)
  /\ \A c \in domQ[i].children : c \in Existing /\ rows[c].parent = domQ[i].snap
  /\ \A t \in OnDisk : files[t] = domQ[i].snap =>
       t \in domQ[i].children \/ \E u \in domQ[i].children : Lost(u)
  /\ \A k \in DOMAIN domQ :
       k < i /\ domQ[k].op = "create" /\ rows[domQ[k].snap].parent = domQ[i].snap =>
         domQ[k].snap \in domQ[i].children
QueueOK ==
  \A i \in DOMAIN domQ :
    /\ domQ[i].op \in {"create", "delete"} => domQ[i].snap \in Existing
    /\ domQ[i].op = "delete" => Knows(i)

\* A handler waits for the last request of the queue.
AnswerOK ==
  /\ job.pc # "domain" => reply.res = "none"
  /\ reply.res \in {"ok", "err"} => domQ = <<>>
  /\ \A i \in DOMAIN domQ : domQ[i].owner = "svc" =>
       /\ i = Len(domQ) /\ job.pc = "domain" /\ reply.res = "none"
       /\ job.op \in DeleteOps =>
            /\ domQ[i].op = "delete" /\ domQ[i].snap = job.snap
            /\ domQ[i].children = Children(job.snap)

ErrorOK == \A s \in Existing : rows[s].status # "error"

\* The deletion of the machine comes to every snapshot.
GoneOK ==
  /\ power = "gone" => Existing = {}
  /\ job.op = "_delete_vm" /\ job.pc = "next" => Existing \subseteq job.left
  /\ job.op = "_delete_vm" /\ job.pc = "domain" =>
       Existing \subseteq job.left \cup {job.snap}

SnapInv ==
  /\ TableInv /\ AnswerOK
  /\ ~spoiled => FilesOK /\ FollowOK /\ DeletedOK /\ QueueOK /\ ErrorOK /\ GoneOK

-----------------------------------------------------------------------------
(* Who waits for what *)

\* A disowned queue has the same requests.
LEMMA DisownedIs ==
  ASSUME domQ \in Seq(Requests), domQ' = Disowned
  PROVE  /\ Len(domQ') = Len(domQ) /\ DOMAIN domQ' = DOMAIN domQ
         /\ \A i \in DOMAIN domQ :
              /\ domQ'[i].op = domQ[i].op /\ domQ'[i].snap = domQ[i].snap
              /\ domQ'[i].children = domQ[i].children /\ domQ'[i].owner = "none"
<1>1. domQ' = [i \in DOMAIN domQ |-> [domQ[i] EXCEPT !.owner = "none"]]
  BY DEF Disowned
<1>2. DOMAIN domQ = 1..Len(domQ) /\ Len(domQ) \in Nat
  OBVIOUS
<1>3. ASSUME NEW i \in DOMAIN domQ
      PROVE  /\ domQ'[i].op = domQ[i].op /\ domQ'[i].snap = domQ[i].snap
             /\ domQ'[i].children = domQ[i].children /\ domQ'[i].owner = "none"
             /\ domQ'[i] \in Requests
  <2>1. PICK r \in Requests : r = domQ[i]
    BY <1>2
  <2>2. domQ'[i] = [r EXCEPT !.owner = "none"]
    BY <1>1, <2>1
  <2> QED BY <2>1, <2>2 DEF Requests
<1>4. domQ' \in [1..Len(domQ) -> Requests] /\ DOMAIN domQ' = 1..Len(domQ)
  BY <1>1, <1>2, <1>3
<1>5. Len(domQ') = Len(domQ)
  <2>1. domQ' \in Seq(Requests)
    BY <1>2, <1>4, SeqDef
  <2>2. DOMAIN domQ' = 1..Len(domQ') /\ Len(domQ') \in Nat
    BY <2>1, LenProperties
  <2> QED BY <1>2, <1>4, <2>2
<1> QED BY <1>2, <1>3, <1>4, <1>5

LEMMA QueueParts ==
  ASSUME domQ \in Seq(Requests)
  PROVE  /\ DOMAIN domQ = 1..Len(domQ) /\ Len(domQ) \in Nat
         /\ \A i \in DOMAIN domQ : domQ[i] \in Requests
BY LenProperties, ElementOfSeq

\* A request at the end of the queue.
LEMMA AppendParts ==
  ASSUME domQ \in Seq(Requests), NEW r \in Requests, domQ' = Append(domQ, r)
  PROVE  /\ Len(domQ') = Len(domQ) + 1 /\ DOMAIN domQ' = 1..(Len(domQ) + 1)
         /\ \A i \in DOMAIN domQ : domQ'[i] = domQ[i]
         /\ domQ'[Len(domQ) + 1] = r
<1>1. Append(domQ, r) \in Seq(Requests)
  BY AppendProperties
<1>2. Len(Append(domQ, r)) = Len(domQ) + 1 /\ DOMAIN Append(domQ, r) = 1..Len(Append(domQ, r))
  BY <1>1, AppendProperties, LenProperties
<1> QED BY <1>2, QueueParts, AppendProperties

\* The head leaves the queue.
LEMMA TailParts ==
  ASSUME domQ \in Seq(Requests), domQ # <<>>
  PROVE  /\ Len(domQ) >= 1 /\ Head(domQ) = domQ[1] /\ domQ[1] \in Requests /\ 1 \in DOMAIN domQ
         /\ Len(Tail(domQ)) = Len(domQ) - 1
         /\ \A i \in DOMAIN Tail(domQ) : i \in Nat /\ i + 1 \in DOMAIN domQ /\ Tail(domQ)[i] = domQ[i + 1]
         /\ Len(domQ) = 1 => Tail(domQ) = <<>>
<1>1. Len(domQ) \in Nat \ {0} /\ DOMAIN domQ = 1..Len(domQ) /\ Head(domQ) = domQ[1]
  BY EmptySeq, LenProperties
<1>2. Tail(domQ) \in Seq(Requests) /\ Len(Tail(domQ)) = Len(domQ) - 1
      /\ \A i \in 1..Len(Tail(domQ)) : Tail(domQ)[i] = domQ[i + 1]
  BY HeadTailProperties
<1>3. DOMAIN Tail(domQ) = 1..Len(Tail(domQ)) /\ Len(Tail(domQ)) \in Nat
  BY <1>2, LenProperties
<1>4. Len(domQ) = 1 => Tail(domQ) = <<>>
  <2>1. Tail(domQ) # <<>> => Len(Tail(domQ)) \in Nat \ {0}
    BY <1>2, EmptySeq
  <2> QED BY <1>2, <2>1
<1>5. domQ[1] \in Requests
  BY <1>1, ElementOfSeq
<1> QED BY <1>1, <1>2, <1>3, <1>4, <1>5

-----------------------------------------------------------------------------
(* The table while nothing is spoiled *)

TableKept ==
  /\ Existing' = Existing
  /\ \A t \in Snaps : rows'[t].parent = rows[t].parent

TableMoves ==
  \/ TableKept
  \/ \E s \in Snaps : CreateSnapshot(s)
  \/ DeleteFinish /\ reply.res = "ok"
  \/ \E s \in Existing : rows[s].status = "error"
  \/ DeleteVmNext /\ job.left = {} /\ rows' = [s \in Snaps |-> NoRow]

\* The monitoring writes statuses and the current snapshot.
LEMMA MonitorTouches ==
  ASSUME rows \in [Snaps -> Rows], MonitorWrite, NEW t \in Snaps
  PROVE  /\ rows'[t].parent = rows[t].parent
         /\ rows'[t].status = "none" <=> rows[t].status = "none"
<1>1. PICK r \in Rows : r = rows[t]
  OBVIOUS
<1>2. PICK status, current : status = Seen(t) /\ current = SeenCurrent(t)
  OBVIOUS
<1>3. t \in Existing => status # "none"
  BY <1>2 DEF Seen, Existing
<1>4. \/ rows'[t] = r
      \/ t \in Existing /\ rows'[t] = [r EXCEPT !.status = status, !.current = current]
  BY <1>1, <1>2 DEF MonitorWrite
<1> QED BY <1>1, <1>3, <1>4 DEF Rows, Existing

LEMMA TableGoes ==
  ASSUME TableInv, [Next]_(vars)
  PROVE  TableMoves
<1>0. rows \in [Snaps -> Rows] /\ Existing \subseteq Snaps
  BY DEF TableInv, TableOK, Existing
<1>1. ASSUME \A t \in Snaps : /\ rows'[t].parent = rows[t].parent
                              /\ rows'[t].status = "none" <=> rows[t].status = "none"
      PROVE  TableMoves
  BY <1>1 DEF TableMoves, TableKept, Existing
<1>2. CASE UNCHANGED rows
  BY <1>1, <1>2
<1>3. ASSUME NEW s \in Snaps, RevertSnapshot(s) PROVE TableMoves
  <2> SUFFICES ASSUME NEW t \in Snaps
               PROVE  /\ rows'[t].parent = rows[t].parent
                      /\ rows'[t].status = "none" <=> rows[t].status = "none"
    BY <1>1
  <2>1. PICK r \in Rows : r = WithCurrent({s})[t]
    BY <1>0, CurrentOf
  <2>2. r.parent = rows[t].parent /\ r.status = rows[t].status
    BY <1>0, <2>1, CurrentOf
  <2>3. t = s => rows[t].status # "none"
    BY <1>3 DEF RevertSnapshot, StatusIn
  <2>4. rows'[t] = IF t = s THEN [r EXCEPT !.status = "reverting"] ELSE r
    BY <1>3, <2>1 DEF RevertSnapshot, WithCurrent
  <2> QED BY <2>2, <2>3, <2>4 DEF Rows
<1>4. ASSUME NEW s \in Existing, NEW status, status # "none",
             rows' = [rows EXCEPT ![s].status = status]
      PROVE  TableMoves
  BY <1>0, <1>1, <1>4 DEF Existing, Rows
<1>5. ASSUME NEW s \in Snaps, DeleteSnapshot(s) PROVE TableMoves
  <2>1. s \in Existing
    BY <1>5 DEF DeleteSnapshot, StatusIn, Existing
  <2>2. CASE rows[s].status = "error"
    BY <2>1, <2>2 DEF TableMoves
  <2>3. CASE rows[s].status # "error"
    BY <1>4, <1>5, <2>1, <2>3 DEF DeleteSnapshot, SetStatus
  <2> QED BY <2>2, <2>3
<1>6. CASE DeleteFinish
  <2>1. job.snap \in Existing
    BY <1>6 DEF DeleteFinish, TableInv, SubjectOK
  <2>2. \/ reply.res = "ok"
        \/ rows' = [rows EXCEPT ![job.snap].status = "error"]
        \/ UNCHANGED rows
    BY <1>6 DEF DeleteFinish
  <2> QED BY <1>2, <1>4, <1>6, <2>1, <2>2 DEF TableMoves
<1>7. CASE StartFinish
  <2>1. ASSUME NEW t \in Snaps
        PROVE  \/ rows'[t] = rows[t]
               \/ t \in Existing /\ rows'[t] = [rows[t] EXCEPT !.status = "creating"]
    BY <1>7 DEF StartFinish
  <2> QED BY <1>0, <1>1, <2>1 DEF Existing, Rows
<1>8. CASE DeleteVmNext
  <2>1. \/ \E s \in job.left : rows[s].status = "error"
        \/ UNCHANGED rows
        \/ job.left = {} /\ rows' = [s \in Snaps |-> NoRow]
    BY <1>8 DEF DeleteVmNext
  <2>2. job.left \subseteq Existing
    BY DEF TableInv, SubjectOK
  <2> QED BY <1>2, <1>8, <2>1, <2>2 DEF TableMoves
<1>9. CASE MonitorWrite
  BY <1>0, <1>1, <1>9, MonitorTouches
<1>10. ASSUME NEW s \in Snaps, CreateSnapshot(s) PROVE TableMoves
  BY <1>10 DEF TableMoves
<1> QED BY <1>2, <1>3, <1>5, <1>6, <1>7, <1>8, <1>9, <1>10, TableFrames

-----------------------------------------------------------------------------
(* The files while nothing is spoiled *)

LEMMA LostIs ==
  ASSUME NEW s
  PROVE  Lost(s) <=> s \in Existing /\ s \notin OnDisk /\ ~Coming(s)
BY DEF Lost

LEMMA LostStays ==
  ASSUME NEW s, Lost(s), s \in Existing', s \notin OnDisk', Coming(s)' => Coming(s)
  PROVE  Lost(s)'
BY DEF Lost

LEMMA Differ ==
  ASSUME TableInv
  PROVE  /\ NoSnap \notin Snaps /\ Absent \notin Snaps /\ Absent # NoSnap
         /\ Existing \subseteq Snaps /\ OnDisk \subseteq Snaps
         /\ \A s \in Snaps \ OnDisk : files[s] = Absent
         /\ \A s \in Existing : rows[s].parent \in Existing \cup {NoSnap}
BY SnapshotAssumption DEF TableInv, TableOK, Existing, OnDisk

\* The requests of the queue as it will be, each with the place it has now.
Shifted(d) ==
  \A i \in DOMAIN domQ' :
    /\ i \in Nat /\ i + d \in DOMAIN domQ
    /\ domQ'[i].op = domQ[i + d].op /\ domQ'[i].snap = domQ[i + d].snap
    /\ domQ'[i].children = domQ[i + d].children

Asked(r) ==
  /\ domQ' = Append(domQ, r)
  /\ r.op = "create" => /\ job.op = "_create_snapshot" /\ job.snap = r.snap
                        /\ r.snap \in Existing
  /\ r.op = "delete" => /\ job.op # "_create_snapshot" /\ r.snap \in Existing
                        /\ r.children = Children(r.snap)

QueueMoves == (\E d \in {0, 1} : Shifted(d)) \/ (\E r \in Requests : Asked(r))

\* No handler but the one that makes a snapshot now.
SameCreation ==
  job'.op = "_create_snapshot" => job.op = "_create_snapshot" /\ job'.snap = job.snap

LEMMA ComingShrinks ==
  ASSUME TableInv, SameCreation, QueueMoves, NEW s, Coming(s)'
  PROVE  Coming(s)
<1>0. domQ \in Seq(Requests)
  BY DEF TableInv, TypeOK
<1>1. CASE job'.op = "_create_snapshot" /\ job'.snap = s
  BY <1>1 DEF SameCreation, Coming
<1>2. ASSUME NEW i \in DOMAIN domQ', Creates(i, s)' PROVE Coming(s)
  <2>1. domQ'[i].op = "create" /\ domQ'[i].snap = s
    BY <1>2 DEF Creates
  <2>2. ASSUME NEW d \in {0, 1}, Shifted(d) PROVE Coming(s)
    BY <2>1, <2>2 DEF Shifted, Coming, Creates
  <2>3. ASSUME NEW r \in Requests, Asked(r) PROVE Coming(s)
    <3>1. (i \in DOMAIN domQ /\ domQ'[i] = domQ[i]) \/ domQ'[i] = r
      BY <1>0, <2>3, AppendParts, QueueParts DEF Asked
    <3> QED BY <2>1, <2>3, <3>1 DEF Asked, Coming, Creates
  <2> QED BY <2>2, <2>3 DEF QueueMoves
<1> QED BY <1>1, <1>2 DEF Coming

\* A step that leaves table and files alone.
Quiet ==
  /\ TableKept /\ UNCHANGED files
  /\ libvirt'.on => libvirt'.parent = files' /\ libvirt'.cur \in OnDisk' \cup {NoSnap}
  /\ job'.op \in DeleteOps /\ reply'.res = "ok" => UNCHANGED <<job, reply>>
  /\ SameCreation /\ QueueMoves

LEMMA QuietFiles ==
  ASSUME TableInv, AnswerOK, FilesOK, FollowOK, DeletedOK, Quiet
  PROVE  FilesOK' /\ FollowOK' /\ DeletedOK' /\ \A s \in Snaps : Lost(s) => Lost(s)'
<1>1. /\ Existing' = Existing /\ OnDisk' = OnDisk
      /\ files' = files
      /\ \A t \in Snaps : rows'[t].parent = rows[t].parent
      /\ OnDisk \subseteq Snaps /\ Existing \subseteq Snaps
  BY DEF Quiet, TableKept, OnDisk, Existing
<1>2. ASSUME NEW s, Lost(s) PROVE Lost(s)'
  BY <1>1, <1>2, LostIs, LostStays, ComingShrinks DEF Quiet
<1>3. FilesOK'
  BY <1>1 DEF FilesOK, Quiet
<1>4. FollowOK'
  BY <1>1, <1>2 DEF FollowOK
<1>5. DeletedOK'
  <2>1. SUFFICES ASSUME job' = job, reply' = reply, job.op \in DeleteOps,
                        reply.res = "ok"
                 PROVE  DeletedOK'
    BY DEF Quiet, DeletedOK, DeleteOps
  <2> DEFINE x == job.snap
  <2>2. /\ x \notin OnDisk
        /\ \A t \in OnDisk : files[t] # ParentAfter(x, t) =>
             /\ Lost(ParentAfter(x, t))
             /\ files[t] # NoSnap => \E u \in Snaps \ {x} : Lost(u) /\ ParentAfter(x, u) = files[t]
    BY <2>1 DEF DeletedOK
  <2>3. \A t \in Snaps : ParentAfter(x, t)' = ParentAfter(x, t)
    <3>1. job.pc = "domain"
      BY <2>1 DEF AnswerOK
    <3>2. x \in Snaps
      BY <1>1, <2>1, <3>1 DEF TableInv, SubjectOK, DeleteOps
    <3> QED BY <1>1, <2>1, <3>2 DEF ParentAfter
  <2> QED BY <1>1, <1>2, <2>1, <2>2, <2>3 DEF DeletedOK
<1> QED BY <1>2, <1>3, <1>4, <1>5

LEMMA ShiftedQueue ==
  ASSUME QueueOK, NEW d \in {0, 1}, Shifted(d), Existing \subseteq Existing',
         NEW i \in DOMAIN domQ'
  PROVE  /\ i + d \in DOMAIN domQ
         /\ domQ'[i].op \in {"create", "delete"} =>
              domQ'[i].snap \in Existing /\ domQ'[i].snap \in Existing'
         /\ domQ'[i].op = "delete" => domQ[i + d].op = "delete" /\ Knows(i + d)
         /\ domQ'[i].snap = domQ[i + d].snap /\ domQ'[i].children = domQ[i + d].children
BY DEF QueueOK, Shifted

\* What a deletion knows stays true as the queue goes on, if it stays true of the
\* files.
LEMMA KnowsStays ==
  ASSUME TableInv, NEW d \in {0, 1}, Shifted(d), NEW i \in DOMAIN domQ', Knows(i + d),
         SameCreation,
         \A c \in domQ[i + d].children :
            c \in Existing' /\ rows'[c].parent = domQ[i + d].snap,
         \A t \in OnDisk' : files'[t] = domQ[i + d].snap =>
            t \in domQ[i + d].children \/ \E u \in domQ[i + d].children : Lost(u)',
         \A k \in DOMAIN domQ : domQ[k].op = "create" =>
            rows'[domQ[k].snap].parent = rows[domQ[k].snap].parent
  PROVE  Knows(i)'
<1>0. /\ i \in Nat /\ DOMAIN domQ \subseteq Nat
      /\ domQ'[i].snap = domQ[i + d].snap /\ domQ'[i].children = domQ[i + d].children
      /\ i + d \in DOMAIN domQ
  BY QueueParts DEF Shifted, TableInv, TypeOK
<1>1. ASSUME NEW k \in DOMAIN domQ', k > i PROVE ~Creates(k, domQ[i].snap)'
  <2>1. k + d \in DOMAIN domQ /\ k + d > i + d /\ k \in Nat
    BY <1>0, <1>1 DEF Shifted
  <2>2. ~Creates(k + d, domQ[i + d].snap)
    BY <2>1 DEF Knows
  <2> QED BY <1>0, <2>2 DEF Creates, Shifted
<1>2. ~(job'.op = "_create_snapshot" /\ job'.snap = domQ'[i].snap)
  BY <1>0 DEF Knows, SameCreation
<1>3. ASSUME NEW k \in DOMAIN domQ', k < i, domQ'[k].op = "create",
             rows'[domQ'[k].snap].parent = domQ'[i].snap
      PROVE  domQ'[k].snap \in domQ'[i].children
  <2>1. k + d \in DOMAIN domQ /\ k + d < i + d /\ k \in Nat /\ domQ[k + d].op = "create"
        /\ domQ[k + d].snap = domQ'[k].snap
    BY <1>0, <1>3 DEF Shifted
  <2>2. rows[domQ[k + d].snap].parent = domQ[i + d].snap
    BY <1>0, <1>3, <2>1
  <2> QED BY <1>0, <2>1, <2>2 DEF Knows
<1>4. \A c \in domQ'[i].children : c \in Existing' /\ rows'[c].parent = domQ'[i].snap
  BY <1>0
<1>5. \A t \in OnDisk' : files'[t] = domQ'[i].snap =>
        t \in domQ'[i].children \/ \E u \in domQ'[i].children : Lost(u)'
  BY <1>0
<1> QED BY <1>1, <1>2, <1>3, <1>4, <1>5 DEF Knows

LEMMA ChildrenKept ==
  ASSUME TableInv, TableKept, NEW s
  PROVE  Children(s)' = Children(s)
BY DEF TableKept, Children, Existing

LEMMA QuietQueue ==
  ASSUME TableInv, AnswerOK, FilesOK, FollowOK, DeletedOK, QueueOK, Quiet
  PROVE  QueueOK'
<1>0. /\ Existing' = Existing /\ OnDisk' = OnDisk /\ files' = files
      /\ \A t \in Snaps : rows'[t].parent = rows[t].parent
      /\ \A s : Children(s)' = Children(s)
      /\ \A s : Lost(s) => Lost(s)'
      /\ TableKept /\ SameCreation /\ Existing \subseteq Snaps
  BY QuietFiles, ChildrenKept DEF Quiet, TableKept, OnDisk, Lost, Existing
<1>1. ASSUME NEW k \in DOMAIN domQ, domQ[k].op = "create"
      PROVE  rows'[domQ[k].snap].parent = rows[domQ[k].snap].parent
  BY <1>0, <1>1 DEF QueueOK
<1>2. ASSUME NEW d \in {0, 1}, Shifted(d) PROVE QueueOK'
  <2> SUFFICES ASSUME NEW i \in DOMAIN domQ'
               PROVE  /\ domQ'[i].op \in {"create", "delete"} => domQ'[i].snap \in Existing'
                      /\ domQ'[i].op = "delete" => Knows(i)'
    BY DEF QueueOK
  <2>1. domQ'[i].op = "delete" => Knows(i)'
    <3> SUFFICES ASSUME domQ'[i].op = "delete" PROVE Knows(i)'
      OBVIOUS
    <3>1. Knows(i + d)
      BY <1>0, <1>2, ShiftedQueue
    <3>2. \A t \in OnDisk' : files'[t] = domQ[i + d].snap =>
            t \in domQ[i + d].children \/ \E u \in domQ[i + d].children : Lost(u)'
      BY <1>0, <3>1 DEF Knows
    <3>3. \A c \in domQ[i + d].children :
            c \in Existing' /\ rows'[c].parent = domQ[i + d].snap
      BY <1>0, <3>1 DEF Knows
    <3> QED BY <1>0, <1>1, <1>2, <3>1, <3>2, <3>3, KnowsStays
  <2> QED BY <1>0, <1>2, <2>1, ShiftedQueue
<1>3. ASSUME NEW r \in Requests, Asked(r) PROVE QueueOK'
  <2>0. domQ \in Seq(Requests) /\ domQ' = Append(domQ, r)
    BY <1>3 DEF TableInv, TypeOK, Asked
  <2>n. PICK n \in Nat : n = Len(domQ) + 1
    BY <2>0, QueueParts
  <2>1. /\ DOMAIN domQ = 1..Len(domQ) /\ Len(domQ) \in Nat /\ DOMAIN domQ' = 1..n
        /\ \A i \in DOMAIN domQ : domQ'[i] = domQ[i]
        /\ domQ'[n] = r /\ n = Len(domQ) + 1
    BY <2>0, <2>n, AppendParts, QueueParts
  <2>2. ASSUME NEW i \in DOMAIN domQ
        PROVE  /\ domQ'[i].op \in {"create", "delete"} => domQ'[i].snap \in Existing'
               /\ domQ'[i].op = "delete" => Knows(i)'
    <3>1. domQ'[i] = domQ[i] /\ i < n
      BY <2>1
    <3>2. ASSUME domQ[i].op = "delete" PROVE Knows(i)'
      <4>1. Knows(i)
        BY <3>2 DEF QueueOK
      <4>2. ASSUME NEW k \in DOMAIN domQ', k > i PROVE ~Creates(k, domQ[i].snap)'
        <5>1. CASE k = n
          BY <1>3, <2>1, <3>1, <4>1, <5>1 DEF Creates, Asked, Knows
        <5>2. CASE k \in DOMAIN domQ
          BY <2>1, <3>1, <4>1, <4>2, <5>2 DEF Creates, Knows
        <5> QED BY <2>1, <5>1, <5>2
      <4>3. ~(job'.op = "_create_snapshot" /\ job'.snap = domQ'[i].snap)
        BY <1>0, <3>1, <4>1 DEF Knows, SameCreation
      <4>4. ASSUME NEW k \in DOMAIN domQ', k < i, domQ'[k].op = "create",
                   rows'[domQ'[k].snap].parent = domQ'[i].snap
            PROVE  domQ'[k].snap \in domQ'[i].children
        <5>1. k \in DOMAIN domQ /\ domQ'[k] = domQ[k]
          BY <2>1, <3>1, <4>4
        <5> QED BY <1>1, <3>1, <4>1, <4>4, <5>1 DEF Knows
      <4>5. \A t \in OnDisk' : files'[t] = domQ'[i].snap =>
              t \in domQ'[i].children \/ \E u \in domQ'[i].children : Lost(u)'
        BY <1>0, <3>1, <4>1 DEF Knows
      <4>6. \A c \in domQ'[i].children : c \in Existing' /\ rows'[c].parent = domQ'[i].snap
        BY <1>0, <3>1, <4>1 DEF Knows
      <4> QED BY <4>2, <4>3, <4>4, <4>5, <4>6 DEF Knows
    <3> QED BY <1>0, <3>1, <3>2 DEF QueueOK
  <2>3. ASSUME r.op = "delete" PROVE Knows(n)'
    <3>1. r.snap \in Existing /\ r.children = Children(r.snap)
          /\ job.op # "_create_snapshot"
      BY <1>3, <2>3 DEF Asked
    <3>2. ASSUME NEW t \in OnDisk', files'[t] = domQ'[n].snap
          PROVE  t \in domQ'[n].children \/ \E u \in domQ'[n].children : Lost(u)'
      <4>1. t \in OnDisk /\ files[t] = r.snap /\ t \in Existing
        BY <1>0, <2>1, <3>2 DEF FilesOK
      <4>2. CASE rows[t].parent = r.snap
        BY <2>1, <3>1, <4>1, <4>2 DEF Children
      <4>3. CASE rows[t].parent # r.snap
        <5>1. files[t] # NoSnap
          BY <3>1, <4>1, Differ
        <5>2. PICK u \in Snaps : Lost(u) /\ rows[u].parent = r.snap
          BY <4>1, <4>3, <5>1 DEF FollowOK
        <5>3. u \in Children(r.snap)
          BY <5>2 DEF Children, Lost
        <5> QED BY <1>0, <2>1, <3>1, <5>2, <5>3
      <4> QED BY <4>2, <4>3
    <3>3. ASSUME NEW k \in DOMAIN domQ', k < n, domQ'[k].op = "create",
                 rows'[domQ'[k].snap].parent = domQ'[n].snap
          PROVE  domQ'[k].snap \in domQ'[n].children
      <4>1. k \in DOMAIN domQ /\ domQ'[k] = domQ[k]
        BY <2>1, <3>3
      <4>2. domQ[k].snap \in Existing /\ rows[domQ[k].snap].parent = r.snap
        BY <1>1, <2>1, <3>3, <4>1 DEF QueueOK
      <4> QED BY <2>1, <3>1, <4>1, <4>2 DEF Children
    <3>4. \A k \in DOMAIN domQ' : ~(k > n)
      BY <2>1
    <3>5. \A c \in domQ'[n].children : c \in Existing' /\ rows'[c].parent = domQ'[n].snap
      BY <1>0, <2>1, <3>1 DEF Children
    <3>6. job'.op # "_create_snapshot"
      BY <1>0, <3>1 DEF SameCreation
    <3> QED BY <3>2, <3>3, <3>4, <3>5, <3>6 DEF Knows
  <2>4. ASSUME NEW i \in DOMAIN domQ'
        PROVE  /\ domQ'[i].op \in {"create", "delete"} => domQ'[i].snap \in Existing'
               /\ domQ'[i].op = "delete" => Knows(i)'
    <3>1. CASE i = n
      BY <1>0, <1>3, <2>1, <2>3, <3>1 DEF Asked
    <3>2. CASE i \in DOMAIN domQ
      BY <2>2, <3>2
    <3> QED BY <2>1, <3>1, <3>2
  <2> QED BY <2>4 DEF QueueOK
<1> QED BY <1>2, <1>3 DEF Quiet, QueueMoves

\* A request that libvirt has carried out in full while nothing is spoiled.
Executed(r) ==
  /\ domQ # <<>> /\ r = Head(domQ)
  /\ CanSucceed(r) /\ FilesThere(r) /\ ~Drifts(r)
  /\ libvirt' = LibvirtAfter(r) /\ files' = FilesAfter(r)
  /\ UNCHANGED <<rows, power, job>>
  /\ \E d \in {0, 1} : Shifted(d)
  /\ reply'.res = "ok" => reply.res = "ok" \/ r.owner = "svc"

LEMMA HeadIs ==
  ASSUME TableInv, NEW r, Executed(r)
  PROVE  /\ r \in Requests /\ 1 \in DOMAIN domQ /\ r = domQ[1]
         /\ Existing' = Existing /\ SameCreation /\ QueueMoves
         /\ TableKept
BY TailParts DEF TableInv, TypeOK, Executed, Existing, SameCreation, QueueMoves, TableKept

LEMMA CreatedFiles ==
  ASSUME TableInv, AnswerOK, FilesOK, FollowOK, QueueOK, NEW r, Executed(r), r.op = "create"
  PROVE  /\ OnDisk' = OnDisk \cup {r.snap} /\ r.snap \in Existing \ OnDisk
         /\ files'[r.snap] = rows[r.snap].parent
         /\ files'[r.snap] = libvirt.cur
         /\ \A t \in OnDisk : files'[t] = files[t]
         /\ \A s \in Snaps : Lost(s) => Lost(s)'
         /\ libvirt.on /\ libvirt'.on /\ libvirt'.parent = files' /\ libvirt'.cur = r.snap
<1>1. /\ r \in Requests /\ 1 \in DOMAIN domQ /\ r = domQ[1] /\ Existing' = Existing
  BY HeadIs
<1>2. r.snap \in Existing /\ r.snap \in Snaps
  BY <1>1 DEF QueueOK, Existing
<1>3. libvirt.on /\ libvirt.parent = files /\ r.snap \notin OnDisk /\ libvirt.cur \in OnDisk \cup {NoSnap}
  BY <1>2 DEF Executed, CanSucceed, InLibvirt, OnDisk, FilesOK
<1>4. files \in [Snaps -> Parents \cup {Absent}]
      /\ libvirt \in [on : BOOLEAN, parent : [Snaps -> Parents \cup {Absent}], cur : Parents]
  BY DEF TableInv, TypeOK
<1>5. files' = [files EXCEPT ![r.snap] = libvirt.cur]
  BY DEF Executed, FilesAfter
<1>6. rows[r.snap].parent = libvirt.cur
  BY <1>2 DEF Executed, Drifts
<1>7. libvirt' = [libvirt EXCEPT !.parent[r.snap] = libvirt.cur, !.cur = r.snap]
  BY DEF Executed, LibvirtAfter
<1>8. libvirt.cur # Absent
  BY <1>3, Differ
<1>9. OnDisk' = OnDisk \cup {r.snap}
  BY <1>2, <1>4, <1>5, <1>8 DEF OnDisk
<1>10. /\ libvirt'.on /\ libvirt'.cur = r.snap
       /\ libvirt'.parent = [libvirt.parent EXCEPT ![r.snap] = libvirt.cur]
  BY <1>3, <1>4, <1>7
<1>11. ASSUME NEW s \in Snaps, Lost(s) PROVE Lost(s)'
  <2>1. Coming(s)' => Coming(s)
    BY HeadIs, ComingShrinks
  <2>2. s # r.snap
    <3>1. Coming(r.snap)
      BY <1>1 DEF Coming, Creates
    <3> QED BY <1>11, <3>1, LostIs
  <2> QED BY <1>1, <1>9, <1>11, <2>1, <2>2, LostIs, LostStays
<1> QED BY <1>2, <1>3, <1>4, <1>5, <1>6, <1>9, <1>10, <1>11

\* The new file names a parent that has one, as the table does.
LEMMA CreateKeeps ==
  ASSUME TableInv, AnswerOK, FilesOK, FollowOK, DeletedOK, QueueOK, NEW r, Executed(r), r.op = "create"
  PROVE  FilesOK' /\ FollowOK' /\ DeletedOK' /\ QueueOK'
<1> DEFINE s == r.snap
<1>0. /\ Existing' = Existing /\ rows' = rows /\ job' = job /\ Existing \subseteq Snaps
      /\ OnDisk \subseteq Existing /\ NoSnap \notin Snaps
      /\ libvirt.cur \in OnDisk \cup {NoSnap}
      /\ 1 \in DOMAIN domQ /\ r = domQ[1] /\ SameCreation
  BY CreatedFiles, HeadIs, Differ DEF FilesOK, Executed
<1>1. FilesOK'
  <2>1. OnDisk' \subseteq Existing' /\ \A t \in OnDisk' : files'[t] \in OnDisk' \cup {NoSnap}
    BY <1>0, CreatedFiles DEF FilesOK
  <2>2. ASSUME NEW S \in SUBSET OnDisk', S # {} PROVE \E t \in S : files'[t] \notin S
    <3>1. CASE S = {s}
      BY <1>0, <3>1, CreatedFiles
    <3>2. CASE S # {s}
      <4>1. S \ {s} \in SUBSET OnDisk /\ S \ {s} # {}
        BY <2>2, <3>2, CreatedFiles
      <4>2. PICK t \in S \ {s} : files[t] \notin S \ {s}
        BY <4>1 DEF FilesOK
      <4>3. files[t] # s /\ files'[t] = files[t]
        BY <1>0, <4>1, <4>2, CreatedFiles DEF FilesOK
      <4> QED BY <4>2, <4>3
    <3> QED BY <3>1, <3>2
  <2> QED BY <2>1, <2>2, CreatedFiles DEF FilesOK
<1>2. FollowOK'
  <2> SUFFICES ASSUME NEW t \in OnDisk', files'[t] # rows'[t].parent
               PROVE  /\ Lost(rows[t].parent)'
                      /\ files'[t] # NoSnap => \E u \in Snaps : Lost(u)' /\ rows'[u].parent = files'[t]
    BY DEF FollowOK
  <2>1. t \in OnDisk /\ files'[t] = files[t]
    BY <1>0, CreatedFiles
  <2>2. /\ Lost(rows[t].parent)
        /\ files[t] # NoSnap => \E u \in Snaps : Lost(u) /\ rows[u].parent = files[t]
    BY <1>0, <2>1 DEF FollowOK
  <2>3. rows[t].parent \in Snaps
    BY <1>0, <2>2, LostIs
  <2>4. PICK p \in Snaps : p = rows[t].parent /\ p = rows'[t].parent
    BY <1>0, <2>3
  <2>5. Lost(p)'
    BY <2>2, <2>4, CreatedFiles
  <2> QED BY <1>0, <2>1, <2>2, <2>4, <2>5, CreatedFiles DEF Lost, Coming, Creates
<1>3. DeletedOK'
  <2>1. job.op \in DeleteOps /\ reply'.res = "ok" => FALSE
    BY <1>0 DEF AnswerOK, Executed
  <2> QED BY <1>0, <2>1 DEF DeletedOK, DeleteOps
<1>4. QueueOK'
  <2> SUFFICES ASSUME NEW i \in DOMAIN domQ'
               PROVE  /\ domQ'[i].op \in {"create", "delete"} => domQ'[i].snap \in Existing'
                      /\ domQ'[i].op = "delete" => Knows(i)'
    BY DEF QueueOK
  <2>1. PICK d \in {0, 1} : Shifted(d)
    BY DEF Executed
  <2>2. ASSUME domQ'[i].op = "delete" PROVE Knows(i)'
    <3>1. Knows(i + d) /\ i + d \in DOMAIN domQ /\ domQ[i + d].op = "delete"
      BY <1>0, <2>1, <2>2, ShiftedQueue
    <3>2. ASSUME NEW t \in OnDisk', files'[t] = domQ[i + d].snap
          PROVE  t \in domQ[i + d].children \/ \E u \in domQ[i + d].children : Lost(u)'
      <4>1. CASE t = s
        <5>1. 1 < i + d /\ domQ[1].op = "create" /\ rows[domQ[1].snap].parent = domQ[i + d].snap
          BY <1>0, <2>1, <3>1, <3>2, <4>1, CreatedFiles, QueueParts DEF Shifted, TableInv, TypeOK
        <5> QED BY <1>0, <3>1, <4>1, <5>1 DEF Knows
      <4>2. CASE t \in OnDisk
        <5>1. files[t] = domQ[i + d].snap
          BY <3>2, <4>2, CreatedFiles
        <5>2. t \in domQ[i + d].children \/ \E u \in domQ[i + d].children : Lost(u)
          BY <3>1, <4>2, <5>1 DEF Knows
        <5> QED BY <1>0, <5>2, CreatedFiles, LostIs
      <4> QED BY <4>1, <4>2, CreatedFiles
    <3>3. \A c \in domQ[i + d].children : c \in Existing' /\ rows'[c].parent = domQ[i + d].snap
      BY <1>0, <3>1 DEF Knows
    <3>4. \A k \in DOMAIN domQ : domQ[k].op = "create" => rows'[domQ[k].snap].parent = rows[domQ[k].snap].parent
      BY <1>0
    <3> QED BY <1>0, <2>1, <3>1, <3>2, <3>3, <3>4, KnowsStays
  <2> QED BY <1>0, <2>1, <2>2, ShiftedQueue
<1> QED BY <1>1, <1>2, <1>3, <1>4

\* The children a deletion knows are those whose files name the snapshot: what it
\* takes away, and to whom it gives what is left.
LEMMA DeletedFiles ==
  ASSUME TableInv, AnswerOK, FilesOK, FollowOK, QueueOK, NEW r, Executed(r), r.op = "delete"
  PROVE  /\ r.snap \in OnDisk /\ r.snap \in Existing /\ OnDisk' = OnDisk \ {r.snap}
         /\ \A t \in OnDisk : files[t] = r.snap <=> t \in r.children
         /\ files[r.snap] \in (OnDisk \ {r.snap}) \cup {NoSnap}
         /\ \A t \in Snaps : files'[t] = IF t = r.snap THEN Absent
                                         ELSE IF t \in r.children THEN files[r.snap] ELSE files[t]
         /\ \A s \in Snaps : Lost(s) => Lost(s)'
         /\ Lost(r.snap)'
         /\ libvirt'.on => libvirt'.parent = files' /\ libvirt'.cur \in OnDisk' \cup {NoSnap}
<1> DEFINE s == r.snap
<1>0. /\ r \in Requests /\ 1 \in DOMAIN domQ /\ r = domQ[1] /\ Existing' = Existing /\ rows' = rows
      /\ job' = job /\ OnDisk \subseteq Existing /\ Existing \subseteq Snaps /\ SameCreation /\ QueueMoves
      /\ Absent \notin Snaps /\ Absent # NoSnap /\ NoSnap \notin Snaps
      /\ \A t \in Snaps \ OnDisk : files[t] = Absent
  BY HeadIs, Differ DEF FilesOK, Executed
<1>1. s \in Existing /\ Knows(1)
  BY <1>0 DEF QueueOK
<1>2. s \in OnDisk /\ r.children \subseteq OnDisk
  BY DEF Executed, FilesThere
<1>3. ASSUME NEW t \in OnDisk PROVE files[t] = s <=> t \in r.children
  <2>1. ASSUME files[t] = s PROVE t \in r.children
    <3>1. t \in r.children \/ \E u \in r.children : Lost(u)
      BY <1>0, <1>1, <2>1 DEF Knows
    <3> QED BY <1>2, <3>1, LostIs
  <2>2. ASSUME t \in r.children PROVE files[t] = s
    <3>1. rows[t].parent = s
      BY <1>0, <1>1, <2>2 DEF Knows
    <3>2. files[t] # s => Lost(s)
      BY <3>1 DEF FollowOK
    <3> QED BY <1>2, <3>2, LostIs
  <2> QED BY <2>1, <2>2
<1>4. files[s] \in (OnDisk \ {s}) \cup {NoSnap}
  <2>1. files[s] \in OnDisk \cup {NoSnap}
    BY <1>2 DEF FilesOK
  <2>2. {s} \in SUBSET OnDisk /\ {s} # {}
    BY <1>2
  <2>3. \E t \in {s} : files[t] \notin {s}
    BY <2>2 DEF FilesOK
  <2> QED BY <2>1, <2>3
<1>5. files' = [t \in Snaps |-> IF t = s THEN Absent
                                ELSE IF t \in r.children THEN files[s] ELSE files[t]]
  BY DEF Executed, FilesAfter, Reparented
<1>6. OnDisk' = OnDisk \ {s}
  BY <1>0, <1>2, <1>4, <1>5 DEF OnDisk
<1>7. ASSUME NEW u \in Snaps, Lost(u) PROVE Lost(u)'
  <2>1. Coming(u)' => Coming(u)
    BY <1>0, ComingShrinks
  <2> QED BY <1>0, <1>6, <1>7, <2>1, LostIs, LostStays
<1>8. Lost(s)'
  <2>1. ~Coming(s)
    <3>1. ASSUME NEW k \in DOMAIN domQ, Creates(k, s) PROVE FALSE
      <4>1. k # 1
        BY <1>0, <3>1 DEF Creates
      <4>2. k > 1
        BY <3>1, <4>1, QueueParts DEF TableInv, TypeOK
      <4> QED BY <1>0, <1>1, <3>1, <4>2 DEF Knows
    <3> QED BY <1>0, <1>1, <3>1 DEF Coming, Knows
  <2>2. PICK x \in Snaps : x = s
    BY <1>0, <1>1
  <2>3. x \in Existing' /\ x \notin OnDisk' /\ ~Coming(x)'
    BY <1>0, <1>1, <1>6, <2>1, <2>2, ComingShrinks
  <2>4. Lost(x)'
    BY <2>3 DEF Lost
  <2> QED BY <2>2, <2>4
<1>9. ASSUME libvirt'.on PROVE libvirt'.parent = files' /\ libvirt'.cur \in OnDisk' \cup {NoSnap}
  <2>0. libvirt \in [on : BOOLEAN, parent : [Snaps -> Parents \cup {Absent}], cur : Parents]
    BY DEF TableInv, TypeOK
  <2>1. libvirt.on /\ libvirt' = LibvirtWithout(s)
    BY <1>9 DEF Executed, LibvirtAfter
  <2>2. libvirt.parent = files /\ libvirt.cur \in OnDisk \cup {NoSnap}
    BY <2>1 DEF FilesOK
  <2>3. /\ libvirt'.parent = [t \in Snaps |-> IF t = s THEN Absent
                                              ELSE IF libvirt.parent[t] = s THEN libvirt.parent[s]
                                              ELSE libvirt.parent[t]]
        /\ libvirt'.cur = IF libvirt.cur = s THEN libvirt.parent[s] ELSE libvirt.cur
    BY <2>0, <2>1 DEF LibvirtWithout
  <2>4. \A t \in Snaps : files[t] = s <=> t \in r.children
    BY <1>0, <1>1, <1>2, <1>3
  <2>5. libvirt'.parent = files'
    BY <1>5, <2>2, <2>3, <2>4
  <2> QED BY <1>4, <1>6, <2>2, <2>3, <2>5
<1> QED BY <1>1, <1>2, <1>3, <1>4, <1>5, <1>6, <1>7, <1>8, <1>9

\* A deletion takes one file away, and the files that named it name its parent.
LEMMA DeleteKeepsFiles ==
  ASSUME TableInv, AnswerOK, FilesOK, FollowOK, QueueOK, NEW r, Executed(r), r.op = "delete"
  PROVE  FilesOK' /\ FollowOK'
<1> DEFINE s == r.snap
<1>0. /\ Existing' = Existing /\ rows' = rows /\ Existing \subseteq Snaps /\ OnDisk \subseteq Existing
      /\ NoSnap \notin Snaps
  BY HeadIs, Differ DEF FilesOK, Executed
<1>1. /\ s \in OnDisk /\ OnDisk' = OnDisk \ {s}
      /\ \A t \in OnDisk : files[t] = s <=> t \in r.children
      /\ files[s] \in (OnDisk \ {s}) \cup {NoSnap}
      /\ \A t \in OnDisk \ {s} : files'[t] = IF files[t] = s THEN files[s] ELSE files[t]
      /\ \A u \in Snaps : Lost(u) => Lost(u)'
  BY <1>0, DeletedFiles
<1>2. FilesOK'
  <2>1. OnDisk' \subseteq Existing' /\ \A t \in OnDisk' : files'[t] \in OnDisk' \cup {NoSnap}
    BY <1>0, <1>1 DEF FilesOK
  <2>2. ASSUME NEW S \in SUBSET OnDisk', S # {} PROVE \E t \in S : files'[t] \notin S
    <3>1. S \in SUBSET OnDisk /\ s \notin S /\ S \cup {s} \in SUBSET OnDisk /\ S \cup {s} # {}
      BY <1>1
    <3>2. PICK t \in S : files[t] \notin S
      BY <2>2, <3>1 DEF FilesOK
    <3>3. CASE files[t] # s
      BY <1>1, <3>1, <3>2, <3>3
    <3>4. CASE files[t] = s
      <4>1. PICK u \in S \cup {s} : files[u] \notin S \cup {s}
        BY <3>1 DEF FilesOK
      <4>2. CASE u = s
        BY <1>1, <3>1, <3>2, <3>4, <4>1, <4>2
      <4>3. CASE u # s
        BY <1>1, <3>1, <4>1, <4>3
      <4> QED BY <4>2, <4>3
    <3> QED BY <3>3, <3>4
  <2> QED BY <2>1, <2>2, DeletedFiles DEF FilesOK
<1>3. FollowOK'
  <2> SUFFICES ASSUME NEW t \in OnDisk', files'[t] # rows'[t].parent
               PROVE  /\ Lost(rows[t].parent)'
                      /\ files'[t] # NoSnap => \E u \in Snaps : Lost(u)' /\ rows'[u].parent = files'[t]
    BY DEF FollowOK
  <2>0. t \in OnDisk /\ t # s /\ rows'[t].parent = rows[t].parent
    BY <1>0, <1>1
  <2>1. PICK p : p = rows[t].parent /\ p = rows'[t].parent
    BY <2>0
  <2>2. CASE files[t] # s
    <3>1. /\ files'[t] = files[t] /\ Lost(p)
          /\ files[t] # NoSnap => \E u \in Snaps : Lost(u) /\ rows[u].parent = files[t]
      BY <1>1, <2>0, <2>1, <2>2 DEF FollowOK
    <3>2. p \in Snaps
      BY <1>0, <3>1, LostIs
    <3>3. Lost(p)'
      BY <1>1, <3>1, <3>2
    <3>4. files'[t] # NoSnap => \E u \in Snaps : Lost(u)' /\ rows'[u].parent = files'[t]
      BY <1>0, <1>1, <3>1
    <3> QED BY <2>1, <3>3, <3>4 DEF Lost, Coming, Creates
  <2>3. CASE files[t] = s
    <3>0. PICK y \in Snaps : y = s
      BY <1>0, <1>1
    <3>1. p = y
      <4>1. Knows(1) /\ r = domQ[1]
        BY HeadIs DEF QueueOK
      <4>2. t \in r.children
        BY <1>1, <2>0, <2>3
      <4> QED BY <2>1, <3>0, <4>1, <4>2 DEF Knows
    <3>2. Lost(p)' /\ files'[t] = files[s]
      BY <1>1, <2>0, <2>3, <3>0, <3>1, DeletedFiles
    <3>3. ASSUME files[s] # NoSnap PROVE \E u \in Snaps : Lost(u)' /\ rows'[u].parent = files[s]
      <4>1. CASE rows[s].parent = files[s]
        BY <1>0, <3>0, <3>1, <3>2, <4>1
      <4>2. CASE rows[s].parent # files[s]
        <5>1. \E u \in Snaps : Lost(u) /\ rows[u].parent = files[s]
          BY <1>1, <3>3, <4>2 DEF FollowOK
        <5> QED BY <1>0, <1>1, <5>1
      <4> QED BY <4>1, <4>2
    <3> QED BY <2>1, <3>2, <3>3 DEF Lost, Coming, Creates
  <2> QED BY <2>2, <2>3
<1> QED BY <1>2, <1>3

LEMMA DeleteKeepsDeleted ==
  ASSUME TableInv, AnswerOK, FilesOK, FollowOK, DeletedOK, QueueOK, NEW r, Executed(r), r.op = "delete"
  PROVE  DeletedOK'
<1> SUFFICES ASSUME job'.op \in DeleteOps, reply'.res = "ok" PROVE DeletedOK'
  BY DEF DeletedOK, DeleteOps
<1>0. /\ Existing' = Existing /\ rows' = rows /\ Existing \subseteq Snaps /\ OnDisk \subseteq Existing
      /\ NoSnap \notin Snaps /\ job' = job /\ r = domQ[1] /\ 1 \in DOMAIN domQ /\ domQ # <<>>
  BY HeadIs, Differ DEF FilesOK, Executed
<1>1. r.owner = "svc" /\ r.snap = job.snap /\ r.children = Children(job.snap)
  BY <1>0 DEF AnswerOK, Executed
<1>2. PICK x \in Snaps : x = r.snap /\ x = job.snap /\ x = job'.snap
  BY <1>0, <1>1, DeletedFiles
<1>3. /\ x \in OnDisk /\ OnDisk' = OnDisk \ {x} /\ files[x] \in (OnDisk \ {x}) \cup {NoSnap}
      /\ \A t \in OnDisk : files[t] = x <=> t \in Children(x)
      /\ \A t \in OnDisk \ {x} : files'[t] = IF files[t] = x THEN files[x] ELSE files[t]
      /\ \A u \in Snaps : Lost(u) => Lost(u)' /\ u # x
  BY <1>0, <1>1, <1>2, DeletedFiles, LostIs
<1>4. \A t \in Snaps : ParentAfter(x, t)' = ParentAfter(x, t)
  BY <1>0 DEF ParentAfter
<1>5. ASSUME NEW t \in OnDisk', files'[t] # ParentAfter(x, t)
      PROVE  /\ Lost(ParentAfter(x, t))
             /\ files'[t] # NoSnap => \E u \in Snaps \ {x} : Lost(u) /\ ParentAfter(x, u) = files'[t]
  <2>1. t \in OnDisk \ {x} /\ t \in Existing
    BY <1>0, <1>3
  <2>2. CASE files[t] = x
    <3>1. rows[t].parent = x /\ files'[t] = files[x]
      BY <1>3, <2>1, <2>2 DEF Children
    <3>2. ParentAfter(x, t) = rows[x].parent
      BY <3>1 DEF ParentAfter
    <3>3. /\ Lost(rows[x].parent)
          /\ files[x] # NoSnap => \E u \in Snaps : Lost(u) /\ rows[u].parent = files[x]
      BY <1>3, <1>5, <3>1, <3>2 DEF FollowOK
    <3>4. files[x] # x
      BY <1>0, <1>3
    <3> QED BY <1>3, <3>1, <3>2, <3>3, <3>4 DEF ParentAfter
  <2>3. CASE files[t] # x
    <3>1. rows[t].parent # x /\ files'[t] = files[t]
      BY <1>3, <2>1, <2>3 DEF Children
    <3>2. ParentAfter(x, t) = rows[t].parent
      BY <3>1 DEF ParentAfter
    <3>3. /\ Lost(rows[t].parent)
          /\ files[t] # NoSnap => \E u \in Snaps : Lost(u) /\ rows[u].parent = files[t]
      BY <1>5, <2>1, <3>1, <3>2 DEF FollowOK
    <3> QED BY <1>3, <2>3, <3>1, <3>2, <3>3 DEF ParentAfter
  <2> QED BY <2>2, <2>3
<1>6. ASSUME NEW t \in OnDisk', files'[t] # ParentAfter(x, t)'
      PROVE  /\ Lost(ParentAfter(x, t))'
             /\ files'[t] # NoSnap => \E u \in Snaps \ {x} : Lost(u)' /\ ParentAfter(x, u)' = files'[t]
  <2>1. t \in Snaps /\ files'[t] # ParentAfter(x, t)
    BY <1>0, <1>3, <1>4, <1>6
  <2>2. PICK p : p = ParentAfter(x, t) /\ p = ParentAfter(x, t)'
    BY <1>4, <2>1
  <2>3. Lost(p) /\ p \in Snaps
    BY <1>0, <1>5, <2>1, <2>2, LostIs
  <2>4. Lost(p)'
    BY <1>3, <2>3
  <2>5. Lost(ParentAfter(x, t))'
    BY <2>2, <2>4 DEF Lost, Coming, Creates
  <2> QED BY <1>3, <1>4, <1>5, <2>1, <2>5
<1>7. x \notin OnDisk'
  BY <1>3
<1> QED BY <1>2, <1>6, <1>7 DEF DeletedOK

LEMMA DeleteKeepsQueue ==
  ASSUME TableInv, AnswerOK, FilesOK, FollowOK, QueueOK, NEW r, Executed(r), r.op = "delete"
  PROVE  QueueOK'
<1> SUFFICES ASSUME NEW i \in DOMAIN domQ'
             PROVE  /\ domQ'[i].op \in {"create", "delete"} => domQ'[i].snap \in Existing'
                    /\ domQ'[i].op = "delete" => Knows(i)'
  BY DEF QueueOK
<1>0. /\ Existing' = Existing /\ rows' = rows /\ Existing \subseteq Snaps /\ OnDisk \subseteq Existing
      /\ SameCreation
  BY HeadIs, Differ DEF FilesOK, Executed
<1>1. PICK d \in {0, 1} : Shifted(d)
  BY DEF Executed
<1>2. /\ r.snap \in OnDisk /\ OnDisk' = OnDisk \ {r.snap}
      /\ \A t \in OnDisk \ {r.snap} : files'[t] = IF files[t] = r.snap THEN files[r.snap] ELSE files[t]
      /\ \A u \in Snaps : Lost(u) => Lost(u)'
      /\ Lost(r.snap)'
  BY <1>0, DeletedFiles
<1>3. ASSUME domQ'[i].op = "delete" PROVE Knows(i)'
  <2>1. Knows(i + d) /\ i + d \in DOMAIN domQ
    BY <1>0, <1>1, <1>3, ShiftedQueue
  <2>2. ASSUME NEW t \in OnDisk', files'[t] = domQ[i + d].snap
        PROVE  t \in domQ[i + d].children \/ \E u \in domQ[i + d].children : Lost(u)'
    <3>1. t \in OnDisk \ {r.snap} /\ \A c \in domQ[i + d].children : c \in Snaps
      BY <1>0, <1>2, <2>1 DEF Knows
    <3>2. CASE files[t] # r.snap
      <4>1. files[t] = domQ[i + d].snap
        BY <1>2, <2>2, <3>1, <3>2
      <4>2. t \in domQ[i + d].children \/ \E u \in domQ[i + d].children : Lost(u)
        BY <2>1, <3>1, <4>1 DEF Knows
      <4> QED BY <1>2, <3>1, <4>2
    <3>3. CASE files[t] = r.snap
      <4>1. files[r.snap] = domQ[i + d].snap
        BY <1>2, <2>2, <3>1, <3>3
      <4>2. r.snap \in domQ[i + d].children \/ \E u \in domQ[i + d].children : Lost(u)
        BY <1>2, <2>1, <4>1 DEF Knows
      <4> QED BY <1>2, <3>1, <4>2
    <3> QED BY <3>2, <3>3
  <2>3. \A c \in domQ[i + d].children : c \in Existing' /\ rows'[c].parent = domQ[i + d].snap
    BY <1>0, <2>1 DEF Knows
  <2>4. \A k \in DOMAIN domQ : domQ[k].op = "create" => rows'[domQ[k].snap].parent = rows[domQ[k].snap].parent
    BY <1>0
  <2> QED BY <1>0, <1>1, <2>1, <2>2, <2>3, <2>4, KnowsStays
<1> QED BY <1>0, <1>1, <1>3, ShiftedQueue

\* Start gives libvirt all files back, for they are closed.
LEMMA RestIsQuiet ==
  ASSUME TableInv, AnswerOK, FilesOK, NEW r, Executed(r), r.op \notin {"create", "delete"}
  PROVE  Quiet
<1>0. r \in Requests /\ r = domQ[1] /\ 1 \in DOMAIN domQ /\ TableKept /\ SameCreation /\ QueueMoves
      /\ domQ # <<>> /\ job' = job
  BY HeadIs DEF Executed
<1>1. files' = files /\ OnDisk' = OnDisk
  BY DEF Executed, FilesAfter, OnDisk
<1>2. job'.op \in DeleteOps /\ reply'.res = "ok" => FALSE
  BY <1>0 DEF AnswerOK, Executed
<1>3. ASSUME libvirt'.on PROVE libvirt'.parent = files' /\ libvirt'.cur \in OnDisk' \cup {NoSnap}
  <2>0. /\ libvirt \in [on : BOOLEAN, parent : [Snaps -> Parents \cup {Absent}], cur : Parents]
        /\ files \in [Snaps -> Parents \cup {Absent}]
    BY DEF TableInv, TypeOK
  <2>1. CASE r.op = "revert"
    <3>1. libvirt.on /\ r.snap \in InLibvirt /\ libvirt' = [libvirt EXCEPT !.cur = r.snap]
      BY <2>1 DEF Executed, CanSucceed, LibvirtAfter
    <3>2. libvirt.parent = files /\ libvirt'.parent = libvirt.parent /\ libvirt'.cur = r.snap
      BY <2>0, <3>1 DEF FilesOK
    <3>3. r.snap \in OnDisk
      BY <3>1, <3>2 DEF InLibvirt, OnDisk
    <3> QED BY <1>1, <3>2, <3>3
  <2>2. CASE r.op = "start"
    <3>1. Redefined = OnDisk
      BY DEF Redefined, FilesOK
    <3>2. /\ libvirt'.cur = IF r.snap \in OnDisk THEN r.snap ELSE NoSnap
          /\ libvirt'.parent = [s \in Snaps |-> IF s \in OnDisk THEN files[s] ELSE Absent]
      BY <2>2, <3>1 DEF Executed, LibvirtAfter
    <3>3. libvirt'.parent = files
      BY <2>0, <3>2 DEF OnDisk
    <3> QED BY <1>1, <3>2, <3>3
  <2>3. CASE r.op = "turn_off"
    BY <1>3, <2>3 DEF Executed, LibvirtAfter, Off
  <2> QED BY <1>0, <2>1, <2>2, <2>3 DEF Requests
<1> QED BY <1>0, <1>1, <1>2, <1>3 DEF Quiet

\* A deletion takes one row.
LEMMA DeletedExisting ==
  ASSUME rows \in [Snaps -> Rows], NEW y \in Snaps, rows' = Deleted(y)
  PROVE  Existing' = Existing \ {y}
<1>1. rows'[y].status = "none"
  BY NoRowIs DEF Deleted
<1>2. ASSUME NEW t \in Snaps, t # y PROVE rows'[t].status = rows[t].status
  <2>1. PICK q, p : q \in Rows /\ q = rows[t] /\ p = rows[y].parent
    OBVIOUS
  <2>2. rows'[t] = q \/ rows'[t] = [q EXCEPT !.parent = p]
    BY <1>2, <2>1 DEF Deleted
  <2> QED BY <2>1, <2>2 DEF Rows
<1> QED BY <1>1, <1>2 DEF Existing

\* The deletion that has succeeded is written.
LEMMA FinishKeeps ==
  ASSUME TableInv, TableInv', AnswerOK, FilesOK, DeletedOK, DeleteFinish, reply.res = "ok"
  PROVE  FilesOK' /\ FollowOK' /\ DeletedOK' /\ QueueOK'
<1> DEFINE x == job.snap
<1>0. /\ job.op \in DeleteOps /\ job.pc = "domain" /\ x \in Existing /\ rows' = Deleted(x)
      /\ domQ = <<>> /\ domQ' = domQ /\ files' = files /\ libvirt' = libvirt /\ OnDisk' = OnDisk
      /\ reply' = NoReply /\ Existing \subseteq Snaps /\ NoSnap \notin Snaps
      /\ OnDisk \subseteq Existing
  BY Differ DEF DeleteFinish, TableInv, SubjectOK, AnswerOK, DeleteOps, FilesOK, OnDisk
<1>1. PICK y \in Snaps : y = x
  BY <1>0
<1>2. rows \in [Snaps -> Rows]
  BY DEF TableInv, TableOK
<1>3. ASSUME NEW t \in Existing, t # y
      PROVE  rows'[t].parent = ParentAfter(y, t) /\ t \in Existing'
  <2>1. PICK q, p : q \in Rows /\ q = rows[t] /\ p = rows[y].parent /\ t \in Snaps /\ q.status # "none"
    BY <1>0, <1>2 DEF Existing
  <2>2. rows'[t] = IF q.parent = y THEN [q EXCEPT !.parent = p] ELSE q
    BY <1>0, <1>1, <1>3, <2>1 DEF Deleted, Children
  <2> QED BY <2>1, <2>2 DEF ParentAfter, Rows, Existing
<1>4. Existing' = Existing \ {y}
  BY <1>0, <1>1, <1>2, DeletedExisting
<1>5. job'.op # "_create_snapshot"
  BY <1>0, SnapIdle DEF DeleteFinish, Done, DeleteOps, TableInv, TypeOK, Jobs
<1>6. domQ' = <<>> /\ DOMAIN domQ' = {}
  BY <1>0
<1>7. /\ y \notin OnDisk
      /\ \A t \in OnDisk : files[t] # ParentAfter(y, t) =>
             /\ Lost(ParentAfter(y, t))
             /\ files[t] # NoSnap => \E u \in Snaps \ {y} : Lost(u) /\ ParentAfter(y, u) = files[t]
  BY <1>0, <1>1 DEF DeletedOK
<1>8. ASSUME NEW u \in Existing', Lost(u) PROVE Lost(u)'
  BY <1>0, <1>5, <1>6, <1>8, LostIs DEF Lost, Coming
<1>9. OnDisk' \subseteq Existing'
  BY <1>0, <1>3, <1>7
<1>10. FilesOK'
  BY <1>0, <1>9 DEF FilesOK
<1>11. FollowOK'
  <2> SUFFICES ASSUME NEW t \in OnDisk', files'[t] # rows'[t].parent
               PROVE  /\ Lost(rows[t].parent)'
                      /\ files'[t] # NoSnap => \E u \in Snaps : Lost(u)' /\ rows'[u].parent = files'[t]
    BY DEF FollowOK
  <2>1. t \in OnDisk /\ t \in Existing /\ t # y /\ files'[t] = files[t] /\ t \in Existing'
    BY <1>0, <1>7, <1>9
  <2>2. PICK p : p = rows'[t].parent /\ p = ParentAfter(y, t)
    BY <1>3, <2>1
  <2>3. Lost(p)
    BY <1>7, <2>1, <2>2
  <2>4. p \in Existing'
    <3>1. p \in Existing' \cup {NoSnap}
      <4>1. TableOK'
        BY DEF TableInv
      <4> QED BY <2>1, <2>2, <4>1 DEF TableOK
    <3> QED BY <1>0, <2>3, <3>1, LostIs
  <2>5. Lost(p)'
    BY <1>8, <2>3, <2>4
  <2>6. ASSUME files'[t] # NoSnap PROVE \E u \in Snaps : Lost(u)' /\ rows'[u].parent = files'[t]
    <3>1. PICK u \in Snaps \ {y} : Lost(u) /\ ParentAfter(y, u) = files[t]
      BY <1>7, <2>1, <2>2, <2>6
    <3>2. u \in Existing' /\ rows'[u].parent = files[t]
      BY <1>3, <3>1, LostIs
    <3> QED BY <1>8, <2>1, <3>1, <3>2
  <2> QED BY <2>2, <2>5, <2>6 DEF Lost, Coming, Creates
<1>12. DeletedOK' /\ QueueOK'
  BY <1>0, <1>6 DEF DeletedOK, QueueOK, NoReply
<1> QED BY <1>10, <1>11, <1>12

\* A new snapshot has no file yet.
LEMMA NewKeeps ==
  ASSUME TableInv, TableInv', AnswerOK, FilesOK, FollowOK, QueueOK, NEW s \in Snaps, CreateSnapshot(s)
  PROVE  FilesOK' /\ FollowOK' /\ DeletedOK' /\ QueueOK'
<1>0. /\ job = NoJob /\ job' = Job("_create_snapshot", s, "start") /\ s \notin Existing
      /\ files' = files /\ libvirt' = libvirt /\ domQ' = domQ /\ OnDisk' = OnDisk
      /\ OnDisk \subseteq Existing /\ Existing \subseteq Snaps /\ NoSnap \notin Snaps
      /\ rows \in [Snaps -> Rows]
  BY Differ DEF CreateSnapshot, Free, FilesOK, OnDisk, TableInv, TableOK
<1>1. job'.op = "_create_snapshot" /\ job'.snap = s
  BY <1>0 DEF Job
<1>2. ASSUME NEW t \in Snaps, t # s
      PROVE  rows'[t].parent = rows[t].parent /\ rows'[t].status = rows[t].status
  <2>1. rows'[t] = WithCurrent({})[t]
    BY <1>2 DEF CreateSnapshot, WithCurrent
  <2> QED BY <1>0, <2>1, CurrentOf
<1>3. Existing \subseteq Existing'
  BY <1>0, <1>2 DEF Existing
<1>4. ASSUME NEW t \in Existing, Coming(t)' PROVE Coming(t)
  BY <1>0, <1>1, <1>4 DEF Coming, Creates
<1>5. ASSUME NEW u, Lost(u) PROVE Lost(u)'
  BY <1>0, <1>3, <1>4, <1>5, LostIs, LostStays
<1>6. ASSUME NEW t \in Existing PROVE t \in Snaps /\ t # s /\ rows'[t].parent = rows[t].parent
  BY <1>0, <1>2
<1>7. FilesOK'
  BY <1>0, <1>3 DEF FilesOK
<1>8. FollowOK'
  <2> SUFFICES ASSUME NEW t \in OnDisk', files'[t] # rows'[t].parent
               PROVE  /\ Lost(rows[t].parent)'
                      /\ files'[t] # NoSnap => \E u \in Snaps : Lost(u)' /\ rows'[u].parent = files'[t]
    BY DEF FollowOK
  <2>1. t \in OnDisk /\ t \in Existing /\ files'[t] = files[t]
    BY <1>0
  <2>2. PICK p : p = rows[t].parent /\ p = rows'[t].parent
    BY <1>6, <2>1
  <2>3. /\ Lost(p)
        /\ files[t] # NoSnap => \E u \in Snaps : Lost(u) /\ rows[u].parent = files[t]
    BY <2>1, <2>2 DEF FollowOK
  <2>4. Lost(p)'
    BY <1>5, <2>3
  <2>5. files'[t] # NoSnap => \E u \in Snaps : Lost(u)' /\ rows'[u].parent = files'[t]
    BY <1>5, <1>6, <2>1, <2>3, LostIs
  <2> QED BY <2>2, <2>4, <2>5 DEF Lost, Coming, Creates
<1>9. DeletedOK'
  BY <1>1 DEF DeletedOK, DeleteOps
<1>10. ASSUME NEW i \in DOMAIN domQ
       PROVE  /\ domQ'[i].op \in {"create", "delete"} => domQ'[i].snap \in Existing'
              /\ domQ'[i].op = "delete" => Knows(i)'
  <2>1. domQ'[i] = domQ[i] /\ DOMAIN domQ' = DOMAIN domQ
    BY <1>0
  <2>2. ASSUME domQ[i].op = "delete" PROVE Knows(i)'
    <3>1. Knows(i) /\ domQ[i].snap \in Existing
      BY <2>2 DEF QueueOK
    <3>2. \A k \in DOMAIN domQ' : k > i => ~Creates(k, domQ[i].snap)'
      BY <1>0, <3>1 DEF Knows, Creates
    <3>3. ~(job'.op = "_create_snapshot" /\ job'.snap = domQ'[i].snap)
      BY <1>1, <1>6, <2>1, <3>1
    <3>4. \A c \in domQ'[i].children : c \in Existing' /\ rows'[c].parent = domQ'[i].snap
      BY <1>3, <1>6, <2>1, <3>1 DEF Knows
    <3>5. \A t \in OnDisk' : files'[t] = domQ'[i].snap =>
            t \in domQ'[i].children \/ \E u \in domQ'[i].children : Lost(u)'
      BY <1>0, <1>5, <2>1, <3>1 DEF Knows
    <3>6. ASSUME NEW k \in DOMAIN domQ', k < i, domQ'[k].op = "create",
                 rows'[domQ'[k].snap].parent = domQ'[i].snap
          PROVE  domQ'[k].snap \in domQ'[i].children
      <4>1. k \in DOMAIN domQ /\ domQ'[k] = domQ[k]
        BY <1>0
      <4>2. rows[domQ[k].snap].parent = domQ[i].snap
        BY <1>6, <2>1, <3>6, <4>1 DEF QueueOK
      <4> QED BY <2>1, <3>1, <3>6, <4>1, <4>2 DEF Knows
    <3> QED BY <3>2, <3>3, <3>4, <3>5, <3>6 DEF Knows
  <2> QED BY <1>3, <2>1, <2>2 DEF QueueOK
<1>11. QueueOK'
  BY <1>0, <1>10 DEF QueueOK
<1> QED BY <1>7, <1>8, <1>9, <1>11

-----------------------------------------------------------------------------
(* Answers *)

LEMMA NobodyWaits ==
  ASSUME job'.pc # "domain", reply'.res = "none", \A i \in DOMAIN domQ' : domQ'[i].owner # "svc"
  PROVE  AnswerOK'
BY DEF AnswerOK

LEMMA AskAndWait ==
  ASSUME TableInv, AnswerOK, job.pc # "domain", NEW r \in Requests, domQ' = Append(domQ, r),
         job'.pc = "domain", reply' = reply,
         job'.op \in DeleteOps => r.op = "delete" /\ r.snap = job'.snap /\ r.children = Children(job.snap)'
  PROVE  AnswerOK'
<1>1. PICK n \in Nat : /\ n = Len(domQ) + 1 /\ n = Len(domQ') /\ DOMAIN domQ' = 1..n
                       /\ domQ'[n] = r /\ DOMAIN domQ = 1..(n - 1)
                       /\ \A i \in DOMAIN domQ : domQ'[i] = domQ[i]
  <2>1. domQ \in Seq(Requests)
    BY DEF TableInv, TypeOK
  <2> QED BY <2>1, AppendParts, QueueParts
<1>2. reply.res = "none" /\ \A i \in DOMAIN domQ : domQ[i].owner # "svc"
  BY DEF AnswerOK
<1>3. ASSUME NEW i \in DOMAIN domQ', domQ'[i].owner = "svc" PROVE i = n
  BY <1>1, <1>2, <1>3
<1> QED BY <1>1, <1>2, <1>3 DEF AnswerOK

LEMMA AnswerStep ==
  ASSUME TableInv, TableInv', AnswerOK, [Next]_vars
  PROVE  AnswerOK'
<1>0. /\ domQ \in Seq(Requests) /\ job \in Jobs /\ rows \in [Snaps -> Rows] /\ reply \in Replies
      /\ DOMAIN domQ = 1..Len(domQ) /\ Len(domQ) \in Nat /\ NoReply.res = "none"
      /\ job = NoJob => job.pc = "idle"
      /\ \A i \in DOMAIN domQ : domQ[i] \in Requests
  BY QueueParts, SnapIdle DEF TableInv, TypeOK, NoReply
<1>1. ASSUME UNCHANGED <<job, reply, domQ>>, job.pc = "domain" => Children(job.snap)' = Children(job.snap)
      PROVE  AnswerOK'
  BY <1>1 DEF AnswerOK
<1>2. ASSUME job.pc # "domain" \/ reply.res # "none", job'.pc # "domain", reply'.res = "none",
             \/ UNCHANGED domQ \/ domQ' = Disowned
             \/ \E r \in Requests : r.owner = "none" /\ domQ' = Append(domQ, r)
      PROVE  AnswerOK'
  <2>1. \A i \in DOMAIN domQ : domQ[i].owner # "svc"
    BY <1>2 DEF AnswerOK
  <2>2. \A i \in DOMAIN domQ' : domQ'[i].owner # "svc"
    <3>1. CASE domQ' = Disowned
      BY <1>0, <3>1, DisownedIs
    <3>2. ASSUME NEW r \in Requests, r.owner = "none", domQ' = Append(domQ, r)
          PROVE  \A i \in DOMAIN domQ' : domQ'[i].owner # "svc"
      BY <1>0, <2>1, <3>2, AppendParts
    <3> QED BY <1>2, <2>1, <3>1, <3>2
  <2> QED BY <1>2, <2>2, NobodyWaits
<1>3. ASSUME Done PROVE job'.pc # "domain"
  BY <1>0, <1>3, SnapEnds, SnapIdle
<1>4. ASSUME NEW h, NEW op \in {"create", "revert"}, PassOn(h, op) PROVE AnswerOK'
  <2>1. job.pc = "start" /\ job'.pc # "domain" /\ reply' = reply /\ reply.res = "none"
    BY <1>3, <1>4 DEF PassOn, AnswerOK
  <2>2. job.snap \in Snaps \cup {NoSnap}
    BY <1>0 DEF Jobs, Parents
  <2>3. PICK r \in Requests : r = Request(op, job.snap, "none") /\ r.owner = "none"
    <3>1. Request(op, job.snap, "none") \in Requests
      BY <2>2, RequestTyped
    <3>2. Request(op, job.snap, "none").owner = "none"
      BY DEF Request
    <3> QED BY <3>1, <3>2
  <2>4. UNCHANGED domQ \/ domQ' = Append(domQ, r)
    BY <1>4, <2>3 DEF PassOn, CallDomain
  <2> QED BY <1>2, <2>1, <2>3, <2>4
<1>5. CASE CreateCast \/ RevertCast
  BY <1>4, <1>5 DEF CreateCast, RevertCast
<1>6. CASE AckCast \/ DeleteVmStart
  <2>1. reply' = reply /\ domQ' = domQ /\ job.pc # "domain" /\ reply.res = "none"
    BY <1>6 DEF AckCast, DeleteVmStart, AnswerOK
  <2>2. job'.pc # "domain"
    BY <1>0, <1>3, <1>6, SnapIdle DEF AckCast, DeleteVmStart, Jobs
  <2> QED BY <1>2, <2>1, <2>2
<1>7. ASSUME NEW s \in Snaps, CreateSnapshot(s) \/ RevertSnapshot(s) \/ DeleteSnapshot(s) PROVE AnswerOK'
  <2>1. reply' = reply /\ domQ' = domQ /\ job.pc # "domain" /\ reply.res = "none"
    BY <1>0, <1>7 DEF CreateSnapshot, RevertSnapshot, DeleteSnapshot, Free, AnswerOK
  <2>2. job'.pc # "domain"
    BY <1>0, <1>7, <2>1 DEF CreateSnapshot, RevertSnapshot, DeleteSnapshot, Job
  <2> QED BY <1>2, <2>1, <2>2
<1>8. CASE DeleteVm
  BY <1>0, <1>2, <1>8 DEF DeleteVm, Free, AnswerOK, Job
<1>9. CASE DeleteFinish \/ StartFinish \/ ShutOffFinish
  <2>1. reply.res # "none" /\ reply' = NoReply /\ domQ' = domQ
    BY <1>9 DEF DeleteFinish, StartFinish, ShutOffFinish
  <2>2. job'.pc # "domain"
    <3>1. Done \/ job' = [job EXCEPT !.pc = "next", !.snap = NoSnap]
      BY <1>9 DEF DeleteFinish, StartFinish, ShutOffFinish
    <3> QED BY <1>0, <1>3, <3>1 DEF Jobs
  <2> QED BY <1>0, <1>2, <2>1, <2>2
<1>10. CASE StartVm \/ ShutOffVm
  <2>1. job.pc # "domain" /\ reply' = reply /\ job'.pc = "domain" /\ job'.op \notin DeleteOps
    BY <1>0, <1>10 DEF StartVm, ShutOffVm, Free, Job, DeleteOps
  <2>2. \E r \in Requests : domQ' = Append(domQ, r)
    <3>1. \A c \in Current : c \in Snaps
      BY DEF Current, Existing
    <3> QED BY <1>10, <3>1, RequestTyped DEF StartVm, ShutOffVm, CallDomain
  <2> QED BY <2>1, <2>2, AskAndWait
<1>11. ASSUME NEW s \in Snaps,
              domQ' = Append(domQ, [Request("delete", s, "svc") EXCEPT !.children = Children(s)]),
              rows' = rows, job.pc # "domain", reply' = reply, job'.pc = "domain", job'.snap = s
       PROVE  AnswerOK'
  <2>1. PICK r \in Requests : /\ r = [Request("delete", s, "svc") EXCEPT !.children = Children(s)]
                              /\ r.op = "delete" /\ r.snap = s /\ r.children = Children(s)
    <3> DEFINE q == [Request("delete", s, "svc") EXCEPT !.children = Children(s)]
    <3>1. q \in Requests
      BY RequestTyped
    <3>2. q.op = "delete" /\ q.snap = s /\ q.children = Children(s)
      BY DEF Request
    <3> QED BY <3>1, <3>2
  <2>2. Children(job.snap)' = Children(s)
    BY <1>11 DEF Children, Existing
  <2> QED BY <1>11, <2>1, <2>2, AskAndWait
<1>12. CASE DeleteCall
  <2>1. job.pc = "start" /\ reply' = reply /\ rows' = rows /\ reply.res = "none"
    BY <1>12 DEF DeleteCall, AnswerOK
  <2>2. CASE Done /\ UNCHANGED domQ
    BY <1>2, <1>3, <2>1, <2>2
  <2>3. CASE /\ job.snap \in Existing /\ job' = [job EXCEPT !.pc = "domain"]
             /\ CallDomain([Request("delete", job.snap, "svc") EXCEPT !.children = Children(job.snap)])
    <3>1. PICK s \in Snaps : s = job.snap
      BY <2>3 DEF Existing
    <3>2. job'.pc = "domain" /\ job'.snap = s
      BY <1>0, <2>3, <3>1 DEF Jobs
    <3> QED BY <1>11, <2>1, <2>3, <3>1, <3>2 DEF CallDomain
  <2> QED BY <1>12, <2>2, <2>3 DEF DeleteCall
<1>13. CASE DeleteVmNext
  <2>1. job.pc = "next" /\ reply' = reply /\ reply.res = "none"
    BY <1>13 DEF DeleteVmNext, AnswerOK
  <2>2. ASSUME NEW s \in job.left, job' = [job EXCEPT !.left = @ \ {s}], UNCHANGED domQ PROVE AnswerOK'
    <3>1. job'.pc # "domain"
      BY <1>0, <2>1, <2>2 DEF Jobs
    <3> QED BY <1>2, <2>1, <2>2, <3>1
  <2>3. ASSUME NEW s \in job.left, UNCHANGED rows,
               CallDomain([Request("delete", s, "svc") EXCEPT !.children = Children(s)]),
               job' = [job EXCEPT !.left = @ \ {s}, !.snap = s, !.pc = "domain"]
        PROVE  AnswerOK'
    <3>1. s \in Snaps /\ job'.pc = "domain" /\ job'.snap = s
      BY <1>0, <2>3 DEF Jobs
    <3> QED BY <1>11, <2>1, <2>3, <3>1 DEF CallDomain
  <2>4. CASE Done /\ UNCHANGED domQ
    BY <1>2, <1>3, <2>1, <2>4
  <2> QED BY <1>13, <2>2, <2>3, <2>4 DEF DeleteVmNext
<1>14. CASE DomainExecute
  <2>1. /\ domQ # <<>> /\ domQ' = Tail(domQ) /\ job' = job /\ rows' = rows
        /\ \E res \in {"ok", "err"} : Answer(Head(domQ), res)
    BY <1>14 DEF DomainExecute
  <2>2. PICK r \in Requests : r = domQ[1] /\ r = Head(domQ)
    BY <1>0, <2>1, TailParts
  <2>3. CASE r.owner = "svc"
    <3>1. Len(domQ) = 1 /\ job.pc = "domain"
      BY <1>0, <2>1, <2>2, <2>3, TailParts DEF AnswerOK
    <3>2. domQ' = <<>> /\ DOMAIN domQ' = {}
      BY <1>0, <2>1, <3>1, TailParts
    <3> QED BY <2>1, <3>1, <3>2 DEF AnswerOK
  <2>4. CASE r.owner # "svc"
    <3>1. reply' = reply
      BY <2>1, <2>2, <2>4 DEF Answer
    <3>2. Children(job.snap)' = Children(job.snap)
      BY <2>1 DEF Children, Existing
    <3>3. reply.res \notin {"ok", "err"}
      BY <2>1 DEF AnswerOK
    <3>4. ASSUME NEW i \in DOMAIN domQ', domQ'[i].owner = "svc"
          PROVE  /\ i = Len(domQ') /\ job'.pc = "domain" /\ reply'.res = "none"
                 /\ job'.op \in DeleteOps =>
                      /\ domQ'[i].op = "delete" /\ domQ'[i].snap = job'.snap
                      /\ domQ'[i].children = Children(job.snap)'
      <4>1. i \in Nat /\ i + 1 \in DOMAIN domQ /\ domQ'[i] = domQ[i + 1] /\ Len(domQ') = Len(domQ) - 1
        BY <1>0, <2>1, TailParts
      <4>2. /\ i + 1 = Len(domQ) /\ job.pc = "domain" /\ reply.res = "none"
            /\ job.op \in DeleteOps =>
                 /\ domQ[i + 1].op = "delete" /\ domQ[i + 1].snap = job.snap
                 /\ domQ[i + 1].children = Children(job.snap)
        BY <3>4, <4>1 DEF AnswerOK
      <4>3. i = Len(domQ')
        BY <1>0, <4>1, <4>2
      <4> QED BY <2>1, <3>1, <3>2, <4>1, <4>2, <4>3
    <3>5. job'.pc # "domain" => reply'.res = "none"
      BY <2>1, <3>1 DEF AnswerOK
    <3> QED BY <3>1, <3>3, <3>4, <3>5 DEF AnswerOK
  <2> QED BY <2>3, <2>4
<1>15. CASE ServiceTimeout
  <2>1. job' = job /\ job.pc = "domain" /\ reply'.res = "timeout" /\ domQ' = Disowned
    BY <1>15 DEF ServiceTimeout, NoReply
  <2>2. \A i \in DOMAIN domQ' : domQ'[i].owner # "svc"
    BY <1>0, <2>1, DisownedIs
  <2> QED BY <2>1, <2>2 DEF AnswerOK
<1>16. CASE ServiceCrash
  <2>1. reply'.res = "none" /\ domQ' = Disowned
    BY <1>0, <1>16 DEF ServiceCrash
  <2>2. job'.pc # "domain"
    BY <1>16, SnapIdle DEF ServiceCrash, Job
  <2>3. \A i \in DOMAIN domQ' : domQ'[i].owner # "svc"
    BY <1>0, <2>1, DisownedIs
  <2> QED BY <2>1, <2>2, <2>3, NobodyWaits
<1>17. CASE MonitorRead \/ DomainCrash \/ UNCHANGED vars
  <2>1. UNCHANGED <<job, reply, domQ, rows>>
    BY <1>17 DEF MonitorRead, DomainCrash, vars
  <2>2. Children(job.snap)' = Children(job.snap)
    BY <2>1 DEF Children, Existing
  <2> QED BY <1>1, <2>1, <2>2
<1>18. CASE MonitorWrite
  <2>1. UNCHANGED <<job, reply, domQ>>
    BY <1>18 DEF MonitorWrite
  <2>2. Existing' = Existing /\ \A t \in Existing : rows'[t].parent = rows[t].parent
    <3>1. ASSUME NEW t \in Snaps
          PROVE  /\ rows'[t].parent = rows[t].parent
                 /\ rows'[t].status = "none" <=> rows[t].status = "none"
      BY <1>0, <1>18, MonitorTouches
    <3> QED BY <3>1 DEF Existing
  <2>3. Children(job.snap)' = Children(job.snap)
    BY <2>1, <2>2 DEF Children
  <2> QED BY <1>1, <2>1, <2>3
<1> QED BY <1>5, <1>6, <1>7, <1>8, <1>9, <1>10, <1>12, <1>13, <1>14, <1>15, <1>16, <1>17, <1>18
    DEF Next, ApiRequest, ApiCreate, ApiRevert, ApiDelete, HandlerStep, MonitorStep

-----------------------------------------------------------------------------
(* The steps while nothing is spoiled *)

\* What spoils stays spoiled.
LEMMA SpoiledStays ==
  ASSUME TypeOK, [Next]_vars, ~spoiled'
  PROVE  /\ ~spoiled
         /\ DeleteFinish => reply.res # "err"
         /\ MonitorWrite /\ mon.on => \A s \in Existing : Seen(s) # "error"
         /\ DomainCrash => ~Drifts(Head(domQ))
<1>1. UNCHANGED spoiled => ~spoiled
  OBVIOUS
<1>2. DeleteFinish => ~spoiled /\ reply.res # "err"
  BY Zenon DEF DeleteFinish
<1>3. DomainCrash => ~spoiled /\ ~Drifts(Head(domQ))
  BY Zenon DEF DomainCrash
<1>4. MonitorWrite => ~spoiled /\ (mon.on => \A s \in Existing : Seen(s) # "error")
  BY <1>1, Zenon DEF MonitorWrite
<1>5. DomainExecute => ~spoiled
  BY <1>1, Zenon DEF DomainExecute
<1>6. UNCHANGED spoiled \/ DeleteFinish \/ MonitorWrite \/ DomainExecute \/ DomainCrash
  BY DEF Next, vars, ApiRequest, ApiCreate, ApiRevert, ApiDelete, HandlerStep, MonitorStep, StartVm,
     ShutOffVm, DeleteVm, AckCast, CreateCast, RevertCast, PassOn, DeleteCall, ShutOffFinish,
     DeleteVmStart, MonitorRead, ServiceTimeout, ServiceCrash, CreateSnapshot,
     RevertSnapshot, DeleteSnapshot, StartFinish, DeleteVmNext
<1> QED BY <1>1, <1>2, <1>3, <1>4, <1>5, <1>6

\* What an execution does when it spoils nothing: all of it, or nothing.
LEMMA ExecutionKinds ==
  ASSUME TableInv, [Next]_vars, ~spoiled', DomainExecute \/ DomainCrash
  PROVE  \/ \E r \in Requests : Executed(r)
         \/ /\ DomainExecute /\ UNCHANGED <<libvirt, files>>
            /\ reply' = reply \/ reply'.res = "err"
<1>0. domQ \in Seq(Requests) /\ domQ # <<>> /\ TypeOK
  BY DEF TableInv, TypeOK, DomainExecute, DomainCrash
<1>1. PICK r \in Requests : r = Head(domQ)
  BY <1>0, TailParts
<1>2. \A i \in DOMAIN domQ : i \in Nat
  BY <1>0, QueueParts
<1>3. CASE DomainCrash
  <2>1. Shifted(0)
    BY <1>2, <1>3 DEF DomainCrash, Shifted
  <2>2. ~Drifts(r)
    BY <1>0, <1>1, <1>3, SpoiledStays
  <2> QED BY <1>0, <1>1, <1>3, <2>1, <2>2 DEF DomainCrash, Executed
<1>4. CASE DomainExecute
  <2>0. domQ' = Tail(domQ) /\ UNCHANGED <<rows, power, job, mon>>
    BY <1>4 DEF DomainExecute
  <2>1. Shifted(1)
    BY <1>0, <2>0, TailParts DEF Shifted
  <2>2. CASE /\ CanSucceed(r) /\ FilesThere(r) /\ libvirt' = LibvirtAfter(r) /\ files' = FilesAfter(r)
             /\ Answer(r, "ok") /\ spoiled' = (spoiled \/ Drifts(r))
    <3>1. ~Drifts(r)
      BY <2>2, Zenon
    <3>2. reply'.res = "ok" => reply.res = "ok" \/ r.owner = "svc"
      BY <2>2 DEF Answer
    <3> QED BY <1>0, <1>1, <2>0, <2>1, <2>2, <3>1, <3>2 DEF Executed
  <2>3. CASE spoiled' = TRUE
    BY <2>3
  <2>4. CASE Answer(r, "err") /\ UNCHANGED <<libvirt, files, spoiled>>
    <3>1. reply' = reply \/ reply'.res = "err"
      BY <2>4 DEF Answer
    <3> QED BY <1>4, <2>4, <3>1
  <2>5. \/ /\ CanSucceed(r) /\ FilesThere(r) /\ libvirt' = LibvirtAfter(r) /\ files' = FilesAfter(r)
           /\ Answer(r, "ok") /\ spoiled' = (spoiled \/ Drifts(r))
        \/ spoiled' = TRUE
        \/ Answer(r, "err") /\ UNCHANGED <<libvirt, files, spoiled>>
    BY <1>1, <1>4, Zenon DEF DomainExecute
  <2> QED BY <2>2, <2>3, <2>4, <2>5
<1> QED BY <1>3, <1>4

LEMMA CreationStays ==
  ASSUME TableInv, [Next]_vars, \A s \in Snaps : ~CreateSnapshot(s)
  PROVE  SameCreation
<1>0. job \in Jobs
  BY DEF TableInv, TypeOK
<1>1. ASSUME Done PROVE SameCreation
  <2>1. PICK j \in Jobs : j = job
    BY <1>0
  <2>2. job' = [j EXCEPT !.pc = "ack"] \/ job' = NoJob
    BY <1>1, <2>1 DEF Done
  <2> QED BY <2>1, <2>2, SnapIdle DEF Jobs, SameCreation
<1>2. CASE CreateCast \/ RevertCast \/ StartFinish \/ ShutOffFinish
  BY <1>1, <1>2 DEF CreateCast, RevertCast, PassOn, StartFinish, ShutOffFinish
<1>3. CASE StartVm \/ ShutOffVm \/ DeleteVm \/ AckCast \/ UNCHANGED job
           \/ \E s \in Snaps : RevertSnapshot(s) \/ DeleteSnapshot(s)
  <2>1. \/ UNCHANGED job \/ job' = NoJob
        \/ \E op \in {"start_vm", "shut_off_vm", "_delete_vm", "_revert_snapshot", "_delete_snapshot"} :
              \E s, pc : job' = Job(op, s, pc)
    BY <1>3 DEF StartVm, ShutOffVm, DeleteVm, AckCast, RevertSnapshot, DeleteSnapshot
  <2> QED BY <2>1, SnapIdle DEF Job, SameCreation
<1>4. CASE DeleteCall \/ DeleteFinish \/ DeleteVmStart \/ DeleteVmNext
  <2>1. Done \/ (job.op \in DeleteOps /\ job'.op = job.op)
    <3>1. \/ Done \/ job' = [job EXCEPT !.pc = "domain"] \/ job' = [job EXCEPT !.pc = "next", !.snap = NoSnap]
          \/ job' = [job EXCEPT !.pc = "next", !.left = Existing]
          \/ \E s \in job.left : \/ job' = [job EXCEPT !.left = @ \ {s}]
                                 \/ job' = [job EXCEPT !.left = @ \ {s}, !.snap = s, !.pc = "domain"]
      BY <1>4 DEF DeleteCall, DeleteFinish, DeleteVmStart, DeleteVmNext
    <3>2. job.op \in DeleteOps
      BY <1>4 DEF DeleteCall, DeleteFinish, DeleteVmStart, DeleteVmNext, DeleteOps
    <3> QED BY <1>0, <3>1, <3>2 DEF Jobs
  <2> QED BY <1>1, <2>1 DEF SameCreation, DeleteOps
<1>5. CASE ServiceCrash
  <2>1. \/ job' = NoJob
        \/ job' = Job(job.op, IF job.op = "_delete_vm" THEN NoSnap ELSE job.snap, "start")
    BY <1>5 DEF ServiceCrash
  <2> QED BY <2>1, SnapIdle DEF SameCreation, Job
<1> QED BY <1>2, <1>3, <1>4, <1>5, SnapJobFrames

LEMMA QueueMoved ==
  ASSUME TableInv, [Next]_vars
  PROVE  QueueMoves
<1>0. /\ domQ \in Seq(Requests) /\ job.left \subseteq Existing /\ Existing \subseteq Snaps
      /\ \A i \in DOMAIN domQ : i \in Nat
  BY QueueParts DEF TableInv, TypeOK, SubjectOK, Existing
<1>1. UNCHANGED domQ => QueueMoves
  BY <1>0 DEF QueueMoves, Shifted
<1>2. domQ' = Disowned => QueueMoves
  BY <1>0, DisownedIs DEF QueueMoves, Shifted
<1>3. domQ # <<>> /\ domQ' = Tail(domQ) => QueueMoves
  BY <1>0, TailParts DEF QueueMoves, Shifted
<1>4. ASSUME NEW op \in {"create", "revert", "start", "turn_off"}, NEW s \in Snaps \cup {NoSnap},
             NEW owner \in {"svc", "none"}, domQ' = Append(domQ, Request(op, s, owner)),
             op = "create" => job.op = "_create_snapshot" /\ job.snap = s /\ s \in Existing
      PROVE  QueueMoves
  <2>1. PICK r \in Requests : r = Request(op, s, owner)
    BY RequestTyped
  <2>2. r.op = op /\ r.snap = s
    BY <2>1 DEF Request
  <2> QED BY <1>4, <2>1, <2>2 DEF QueueMoves, Asked
<1>5. ASSUME NEW s \in Existing,
             domQ' = Append(domQ, [Request("delete", s, "svc") EXCEPT !.children = Children(s)]),
             job.op # "_create_snapshot"
      PROVE  QueueMoves
  <2> DEFINE q == [Request("delete", s, "svc") EXCEPT !.children = Children(s)]
  <2>1. q \in Requests
    BY <1>0, RequestTyped
  <2>2. q.op = "delete" /\ q.snap = s /\ q.children = Children(s)
    BY DEF Request
  <2>3. PICK r \in Requests : r = q
    BY <2>1
  <2> QED BY <1>5, <2>2, <2>3 DEF QueueMoves, Asked
<1>6. CreateCast \/ RevertCast => QueueMoves
  BY <1>0, <1>1, <1>4 DEF CreateCast, RevertCast, PassOn, CallDomain
<1>7. DeleteCall => QueueMoves
  BY <1>1, <1>5 DEF DeleteCall, CallDomain
<1>8. DeleteVmNext => QueueMoves
  BY <1>0, <1>1, <1>5 DEF DeleteVmNext, CallDomain
<1>9. StartVm => QueueMoves
  BY <1>0, <1>4 DEF StartVm, CallDomain, Current
<1>10. ShutOffVm => QueueMoves
  BY <1>4 DEF ShutOffVm, CallDomain
<1>11. DomainExecute => QueueMoves
  BY <1>3 DEF DomainExecute
<1>12. ServiceTimeout \/ ServiceCrash => QueueMoves
  BY <1>2 DEF ServiceTimeout, ServiceCrash
<1>13. \/ UNCHANGED domQ
       \/ CreateCast \/ RevertCast \/ DeleteCall \/ DeleteVmNext \/ StartVm
       \/ ShutOffVm \/ DomainExecute \/ ServiceTimeout \/ ServiceCrash
  BY DEF Next, vars, ApiRequest, ApiCreate, ApiRevert, ApiDelete, HandlerStep, MonitorStep, DeleteVm,
     AckCast, ShutOffFinish, DeleteVmStart, MonitorRead, DomainCrash, CreateSnapshot, RevertSnapshot,
     DeleteSnapshot, DeleteFinish, StartFinish, MonitorWrite
<1> QED BY <1>1, <1>6, <1>7, <1>8, <1>9, <1>10, <1>11, <1>12, <1>13

\* A new answer to a deletion comes from the domain.
LEMMA AnswersComeFromDomain ==
  ASSUME AnswerOK, [Next]_vars, ~DomainExecute, reply'.res = "ok"
  PROVE  UNCHANGED <<job, reply>>
<1>0. UNCHANGED reply \/ reply' = NoReply \/ reply' = [NoReply EXCEPT !.res = "timeout"]
  BY DEF Next, vars, ApiRequest, ApiCreate, ApiRevert, ApiDelete, HandlerStep, MonitorStep, StartVm,
     ShutOffVm, DeleteVm, AckCast, CreateCast, RevertCast, PassOn, DeleteCall, DeleteFinish, ShutOffFinish,
     DeleteVmStart, MonitorRead, MonitorWrite, DomainCrash, ServiceTimeout, ServiceCrash, CreateSnapshot,
     RevertSnapshot, DeleteSnapshot, StartFinish, DeleteVmNext
<1>1. UNCHANGED reply \/ reply'.res \in {"none", "timeout"}
  BY <1>0 DEF NoReply
<1>2. reply' = reply /\ job.pc = "domain"
  BY <1>1 DEF AnswerOK
<1>3. job # NoJob
  BY <1>2, SnapIdle
<1>4. ~DeleteFinish /\ ~StartFinish /\ ~ShutOffFinish /\ ~ServiceCrash
  BY <1>2 DEF DeleteFinish, StartFinish, ShutOffFinish, ServiceCrash, NoReply
<1> QED BY <1>2, <1>3, <1>4, SnapJobFrames
    DEF StartVm, ShutOffVm, DeleteVm, CreateSnapshot, RevertSnapshot, DeleteSnapshot, Free, AckCast,
        CreateCast, RevertCast, PassOn, DeleteCall, DeleteVmStart, DeleteVmNext

LEMMA StepKinds ==
  ASSUME TableInv, AnswerOK, FilesOK, ErrorOK, GoneOK, [Next]_vars, ~spoiled'
  PROVE  \/ Quiet
         \/ \E r \in Requests : Executed(r)
         \/ \E s \in Snaps : CreateSnapshot(s)
         \/ DeleteFinish /\ reply.res = "ok"
<1> SUFFICES ASSUME ~\E r \in Requests : Executed(r), ~\E s \in Snaps : CreateSnapshot(s),
                    ~(DeleteFinish /\ reply.res = "ok")
             PROVE  Quiet
  OBVIOUS
<1>1. TableKept
  <2>1. CASE DeleteVmNext /\ job.left = {} /\ rows' = [s \in Snaps |-> NoRow]
    <3>1. Existing = {}
      BY <2>1 DEF GoneOK, DeleteVmNext
    <3>2. \A s \in Snaps : rows'[s] = rows[s]
      BY <2>1, <3>1 DEF TableInv, TableOK
    <3> QED BY <3>2 DEF TableKept, Existing
  <2>2. ~\E s \in Existing : rows[s].status = "error"
    BY DEF ErrorOK
  <2> QED BY <2>1, <2>2, TableGoes DEF TableMoves
<1>2. /\ UNCHANGED <<libvirt, files>>
      /\ DomainExecute => reply' = reply \/ reply'.res = "err"
  BY HostFrames, ExecutionKinds
<1>3. libvirt'.on => libvirt'.parent = files' /\ libvirt'.cur \in OnDisk' \cup {NoSnap}
  BY <1>2 DEF FilesOK, OnDisk
<1>4. job'.op \in DeleteOps /\ reply'.res = "ok" => UNCHANGED <<job, reply>>
  <2>1. DomainExecute => job' = job
    BY DEF DomainExecute
  <2> QED BY <1>2, <2>1, AnswersComeFromDomain
<1>5. SameCreation /\ QueueMoves
  BY CreationStays, QueueMoved
<1> QED BY <1>1, <1>2, <1>3, <1>4, <1>5 DEF Quiet

\* A snapshot goes to error only when something is spoiled.
LEMMA ErrorStep ==
  ASSUME TableInv, ErrorOK, [Next]_vars, ~spoiled'
  PROVE  ErrorOK'
<1>0. rows \in [Snaps -> Rows] /\ Existing \subseteq Snaps /\ TypeOK
      /\ \A t \in Snaps : rows[t].status # "error"
  BY DEF TableInv, TypeOK, Existing, ErrorOK
<1>1. SUFFICES ASSUME NEW t \in Snaps PROVE rows'[t].status # "error"
  BY DEF ErrorOK, Existing
<1>2. PICK r \in Rows : r = rows[t] /\ r.status # "error"
  BY <1>0
<1>3. ASSUME NEW s \in Snaps, rows' = Deleted(s) PROVE rows'[t].status # "error"
  <2>1. PICK p : p = rows[s].parent
    OBVIOUS
  <2>2. rows'[t] = NoRow \/ rows'[t] = r \/ rows'[t] = [r EXCEPT !.parent = p]
    BY <1>2, <1>3, <2>1 DEF Deleted
  <2> QED BY <1>2, <2>2, NoRowIs DEF Rows
<1>4. ASSUME NEW s \in Snaps, CreateSnapshot(s) PROVE rows'[t].status # "error"
  <2>1. PICK p : rows' = [WithCurrent({}) EXCEPT
                             ![s] = [status |-> "creating", parent |-> p, current |-> FALSE]]
    BY <1>4 DEF CreateSnapshot
  <2>2. \/ rows'[t] = [status |-> "creating", parent |-> p, current |-> FALSE]
        \/ rows'[t] = WithCurrent({})[t]
    BY <2>1 DEF WithCurrent
  <2> QED BY <1>0, <2>1, <2>2, CurrentOf
<1>5. ASSUME NEW s \in Snaps, RevertSnapshot(s) PROVE rows'[t].status # "error"
  <2>1. PICK q \in Rows : q = WithCurrent({s})[t]
    BY <1>0, CurrentOf
  <2>2. q.status # "error"
    BY <1>0, <2>1, CurrentOf
  <2>3. rows'[t] = q \/ rows'[t] = [q EXCEPT !.status = "reverting"]
    BY <1>5, <2>1 DEF RevertSnapshot, WithCurrent
  <2> QED BY <2>2, <2>3 DEF Rows
<1>6. ASSUME NEW s \in Snaps, DeleteSnapshot(s) PROVE rows'[t].status # "error"
  <2>1. rows[s].status # "error"
    BY <1>0
  <2>2. rows' = [rows EXCEPT ![s].status = "deleting"]
    BY <1>6, <2>1 DEF DeleteSnapshot, SetStatus
  <2>3. rows'[t] = r \/ rows'[t] = [r EXCEPT !.status = "deleting"]
    BY <1>0, <1>2, <2>2
  <2> QED BY <1>2, <2>3 DEF Rows
<1>7. CASE DeleteFinish
  <2>1. reply.res # "err"
    BY <1>0, <1>7, SpoiledStays
  <2>2. job.snap \in Snaps
    BY <1>0, <1>7 DEF DeleteFinish, TableInv, SubjectOK
  <2>3. rows' = Deleted(job.snap) \/ rows' = rows
    BY <1>7, <2>1 DEF DeleteFinish
  <2> QED BY <1>2, <1>3, <2>2, <2>3
<1>8. CASE StartFinish
  <2>1. rows'[t] = r \/ rows'[t] = [r EXCEPT !.status = "creating"]
    BY <1>2, <1>8 DEF StartFinish
  <2> QED BY <1>2, <2>1 DEF Rows
<1>9. CASE DeleteVmNext
  <2>1. job.left \subseteq Snaps
    BY <1>0 DEF TableInv, SubjectOK
  <2>2. \/ \E s \in job.left : rows' = Deleted(s)
        \/ rows' = rows \/ rows' = [s \in Snaps |-> NoRow]
    BY <1>9 DEF DeleteVmNext
  <2> QED BY <1>2, <1>3, <2>1, <2>2, NoRowIs
<1>10. CASE MonitorWrite
  <2>1. PICK status, current : status = Seen(t) /\ current = SeenCurrent(t)
    OBVIOUS
  <2>2. mon.on /\ t \in Existing => status # "error"
    BY <1>0, <1>10, <2>1, SpoiledStays
  <2>3. \/ rows'[t] = r
        \/ mon.on /\ t \in Existing /\ rows'[t] = [r EXCEPT !.status = status, !.current = current]
    BY <1>2, <1>10, <2>1 DEF MonitorWrite
  <2> QED BY <1>2, <2>2, <2>3 DEF Rows
<1> QED BY <1>2, <1>4, <1>5, <1>6, <1>7, <1>8, <1>9, <1>10, TableFrames

\* The deletion of the machine has yet to come to every snapshot that is there.
LEMMA GoneStep ==
  ASSUME TableInv, TableInv', AnswerOK, ErrorOK, GoneOK, [Next]_vars, ~spoiled'
  PROVE  GoneOK'
<1>0. /\ rows \in [Snaps -> Rows] /\ job \in Jobs /\ TypeOK /\ Existing \subseteq Snaps
      /\ \A s \in Existing : rows[s].status # "error"
  BY DEF TableInv, TypeOK, Existing, ErrorOK
<1>1. ASSUME DeleteFinish
      PROVE  Existing' = Existing \/ (Existing' = Existing \ {job.snap} /\ reply.res = "ok")
  <2>1. job.snap \in Snaps /\ reply.res # "err"
    BY <1>0, <1>1, SpoiledStays DEF DeleteFinish, TableInv, SubjectOK
  <2>2. (reply.res = "ok" /\ rows' = Deleted(job.snap)) \/ rows' = rows
    BY <1>1, <2>1 DEF DeleteFinish
  <2>3. rows' = rows => Existing' = Existing
    BY DEF Existing
  <2> QED BY <1>0, <2>1, <2>2, <2>3, DeletedExisting
<1>2. power = "gone" => Existing' = {}
  <2> SUFFICES ASSUME power = "gone" PROVE Existing' = {}
    OBVIOUS
  <2>1. Existing = {}
    BY DEF GoneOK
  <2>2. \A s \in Snaps : ~CreateSnapshot(s)
    BY DEF CreateSnapshot
  <2>3. DeleteVmNext /\ rows' = [s \in Snaps |-> NoRow] => Existing' = {}
    BY NoRowIs DEF Existing
  <2> QED BY <1>0, <1>1, <2>1, <2>2, <2>3, TableGoes DEF TableMoves, TableKept
<1>3. power' = "gone" => Existing' = {}
  <2>1. power' = "gone" => power = "gone" \/ (DeleteVmNext /\ rows' = [s \in Snaps |-> NoRow])
    BY DEF Next, vars, ApiRequest, ApiCreate, ApiRevert, ApiDelete, HandlerStep, MonitorStep, StartVm,
       ShutOffVm, DeleteVm, AckCast, CreateCast, RevertCast, PassOn, DeleteCall, DeleteFinish, ShutOffFinish,
       DeleteVmStart, MonitorRead, MonitorWrite, DomainExecute, DomainCrash, ServiceTimeout, ServiceCrash,
       CreateSnapshot, RevertSnapshot, DeleteSnapshot, StartFinish, DeleteVmNext, PowerSeen
  <2>2. DeleteVmNext /\ rows' = [s \in Snaps |-> NoRow] => Existing' = {}
    BY NoRowIs DEF Existing
  <2> QED BY <1>2, <2>1, <2>2
<1>4. SUFFICES ASSUME job'.op = "_delete_vm", job'.pc \in {"next", "domain"}
               PROVE  /\ job'.pc = "next" => Existing' \subseteq job'.left
                      /\ job'.pc = "domain" => Existing' \subseteq job'.left \cup {job'.snap}
  BY <1>3 DEF GoneOK
<1>5. ~Done /\ job' # NoJob /\ \A op, s : job' # Job(op, s, "start")
  BY <1>0, <1>4, SnapEnds, SnapIdle DEF Job
<1>6. CASE UNCHANGED job /\ ~DeleteFinish /\ ~DeleteVmNext
  <2>1. \A s \in Snaps : ~CreateSnapshot(s)
    BY <1>5, <1>6 DEF CreateSnapshot
  <2>2. Existing' = Existing
    BY <1>0, <1>6, <2>1, TableGoes DEF TableMoves, TableKept
  <2> QED BY <1>4, <1>6, <2>2 DEF GoneOK
<1>7. CASE DeleteFinish
  <2>1. job' = [job EXCEPT !.pc = "next", !.snap = NoSnap] /\ reply.res # "timeout" /\ reply.res # "none"
        /\ job.op = "_delete_vm" /\ job.pc = "domain"
    BY <1>5, <1>7 DEF DeleteFinish
  <2>2. job'.left = job.left /\ job'.pc = "next"
    BY <1>0, <2>1 DEF Jobs
  <2>3. Existing \subseteq job.left \cup {job.snap}
    BY <2>1 DEF GoneOK
  <2>4. reply.res = "ok"
    BY <1>0, <1>7, <2>1, SpoiledStays DEF TypeOK, Replies
  <2>5. Existing' = Existing \ {job.snap}
    <3>1. job.snap \in Snaps
      BY <1>0, <1>7 DEF DeleteFinish, TableInv, SubjectOK
    <3>2. rows' = Deleted(job.snap)
      BY <1>7, <2>4 DEF DeleteFinish
    <3> QED BY <1>0, <3>1, <3>2, DeletedExisting
  <2> QED BY <2>2, <2>3, <2>5
<1>8. CASE DeleteVmStart
  <2>1. job' = [job EXCEPT !.pc = "next", !.left = Existing] /\ rows' = rows
    BY <1>5, <1>8 DEF DeleteVmStart
  <2>2. job'.left = Existing /\ job'.pc = "next" /\ Existing' = Existing
    BY <1>0, <2>1 DEF Jobs, Existing
  <2> QED BY <2>2
<1>9. CASE DeleteVmNext
  <2>1. PICK s \in job.left : rows' = rows /\ job' = [job EXCEPT !.left = @ \ {s}, !.snap = s, !.pc = "domain"]
    BY <1>0, <1>5, <1>9 DEF DeleteVmNext, TableInv, SubjectOK
  <2>2. job'.left = job.left \ {s} /\ job'.snap = s /\ job'.pc = "domain" /\ Existing' = Existing
    BY <1>0, <2>1 DEF Jobs, Existing
  <2>3. Existing \subseteq job.left
    BY <1>9 DEF GoneOK, DeleteVmNext
  <2> QED BY <2>2, <2>3
<1>10. CASE DeleteCall
  <2>1. job'.op = job.op
    BY <1>0, <1>5, <1>10 DEF DeleteCall, Jobs
  <2> QED BY <1>4, <1>10, <2>1 DEF DeleteCall
<1>11. CASE StartVm \/ ShutOffVm \/ DeleteVm \/ AckCast \/ CreateCast \/ RevertCast \/ StartFinish
            \/ ShutOffFinish \/ ServiceCrash \/ \E s \in Snaps : CreateSnapshot(s) \/ RevertSnapshot(s)
  <2>1. \/ Done \/ job' = NoJob \/ \E op, s : job' = Job(op, s, "start")
        \/ \E op \in {"start_vm", "shut_off_vm"} : \E s, pc : job' = Job(op, s, pc)
    BY <1>11 DEF StartVm, ShutOffVm, DeleteVm, AckCast, CreateCast, RevertCast, PassOn, StartFinish,
       ShutOffFinish, ServiceCrash, CreateSnapshot, RevertSnapshot
  <2> QED BY <1>4, <1>5, <2>1 DEF Job
<1>12. ASSUME NEW s \in Snaps, DeleteSnapshot(s)
       PROVE  UNCHANGED job /\ ~DeleteFinish /\ ~DeleteVmNext
  <2>1. UNCHANGED job \/ job' = Job("_delete_snapshot", s, "start")
    BY <1>12 DEF DeleteSnapshot
  <2>2. job.pc = "idle"
    BY <1>12, SnapIdle DEF DeleteSnapshot, Free
  <2> QED BY <1>5, <2>1, <2>2 DEF DeleteFinish, DeleteVmNext
<1> QED BY <1>6, <1>7, <1>8, <1>9, <1>10, <1>11, <1>12, SnapJobFrames

-----------------------------------------------------------------------------
(* Theorems *)

LEMMA SnapInvariance == Spec => []SnapInv
<1>1. Init => SnapInv
  <2> SUFFICES ASSUME Init PROVE SnapInv
    OBVIOUS
  <2>1. TableInv
    BY TableInit
  <2>2. Existing = {} /\ OnDisk = {} /\ DOMAIN domQ = {} /\ ~libvirt.on /\ power = "shut_off"
    BY NoRowIs DEF Init, Existing, OnDisk, Nowhere, Off
  <2>3. job = NoJob /\ reply.res = "none"
    BY DEF Init, NoReply
  <2> QED BY <2>1, <2>2, <2>3, SnapIdle
      DEF SnapInv, AnswerOK, FilesOK, FollowOK, DeletedOK, QueueOK, ErrorOK, GoneOK, DeleteOps
<1>2. SnapInv /\ [Next]_vars => SnapInv'
  <2> SUFFICES ASSUME SnapInv, [Next]_vars PROVE SnapInv'
    OBVIOUS
  <2>1. TableInv /\ TableInv' /\ AnswerOK /\ AnswerOK'
    BY TableStep, SubjectStep, SnapTypesStep, AnswerStep DEF SnapInv, TableInv
  <2>2. ASSUME ~spoiled'
        PROVE  FilesOK' /\ FollowOK' /\ DeletedOK' /\ QueueOK' /\ ErrorOK' /\ GoneOK'
    <3>1. ~spoiled
      BY <2>1, <2>2, SpoiledStays DEF TableInv
    <3>2. FilesOK /\ FollowOK /\ DeletedOK /\ QueueOK /\ ErrorOK /\ GoneOK
      BY <3>1 DEF SnapInv
    <3>3. ErrorOK' /\ GoneOK'
      BY <2>1, <2>2, <3>2, ErrorStep, GoneStep
    <3>4. CASE Quiet
      BY <2>1, <3>2, <3>3, <3>4, QuietFiles, QuietQueue
    <3>5. ASSUME NEW r \in Requests, Executed(r) PROVE FilesOK' /\ FollowOK' /\ DeletedOK' /\ QueueOK'
      <4>1. CASE r.op = "create"
        BY <2>1, <3>2, <3>5, <4>1, CreateKeeps
      <4>2. CASE r.op = "delete"
        BY <2>1, <3>2, <3>5, <4>2, DeleteKeepsFiles, DeleteKeepsDeleted, DeleteKeepsQueue
      <4>3. CASE r.op \notin {"create", "delete"}
        BY <2>1, <3>2, <3>5, <4>3, RestIsQuiet, QuietFiles, QuietQueue
      <4> QED BY <4>1, <4>2, <4>3
    <3>6. ASSUME NEW s \in Snaps, CreateSnapshot(s) PROVE FilesOK' /\ FollowOK' /\ DeletedOK' /\ QueueOK'
      BY <2>1, <3>2, <3>6, NewKeeps
    <3>7. CASE DeleteFinish /\ reply.res = "ok"
      BY <2>1, <3>2, <3>3, <3>7, FinishKeeps
    <3> QED BY <2>1, <2>2, <3>2, <3>3, <3>4, <3>5, <3>6, <3>7, StepKinds
  <2> QED BY <2>1, <2>2 DEF SnapInv
<1> QED BY <1>1, <1>2, PTL DEF Spec

\* Every XML file names a parent that has one, as long as no snapshot showed an
\* error and table and files agreed on every new parent: the next start gives
\* libvirt all snapshots back.
THEOREM FilesClosed == Spec => []FilesAreClosed
<1>1. SnapInv => FilesAreClosed
  BY DEF SnapInv, FilesOK, FilesAreClosed
<1> QED BY <1>1, SnapInvariance, PTL

\* The deletion of a machine whose snapshots never showed an error leaves no XML
\* file behind.
THEOREM NoFileLeft == Spec => []DeletedLeavesNoFile
<1>1. SnapInv => DeletedLeavesNoFile
  BY DEF SnapInv, FilesOK, GoneOK, DeletedLeavesNoFile
<1> QED BY <1>1, SnapInvariance, PTL
=============================================================================
