--------------------------- MODULE StorageProofs ---------------------------
(***************************************************************************)
(* Proofs about StorageService: no object is left on a storage that is     *)
(* gone, and, as long as no deletion of a partition is late, what was put  *)
(* on a storage stays on its device; for any storages, devices, timeouts,  *)
(* crashes and restarts.                                                   *)
(***************************************************************************)
EXTENDS StorageService, SequenceTheorems, TLAPS

-----------------------------------------------------------------------------
(* The inductive invariant *)

CastOps == {"_create_storage", "_delete_storage"}
DeleteOps == {"delete_storage", "_delete_storage"}
SetUpOps == {"create", "delete", "do_setup"}

\* A storage no request but its creation is about.
Fresh(s) == rows[s].status \in {"none", "new", "creating"}

Told(s) == asker.pc = "told" /\ asker.st = s
Seen(s) == mon.seen[s] # "none" \/ mon.done[s] # "none"

Typed ==
  /\ TypeOK
  /\ \A s \in Storages : rows[s].status # "none" => rows[s].dev \in Devices
  /\ job.op \notin {"none", "partition"} => job.st \in Storages
  /\ asker.pc # "idle" => asker.st \in Storages
  /\ \A i \in DOMAIN casts : casts[i].op \in CastOps /\ casts[i].st \in Storages
  /\ \A i \in DOMAIN domQ : domQ[i].op \in SetUpOps => domQ[i].st \in Storages
  /\ mon.pc = "wait" => mon.cur \in Storages /\ mon.seen[mon.cur] # "none"
  /\ \A s \in Storages : Seen(s) => ~Fresh(s)

\* One storage per device; only a creation that is over has initialized it.
RowsOK ==
  /\ \A s, t \in Storages : Exists(s) /\ Exists(t) /\ rows[s].dev = rows[t].dev => s = t
  /\ \A s \in Storages : Fresh(s) => ~rows[s].initialized

\* What is asked to be deleted has been through its creation; what the domain is
\* asked to delete holds no object, and none is on its way to it.
HandlersOK ==
  /\ \A i \in DOMAIN casts :
       casts[i].pc = "start" /\ (casts[i].op = "_delete_storage" => ~Fresh(casts[i].st))
  /\ job.pc = "cast" => job.op \in {"create_storage", "delete_storage"}
  /\ job.pc = "ack" => job.op \in CastOps
  /\ job.op = "none" => job = NoJob
  /\ job.op = "partition" => job.pc = "domain"
  /\ job.op \in DeleteOps => ~Fresh(job.st)
  /\ job.op = "_create_storage" /\ job.pc = "domain" => rows[job.st].status = "creating"
  /\ job.op = "_delete_storage" /\ job.pc = "domain" =>
       Exists(job.st) /\ objs[job.st] = "none" /\ ~Told(job.st)
  /\ job.pc # "domain" => svcReply = "none"

ObjectsOK ==
  /\ ObjectsHaveStorage
  /\ asker.pc = "told" /\ asker.up => ~Fresh(asker.st)
  /\ \A s \in Storages : objs[s] = "device" => rows[s].initialized

\* Who waits for a request still waits, and for this one; the thread's is the
\* youngest of its kind.
OwnedOK ==
  \A i \in DOMAIN domQ :
    /\ domQ[i].op = "delete" => ~Fresh(domQ[i].st)
    /\ domQ[i].owner = "svc" =>
         /\ job.pc = "domain" /\ svcReply = "none"
         /\ \A j \in DOMAIN domQ : domQ[j].owner = "svc" => j = i
    /\ domQ[i].owner = "svc" /\ domQ[i].op = "delete_partition" =>
         \A s \in Storages : Exists(s) => rows[s].dev # domQ[i].dev
    /\ domQ[i].owner = "mon" =>
         /\ domQ[i].op = "do_setup" /\ mon.pc = "wait" /\ monReply = "none"
         /\ \A j \in DOMAIN domQ : domQ[j].op = "do_setup" => j <= i

\* What the thread remembers of a storage is true for good; the storages it has
\* read in one pass are on different devices.
MonitorOK ==
  /\ mon.pc # "wait" => monReply = "none"
  /\ \A s \in Storages :
       /\ "raw" \in {mon.seen[s], mon.done[s]} => ~rows[s].initialized
       /\ "initialized" \in {mon.seen[s], mon.done[s]} => rows[s].initialized
  /\ \A s, t \in Storages : Seen(s) /\ Seen(t) /\ rows[s].dev = rows[t].dev => s = t

Base == RowsOK /\ HandlersOK /\ ObjectsOK /\ OwnedOK /\ MonitorOK

\* A device may still be formatted: by a request that waits, or by one the
\* thread is going to make.
Formats(r) == r.op \in SetUpOps /\ ~r.init
Danger(d) ==
  \/ \E i \in DOMAIN domQ : domQ[i].dev = d /\ Formats(domQ[i])
  \/ \E s \in Storages : mon.seen[s] = "raw" /\ rows[s].dev = d

DeleteQueued(s) == \E i \in DOMAIN domQ : domQ[i].op = "delete" /\ domQ[i].st = s
DeleteAhead(s) ==
  \/ DeleteQueued(s)
  \/ job.op \in DeleteOps /\ job.st = s
  \/ \E i \in DOMAIN casts : casts[i].op = "_delete_storage" /\ casts[i].st = s

\* The thread has set the storage up; it has been told so or is about to be.
SetUpSeen(s) ==
  \/ mon.done[s] = "initialized"
  \/ mon.pc = "wait" /\ mon.cur = s /\ monReply = "ok" /\ mon.seen[s] = "initialized"

\* The device of an initialized storage is formatted only while it is not mounted,
\* and while it may be formatted at all nothing unmounts it: a storage that is
\* available then has not been asked to be deleted since it was created, and when
\* it is available again after that, the thread has set it up behind every request
\* that formats.
DeviceSafe(s) ==
  Danger(rows[s].dev) =>
    /\ ~SetUpSeen(s)
    /\ rows[s].status = "available" => ~DeleteAhead(s)
    /\ Told(s) /\ asker.up => ~DeleteQueued(s)
    /\ objs[s] = "device" => ~DeleteQueued(s) /\ s \in mnt[rows[s].dev]
DevicesOK == \A s \in Storages : Exists(s) /\ rows[s].initialized => DeviceSafe(s)

\* No deletion of a partition waits in the domain queue after its call has ended.
Prompt == \A i \in DOMAIN domQ : domQ[i].op = "delete_partition" => domQ[i].owner = "svc"

IInv == Typed /\ Base
DataInv == IInv /\ DevicesOK /\ ObjectsSurvive

-----------------------------------------------------------------------------
(* Sequences *)

\* The queues lose a message from anywhere; the others keep their order.
LEMMA Removed ==
  ASSUME NEW S, NEW q \in Seq(S), NEW i \in DOMAIN q
  PROVE  /\ RemoveAt(q, i) \in Seq(S)
         /\ DOMAIN q = 1..Len(q) /\ Len(q) \in Nat /\ i \in 1..Len(q)
         /\ DOMAIN RemoveAt(q, i) = 1..(Len(q) - 1)
         /\ \A k \in DOMAIN RemoveAt(q, i) :
              RemoveAt(q, i)[k] = IF k < i THEN q[k] ELSE q[k + 1]
<1>1. Len(q) \in Nat /\ DOMAIN q = 1..Len(q) /\ i \in 1..Len(q)
      /\ \A k \in 1..Len(q) : q[k] \in S
  BY LenProperties, ElementOfSeq
<1> DEFINE a == SubSeq(q, 1, i - 1)
           b == SubSeq(q, i + 1, Len(q))
<1>2. a \in Seq(S) /\ Len(a) = i - 1 /\ \A k \in 1..(i - 1) : a[k] = q[k]
  <2>1. 1 \in Int /\ i - 1 \in Int /\ \A k \in 1..(i - 1) : q[k] \in S
    BY <1>1
  <2>2. /\ a \in Seq(S) /\ Len(a) = IF 1 <= i - 1 THEN (i - 1) - 1 + 1 ELSE 0
        /\ \A k \in 1..((i - 1) - 1 + 1) : a[k] = q[1 + k - 1]
    BY ONLY <2>1, SubSeqProperties
  <2> HIDE DEF a
  <2> QED BY ONLY <1>1, <2>2
<1>3. b \in Seq(S) /\ Len(b) = Len(q) - i /\ \A k \in 1..(Len(q) - i) : b[k] = q[k + i]
  <2>1. i + 1 \in Int /\ Len(q) \in Int /\ \A k \in (i + 1)..Len(q) : q[k] \in S
    BY <1>1
  <2>2. /\ b \in Seq(S) /\ Len(b) = IF i + 1 <= Len(q) THEN Len(q) - (i + 1) + 1 ELSE 0
        /\ \A k \in 1..(Len(q) - (i + 1) + 1) : b[k] = q[(i + 1) + k - 1]
    BY ONLY <2>1, SubSeqProperties
  <2> HIDE DEF b
  <2>3. ASSUME NEW k \in 1..(Len(q) - i) PROVE b[k] = q[k + i]
    <3>1. k \in 1..(Len(q) - (i + 1) + 1) /\ (i + 1) + k - 1 = k + i
      BY ONLY <1>1, k \in 1..(Len(q) - i)
    <3> QED BY ONLY <2>2, <3>1
  <2>4. Len(b) = Len(q) - i
    BY ONLY <1>1, <2>2
  <2> QED BY ONLY <2>2, <2>3, <2>4
<1> HIDE DEF a, b
<1>4. /\ a \o b \in Seq(S) /\ Len(a \o b) = Len(a) + Len(b)
      /\ \A k \in 1..(Len(a) + Len(b)) : (a \o b)[k] = IF k <= Len(a) THEN a[k] ELSE b[k - Len(a)]
  BY ONLY <1>2, <1>3, ConcatProperties
<1>5. RemoveAt(q, i) = a \o b
  BY DEF RemoveAt, a, b
<1>6. Len(a \o b) = Len(q) - 1 /\ DOMAIN (a \o b) = 1..(Len(q) - 1)
  <2>1. Len(a) + Len(b) = Len(q) - 1
    BY ONLY <1>1, <1>2, <1>3
  <2>2. Len(a \o b) = Len(q) - 1
    BY ONLY <1>4, <2>1
  <2>3. DOMAIN (a \o b) = 1..Len(a \o b)
    BY ONLY <1>4, LenProperties
  <2> QED BY ONLY <2>2, <2>3
<1>7. ASSUME NEW k \in 1..(Len(q) - 1)
      PROVE  (a \o b)[k] = IF k < i THEN q[k] ELSE q[k + 1]
  <2>1. k \in 1..(Len(a) + Len(b)) /\ (k <= Len(a) <=> k < i) /\ k \in Int
    BY ONLY <1>1, <1>2, <1>3, k \in 1..(Len(q) - 1)
  <2>2. (a \o b)[k] = IF k <= Len(a) THEN a[k] ELSE b[k - Len(a)]
    BY ONLY <1>4, <2>1
  <2>3. CASE k < i
    <3>1. k \in 1..(i - 1)
      BY ONLY <1>1, <2>1, <2>3, k \in 1..(Len(q) - 1)
    <3> QED BY ONLY <1>2, <2>1, <2>2, <2>3, <3>1
  <2>4. CASE ~(k < i)
    <3>1. k - Len(a) \in 1..(Len(q) - i) /\ (k - Len(a)) + i = k + 1
      BY ONLY <1>1, <1>2, <2>1, <2>4, k \in 1..(Len(q) - 1)
    <3>2. b[k - Len(a)] = q[k + 1]
      BY ONLY <1>3, <3>1
    <3> QED BY ONLY <2>1, <2>2, <2>4, <3>2
  <2> QED BY ONLY <2>3, <2>4
<1> QED BY ONLY <1>1, <1>4, <1>5, <1>6, <1>7

LEMMA Appended ==
  ASSUME NEW S, NEW q \in Seq(S), NEW e \in S
  PROVE  /\ Append(q, e) \in Seq(S) /\ DOMAIN q = 1..Len(q) /\ Len(q) \in Nat
         /\ DOMAIN Append(q, e) = 1..(Len(q) + 1)
         /\ \A k \in DOMAIN q : Append(q, e)[k] = q[k]
         /\ Append(q, e)[Len(q) + 1] = e
BY AppendProperties, LenProperties

LEMMA Prepended ==
  ASSUME NEW S, NEW q \in Seq(S), NEW e \in S
  PROVE  /\ <<e>> \o q \in Seq(S)
         /\ \A k \in DOMAIN (<<e>> \o q) :
              (<<e>> \o q)[k] = e \/ \E i \in DOMAIN q : (<<e>> \o q)[k] = q[i]
<1>1. <<e>> \in Seq(S) /\ Len(<<e>>) = 1 /\ <<e>>[1] = e
  OBVIOUS
<1>2. /\ <<e>> \o q \in Seq(S) /\ Len(<<e>> \o q) = Len(<<e>>) + Len(q)
      /\ \A k \in 1..(Len(<<e>>) + Len(q)) :
           (<<e>> \o q)[k] = IF k <= Len(<<e>>) THEN <<e>>[k] ELSE q[k - Len(<<e>>)]
  BY ONLY <1>1, ConcatProperties
<1>3. DOMAIN (<<e>> \o q) = 1..(1 + Len(q)) /\ Len(q) \in Nat /\ DOMAIN q = 1..Len(q)
  BY ONLY <1>1, <1>2, LenProperties
<1> DEFINE p == <<e>> \o q
           f == <<e>>
<1>4. f[1] = e /\ Len(f) = 1 /\ \A k \in 1..(Len(f) + Len(q)) : p[k] = IF k <= Len(f) THEN f[k] ELSE q[k - Len(f)]
  BY <1>1, <1>2
<1>5. DOMAIN p = 1..(1 + Len(q))
  BY <1>3
<1> HIDE DEF p, f
<1>6. ASSUME NEW k \in DOMAIN p PROVE p[k] = e \/ \E i \in DOMAIN q : p[k] = q[i]
  <2>1. CASE k = 1
    BY <1>3, <1>4, <1>5, <2>1
  <2>2. CASE k # 1
    <3>1. k - 1 \in 1..Len(q) /\ p[k] = q[k - 1]
      BY <1>3, <1>4, <1>5, <2>2
    <3> QED BY <1>3, <3>1
  <2> QED BY <2>1, <2>2
<1> QED BY <1>2, <1>6 DEF p

-----------------------------------------------------------------------------
(* Rows *)

RowsType == rows \in [Storages -> Rows]

\* What no step does to a row: it stays on its device, and a creation that is over
\* stays over.
Onward ==
  \A s \in Storages :
    /\ rows[s].status # "none" => rows'[s].status # "none" /\ rows'[s].dev = rows[s].dev
    /\ ~Fresh(s) => ~Fresh(s)' /\ rows'[s].initialized = rows[s].initialized
    /\ Exists(s)' => Exists(s) \/ rows[s].status = "none"
    /\ rows[s].status # "none" /\ rows[s].initialized => rows'[s].initialized
    /\ rows[s].status = "none" => rows'[s].status = "none" \/ rows'[s].dev \in Devices

\* Only the end of a deletion takes a row away.
Remain(K) == \A s \in Storages \ K : Exists(s) => Exists(s)'

LEMMA RowFacts ==
  ASSUME Typed, NEW s \in Storages
  PROVE  /\ rows[s].status \in StorageStatus \cup {"none", "deleted"}
         /\ rows[s].initialized \in BOOLEAN /\ rows[s].name \in Names \cup {NoName}
         /\ rows[s].dev \in Devices \cup {NoDevice}
BY DEF Typed, TypeOK, Rows

LEMMA StatusSet ==
  ASSUME Typed, NEW s \in Storages, NEW x \in StorageStatus \cup {"none", "deleted"}, SetStatus(s, x)
  PROVE  /\ RowsType'
         /\ \A t \in Storages :
              /\ rows'[t].status = IF t = s THEN x ELSE rows[t].status
              /\ rows'[t].dev = rows[t].dev /\ rows'[t].initialized = rows[t].initialized
<1>1. rows \in [Storages -> Rows]
  BY DEF Typed, TypeOK
<1>2. PICK r \in Rows : r = rows[s]
  BY <1>1
<1> DEFINE q == [r EXCEPT !.status = x]
<1>3. q \in Rows /\ q.status = x /\ q.dev = r.dev /\ q.initialized = r.initialized
  BY DEF Rows
<1>4. rows' = [rows EXCEPT ![s] = q]
  BY <1>2 DEF SetStatus
<1> HIDE DEF q
<1>5. /\ rows' \in [Storages -> Rows] /\ rows'[s] = q
      /\ \A t \in Storages \ {s} : rows'[t] = rows[t]
  BY <1>1, <1>3, <1>4
<1> QED BY <1>2, <1>3, <1>5 DEF RowsType

LEMMA RowInserted ==
  ASSUME Typed, NEW s \in Storages, NEW n \in Names, NEW d \in Devices, CreateStorage(s, n, d)
  PROVE  /\ RowsType' /\ rows[s].status = "none"
         /\ \A t \in Storages : t # s => rows'[t] = rows[t]
         /\ rows'[s].status = "new" /\ rows'[s].dev = d /\ rows'[s].initialized = FALSE
<1> DEFINE r == [status |-> "new", name |-> n, dev |-> d, initialized |-> FALSE]
<1>1. r \in Rows /\ rows' = [rows EXCEPT ![s] = r] /\ rows[s].status = "none"
  BY DEF CreateStorage, Rows, StorageStatus
<1>2. r.status = "new" /\ r.dev = d /\ r.initialized = FALSE
  OBVIOUS
<1> HIDE DEF r
<1> QED BY <1>1, <1>2 DEF Typed, TypeOK, RowsType

LEMMA RowCreated ==
  ASSUME Typed, NEW s \in Storages,
         rows' = [rows EXCEPT ![s].status = "available", ![s].initialized = TRUE]
  PROVE  /\ RowsType'
         /\ \A t \in Storages : t # s => rows'[t] = rows[t]
         /\ rows'[s].status = "available" /\ rows'[s].initialized = TRUE
         /\ rows'[s].dev = rows[s].dev
<1>1. rows \in [Storages -> Rows]
  BY DEF Typed, TypeOK
<1>2. PICK r \in Rows : r = rows[s]
  BY <1>1
<1> DEFINE q == [r EXCEPT !.status = "available", !.initialized = TRUE]
<1>3. q \in Rows /\ q.status = "available" /\ q.dev = r.dev /\ q.initialized = TRUE
  BY DEF Rows, StorageStatus
<1>4. rows' = [rows EXCEPT ![s] = q]
  BY <1>1, <1>2
<1> HIDE DEF q
<1>5. /\ rows' \in [Storages -> Rows] /\ rows'[s] = q
      /\ \A t \in Storages \ {s} : rows'[t] = rows[t]
  BY <1>1, <1>3, <1>4
<1> QED BY <1>2, <1>3, <1>5 DEF RowsType

LEMMA RowsUpdated ==
  ASSUME Typed, MonitorOK, MonitorWrite
  PROVE  /\ RowsType'
         /\ \A s \in Storages :
              \/ rows'[s] = rows[s]
              \/ /\ Exists(s) /\ Seen(s) /\ mon.done[s] # "none"
                 /\ rows'[s].status = IF mon.done[s] = "error" THEN "error" ELSE "available"
                 /\ rows'[s].initialized = rows[s].initialized /\ rows'[s].dev = rows[s].dev
<1>1. ASSUME NEW s \in Storages, mon.done[s] # "none"
      PROVE  /\ Updated(s) \in Rows /\ Seen(s)
             /\ Updated(s).status = IF mon.done[s] = "error" THEN "error" ELSE "available"
             /\ Updated(s).initialized = rows[s].initialized /\ Updated(s).dev = rows[s].dev
  <2>1. rows[s] \in Rows /\ mon.done[s] \in {"error", "raw", "initialized"}
    BY <1>1 DEF Typed, TypeOK, Monitors
  <2>2. /\ mon.done[s] = "raw" => rows[s].initialized = FALSE
        /\ mon.done[s] = "initialized" => rows[s].initialized = TRUE
    BY <2>1 DEF MonitorOK, Rows
  <2>3. Seen(s)
    BY <1>1 DEF Seen
  <2> QED BY <2>1, <2>2, <2>3 DEF Updated, Rows, StorageStatus
<1>2. \/ UNCHANGED rows
      \/ rows' = [s \in Storages |-> IF s \in {t \in Storages : mon.done[t] # "none"} /\ Exists(s)
                                     THEN Updated(s) ELSE rows[s]]
  BY DEF MonitorWrite
<1>3. rows \in [Storages -> Rows]
  BY DEF Typed, TypeOK
<1>4. ASSUME NEW s \in Storages
      PROVE  /\ rows'[s] \in Rows
             /\ \/ rows'[s] = rows[s]
                \/ Exists(s) /\ mon.done[s] # "none" /\ rows'[s] = Updated(s)
  BY <1>1, <1>2, <1>3
<1>5. RowsType'
  BY <1>2, <1>3, <1>4 DEF RowsType
<1> QED BY <1>1, <1>4, <1>5

LEMMA RowFrames ==
  ASSUME [Next]_vars
  PROVE  \/ UNCHANGED rows \/ CreateStart \/ CreateFinish \/ DeleteStart \/ DeleteFinish \/ MonitorWrite
         \/ \E s \in Storages : DeleteStorage(s)
         \/ \E s \in Storages, n \in Names, d \in Devices : CreateStorage(s, n, d)
BY DEF Next, vars, ApiRequest, ApiCreate, ApiDelete, ApiPartition, HandlerStep, MonitorStep,
       ObjectStep, CreatePartition, DeletePartition, TakeCast, AckCast, PublishCast, PartitionFinish,
       MonitorRead, MonitorCall, MonitorResult, DomainExecute, Tell, GiveUp, StoreObject, Ask,
       RemoveObjects, DomainCrash, ServiceTimeout, MonitorTimeout, ServiceCrash, HostReboot

\* Every step moves the rows onward.
LEMMA RowsStep ==
  ASSUME Typed, Base, [Next]_vars
  PROVE  /\ RowsType' /\ Onward
         /\ Remain({job.st})
         /\ ~(job.op = "_delete_storage" /\ job.pc = "domain") => Remain({})
<1> USE DEF Fresh, Exists
<1>1. ASSUME NEW s \in Storages, NEW n \in Names, NEW d \in Devices, CreateStorage(s, n, d)
      PROVE  RowsType' /\ Onward /\ Remain({})
  <2>1. /\ RowsType' /\ rows[s].status = "none"
        /\ \A t \in Storages : t # s => rows'[t] = rows[t]
        /\ rows'[s].status = "new" /\ rows'[s].dev = d /\ rows'[s].initialized = FALSE
    BY <1>1, RowInserted
  <2> QED BY <2>1 DEF Onward, Remain
<1>2. CASE CreateStart
  <2>1. job.st \in Storages
    BY <1>2 DEF CreateStart, Typed
  <2>2. CASE UNCHANGED rows
    BY <2>2 DEF Onward, Remain, RowsType, Typed, TypeOK
  <2>3. CASE rows[job.st].status = "new" /\ SetStatus(job.st, "creating")
    <3>1. "creating" \in StorageStatus \cup {"none", "deleted"}
      BY DEF StorageStatus
    <3> QED BY <2>1, <2>3, <3>1, StatusSet DEF Onward, Remain
  <2> QED BY <1>2, <2>2, <2>3 DEF CreateStart, StatusIn
<1>3. CASE CreateFinish
  <2>1. job.st \in Storages /\ rows[job.st].status = "creating"
    BY <1>3 DEF CreateFinish, Typed, Base, HandlersOK
  <2>2. CASE UNCHANGED rows
    BY <2>2 DEF Onward, Remain, RowsType, Typed, TypeOK
  <2>3. CASE SetStatus(job.st, "error")
    <3>1. "error" \in StorageStatus \cup {"none", "deleted"}
      BY DEF StorageStatus
    <3> QED BY <2>1, <2>3, <3>1, StatusSet DEF Onward, Remain
  <2>4. CASE rows' = [rows EXCEPT ![job.st].status = "available", ![job.st].initialized = TRUE]
    <3>1. /\ RowsType' /\ \A t \in Storages : t # job.st => rows'[t] = rows[t]
          /\ rows'[job.st].status = "available" /\ rows'[job.st].dev = rows[job.st].dev
          /\ rows'[job.st].initialized = TRUE
      BY <2>1, <2>4, RowCreated
    <3> QED BY <2>1, <3>1 DEF Onward, Remain
  <2>5. svcReply \in {"ok", "err", "timeout"}
    BY <1>3 DEF CreateFinish, Typed, TypeOK
  <2> QED BY <1>3, <2>2, <2>3, <2>4, <2>5 DEF CreateFinish
<1>4. ASSUME NEW s \in Storages, DeleteStorage(s)
      PROVE  RowsType' /\ Onward /\ Remain({})
  <2>1. "deleting" \in StorageStatus \cup {"none", "deleted"}
    BY DEF StorageStatus
  <2>2. Exists(s) /\ SetStatus(s, "deleting")
    BY <1>4 DEF DeleteStorage
  <2> QED BY <2>1, <2>2, StatusSet DEF Onward, Remain
<1>5. CASE DeleteStart
  <2>1. job.st \in Storages
    BY <1>5 DEF DeleteStart, Typed
  <2>2. CASE UNCHANGED rows
    BY <2>2 DEF Onward, Remain, RowsType, Typed, TypeOK
  <2>3. CASE Exists(job.st) /\ SetStatus(job.st, "error")
    <3>1. "error" \in StorageStatus \cup {"none", "deleted"}
      BY DEF StorageStatus
    <3> QED BY <2>1, <2>3, <3>1, StatusSet DEF Onward, Remain
  <2> QED BY <1>5, <2>2, <2>3 DEF DeleteStart
<1>6. CASE DeleteFinish
  <2>1. job.st \in Storages /\ ~Fresh(job.st) /\ job.op = "_delete_storage" /\ job.pc = "domain"
        /\ Exists(job.st)
    BY <1>6 DEF DeleteFinish, Typed, Base, HandlersOK, DeleteOps
  <2>2. PICK x \in {"deleted", "error"} : SetStatus(job.st, x)
    BY <1>6 DEF DeleteFinish
  <2>3. x \in StorageStatus \cup {"none", "deleted"} /\ x \notin {"none", "new", "creating"}
    BY DEF StorageStatus
  <2>4. /\ RowsType'
        /\ \A t \in Storages :
             /\ rows'[t].status = IF t = job.st THEN x ELSE rows[t].status
             /\ rows'[t].dev = rows[t].dev /\ rows'[t].initialized = rows[t].initialized
    BY <2>1, <2>2, <2>3, StatusSet
  <2> QED BY <2>1, <2>3, <2>4 DEF Onward, Remain
<1>7. CASE MonitorWrite
  BY <1>7, RowsUpdated DEF Onward, Remain, Base, Typed
<1>8. CASE UNCHANGED rows
  BY <1>8 DEF Onward, Remain, RowsType, Typed, TypeOK
<1>9. Remain({}) => Remain({job.st})
  BY DEF Remain
<1> QED BY <1>1, <1>2, <1>3, <1>4, <1>5, <1>6, <1>7, <1>8, <1>9, RowFrames

-----------------------------------------------------------------------------
(* The host *)

Hosts == [parts : SUBSET Devices, mnt : [Devices -> SUBSET Storages],
          data : [Devices -> SUBSET Storages]]

\* What a request leaves of the host: it unmounts only the storage it deletes, and
\* loses files only by formatting a device that is not mounted, or with a partition.
Keeps(r, h) ==
  /\ h \in Hosts
  /\ \A d \in Devices, s \in Storages :
       /\ s \in mnt[d] => s \in h.mnt[d] \/ (r.op = "delete" /\ r.st = s)
       /\ s \in data[d] => \/ s \in h.data[d]
                           \/ d = r.dev /\ Formats(r) /\ mnt[d] = {}
                           \/ d = r.dev /\ r.op = "delete_partition"

LEMMA HostType ==
  Typed => Host \in Hosts /\ Host.parts = parts /\ Host.mnt = mnt /\ Host.data = data
BY DEF Typed, TypeOK, Host, Hosts

LEMMA SetUpKeeps ==
  ASSUME Typed, NEW r \in Requests, r.op \in SetUpOps, r.st \in Storages, NEW h \in SetUp(r)
  PROVE  Keeps(r, h) /\ \A d \in Devices : mnt[d] \subseteq h.mnt[d]
<1>1. r.dev \in Devices /\ r.init \in BOOLEAN
  BY DEF Requests
<1>2. PICK g \in Formatted(r) : h \in Mounted(r, g)
  BY DEF SetUp
<1>3. g \in Hosts /\ g.mnt = mnt
      /\ \A d \in Devices : g.data[d] = data[d] \/ (d = r.dev /\ Formats(r) /\ mnt[d] = {})
  <2>1. CASE g = Host
    BY <2>1, HostType
  <2>2. CASE /\ r.dev \in Disks /\ ~r.init /\ mnt[r.dev] = {}
             /\ g = [Host EXCEPT !.data[r.dev] = {}]
    <3>1. Host \in Hosts /\ Host.mnt = mnt /\ Host.data = data
      BY HostType
    <3>2. g \in Hosts /\ g.mnt = mnt /\ \A d \in Devices : d # r.dev => g.data[d] = data[d]
      BY <1>1, <2>2, <3>1 DEF Hosts
    <3> QED BY <2>2, <3>2 DEF Formats
  <2> QED BY <1>2, <2>1, <2>2 DEF Formatted
<1>4. h \in Hosts /\ h.data = g.data /\ \A d \in Devices : g.mnt[d] \subseteq h.mnt[d]
  <2>1. CASE h = g
    BY <1>3, <2>1
  <2>2. CASE h = [g EXCEPT !.mnt[r.dev] = IF r.dev \in parts THEN @ \cup {r.st} ELSE @]
    <3> DEFINE x == IF r.dev \in parts THEN g.mnt[r.dev] \cup {r.st} ELSE g.mnt[r.dev]
    <3>1. x \in SUBSET Storages /\ g.mnt[r.dev] \subseteq x
      BY <1>1, <1>3 DEF Hosts
    <3>2. h = [g EXCEPT !.mnt[r.dev] = x]
      BY <2>2
    <3> HIDE DEF x
    <3> QED BY <1>1, <1>3, <3>1, <3>2 DEF Hosts
  <2> QED BY <1>2, <2>1, <2>2 DEF Mounted
<1>5. Keeps(r, h)
  BY <1>3, <1>4 DEF Keeps
<1> QED BY <1>3, <1>4, <1>5

LEMMA OutcomeParts ==
  ASSUME NEW H, NEW K \in {BOOLEAN, {TRUE}, {FALSE}}, NEW o \in Outcome(H, K)
  PROVE  o.host \in H /\ o.ok \in BOOLEAN
<1>1. PICK h \in H, k \in K : o = [host |-> h, ok |-> k]
  BY DEF Outcome
<1>2. k \in BOOLEAN
  OBVIOUS
<1> QED BY <1>1, <1>2

LEMMA RequestKeeps ==
  ASSUME Typed, NEW r \in Requests, r.op \in SetUpOps => r.st \in Storages, NEW o \in Outcomes(r)
  PROVE  Keeps(r, o.host) /\ o.ok \in BOOLEAN
<1>2. r.dev \in Devices /\ r.op \in SetUpOps \cup {"create_partition", "delete_partition"}
  BY DEF Requests, SetUpOps
<1>3. CASE r.op \in {"create", "do_setup"} /\ o \in Outcome(SetUp(r), BOOLEAN)
  <2>1. o.host \in SetUp(r) /\ o.ok \in BOOLEAN
    BY <1>3, OutcomeParts
  <2> QED BY <1>3, <2>1, SetUpKeeps DEF SetUpOps
<1>4. CASE r.op = "delete" /\ o \in Unmounted(r)
  <2>0. r.op \in SetUpOps /\ r.st \in Storages
    BY <1>4 DEF SetUpOps
  <2>1. CASE o \in Outcome(SetUp(r), {FALSE})
    <3>1. o.host \in SetUp(r) /\ o.ok \in BOOLEAN
      BY <2>1, {FALSE} \in {BOOLEAN, {TRUE}, {FALSE}}, OutcomeParts
    <3> QED BY <2>0, <3>1, SetUpKeeps
  <2>2. CASE o \in Outcome({[h EXCEPT !.mnt[r.dev] = @ \ {r.st}] :
                              h \in {g \in SetUp(r) : r.st \in g.mnt[r.dev]}}, BOOLEAN)
    <3> DEFINE H == {[h EXCEPT !.mnt[r.dev] = @ \ {r.st}] : h \in {g \in SetUp(r) : r.st \in g.mnt[r.dev]}}
    <3>0. o.host \in H /\ o.ok \in BOOLEAN
      BY <2>2, OutcomeParts
    <3>1. PICK h \in SetUp(r) : o.host = [h EXCEPT !.mnt[r.dev] = @ \ {r.st}]
      BY <3>0
    <3>2. Keeps(r, h) /\ \A d \in Devices : mnt[d] \subseteq h.mnt[d]
      BY <2>0, SetUpKeeps
    <3>3. h \in Hosts
      BY <3>2 DEF Keeps
    <3>4. /\ o.host \in Hosts /\ o.host.data = h.data
          /\ \A d \in Devices, s \in Storages :
               s \in h.mnt[d] => s \in o.host.mnt[d] \/ s = r.st
      BY <1>2, <3>1, <3>3 DEF Hosts
    <3> QED BY <1>4, <3>0, <3>2, <3>4 DEF Keeps
  <2> QED BY <1>4, <2>1, <2>2 DEF Unmounted
<1>5. CASE r.op = "create_partition" /\ o \in PartitionMade(r)
  <2> DEFINE more == [Host EXCEPT !.parts = @ \cup {r.dev}]
  <2>1. CASE o \in Outcome({Host}, {FALSE})
    <3>1. o.host \in {Host} /\ o.ok \in BOOLEAN
      BY <2>1, {FALSE} \in {BOOLEAN, {TRUE}, {FALSE}}, OutcomeParts
    <3> QED BY <3>1, HostType DEF Keeps
  <2>2. CASE o \in Outcome({more}, {TRUE})
    <3>1. o.host \in {more} /\ o.ok \in BOOLEAN
      BY <2>2, {TRUE} \in {BOOLEAN, {TRUE}, {FALSE}}, OutcomeParts
    <3>2. more \in Hosts /\ more.mnt = mnt /\ more.data = data
      BY <1>2, HostType DEF Hosts
    <3> QED BY <3>1, <3>2 DEF Keeps
  <2> QED BY <1>5, <2>1, <2>2 DEF PartitionMade
<1>6. CASE r.op = "delete_partition" /\ o \in PartitionRemoved(r)
  <2> DEFINE less == [Host EXCEPT !.parts = @ \ {r.dev}, !.data[r.dev] = {}]
             H == IF mnt[r.dev] # {} THEN {} ELSE {less}
  <2>1. CASE o \in Outcome({Host}, {FALSE})
    <3>1. o.host \in {Host} /\ o.ok \in BOOLEAN
      BY <2>1, {FALSE} \in {BOOLEAN, {TRUE}, {FALSE}}, OutcomeParts
    <3> QED BY <3>1, HostType DEF Keeps
  <2>2. CASE o \in Outcome(H, {TRUE})
    <3>1. o.host \in H /\ o.ok \in BOOLEAN
      BY <2>2, {TRUE} \in {BOOLEAN, {TRUE}, {FALSE}}, OutcomeParts
    <3>2. /\ less \in Hosts /\ less.mnt = mnt
          /\ \A d \in Devices : d # r.dev => less.data[d] = data[d]
      BY <1>2, HostType DEF Hosts
    <3>3. o.host = less
      BY <3>1
    <3> HIDE DEF less
    <3> QED BY <1>6, <3>1, <3>2, <3>3 DEF Keeps
  <2> QED BY <1>6, <2>1, <2>2 DEF PartitionRemoved
<1> QED BY <1>2, <1>3, <1>4, <1>5, <1>6 DEF Outcomes, SetUpOps

LEMMA OutcomeKeeps ==
  ASSUME Typed, NEW i \in DOMAIN domQ, NEW o \in Outcomes(domQ[i])
  PROVE  domQ[i] \in Requests /\ Keeps(domQ[i], o.host) /\ o.ok \in BOOLEAN
<1>1. domQ[i] \in Requests /\ (domQ[i].op \in SetUpOps => domQ[i].st \in Storages)
  BY ElementOfSeq, LenProperties DEF Typed, TypeOK
<1> QED BY <1>1, RequestKeeps

-----------------------------------------------------------------------------
(* Which steps change what *)

\* A step outside the handlers: of the rows only the thread writes.
Quiet ==
  /\ UNCHANGED <<casts, job>>
  /\ UNCHANGED rows \/ MonitorWrite
  /\ UNCHANGED svcReply \/ DomainExecute \/ ServiceTimeout

LEMMA Frames ==
  ASSUME [Next]_vars
  PROVE  /\ \/ UNCHANGED hostVars
            \/ DomainExecute \/ DomainCrash \/ StoreObject \/ HostReboot
            \/ \E s \in Storages : RemoveObjects(s)
         /\ \/ UNCHANGED objVars
            \/ Tell \/ GiveUp \/ StoreObject \/ HostReboot
            \/ \E s \in Storages : Ask(s) \/ RemoveObjects(s)
         /\ \/ Quiet
            \/ ApiRequest \/ HandlerStep \/ ServiceCrash \/ HostReboot
         /\ \/ UNCHANGED domQ
            \/ CreateStart \/ DeleteStart \/ ApiPartition \/ MonitorCall
            \/ DomainExecute \/ ServiceTimeout \/ MonitorTimeout \/ ServiceCrash \/ HostReboot
         /\ \/ UNCHANGED <<svcReply>>
            \/ CreateFinish \/ DeleteFinish \/ PartitionFinish \/ DomainExecute
            \/ ServiceTimeout \/ ServiceCrash \/ HostReboot
         /\ \/ UNCHANGED mon
            \/ MonitorStep \/ ServiceCrash \/ HostReboot
         /\ \/ UNCHANGED monReply
            \/ MonitorResult \/ DomainExecute \/ MonitorTimeout \/ ServiceCrash \/ HostReboot
<1> USE DEF vars, hostVars, objVars, svcVars, monVars
<1>1. ASSUME ApiRequest
      PROVE  /\ UNCHANGED <<hostVars, objVars, mon, monReply, svcReply>>
             /\ UNCHANGED domQ \/ ApiPartition
  BY <1>1 DEF ApiRequest, ApiCreate, ApiDelete, ApiPartition, CreateStorage, DeleteStorage,
              CreatePartition, DeletePartition
<1>2. ASSUME HandlerStep
      PROVE  /\ UNCHANGED <<hostVars, objVars, mon, monReply>>
             /\ UNCHANGED domQ \/ CreateStart \/ DeleteStart
             /\ UNCHANGED svcReply \/ CreateFinish \/ DeleteFinish \/ PartitionFinish
  BY <1>2 DEF HandlerStep, TakeCast, AckCast, PublishCast, CreateStart, CreateFinish, DeleteStart,
              DeleteFinish, PartitionFinish
<1>3. ASSUME MonitorStep
      PROVE  /\ UNCHANGED <<hostVars, objVars, casts, job, svcReply>>
             /\ UNCHANGED rows \/ MonitorWrite
             /\ UNCHANGED domQ \/ MonitorCall
             /\ UNCHANGED monReply \/ MonitorResult
  BY <1>3 DEF MonitorStep, MonitorRead, MonitorCall, MonitorResult, MonitorWrite
<1>4. ASSUME DomainExecute PROVE UNCHANGED <<objVars, rows, casts, job, mon>>
  BY <1>4 DEF DomainExecute
<1>5. ASSUME ObjectStep \/ DomainCrash \/ \E s \in Storages : Ask(s) \/ RemoveObjects(s)
      PROVE  /\ UNCHANGED <<rows, svcVars, domQ, mon, monReply>>
             /\ \/ UNCHANGED hostVars \/ DomainCrash \/ StoreObject
                \/ \E s \in Storages : RemoveObjects(s)
             /\ \/ UNCHANGED objVars \/ Tell \/ GiveUp \/ StoreObject
                \/ \E s \in Storages : Ask(s) \/ RemoveObjects(s)
  BY <1>5 DEF ObjectStep, Tell, GiveUp, StoreObject, Ask, RemoveObjects, DomainCrash
<1>6. /\ ServiceTimeout => UNCHANGED <<hostVars, objVars, rows, casts, job, mon, monReply>>
      /\ MonitorTimeout => UNCHANGED <<hostVars, objVars, rows, casts, job, svcReply, mon>>
      /\ ServiceCrash => UNCHANGED <<hostVars, objVars>>
  BY DEF ServiceTimeout, MonitorTimeout, ServiceCrash
<1>7. CASE ApiRequest
  BY <1>1, <1>7
<1>8. CASE HandlerStep
  BY <1>2, <1>8
<1>9. CASE MonitorStep
  BY <1>3, <1>9 DEF Quiet
<1>10. CASE DomainExecute
  BY <1>4, <1>10 DEF Quiet
<1>11. CASE ObjectStep \/ DomainCrash \/ \E s \in Storages : Ask(s) \/ RemoveObjects(s)
  BY <1>5, <1>11 DEF Quiet
<1>12. CASE ServiceTimeout \/ MonitorTimeout \/ ServiceCrash \/ HostReboot
  BY <1>6, <1>12 DEF Quiet
<1>13. CASE UNCHANGED vars
  BY <1>13 DEF Quiet
<1> QED BY <1>7, <1>8, <1>9, <1>10, <1>11, <1>12, <1>13 DEF Next

-----------------------------------------------------------------------------
(* Types *)

LEMMA Pieces ==
  /\ NoJob \in Jobs /\ NoJob.op = "none" /\ NoJob.pc = "idle"
  /\ IdleAsker \in Askers /\ IdleAsker.pc = "idle"
  /\ IdleMonitor \in Monitors /\ [IdleMonitor EXCEPT !.pc = "dead"] \in Monitors
  /\ \A s \in Storages : /\ IdleMonitor.seen[s] = "none" /\ IdleMonitor.done[s] = "none"
                         /\ [IdleMonitor EXCEPT !.pc = "dead"].seen[s] = "none"
                         /\ [IdleMonitor EXCEPT !.pc = "dead"].done[s] = "none"
  /\ IdleMonitor.pc = "idle" /\ [IdleMonitor EXCEPT !.pc = "dead"].pc = "dead"
BY DEF NoJob, Jobs, IdleAsker, Askers, IdleMonitor, Monitors, Nothing

LEMMA JobType ==
  ASSUME NEW op \in {"create_storage", "_create_storage", "delete_storage", "_delete_storage", "partition"},
         NEW s \in Storages \cup {NoStorage}, NEW pc \in {"start", "cast", "domain"}
  PROVE  /\ Job(op, s, pc) \in Jobs
         /\ Job(op, s, pc).op = op /\ Job(op, s, pc).st = s /\ Job(op, s, pc).pc = pc
BY DEF Job, Jobs

LEMMA JobMoved ==
  ASSUME NEW j \in Jobs, NEW pc \in {"start", "domain", "ack"}
  PROVE  /\ [j EXCEPT !.pc = pc] \in Jobs /\ [j EXCEPT !.pc = pc].op = j.op
         /\ [j EXCEPT !.pc = pc].st = j.st /\ [j EXCEPT !.pc = pc].pc = pc
BY DEF Jobs

\* The end of a handler.
LEMMA Ended ==
  ASSUME job \in Jobs, Done
  PROVE  /\ job' \in Jobs
         /\ \/ job.op \in CastOps /\ job'.op = job.op /\ job'.st = job.st /\ job'.pc = "ack"
            \/ job.op \notin CastOps /\ job' = NoJob
<1>1. CASE job.op \in CastOps
  <2>1. job' = [job EXCEPT !.pc = "ack"]
    BY <1>1 DEF Done, CastOps
  <2> QED BY <1>1, <2>1, JobMoved
<1>2. CASE job.op \notin CastOps
  BY <1>2, Pieces DEF Done, CastOps
<1> QED BY <1>1, <1>2

\* A call of the domain: the queue is one request longer.
LEMMA Called ==
  ASSUME Typed, NEW op \in SetUpOps \cup {"create_partition", "delete_partition"},
         NEW s \in Storages \cup {NoStorage}, NEW d \in Devices, NEW init \in BOOLEAN,
         NEW owner \in {"svc", "mon"}, CallDomain(op, s, d, init, owner)
  PROVE  /\ domQ' \in Seq(Requests)
         /\ Len(domQ) \in Nat /\ DOMAIN domQ = 1..Len(domQ) /\ DOMAIN domQ' = 1..(Len(domQ) + 1)
         /\ \A i \in DOMAIN domQ : domQ'[i] = domQ[i]
         /\ domQ'[Len(domQ) + 1] = [op |-> op, st |-> s, dev |-> d, init |-> init, owner |-> owner]
<1> DEFINE r == [op |-> op, st |-> s, dev |-> d, init |-> init, owner |-> owner]
<1>1. r \in Requests /\ domQ' = Append(domQ, r)
  BY DEF CallDomain, Requests, SetUpOps
<1> HIDE DEF r
<1>2. domQ \in Seq(Requests)
  BY DEF Typed, TypeOK
<1>3. /\ domQ' \in Seq(Requests)
      /\ Len(domQ) \in Nat /\ DOMAIN domQ = 1..Len(domQ) /\ DOMAIN domQ' = 1..(Len(domQ) + 1)
      /\ \A i \in DOMAIN domQ : domQ'[i] = domQ[i]
      /\ domQ'[Len(domQ) + 1] = r
  BY <1>1, <1>2, Appended
<1> QED BY <1>3 DEF r

LEMMA DisownedType ==
  ASSUME Typed, NEW owners \in SUBSET {"svc", "mon"}, domQ' = Disowned(owners)
  PROVE  /\ domQ' \in Seq(Requests) /\ DOMAIN domQ' = DOMAIN domQ
         /\ \A i \in DOMAIN domQ :
              /\ domQ'[i].op = domQ[i].op /\ domQ'[i].st = domQ[i].st
              /\ domQ'[i].dev = domQ[i].dev /\ domQ'[i].init = domQ[i].init
              /\ domQ'[i].owner = IF domQ[i].owner \in owners THEN "none" ELSE domQ[i].owner
<1>1. DOMAIN domQ' = DOMAIN domQ /\ DOMAIN domQ = 1..Len(domQ) /\ Len(domQ) \in Nat
  BY LenProperties DEF Disowned, Typed, TypeOK
<1>2. ASSUME NEW i \in DOMAIN domQ
      PROVE  /\ domQ'[i] \in Requests
             /\ domQ'[i].op = domQ[i].op /\ domQ'[i].st = domQ[i].st
             /\ domQ'[i].dev = domQ[i].dev /\ domQ'[i].init = domQ[i].init
             /\ domQ'[i].owner = IF domQ[i].owner \in owners THEN "none" ELSE domQ[i].owner
  <2>1. domQ[i] \in Requests
    BY ElementOfSeq, <1>1 DEF Typed, TypeOK
  <2> QED BY <2>1 DEF Disowned, Requests
<1>3. domQ' \in [1..Len(domQ) -> Requests]
  BY <1>1, <1>2 DEF Disowned
<1>4. domQ' \in Seq(Requests)
  BY ONLY <1>1, <1>3, SMTT(30)
<1> QED BY <1>1, <1>2, <1>4

\* The head of the domain queue has been executed and is gone.
Executed(i, o) ==
  /\ i \in DOMAIN domQ /\ IsHead(i) /\ o \in Outcomes(domQ[i])
  /\ Keeps(domQ[i], o.host) /\ HostBecomes(o.host)
  /\ domQ[i] \in Requests /\ domQ' = RemoveAt(domQ, i) /\ domQ' \in Seq(Requests)
  /\ DOMAIN domQ = 1..Len(domQ) /\ Len(domQ) \in Nat /\ i \in 1..Len(domQ)
  /\ DOMAIN domQ' = 1..(Len(domQ) - 1)
  /\ \A k \in DOMAIN domQ' : domQ'[k] = IF k < i THEN domQ[k] ELSE domQ[k + 1]
  /\ svcReply' = (IF domQ[i].owner = "svc" THEN (IF o.ok THEN "ok" ELSE "err") ELSE svcReply)
  /\ monReply' = (IF domQ[i].owner = "mon" THEN (IF o.ok THEN "ok" ELSE "err") ELSE monReply)
  /\ UNCHANGED <<rows, objVars, casts, job, mon, bounds>>

LEMMA Execution ==
  ASSUME Typed, DomainExecute
  PROVE  \E i, o : Executed(i, o)
<1>1. PICK i \in DOMAIN domQ : /\ IsHead(i)
        /\ \E o \in Outcomes(domQ[i]) :
             /\ HostBecomes(o.host) /\ domQ' = RemoveAt(domQ, i)
             /\ svcReply' = (IF domQ[i].owner = "svc" THEN (IF o.ok THEN "ok" ELSE "err") ELSE svcReply)
             /\ monReply' = (IF domQ[i].owner = "mon" THEN (IF o.ok THEN "ok" ELSE "err") ELSE monReply)
  BY DEF DomainExecute
<1>2. PICK o \in Outcomes(domQ[i]) :
             /\ HostBecomes(o.host) /\ domQ' = RemoveAt(domQ, i)
             /\ svcReply' = (IF domQ[i].owner = "svc" THEN (IF o.ok THEN "ok" ELSE "err") ELSE svcReply)
             /\ monReply' = (IF domQ[i].owner = "mon" THEN (IF o.ok THEN "ok" ELSE "err") ELSE monReply)
  BY <1>1
<1>3. domQ[i] \in Requests /\ Keeps(domQ[i], o.host) /\ o.ok \in BOOLEAN
  BY OutcomeKeeps
<1>4. domQ \in Seq(Requests)
  BY DEF Typed, TypeOK
<1>5. /\ domQ' \in Seq(Requests)
      /\ DOMAIN domQ = 1..Len(domQ) /\ Len(domQ) \in Nat /\ i \in 1..Len(domQ)
      /\ DOMAIN domQ' = 1..(Len(domQ) - 1)
      /\ \A k \in DOMAIN domQ' : domQ'[k] = IF k < i THEN domQ[k] ELSE domQ[k + 1]
  BY <1>2, <1>4, Removed
<1>6. UNCHANGED <<rows, objVars, casts, job, mon, bounds>>
  BY DEF DomainExecute
<1>7. Executed(i, o)
  BY <1>1, <1>2, <1>3, <1>5, <1>6 DEF Executed
<1> QED BY <1>7

\* What is left in the queue was there before, in the same order.
LEMMA LeftBehind ==
  ASSUME NEW i, NEW o, Executed(i, o), NEW k \in DOMAIN domQ'
  PROVE  \E m \in DOMAIN domQ : /\ domQ'[k] = domQ[m] /\ m # i /\ m = (IF k < i THEN k ELSE k + 1)
<1>1. CASE k < i
  BY <1>1 DEF Executed
<1>2. CASE ~(k < i)
  <2>1. k + 1 \in DOMAIN domQ /\ k + 1 # i
    BY <1>2 DEF Executed
  <2> QED BY <1>2, <2>1 DEF Executed
<1> QED BY <1>1, <1>2

\* The messages to the service layer and its handler.
JobsTyped ==
  /\ casts \in Seq(Jobs) /\ job \in Jobs
  /\ job.op \notin {"none", "partition"} => job.st \in Storages
  /\ \A i \in DOMAIN casts : casts[i].op \in CastOps /\ casts[i].st \in Storages

LEMMA CastTaken ==
  ASSUME Typed, TakeCast
  PROVE  \E i \in DOMAIN casts :
           /\ job = NoJob /\ job' = casts[i] /\ casts' = RemoveAt(casts, i) /\ casts' \in Seq(Jobs)
           /\ \A k \in DOMAIN casts' : \E m \in DOMAIN casts : casts'[k] = casts[m]
<1>1. PICK i \in DOMAIN casts : job' = casts[i] /\ casts' = RemoveAt(casts, i)
  BY DEF TakeCast
<1>2. casts \in Seq(Jobs)
  BY DEF Typed, TypeOK
<1>3. /\ casts' \in Seq(Jobs)
      /\ DOMAIN casts = 1..Len(casts) /\ Len(casts) \in Nat /\ i \in 1..Len(casts)
      /\ DOMAIN casts' = 1..(Len(casts) - 1)
      /\ \A k \in DOMAIN casts' : casts'[k] = IF k < i THEN casts[k] ELSE casts[k + 1]
  BY <1>1, <1>2, Removed
<1>4. ASSUME NEW k \in DOMAIN casts' PROVE \E m \in DOMAIN casts : casts'[k] = casts[m]
  <2>1. CASE k < i
    BY <1>3, <2>1
  <2>2. CASE ~(k < i)
    <3>1. k + 1 \in DOMAIN casts /\ casts'[k] = casts[k + 1]
      BY <1>3, <2>2
    <3> QED BY <3>1
  <2> QED BY <2>1, <2>2
<1>5. job = NoJob
  BY DEF TakeCast
<1> QED BY <1>1, <1>3, <1>4, <1>5

LEMMA Published ==
  ASSUME Typed, HandlersOK, PublishCast
  PROVE  \E c \in Jobs :
           /\ casts' \in Seq(Jobs) /\ job' = NoJob /\ c.op \in CastOps /\ c.st = job.st /\ c.pc = "start"
           /\ c.op = "_delete_storage" => job.op = "delete_storage"
           /\ job.st \in Storages
           /\ \A k \in DOMAIN casts' : casts'[k] = c \/ \E m \in DOMAIN casts : casts'[k] = casts[m]
<1>1. job.op \in {"create_storage", "delete_storage"} /\ job.st \in Storages
  BY DEF PublishCast, HandlersOK, Typed
<1>2. CastOf[job.op] \in CastOps /\ (CastOf[job.op] = "_delete_storage" => job.op = "delete_storage")
  BY <1>1 DEF CastOf, CastOps
<1> DEFINE c == Job(CastOf[job.op], job.st, "start")
<1>3. c \in Jobs /\ c.op = CastOf[job.op] /\ c.st = job.st /\ c.pc = "start"
  BY <1>1, <1>2, JobType DEF CastOps
<1>4. casts' = Append(casts, c) /\ job' = NoJob /\ casts \in Seq(Jobs)
  BY DEF PublishCast, Typed, TypeOK
<1> HIDE DEF c
<1>5. /\ casts' \in Seq(Jobs) /\ DOMAIN casts = 1..Len(casts) /\ Len(casts) \in Nat
      /\ DOMAIN casts' = 1..(Len(casts) + 1) /\ \A k \in DOMAIN casts : casts'[k] = casts[k]
      /\ casts'[Len(casts) + 1] = c
  BY <1>3, <1>4, Appended
<1>6. ASSUME NEW k \in DOMAIN casts'
      PROVE  casts'[k] = c \/ \E m \in DOMAIN casts : casts'[k] = casts[m]
  <2>1. k = Len(casts) + 1 \/ k \in DOMAIN casts
    BY <1>5
  <2> QED BY <1>5, <2>1
<1> QED BY <1>1, <1>2, <1>3, <1>4, <1>5, <1>6

\* A crash puts the cast that was handled back into the queue.
LEMMA Redelivered ==
  ASSUME Typed, ServiceCrash
  PROVE  /\ casts' \in Seq(Jobs) /\ job' = NoJob
         /\ \A k \in DOMAIN casts' :
              \/ /\ job.op \in CastOps
                 /\ casts'[k].op = job.op /\ casts'[k].st = job.st /\ casts'[k].pc = "start"
              \/ \E m \in DOMAIN casts : casts'[k] = casts[m]
<1>0. casts \in Seq(Jobs) /\ job \in Jobs /\ job' = NoJob
  BY DEF Typed, TypeOK, ServiceCrash
<1>1. CASE job.op \in CastOps
  <2> DEFINE c == [job EXCEPT !.pc = "start"]
  <2>1. c \in Jobs /\ c.op = job.op /\ c.st = job.st /\ c.pc = "start"
    BY <1>0, JobMoved
  <2>2. casts' = <<c>> \o casts
    BY <1>1 DEF ServiceCrash, CastOps
  <2> HIDE DEF c
  <2>3. /\ casts' \in Seq(Jobs)
        /\ \A k \in DOMAIN casts' : casts'[k] = c \/ \E m \in DOMAIN casts : casts'[k] = casts[m]
    BY <1>0, <2>1, <2>2, Prepended
  <2> QED BY <1>0, <1>1, <2>1, <2>3
<1>2. CASE job.op \notin CastOps
  <2>1. casts' = casts
    BY <1>2 DEF ServiceCrash, CastOps
  <2> QED BY <1>0, <2>1
<1> QED BY <1>1, <1>2

\* What a handler does to the job; the starts go on to the domain or end.
LEMMA JobStep ==
  ASSUME Typed, HandlersOK, [Next]_vars
  PROVE  \/ Quiet
         \/ TakeCast \/ PublishCast \/ ServiceCrash
         \/ HostReboot /\ casts' = <<>> /\ job' = NoJob
         \/ UNCHANGED casts /\ Done /\ (CreateStart \/ CreateFinish \/ DeleteStart \/ DeleteFinish)
         \/ UNCHANGED casts /\ job' = NoJob /\ (AckCast \/ PartitionFinish)
         \/ /\ UNCHANGED casts /\ job' = [job EXCEPT !.pc = "domain"]
            /\ CreateStart \/ (DeleteStart /\ "empty" \in Answers(job.st) /\ Exists(job.st))
         \/ /\ UNCHANGED casts /\ job = NoJob
            /\ \E s \in Storages, n \in Names, d \in Devices :
                 CreateStorage(s, n, d) /\ job' = Job("create_storage", s, "cast")
         \/ /\ UNCHANGED casts /\ job = NoJob
            /\ \E s \in Storages : DeleteStorage(s) /\ job' = Job("delete_storage", s, "cast")
         \/ /\ UNCHANGED casts /\ Idle
            /\ ApiPartition /\ job' = Job("partition", NoStorage, "domain")
<1>1. \/ Quiet
      \/ ApiRequest \/ HandlerStep \/ ServiceCrash \/ HostReboot
  BY Frames
<1>2. CASE ApiRequest
  BY <1>2 DEF ApiRequest, ApiCreate, ApiDelete, ApiPartition, CreateStorage, DeleteStorage,
              CreatePartition, DeletePartition, Free, Idle
<1>3. CASE CreateStart
  BY <1>3 DEF CreateStart
<1>4. CASE DeleteStart
  <2>1. UNCHANGED casts
    BY <1>4 DEF DeleteStart
  <2>2. \/ Done
        \/ Exists(job.st) /\ "empty" \in Answers(job.st) /\ job' = [job EXCEPT !.pc = "domain"]
    BY <1>4 DEF DeleteStart
  <2> QED BY <1>4, <2>1, <2>2
<1>5. CASE HostReboot
  BY <1>5 DEF HostReboot
<1>6. CASE HandlerStep
  BY <1>3, <1>4, <1>6 DEF HandlerStep, CreateFinish, DeleteFinish, AckCast, PartitionFinish
<1> QED BY <1>1, <1>2, <1>5, <1>6

LEMMA JobsTypedStep ==
  ASSUME Typed, HandlersOK, [Next]_vars
  PROVE  JobsTyped'
<1>0. JobsTyped
  BY DEF Typed, TypeOK, JobsTyped
<1>1. CASE Quiet
  BY <1>0, <1>1 DEF JobsTyped, Quiet
<1>2. CASE TakeCast
  <2>1. PICK i \in DOMAIN casts :
           /\ job = NoJob /\ job' = casts[i] /\ casts' = RemoveAt(casts, i) /\ casts' \in Seq(Jobs)
           /\ \A k \in DOMAIN casts' : \E m \in DOMAIN casts : casts'[k] = casts[m]
    BY <1>2, CastTaken
  <2>2. casts[i] \in Jobs /\ casts[i].op \in CastOps /\ casts[i].st \in Storages
    BY <1>0, ElementOfSeq, LenProperties DEF JobsTyped
  <2> QED BY <1>0, <2>1, <2>2 DEF JobsTyped
<1>3. CASE PublishCast
  BY <1>0, <1>3, Published, Pieces DEF JobsTyped
<1>4. CASE ServiceCrash
  BY <1>0, <1>4, Redelivered, Pieces DEF JobsTyped, CastOps
<1>5. CASE casts' = <<>> /\ job' = NoJob
  <2>1. casts' \in Seq(Jobs) /\ DOMAIN casts' = {}
    BY <1>5, EmptySeq
  <2> QED BY <1>5, <2>1, Pieces DEF JobsTyped
<1>6. CASE UNCHANGED casts /\ Done
  <2>1. job \in Jobs
    BY <1>0 DEF JobsTyped
  <2> QED BY <1>0, <1>6, <2>1, Ended, Pieces DEF JobsTyped, CastOps
<1>7. CASE UNCHANGED casts /\ job' = NoJob
  BY <1>0, <1>7, Pieces DEF JobsTyped
<1>8. CASE UNCHANGED casts /\ job' = [job EXCEPT !.pc = "domain"]
  BY <1>0, <1>8, JobMoved DEF JobsTyped
<1>9. ASSUME NEW op \in {"create_storage", "delete_storage"}, NEW s \in Storages,
             UNCHANGED casts, job' = Job(op, s, "cast")
      PROVE  JobsTyped'
  BY <1>0, <1>9, JobType DEF JobsTyped
<1>10. CASE UNCHANGED casts /\ job' = Job("partition", NoStorage, "domain")
  BY <1>0, <1>10, JobType DEF JobsTyped
<1> QED BY <1>1, <1>2, <1>3, <1>4, <1>5, <1>6, <1>7, <1>8, <1>9, <1>10, JobStep

LEMMA HostTypedStep ==
  ASSUME Typed, [Next]_vars
  PROVE  /\ (parts \subseteq Devices)' /\ (mnt \in [Devices -> SUBSET Storages])'
         /\ (data \in [Devices -> SUBSET Storages])'
<1>0. parts \subseteq Devices /\ mnt \in [Devices -> SUBSET Storages]
      /\ data \in [Devices -> SUBSET Storages]
  BY DEF Typed, TypeOK
<1>1. CASE DomainExecute
  BY <1>1, Execution DEF Executed, Keeps, Hosts, HostBecomes
<1>2. CASE DomainCrash
  <2>1. PICK i \in DOMAIN domQ : \E o \in Outcomes(domQ[i]) : HostBecomes(o.host)
    BY <1>2 DEF DomainCrash
  <2> QED BY <2>1, OutcomeKeeps DEF Keeps, Hosts, HostBecomes
<1>3. CASE StoreObject
  <2>1. asker.st \in Storages /\ UNCHANGED <<parts, mnt>>
    BY <1>3 DEF StoreObject, Typed
  <2>2. \/ data' = data
        \/ data' = [data EXCEPT ![rows[asker.st].dev] = @ \cup {asker.st}]
    BY <1>3 DEF StoreObject
  <2> QED BY <1>0, <2>1, <2>2
<1>4. ASSUME NEW s \in Storages, RemoveObjects(s)
      PROVE  parts' \subseteq Devices /\ mnt' \in [Devices -> SUBSET Storages]
             /\ data' \in [Devices -> SUBSET Storages]
  BY <1>0, <1>4 DEF RemoveObjects
<1>5. CASE HostReboot
  BY <1>0, <1>5 DEF HostReboot
<1> QED BY <1>0, <1>1, <1>2, <1>3, <1>4, <1>5, Frames DEF hostVars

LEMMA ObjectsTypedStep ==
  ASSUME Typed, [Next]_vars
  PROVE  /\ (objs \in [Storages -> Places])' /\ (asker \in Askers)'
         /\ (asker.pc # "idle" => asker.st \in Storages)'
<1>0. objs \in [Storages -> Places] /\ asker \in Askers /\ (asker.pc # "idle" => asker.st \in Storages)
  BY DEF Typed, TypeOK
<1>1. CASE Tell
  BY <1>0, <1>1, Pieces DEF Tell, Askers
<1>2. CASE GiveUp \/ HostReboot
  BY <1>0, <1>2, Pieces DEF GiveUp, HostReboot
<1>3. CASE StoreObject
  <2>1. asker.st \in Storages /\ asker' = IdleAsker
    BY <1>3 DEF StoreObject, Typed
  <2>2. PICK p \in Places : objs' = [objs EXCEPT ![asker.st] = p]
    <3>1. objs[asker.st] \in Places /\ {"row", "device", "raw", "root"} \subseteq Places
      BY <1>0, <2>1 DEF Places
    <3> QED BY <1>3, <3>1 DEF StoreObject
  <2> QED BY <1>0, <2>1, <2>2, Pieces
<1>4. ASSUME NEW s \in Storages, RemoveObjects(s) PROVE objs' \in [Storages -> Places] /\ asker' = asker
  BY <1>0, <1>4 DEF RemoveObjects, Places
<1>5. ASSUME NEW s \in Storages, Ask(s)
      PROVE  objs' = objs /\ asker' \in Askers /\ asker'.st \in Storages
  BY <1>0, <1>5, Pieces DEF Ask, Askers
<1> QED BY <1>0, <1>1, <1>2, <1>3, <1>4, <1>5, Frames DEF objVars

LEMMA RepliesTypedStep ==
  ASSUME Typed, [Next]_vars
  PROVE  (svcReply \in {"none", "ok", "err", "timeout"})' /\ (monReply \in {"none", "ok", "err"})'
<1>0. svcReply \in {"none", "ok", "err", "timeout"} /\ monReply \in {"none", "ok", "err"}
  BY DEF Typed, TypeOK
<1>1. CASE DomainExecute
  BY <1>0, <1>1, Execution DEF Executed
<1> QED BY <1>0, <1>1, Frames DEF CreateFinish, DeleteFinish, PartitionFinish, ServiceTimeout, ServiceCrash,
     HostReboot, MonitorResult, MonitorTimeout

\* A request for the domain, as its caller makes it.
Request(op, s, d, init, owner) ==
  [op |-> op, st |-> s, dev |-> d, init |-> init, owner |-> owner]

\* The steps that add to the domain queue, each with what it adds.
Calls(op, s, d, init, owner) ==
  /\ op \in SetUpOps \cup {"create_partition", "delete_partition"}
  /\ s \in Storages \cup {NoStorage} /\ d \in Devices /\ init \in BOOLEAN /\ owner \in {"svc", "mon"}
  /\ CallDomain(op, s, d, init, owner)
  /\ \/ /\ CreateStart /\ op = "create" /\ s = job.st /\ s \in Storages /\ d = rows[s].dev
        /\ rows[s].status = "new" /\ init = FALSE /\ owner = "svc"
     \/ /\ DeleteStart /\ op = "delete" /\ s = job.st /\ s \in Storages /\ d = rows[s].dev
        /\ Exists(s) /\ "empty" \in Answers(s) /\ init = rows[s].initialized /\ owner = "svc"
        /\ UNCHANGED rows
     \/ /\ \E e \in Disks : CreatePartition(e) \/ DeletePartition(e)
        /\ d \in Disks /\ op \notin SetUpOps /\ owner = "svc" /\ job = NoJob
        /\ op = "delete_partition" => \A t \in Storages : Exists(t) => rows[t].dev # d
     \/ /\ MonitorCall /\ op = "do_setup" /\ s \in Storages /\ d = rows[s].dev
        /\ mon.pc = "loop" /\ mon.seen[s] # "none" /\ mon' = [mon EXCEPT !.pc = "wait", !.cur = s]
        /\ init = (mon.seen[s] = "initialized") /\ owner = "mon"

LEMMA QueueStep ==
  ASSUME Typed, [Next]_vars
  PROVE  \/ UNCHANGED domQ
         \/ \E op, s, d, init, owner : Calls(op, s, d, init, owner)
         \/ DomainExecute
         \/ ServiceTimeout /\ domQ' = Disowned({"svc"})
         \/ MonitorTimeout /\ domQ' = Disowned({"mon"})
         \/ ServiceCrash /\ domQ' = Disowned({"svc", "mon"})
         \/ HostReboot /\ domQ' = <<>>
<1>0. \A s \in Storages : rows[s].status # "none" => rows[s].dev \in Devices /\ rows[s].initialized \in BOOLEAN
  BY RowFacts DEF Typed
<1>1. CASE CreateStart /\ ~UNCHANGED domQ
  <2>1. /\ job.st \in Storages /\ rows[job.st].status = "new"
        /\ CallDomain("create", job.st, rows[job.st].dev, FALSE, "svc")
    BY <1>1 DEF CreateStart, StatusIn, Typed
  <2>2. Calls("create", job.st, rows[job.st].dev, FALSE, "svc")
    BY <1>0, <1>1, <2>1 DEF Calls, SetUpOps
  <2> QED BY <2>2
<1>2. CASE DeleteStart /\ ~UNCHANGED domQ
  <2>1. /\ job.st \in Storages /\ Exists(job.st) /\ "empty" \in Answers(job.st) /\ UNCHANGED rows
        /\ CallDomain("delete", job.st, rows[job.st].dev, rows[job.st].initialized, "svc")
    BY <1>2 DEF DeleteStart, Typed
  <2>2. Calls("delete", job.st, rows[job.st].dev, rows[job.st].initialized, "svc")
    BY <1>0, <1>2, <2>1 DEF Calls, SetUpOps, Exists
  <2> QED BY <2>2
<1>3. ASSUME NEW d \in Disks, CreatePartition(d)
      PROVE  Calls("create_partition", NoStorage, d, FALSE, "svc")
  BY <1>3 DEF CreatePartition, Calls, Devices, Idle, SetUpOps
<1>4. ASSUME NEW d \in Disks, DeletePartition(d)
      PROVE  Calls("delete_partition", NoStorage, d, FALSE, "svc")
  BY <1>4 DEF DeletePartition, Calls, Devices, Idle, SetUpOps
<1>5. ASSUME MonitorCall
      PROVE  \E s \in Storages : Calls("do_setup", s, rows[s].dev, mon.seen[s] = "initialized", "mon")
  <2>1. PICK s \in Storages : /\ mon.seen[s] # "none" /\ mon' = [mon EXCEPT !.pc = "wait", !.cur = s]
          /\ CallDomain("do_setup", s, rows[s].dev, mon.seen[s] = "initialized", "mon")
    BY <1>5 DEF MonitorCall
  <2>2. rows[s].status # "none" /\ mon.pc = "loop"
    BY <1>5, <2>1 DEF Typed, Seen, Fresh, MonitorCall
  <2>3. PICK b \in BOOLEAN : b = (mon.seen[s] = "initialized")
    OBVIOUS
  <2>4. Calls("do_setup", s, rows[s].dev, b, "mon")
    BY <1>0, <1>5, <2>1, <2>2, <2>3 DEF Calls, SetUpOps
  <2> QED BY <2>3, <2>4
<1>6. CASE ApiPartition
  BY <1>3, <1>4, <1>6 DEF ApiPartition
<1>7. CASE MonitorCall
  BY <1>5, <1>7
<1>8. /\ ServiceTimeout => domQ' = Disowned({"svc"})
      /\ MonitorTimeout => domQ' = Disowned({"mon"})
      /\ ServiceCrash => domQ' = Disowned({"svc", "mon"})
      /\ HostReboot => domQ' = <<>>
  BY DEF ServiceTimeout, MonitorTimeout, ServiceCrash, HostReboot
<1>9. \/ UNCHANGED domQ
      \/ CreateStart \/ DeleteStart \/ ApiPartition \/ MonitorCall
      \/ DomainExecute \/ ServiceTimeout \/ MonitorTimeout \/ ServiceCrash \/ HostReboot
  BY Frames
<1> QED BY <1>1, <1>2, <1>6, <1>7, <1>8, <1>9

\* What the steps leave of the queue: old requests, whose owners may have gone, in
\* their order, and at most one new one behind them.
Old(k, m) ==
  /\ m \in DOMAIN domQ /\ domQ'[k].op = domQ[m].op /\ domQ'[k].st = domQ[m].st
  /\ domQ'[k].dev = domQ[m].dev /\ domQ'[k].init = domQ[m].init
  /\ domQ'[k].owner \in {domQ[m].owner, "none"}
New(k) ==
  \E op, s, d, init, owner :
    Calls(op, s, d, init, owner) /\ domQ'[k] = Request(op, s, d, init, owner)

LEMMA CalledQueue ==
  ASSUME Typed, NEW op, NEW s, NEW d, NEW init, NEW owner, Calls(op, s, d, init, owner)
  PROVE  /\ domQ' \in Seq(Requests)
         /\ Len(domQ) \in Nat /\ DOMAIN domQ = 1..Len(domQ) /\ DOMAIN domQ' = 1..(Len(domQ) + 1)
         /\ \A i \in DOMAIN domQ : domQ'[i] = domQ[i]
         /\ domQ'[Len(domQ) + 1] = Request(op, s, d, init, owner)
BY Called DEF Calls, Request

LEMMA QueueKept ==
  ASSUME Typed, [Next]_vars
  PROVE  /\ domQ' \in Seq(Requests)
         /\ \A k \in DOMAIN domQ' : New(k) \/ \E m \in DOMAIN domQ : Old(k, m)
<1>0. domQ \in Seq(Requests)
  BY DEF Typed, TypeOK
<1>1. CASE UNCHANGED domQ
  BY <1>0, <1>1 DEF Old
<1>2. ASSUME NEW op, NEW s, NEW d, NEW init, NEW owner, Calls(op, s, d, init, owner)
      PROVE  /\ domQ' \in Seq(Requests)
             /\ \A k \in DOMAIN domQ' : New(k) \/ \E m \in DOMAIN domQ : Old(k, m)
  <2>1. /\ domQ' \in Seq(Requests)
        /\ Len(domQ) \in Nat /\ DOMAIN domQ = 1..Len(domQ) /\ DOMAIN domQ' = 1..(Len(domQ) + 1)
        /\ \A i \in DOMAIN domQ : domQ'[i] = domQ[i]
        /\ domQ'[Len(domQ) + 1] = Request(op, s, d, init, owner)
    BY <1>2, CalledQueue
  <2>2. ASSUME NEW k \in DOMAIN domQ' PROVE New(k) \/ \E m \in DOMAIN domQ : Old(k, m)
    <3>1. CASE k = Len(domQ) + 1
      BY <1>2, <2>1, <3>1 DEF New
    <3>2. CASE k # Len(domQ) + 1
      <4>1. k \in DOMAIN domQ
        BY <2>1, <3>2
      <4> QED BY <2>1, <4>1 DEF Old
    <3> QED BY <3>1, <3>2
  <2> QED BY <2>1, <2>2
<1>3. CASE DomainExecute
  <2>1. PICK i, o : Executed(i, o)
    BY <1>3, Execution
  <2>2. \A k \in DOMAIN domQ' : \E m \in DOMAIN domQ : domQ'[k] = domQ[m]
    BY <2>1, LeftBehind
  <2>3. domQ' \in Seq(Requests)
    BY <2>1 DEF Executed
  <2> QED BY <2>2, <2>3 DEF Old
<1>4. ASSUME NEW owners \in SUBSET {"svc", "mon"}, domQ' = Disowned(owners)
      PROVE  /\ domQ' \in Seq(Requests)
             /\ \A k \in DOMAIN domQ' : New(k) \/ \E m \in DOMAIN domQ : Old(k, m)
  <2>1. domQ' \in Seq(Requests) /\ \A k \in DOMAIN domQ' : k \in DOMAIN domQ /\ Old(k, k)
    BY <1>4, DisownedType DEF Old
  <2> QED BY <2>1
<1>5. CASE domQ' = <<>>
  BY <1>5, EmptySeq
<1> QED BY <1>1, <1>2, <1>3, <1>4, <1>5, QueueStep

LEMMA QueueTypedStep ==
  ASSUME Typed, [Next]_vars
  PROVE  /\ (domQ \in Seq(Requests))'
         /\ (\A i \in DOMAIN domQ : domQ[i].op \in SetUpOps => domQ[i].st \in Storages)'
<1>1. ASSUME NEW k \in DOMAIN domQ', domQ'[k].op \in SetUpOps PROVE domQ'[k].st \in Storages
  <2>1. CASE New(k)
    BY <1>1, <2>1 DEF New, Calls, Request
  <2>2. CASE \E m \in DOMAIN domQ : Old(k, m)
    BY <1>1, <2>2 DEF Old, Typed
  <2> QED BY <2>1, <2>2, QueueKept
<1> QED BY <1>1, QueueKept

\* What the thread reads is past its creation, and remembered until it writes.
LEMMA MonitorTypedStep ==
  ASSUME Typed, [Next]_vars, Onward
  PROVE  /\ (mon \in Monitors)' /\ (mon.pc = "wait" => mon.cur \in Storages /\ mon.seen[mon.cur] # "none")'
         /\ (\A s \in Storages : Seen(s) => ~Fresh(s))'
<1>0. mon \in Monitors /\ (mon.pc = "wait" => mon.cur \in Storages /\ mon.seen[mon.cur] # "none")
      /\ \A s \in Storages : /\ ~Fresh(s) => ~Fresh(s)'
                             /\ Seen(s) => ~Fresh(s)'
  BY DEF Typed, TypeOK, Onward
<1>1. CASE UNCHANGED mon
  BY <1>0, <1>1 DEF Seen
<1>2. CASE MonitorRead
  <2> DEFINE seen == [s \in Storages |-> IF ~Watched(s) THEN "none"
                                         ELSE IF rows[s].initialized THEN "initialized" ELSE "raw"]
  <2>1. seen \in [Storages -> {"none", "raw", "initialized"}]
        /\ \A s \in Storages : seen[s] # "none" => ~Fresh(s)
    BY DEF Watched, StatusIn, Fresh
  <2>2. mon' = [IdleMonitor EXCEPT !.pc = "loop", !.seen = seen]
    BY <1>2 DEF MonitorRead
  <2> HIDE DEF seen
  <2>3. mon' \in Monitors /\ mon'.pc = "loop" /\ mon'.seen = seen
        /\ \A s \in Storages : mon'.done[s] = "none"
    BY <2>1, <2>2, Pieces DEF Monitors
  <2>4. \A s \in Storages : Seen(s)' => ~Fresh(s)
    BY <2>1, <2>3 DEF Seen
  <2> QED BY <1>0, <2>3, <2>4
<1>3. CASE MonitorCall
  <2>1. PICK s \in Storages : mon.seen[s] # "none" /\ mon' = [mon EXCEPT !.pc = "wait", !.cur = s]
    BY <1>3 DEF MonitorCall
  <2>2. mon' \in Monitors /\ mon'.cur = s /\ mon'.seen = mon.seen /\ mon'.done = mon.done
    BY <1>0, <2>1 DEF Monitors
  <2> QED BY <1>0, <2>1, <2>2 DEF Seen
<1>4. CASE MonitorResult
  <2> DEFINE c == mon.cur
  <2>1. c \in Storages /\ mon.seen[c] \in {"none", "raw", "initialized"}
    BY <1>0, <1>4 DEF MonitorResult, Monitors
  <2>2. Heard \in {"none", "error", "raw", "initialized"}
    BY <2>1 DEF Heard
  <2>3. mon' = [mon EXCEPT !.pc = "loop", !.cur = NoStorage, !.seen[c] = "none", !.done[c] = Heard]
    BY <1>4 DEF MonitorResult
  <2>4. PICK h \in {"none", "error", "raw", "initialized"} : h = Heard
    BY <2>2
  <2>5. mon' = [mon EXCEPT !.pc = "loop", !.cur = NoStorage, !.seen[c] = "none", !.done[c] = h]
    BY <2>3, <2>4
  <2> HIDE DEF c
  <2>6. /\ mon' \in Monitors /\ mon'.pc = "loop"
        /\ mon'.seen = [mon.seen EXCEPT ![c] = "none"] /\ mon'.done = [mon.done EXCEPT ![c] = h]
    BY <1>0, <2>1, <2>5 DEF Monitors
  <2>7. \A s \in Storages : Seen(s)' => Seen(s) \/ s = c
    BY <1>0, <2>6 DEF Seen, Monitors
  <2>8. Seen(c)
    BY <1>0, <1>4 DEF MonitorResult, Seen, Typed, c
  <2> QED BY <1>0, <2>6, <2>7, <2>8
<1>5. CASE mon' \in {IdleMonitor, [IdleMonitor EXCEPT !.pc = "dead"]}
  BY <1>5, Pieces DEF Seen
<1>6. CASE MonitorWrite
  BY <1>5, <1>6 DEF MonitorWrite
<1>7. CASE ServiceCrash \/ HostReboot
  BY <1>5, <1>7 DEF ServiceCrash, HostReboot
<1> QED BY <1>1, <1>2, <1>3, <1>4, <1>6, <1>7, Frames DEF MonitorStep

LEMMA TypedStep == Typed /\ Base /\ [Next]_vars => Typed'
<1> SUFFICES ASSUME Typed, Base, [Next]_vars PROVE Typed'
  OBVIOUS
<1>1. RowsType' /\ Onward
  BY RowsStep
<1>2. (\A s \in Storages : rows[s].status # "none" => rows[s].dev \in Devices)'
  BY <1>1 DEF Typed, Onward
<1>3. JobsTyped'
  BY JobsTypedStep DEF Base
<1>4. (faults \in 0..MaxFaults)' /\ (reboots \in 0..MaxReboots)'
  <2>0. faults \in 0..MaxFaults /\ reboots \in 0..MaxReboots /\ MaxFaults \in Nat /\ MaxReboots \in Nat
    BY StorageAssumption DEF Typed, TypeOK
  <2>1. \/ UNCHANGED <<faults, reboots>>
        \/ faults < MaxFaults /\ faults' = faults + 1 /\ reboots' = reboots
        \/ reboots < MaxReboots /\ reboots' = reboots + 1 /\ faults' = faults
    BY DEF Next, vars, bounds, ApiRequest, ApiCreate, ApiDelete, ApiPartition,
       HandlerStep, MonitorStep, ObjectStep, CreateStorage, DeleteStorage, CreateStart, CreateFinish,
       DeleteStart, DeleteFinish, CreatePartition, DeletePartition, TakeCast, AckCast, PublishCast,
       PartitionFinish, MonitorRead, MonitorCall, MonitorResult, MonitorWrite, DomainExecute, Tell,
       GiveUp, StoreObject, Ask, RemoveObjects, DomainCrash, ServiceTimeout, MonitorTimeout,
       ServiceCrash, HostReboot
  <2> QED BY <2>0, <2>1
<1>5. TypeOK'
  BY <1>1, <1>3, <1>4, HostTypedStep, ObjectsTypedStep, RepliesTypedStep, QueueTypedStep,
     MonitorTypedStep DEF TypeOK, RowsType, JobsTyped
<1> QED BY <1>1, <1>2, <1>3, <1>5, ObjectsTypedStep, QueueTypedStep, MonitorTypedStep DEF Typed, JobsTyped

LEMMA InitInv == Init => IInv
<1> SUFFICES ASSUME Init PROVE IInv
  OBVIOUS
<1>1. NoRow \in Rows /\ NoRow.status = "none"
  BY DEF NoRow, Rows
<1>2. Typed
  <2>1. casts \in Seq(Jobs) /\ domQ \in Seq(Requests) /\ DOMAIN casts = {} /\ DOMAIN domQ = {}
    BY EmptySeq DEF Init
  <2>2. TypeOK
    BY <1>1, <2>1, Pieces, StorageAssumption DEF Init, TypeOK, Places, Nothing
  <2> QED BY <1>1, <2>1, <2>2, Pieces DEF Init, Typed, Seen
<1>3. Base
  <2>1. DOMAIN casts = {} /\ DOMAIN domQ = {}
    BY EmptySeq DEF Init
  <2>2. RowsOK /\ HandlersOK
    BY <1>1, <2>1, Pieces DEF NoRow, Init, RowsOK, HandlersOK, Exists, CastOps, DeleteOps
  <2>3. ObjectsOK /\ OwnedOK /\ MonitorOK
    BY <2>1, Pieces DEF Init, ObjectsOK, ObjectsHaveStorage, OwnedOK, MonitorOK, Nothing, Seen
  <2> QED BY <2>2, <2>3 DEF Base
<1> QED BY <1>2, <1>3 DEF IInv

-----------------------------------------------------------------------------
(* The handlers and the objects *)

LEMMA RowsOKStep ==
  ASSUME Typed, Base, [Next]_vars
  PROVE  RowsOK'
<1>0. RowsOK /\ Onward
  BY RowsStep DEF Base
<1>1. ASSUME NEW s \in Storages, NEW n \in Names, NEW d \in Devices, CreateStorage(s, n, d)
      PROVE  RowsOK'
  <2>1. /\ RowsType' /\ rows[s].status = "none"
        /\ \A t \in Storages : t # s => rows'[t] = rows[t]
        /\ rows'[s].status = "new" /\ rows'[s].dev = d /\ rows'[s].initialized = FALSE
    BY <1>1, RowInserted
  <2>2. \A t \in Storages : Exists(t) => rows[t].dev # d
    BY <1>1 DEF CreateStorage, SpecTaken, Alike
  <2> QED BY <1>0, <2>1, <2>2 DEF RowsOK, Exists, Fresh
<1>2. ASSUME \A s \in Storages : rows[s].status = "none" => rows'[s].status = "none",
             \A s \in Storages : Fresh(s) => \/ rows'[s].initialized = rows[s].initialized
                                             \/ rows'[s].status = "available"
      PROVE  RowsOK'
  BY <1>0, <1>2 DEF RowsOK, Onward, Exists, Fresh
<1>3. CASE UNCHANGED rows
  BY <1>2, <1>3
<1>4. CASE CreateStart \/ CreateFinish \/ DeleteStart \/ DeleteFinish
  <2>1. job.st \in Storages /\ (UNCHANGED rows \/ rows[job.st].status # "none")
    BY <1>4 DEF CreateStart, CreateFinish, DeleteStart, DeleteFinish, StatusIn, Typed, Base, HandlersOK,
                DeleteOps, Fresh
  <2>2. \A s \in Storages : s # job.st => rows'[s] = rows[s]
    BY <1>4 DEF CreateStart, CreateFinish, DeleteStart, DeleteFinish, SetStatus, Typed, TypeOK
  <2>3. \/ rows'[job.st].initialized = rows[job.st].initialized
        \/ rows'[job.st].status = "available"
    <3>1. \/ UNCHANGED rows
          \/ rows' = [rows EXCEPT ![job.st].status = "available", ![job.st].initialized = TRUE]
          \/ \E x \in {"creating", "error", "deleted"} : SetStatus(job.st, x)
      <4>1. svcReply \in {"none", "ok", "err", "timeout"}
        BY DEF Typed, TypeOK
      <4> QED BY <1>4, <4>1 DEF CreateStart, CreateFinish, DeleteStart, DeleteFinish
    <3>2. {"creating", "error", "deleted"} \subseteq StorageStatus \cup {"none", "deleted"}
      BY DEF StorageStatus
    <3>3. CASE UNCHANGED rows
      BY <3>3
    <3>4. CASE rows' = [rows EXCEPT ![job.st].status = "available", ![job.st].initialized = TRUE]
      BY <2>1, <3>4, RowCreated
    <3>5. CASE \E x \in {"creating", "error", "deleted"} : SetStatus(job.st, x)
      BY <2>1, <3>2, <3>5, StatusSet
    <3> QED BY <3>1, <3>3, <3>4, <3>5
  <2> QED BY <1>2, <2>1, <2>2, <2>3
<1>5. CASE MonitorWrite
  <2>1. \A s \in Storages : \/ rows'[s] = rows[s]
                            \/ Exists(s) /\ rows'[s].initialized = rows[s].initialized
    BY <1>5, RowsUpdated DEF Base
  <2> QED BY <1>2, <2>1 DEF Exists
<1>6. ASSUME NEW s \in Storages, DeleteStorage(s) PROVE RowsOK'
  <2>1. Exists(s) /\ SetStatus(s, "deleting") /\ "deleting" \in StorageStatus \cup {"none", "deleted"}
    BY <1>6 DEF DeleteStorage, StorageStatus
  <2> QED BY <1>2, <2>1, StatusSet DEF Exists
<1> QED BY <1>1, <1>3, <1>4, <1>5, <1>6, RowFrames

LEMMA HandlersOKStep ==
  ASSUME Typed, Base, [Next]_vars
  PROVE  HandlersOK'
<1>0. HandlersOK /\ Onward /\ JobsTyped /\ casts \in Seq(Jobs) /\ job \in Jobs
  BY RowsStep DEF Base, Typed, TypeOK, JobsTyped
<1>a. \A s \in Storages : ~Fresh(s) => ~Fresh(s)'
  BY <1>0 DEF Onward
<1>b. NoJob.op = "none" /\ NoJob.pc = "idle" /\ NoJob.op \notin CastOps \cup DeleteOps
  BY DEF NoJob, CastOps, DeleteOps
<1>1. CASE Quiet
  <2>1. job.pc # "domain" => svcReply' = "none"
    <3>1. CASE UNCHANGED svcReply
      BY <1>0, <3>1 DEF HandlersOK
    <3>2. CASE ServiceTimeout
      BY <3>2 DEF ServiceTimeout
    <3>3. CASE DomainExecute
      <4>1. PICK i, o : Executed(i, o)
        BY <3>3, Execution
      <4> QED BY <1>0, <4>1 DEF Executed, HandlersOK, Base, OwnedOK
    <3> QED BY <1>1, <3>1, <3>2, <3>3 DEF Quiet
  <2>2. job.op \in CastOps =>
          /\ rows[job.st].status = "creating" => rows'[job.st].status = "creating"
          /\ Exists(job.st) => rows'[job.st].status \notin {"none", "deleted"}
    <3>1. CASE UNCHANGED rows
      BY <3>1 DEF Exists
    <3>2. CASE MonitorWrite
      <4>1. \A s \in Storages :
              \/ rows'[s] = rows[s]
              \/ Seen(s) /\ Exists(s) /\ rows'[s].status \in {"error", "available"}
        BY <3>2, RowsUpdated DEF Base
      <4>2. job.op \in CastOps => job.st \in Storages
        BY DEF Typed, CastOps
      <4>3. \A s \in Storages : Seen(s) => rows[s].status # "creating"
        BY DEF Typed, Fresh
      <4> QED BY <4>1, <4>2, <4>3 DEF Exists
    <3> QED BY <1>1, <3>1, <3>2 DEF Quiet
  <2>3. ASSUME job.op = "_delete_storage", job.pc = "domain"
        PROVE  objs'[job.st] = "none" /\ ~(asker'.pc = "told" /\ asker'.st = job.st)
    <3>0. job.st \in Storages /\ objs[job.st] = "none" /\ ~Told(job.st) /\ job # NoJob
          /\ objs \in [Storages -> Places]
      BY <2>3 DEF Base, HandlersOK, Typed, TypeOK, NoJob
    <3>1. CASE UNCHANGED objVars
      BY <3>0, <3>1 DEF objVars, Told
    <3>2. CASE Tell
      BY <3>0, <3>2 DEF Tell, Idle
    <3>3. CASE GiveUp
      BY <3>0, <3>3, Pieces DEF GiveUp, Told
    <3>4. CASE StoreObject
      <4>1. asker.st # job.st /\ asker' = IdleAsker
        BY <3>0, <3>4 DEF StoreObject, Told
      <4>2. objs'[job.st] = objs[job.st]
        BY <3>0, <3>4, <4>1 DEF StoreObject
      <4> QED BY <3>0, <4>1, <4>2, Pieces DEF Told
    <3>5. ASSUME NEW s \in Storages, RemoveObjects(s) PROVE objs'[job.st] = "none" /\ ~(asker'.pc = "told" /\ asker'.st = job.st)
      BY <3>0, <3>5 DEF RemoveObjects, Told
    <3>6. ASSUME NEW s \in Storages, Ask(s) PROVE objs'[job.st] = "none" /\ ~(asker'.pc = "told" /\ asker'.st = job.st)
      BY <3>0, <3>6 DEF Ask, Told, IdleAsker
    <3>7. CASE HostReboot
      BY <3>0, <3>7, Pieces DEF HostReboot, Told
    <3> QED BY <3>1, <3>2, <3>3, <3>4, <3>5, <3>6, <3>7, Frames
  <2>4. job' = job /\ casts' = casts
    BY <1>1 DEF Quiet
  <2> QED BY <1>0, <1>a, <2>1, <2>2, <2>3, <2>4
       DEF HandlersOK, JobsTyped, CastOps, DeleteOps, Exists, Told
<1>2. CASE TakeCast
  <2>1. PICK i \in DOMAIN casts :
           /\ job = NoJob /\ job' = casts[i] /\ casts' = RemoveAt(casts, i) /\ casts' \in Seq(Jobs)
           /\ \A k \in DOMAIN casts' : \E m \in DOMAIN casts : casts'[k] = casts[m]
    BY <1>2, CastTaken
  <2>2. svcReply' = "none" /\ UNCHANGED rows
    BY <1>0, <1>2, <1>b, <2>1 DEF TakeCast, HandlersOK
  <2>3. casts[i].op \in CastOps /\ casts[i].pc = "start" /\ casts[i].st \in Storages
    BY <1>0 DEF HandlersOK, JobsTyped
  <2> QED BY <1>0, <1>a, <2>1, <2>2, <2>3 DEF HandlersOK, JobsTyped, CastOps, DeleteOps, Fresh
<1>3. CASE PublishCast
  <2>1. PICK c \in Jobs :
           /\ casts' \in Seq(Jobs) /\ job' = NoJob /\ c.op \in CastOps /\ c.st = job.st /\ c.pc = "start"
           /\ c.op = "_delete_storage" => job.op = "delete_storage"
           /\ job.st \in Storages
           /\ \A k \in DOMAIN casts' : casts'[k] = c \/ \E m \in DOMAIN casts : casts'[k] = casts[m]
    BY <1>0, <1>3, Published
  <2>2. svcReply' = "none" /\ UNCHANGED rows
    BY <1>0, <1>3 DEF PublishCast, HandlersOK
  <2> QED BY <1>0, <1>b, <2>1, <2>2 DEF HandlersOK, DeleteOps, Fresh
<1>4. CASE ServiceCrash
  <2>1. svcReply' = "none" /\ UNCHANGED rows
    BY <1>4 DEF ServiceCrash
  <2> QED BY <1>0, <1>4, <1>b, <2>1, Redelivered DEF HandlersOK, DeleteOps, Fresh
<1>5. CASE HostReboot /\ casts' = <<>> /\ job' = NoJob
  <2>1. DOMAIN casts' = {} /\ svcReply' = "none"
    BY <1>5, EmptySeq DEF HostReboot
  <2> QED BY <1>5, <1>b, <2>1 DEF HandlersOK
<1>6. CASE UNCHANGED casts /\ Done /\ (CreateStart \/ CreateFinish \/ DeleteStart \/ DeleteFinish)
  <2>1. svcReply' = "none"
    BY <1>0, <1>6 DEF CreateStart, CreateFinish, DeleteStart, DeleteFinish, HandlersOK
  <2>2. \/ job.op \in CastOps /\ job'.op = job.op /\ job'.st = job.st /\ job'.pc = "ack"
        \/ job' = NoJob
    BY <1>0, <1>6, Ended
  <2> QED BY <1>0, <1>6, <1>a, <1>b, <2>1, <2>2 DEF HandlersOK, JobsTyped, CastOps, DeleteOps
<1>7. CASE UNCHANGED casts /\ job' = NoJob /\ (AckCast \/ PartitionFinish)
  <2>1. svcReply' = "none" /\ UNCHANGED rows
    BY <1>0, <1>7 DEF AckCast, PartitionFinish, HandlersOK
  <2> QED BY <1>0, <1>7, <1>b, <2>1 DEF HandlersOK, Fresh
<1>8. CASE /\ UNCHANGED casts /\ job' = [job EXCEPT !.pc = "domain"]
           /\ CreateStart \/ (DeleteStart /\ "empty" \in Answers(job.st) /\ Exists(job.st))
  <2>0. job'.op = job.op /\ job'.st = job.st /\ job'.pc = "domain"
    BY <1>0, <1>8, JobMoved
  <2>1. CASE CreateStart
    <3>1. job.op = "_create_storage" /\ job.pc = "start" /\ job.st \in Storages
      BY <2>1 DEF CreateStart, Typed
    <3>2. ~Done
      <4>1. Done => job'.pc = "ack"
        BY <1>0, <3>1, Ended DEF CastOps
      <4> QED BY <2>0, <4>1
    <3>3. SetStatus(job.st, "creating")
      BY <2>1, <3>2 DEF CreateStart
    <3>4. rows'[job.st].status = "creating"
      BY <3>1, <3>3, StatusSet DEF StorageStatus
    <3> QED BY <1>0, <1>8, <1>a, <2>0, <3>1, <3>4 DEF HandlersOK, JobsTyped, CastOps, DeleteOps
  <2>2. CASE DeleteStart /\ "empty" \in Answers(job.st) /\ Exists(job.st)
    <3>1. job.op = "_delete_storage" /\ job.st \in Storages /\ UNCHANGED objVars
      BY <2>2 DEF DeleteStart, Typed
    <3>2. objs[job.st] = "none" /\ asker.pc = "idle"
      BY <2>2 DEF Answers
    <3>3. rows'[job.st].status \notin {"none", "deleted"}
      <4>1. Remain({})
        BY <2>2, RowsStep DEF DeleteStart
      <4> QED BY <2>2, <3>1, <4>1 DEF Remain, Exists
    <3> QED BY <1>0, <1>8, <1>a, <2>0, <3>1, <3>2, <3>3
         DEF HandlersOK, JobsTyped, CastOps, DeleteOps, objVars, Told, Exists
  <2> QED BY <1>8, <2>1, <2>2
<1>9. ASSUME NEW s \in Storages, NEW n \in Names, NEW d \in Devices,
             CreateStorage(s, n, d), UNCHANGED casts, job = NoJob, job' = Job("create_storage", s, "cast")
      PROVE  HandlersOK'
  <2>1. job'.op = "create_storage" /\ job'.pc = "cast" /\ svcReply' = "none"
    BY <1>0, <1>9, <1>b, JobType DEF CreateStorage, HandlersOK
  <2> QED BY <1>0, <1>9, <1>a, <2>1 DEF HandlersOK, JobsTyped, CastOps, DeleteOps
<1>10. ASSUME NEW s \in Storages, DeleteStorage(s), UNCHANGED casts, job = NoJob,
              job' = Job("delete_storage", s, "cast")
       PROVE  HandlersOK'
  <2>1. job'.op = "delete_storage" /\ job'.pc = "cast" /\ job'.st = s /\ svcReply' = "none"
    BY <1>0, <1>10, <1>b, JobType DEF DeleteStorage, HandlersOK
  <2>2. rows'[s].status = "deleting"
    BY <1>10, StatusSet DEF DeleteStorage, StorageStatus
  <2> QED BY <1>0, <1>10, <1>a, <2>1, <2>2 DEF HandlersOK, JobsTyped, CastOps, DeleteOps, Fresh
<1>11. CASE UNCHANGED casts /\ Idle /\ ApiPartition /\ job' = Job("partition", NoStorage, "domain")
  <2>1. job'.op = "partition" /\ job'.pc = "domain"
    BY <1>11, JobType
  <2> QED BY <1>0, <1>11, <1>a, <2>1 DEF HandlersOK, JobsTyped, CastOps, DeleteOps
<1> QED BY <1>0, <1>1, <1>2, <1>3, <1>4, <1>5, <1>6, <1>7, <1>8, <1>9, <1>10, <1>11, JobStep

LEMMA ObjectsOKStep ==
  ASSUME Typed, Base, [Next]_vars
  PROVE  ObjectsOK'
<1>0. /\ ObjectsOK /\ HandlersOK /\ Onward /\ Remain({job.st})
      /\ ~(job.op = "_delete_storage" /\ job.pc = "domain") => Remain({})
  BY RowsStep DEF Base
<1>1. objs \in [Storages -> Places] /\ asker \in Askers /\ (asker.pc # "idle" => asker.st \in Storages)
  BY DEF Typed, TypeOK
\* What holds an object, or is told of, is not what the domain has deleted.
<1>2. ASSUME NEW s \in Storages, objs[s] # "none" \/ Told(s) PROVE Exists(s) /\ Exists(s)'
  <2>1. Exists(s)
    BY <1>0, <1>2 DEF ObjectsOK, ObjectsHaveStorage, Told
  <2>2. CASE job.op = "_delete_storage" /\ job.pc = "domain"
    <3>1. s # job.st
      BY <1>0, <1>2, <2>2 DEF HandlersOK, Told
    <3> QED BY <1>0, <2>1, <3>1 DEF Remain
  <2>3. CASE ~(job.op = "_delete_storage" /\ job.pc = "domain")
    BY <1>0, <2>1, <2>3 DEF Remain
  <2> QED BY <2>1, <2>2, <2>3
<1>3. \A s \in Storages : objs[s] = "device" => rows'[s].initialized
  BY <1>0, <1>1, <1>2 DEF ObjectsOK, Onward, Exists
<1>4. asker.pc = "told" /\ asker.up => rows'[asker.st].status \notin {"none", "new", "creating"}
  BY <1>0, <1>1 DEF Onward, ObjectsOK, Fresh
<1>5. ASSUME \A s \in Storages : objs'[s] # "none" \/ Told(s)' => Exists(s)',
             asker'.pc = "told" /\ asker'.up => asker'.st \in Storages /\ rows'[asker'.st].status \notin {"none", "new", "creating"},
             \A s \in Storages : objs'[s] = "device" => rows'[s].initialized
      PROVE  ObjectsOK'
  BY <1>5 DEF ObjectsOK, ObjectsHaveStorage, Told, Fresh, Exists
<1>6. ASSUME \A s \in Storages : objs'[s] \in {objs[s], "none"}, asker'.pc # "told" \/ asker' = asker
      PROVE  ObjectsOK'
  <2>1. \A s \in Storages : objs'[s] # "none" \/ Told(s)' => Exists(s)'
    BY <1>2, <1>6 DEF Told
  <2> QED BY <1>1, <1>3, <1>4, <1>5, <1>6, <2>1
<1>7. CASE UNCHANGED objVars
  BY <1>6, <1>7 DEF objVars
<1>8. CASE GiveUp \/ HostReboot
  BY <1>6, <1>8, Pieces DEF GiveUp, HostReboot
<1>9. ASSUME NEW s \in Storages, RemoveObjects(s) \/ Ask(s) PROVE ObjectsOK'
  BY <1>1, <1>6, <1>9, Pieces DEF RemoveObjects, Ask, IdleAsker
<1>10. CASE Tell
  <2>1. objs' = objs /\ UNCHANGED rows /\ asker.st \in Storages
    BY <1>1, <1>10 DEF Tell
  <2>2. CASE asker' = IdleAsker
    BY <1>6, <2>1, <2>2, Pieces
  <2>3. CASE /\ Exists(asker.st)
             /\ asker' = [asker EXCEPT !.pc = "told", !.up = rows[asker.st].status = "available"]
    <3>1. asker'.st = asker.st /\ (asker'.up => rows[asker.st].status = "available")
      BY <1>1, <2>3 DEF Askers
    <3>2. \A s \in Storages : objs'[s] # "none" \/ Told(s)' => Exists(s)'
      BY <1>2, <2>1, <2>3, <3>1 DEF Told, Exists
    <3>3. asker'.pc = "told" /\ asker'.up => asker'.st \in Storages /\ rows'[asker'.st].status \notin {"none", "new", "creating"}
      BY <2>1, <3>1 DEF Fresh
    <3> QED BY <1>3, <1>5, <2>1, <3>2, <3>3
  <2> QED BY <1>10, <2>2, <2>3 DEF Tell
<1>11. CASE StoreObject
  <2> DEFINE s == asker.st
  <2>1. s \in Storages /\ Told(s) /\ asker' = IdleAsker /\ UNCHANGED rows
    BY <1>1, <1>11 DEF StoreObject, Told
  <2>2. /\ \A t \in Storages : t # s => objs'[t] = objs[t]
        /\ objs'[s] = "device" => rows[s].initialized \/ objs[s] = "device"
    BY <1>1, <1>11, <2>1 DEF StoreObject
  <2>3. \A t \in Storages : objs'[t] # "none" \/ Told(t)' => Exists(t)'
    BY <1>2, <2>1, <2>2, Pieces DEF Told
  <2>4. \A t \in Storages : objs'[t] = "device" => rows'[t].initialized
    BY <1>3, <2>1, <2>2
  <2> QED BY <1>5, <2>1, <2>3, <2>4, Pieces
<1> QED BY <1>7, <1>8, <1>9, <1>10, <1>11, Frames

-----------------------------------------------------------------------------
(* The domain queue and the monitoring thread *)

\* Who waits for an answer goes on waiting until it comes, the time is up or the
\* process dies; meanwhile no storage is created.
LEMMA Waits ==
  ASSUME Typed, HandlersOK, [Next]_vars
  PROVE  \/ DomainExecute \/ ServiceTimeout \/ MonitorTimeout \/ ServiceCrash \/ HostReboot
         \/ /\ job.pc = "domain" /\ svcReply = "none" =>
                 job' = job /\ svcReply' = svcReply /\ (UNCHANGED rows \/ MonitorWrite)
            /\ mon.pc = "wait" /\ monReply = "none" => mon' = mon /\ monReply' = monReply
<1>1. job.pc = "domain" => job # NoJob
  BY DEF NoJob
<1> QED BY <1>1
     DEF HandlersOK, Next, vars, svcVars, monVars, ApiRequest, ApiCreate, ApiDelete, ApiPartition,
         HandlerStep, MonitorStep, ObjectStep, Free, Idle, CreateStorage, DeleteStorage, CreateStart,
         CreateFinish, DeleteStart, DeleteFinish, CreatePartition, DeletePartition, TakeCast, AckCast,
         PublishCast, PartitionFinish, MonitorRead, MonitorCall, MonitorResult, MonitorWrite, Tell,
         GiveUp, StoreObject, Ask, RemoveObjects, DomainCrash

\* The owner of a request is in the state in which it was called.
LEMMA Caller ==
  ASSUME Typed, Base, [Next]_vars, NEW op, NEW s, NEW d, NEW init, NEW owner,
         Calls(op, s, d, init, owner)
  PROVE  /\ owner = "svc" => /\ job.pc # "domain" /\ job'.pc = "domain" /\ svcReply' = "none"
                             /\ UNCHANGED <<mon, monReply>> /\ op # "do_setup"
         /\ owner = "mon" => /\ mon.pc # "wait" /\ mon'.pc = "wait" /\ monReply' = "none"
                             /\ UNCHANGED <<job, svcReply, rows>> /\ op = "do_setup"
         /\ op = "delete" => ~Fresh(s)'
         /\ op = "delete_partition" => \A t \in Storages : Exists(t)' => rows'[t].dev # d
<1>0. HandlersOK /\ MonitorOK /\ Onward /\ job \in Jobs /\ mon \in Monitors
      /\ domQ' # domQ
  <2>1. domQ' # domQ
    BY CalledQueue
  <2> QED BY <2>1, RowsStep DEF Base, Typed, TypeOK
<1>1. CASE CreateStart /\ op = "create" /\ owner = "svc"
  <2>1. job.pc = "start" /\ svcReply' = "none" /\ UNCHANGED <<mon, monReply>>
    BY <1>0, <1>1 DEF CreateStart, HandlersOK, monVars
  <2>2. job' = [job EXCEPT !.pc = "domain"]
    BY <1>0, <1>1 DEF CreateStart
  <2> QED BY <1>0, <1>1, <2>1, <2>2, JobMoved
<1>2. CASE DeleteStart /\ op = "delete" /\ owner = "svc" /\ s = job.st /\ s \in Storages
  <2>1. job.pc = "start" /\ svcReply' = "none" /\ UNCHANGED <<mon, monReply>> /\ ~Fresh(job.st)
    BY <1>0, <1>2 DEF DeleteStart, HandlersOK, monVars, DeleteOps
  <2>2. job' = [job EXCEPT !.pc = "domain"]
    BY <1>0, <1>2 DEF DeleteStart
  <2>3. ~Fresh(s)'
    BY <1>0, <1>2, <2>1 DEF Onward
  <2> QED BY <1>0, <1>2, <2>1, <2>2, <2>3, JobMoved
<1>3. CASE /\ \E e \in Disks : CreatePartition(e) \/ DeletePartition(e)
           /\ op \notin SetUpOps /\ owner = "svc" /\ job = NoJob
           /\ op = "delete_partition" => \A t \in Storages : Exists(t) => rows[t].dev # d
  <2>1. /\ job.pc # "domain" /\ job' = Job("partition", NoStorage, "domain")
        /\ UNCHANGED <<rows, svcReply, mon, monReply>>
    BY <1>3, Pieces DEF CreatePartition, DeletePartition, monVars
  <2>2. svcReply' = "none" /\ job'.pc = "domain"
    BY <1>0, <2>1, JobType DEF HandlersOK
  <2> QED BY <1>3, <2>1, <2>2 DEF SetUpOps, Exists
<1>4. CASE MonitorCall /\ op = "do_setup" /\ owner = "mon" /\ mon.pc = "loop"
           /\ mon' = [mon EXCEPT !.pc = "wait", !.cur = s]
  <2>1. UNCHANGED <<job, svcReply, rows, monReply>>
    BY <1>4 DEF MonitorCall, svcVars
  <2>2. mon'.pc = "wait" /\ monReply' = "none"
    BY <1>0, <1>4, <2>1 DEF Monitors, MonitorOK
  <2> QED BY <1>4, <2>1, <2>2
<1> QED BY <1>1, <1>2, <1>3, <1>4 DEF Calls

LEMMA OwnedOKStep ==
  ASSUME Typed, Base, [Next]_vars
  PROVE  OwnedOK'
<1>0. OwnedOK /\ HandlersOK /\ MonitorOK /\ Onward
  BY RowsStep DEF Base
<1>1. ASSUME NEW k \in DOMAIN domQ', domQ'[k].op = "delete"
      PROVE  rows'[domQ'[k].st].status \notin {"none", "new", "creating"}
  <2>1. CASE New(k)
    BY <1>1, <2>1, Caller DEF New, Request, Fresh
  <2>2. CASE \E m \in DOMAIN domQ : Old(k, m)
    <3>1. PICK m \in DOMAIN domQ : Old(k, m)
      BY <2>2
    <3>2. domQ'[k].st \in Storages /\ ~Fresh(domQ'[k].st)
      BY <1>0, <1>1, <3>1 DEF Old, OwnedOK, Typed, SetUpOps
    <3> QED BY <1>0, <3>2 DEF Onward, Fresh
  <2> QED BY <2>1, <2>2, QueueKept
\* Nobody waits any more for what has lost its owner.
<1>2. ASSUME NEW owners \in SUBSET {"svc", "mon"}, domQ' = Disowned(owners),
             "svc" \notin owners => UNCHANGED <<job, svcReply, rows>>,
             "mon" \notin owners => UNCHANGED <<mon, monReply>>
      PROVE  OwnedOK'
  <2>1. /\ DOMAIN domQ' = DOMAIN domQ
        /\ \A i \in DOMAIN domQ :
              /\ domQ'[i].op = domQ[i].op /\ domQ'[i].st = domQ[i].st /\ domQ'[i].dev = domQ[i].dev
              /\ domQ'[i].owner = IF domQ[i].owner \in owners THEN "none" ELSE domQ[i].owner
    BY <1>2, DisownedType
  <2>2. \A i \in DOMAIN domQ : domQ'[i].owner # "none" => domQ'[i].owner = domQ[i].owner /\ domQ[i].owner \notin owners
    BY <2>1
  <2> QED BY <1>0, <1>1, <1>2, <2>1, <2>2 DEF OwnedOK, Fresh, Exists
<1>3. CASE UNCHANGED domQ /\ ~DomainExecute /\ ~ServiceTimeout /\ ~MonitorTimeout
           /\ ~ServiceCrash /\ ~HostReboot
  <2>1. /\ job.pc = "domain" /\ svcReply = "none" =>
             job' = job /\ svcReply' = svcReply /\ (UNCHANGED rows \/ MonitorWrite)
        /\ mon.pc = "wait" /\ monReply = "none" => mon' = mon /\ monReply' = monReply
    BY <1>0, <1>3, Waits
  <2>2. job.pc = "domain" /\ svcReply = "none" =>
          \A s \in Storages : rows'[s].status \notin {"none", "deleted"} => Exists(s) /\ rows'[s].dev = rows[s].dev
    BY <1>0, <2>1, RowsUpdated DEF Exists
  <2> QED BY <1>0, <1>1, <1>3, <2>1, <2>2 DEF OwnedOK, Fresh, Exists
<1>4. ASSUME NEW op, NEW s, NEW d, NEW init, NEW owner, Calls(op, s, d, init, owner)
      PROVE  OwnedOK'
  <2> DEFINE n == Len(domQ) + 1
  <2>1. /\ DOMAIN domQ = 1..Len(domQ) /\ DOMAIN domQ' = 1..n /\ n \notin DOMAIN domQ
        /\ \A k \in DOMAIN domQ' : k \in DOMAIN domQ \/ k = n
        /\ \A i \in DOMAIN domQ : domQ'[i] = domQ[i] /\ i <= n
        /\ domQ'[n] = Request(op, s, d, init, owner) /\ n <= n /\ n \in DOMAIN domQ'
        /\ \A k \in DOMAIN domQ : k \in DOMAIN domQ'
    BY <1>4, CalledQueue
  <2> HIDE DEF n
  <2>2. /\ domQ'[n].op = op /\ domQ'[n].dev = d /\ domQ'[n].owner = owner /\ owner \in {"svc", "mon"}
    BY <1>4, <2>1 DEF Request, Calls
  <2>3. CASE owner = "svc"
    <3>1. /\ job.pc # "domain" /\ job'.pc = "domain" /\ svcReply' = "none"
          /\ UNCHANGED <<mon, monReply>> /\ op # "do_setup"
          /\ op = "delete_partition" => \A t \in Storages : Exists(t)' => rows'[t].dev # d
      BY <1>4, <2>3, Caller
    <3>2. \A i \in DOMAIN domQ : domQ[i].owner # "svc"
      BY <1>0, <3>1 DEF OwnedOK
    <3> QED BY <1>0, <1>1, <2>1, <2>2, <2>3, <3>1, <3>2 DEF OwnedOK, Fresh, Exists
  <2>4. CASE owner = "mon"
    <3>1. /\ mon.pc # "wait" /\ mon'.pc = "wait" /\ monReply' = "none"
          /\ UNCHANGED <<job, svcReply, rows>> /\ op = "do_setup"
      BY <1>4, <2>4, Caller
    <3>2. \A i \in DOMAIN domQ : domQ[i].owner # "mon"
      BY <1>0, <3>1 DEF OwnedOK
    <3> QED BY <1>0, <1>1, <2>1, <2>2, <2>4, <3>1, <3>2 DEF OwnedOK, Fresh, Exists
  <2> QED BY <2>2, <2>3, <2>4
<1>5. CASE DomainExecute
  <2>1. PICK i, o : Executed(i, o)
    BY <1>5, Execution
  <2>2. /\ i \in DOMAIN domQ /\ UNCHANGED <<rows, job, mon>>
        /\ domQ[i].owner # "svc" => svcReply' = svcReply
        /\ domQ[i].owner # "mon" => monReply' = monReply
    BY <2>1 DEF Executed
  <2> DEFINE was(k) == IF k < i THEN k ELSE k + 1
  <2>3. ASSUME NEW k \in DOMAIN domQ'
        PROVE  was(k) \in DOMAIN domQ /\ was(k) # i /\ domQ'[k] = domQ[was(k)]
    BY <2>1, LeftBehind
  <2>4. \A k, l \in DOMAIN domQ' : was(k) <= was(l) => k <= l
    BY <2>1 DEF Executed
  <2>5. \A k, l \in DOMAIN domQ' : was(k) = was(l) => k = l
    BY <2>1 DEF Executed
  <2> HIDE DEF was
  <2>6. ASSUME NEW k \in DOMAIN domQ', domQ'[k].owner = "svc"
        PROVE  /\ job'.pc = "domain" /\ svcReply' = "none"
               /\ \A j \in DOMAIN domQ' : domQ'[j].owner = "svc" => j = k
               /\ domQ'[k].op = "delete_partition" =>
                    \A s \in Storages : rows'[s].status \notin {"none", "deleted"} => rows'[s].dev # domQ'[k].dev
    <3>1. was(k) \in DOMAIN domQ /\ was(k) # i /\ domQ[was(k)].owner = "svc" /\ domQ'[k] = domQ[was(k)]
      BY <2>3, <2>6
    <3>2. domQ[i].owner # "svc"
      BY <1>0, <2>2, <3>1 DEF OwnedOK
    <3>3. \A j \in DOMAIN domQ' : domQ'[j].owner = "svc" => was(j) = was(k)
      BY <1>0, <2>3, <3>1 DEF OwnedOK
    <3> QED BY <1>0, <2>2, <2>5, <3>1, <3>2, <3>3 DEF OwnedOK, Exists
  <2>7. ASSUME NEW k \in DOMAIN domQ', domQ'[k].owner = "mon"
        PROVE  /\ domQ'[k].op = "do_setup" /\ mon'.pc = "wait" /\ monReply' = "none"
               /\ \A j \in DOMAIN domQ' : domQ'[j].op = "do_setup" => j <= k
    <3>1. was(k) \in DOMAIN domQ /\ was(k) # i /\ domQ[was(k)].owner = "mon" /\ domQ'[k] = domQ[was(k)]
      BY <2>3, <2>7
    <3>2. domQ[i].owner # "mon"
      <4>1. SUFFICES ASSUME domQ[i].owner = "mon" PROVE FALSE
        OBVIOUS
      <4>2. i <= was(k) /\ was(k) <= i
        BY <1>0, <2>2, <3>1, <4>1 DEF OwnedOK
      <4>3. i \in Nat /\ was(k) \in Nat
        BY <2>1, <3>1 DEF Executed
      <4> QED BY <3>1, <4>2, <4>3
    <3>3. \A j \in DOMAIN domQ' : domQ'[j].op = "do_setup" => was(j) <= was(k)
      BY <1>0, <2>3, <3>1 DEF OwnedOK
    <3> QED BY <1>0, <2>2, <2>4, <3>1, <3>2, <3>3 DEF OwnedOK
  <2> QED BY <1>1, <2>6, <2>7 DEF OwnedOK, Fresh, Exists
<1>6. CASE ServiceTimeout /\ domQ' = Disowned({"svc"})
  BY <1>2, <1>6 DEF ServiceTimeout, monVars
<1>7. CASE MonitorTimeout /\ domQ' = Disowned({"mon"})
  BY <1>2, <1>7 DEF MonitorTimeout, svcVars
<1>8. CASE domQ' = Disowned({"svc", "mon"})
  BY <1>2, <1>8
<1>9. CASE domQ' = <<>>
  BY <1>9, EmptySeq DEF OwnedOK
<1>10. CASE ServiceTimeout \/ MonitorTimeout \/ ServiceCrash \/ HostReboot
  BY <1>6, <1>7, <1>8, <1>9, <1>10 DEF ServiceTimeout, MonitorTimeout, ServiceCrash, HostReboot
<1> QED BY <1>3, <1>4, <1>5, <1>10, QueueStep

LEMMA MonitorOKStep ==
  ASSUME Typed, Base, [Next]_vars
  PROVE  MonitorOK'
<1>0. MonitorOK /\ OwnedOK /\ Onward /\ mon \in Monitors /\ RowsOK
  BY RowsStep DEF Base, Typed, TypeOK
<1>1. \A s \in Storages :
        Seen(s) => rows'[s].initialized = rows[s].initialized /\ rows'[s].dev = rows[s].dev
  BY <1>0 DEF Onward, Typed, Fresh
\* What is remembered of less stays true.
<1>2. ASSUME \A s \in Storages : /\ mon'.seen[s] \in {mon.seen[s], "none"}
                                 /\ mon'.done[s] \in {mon.done[s], mon.seen[s], "none", "error"}
                                 /\ Seen(s)' => Seen(s),
             mon'.pc # "wait" => monReply' = "none"
      PROVE  MonitorOK'
  <2>1. ASSUME NEW s \in Storages
        PROVE  /\ "raw" \in {mon'.seen[s], mon'.done[s]} => ~rows'[s].initialized
               /\ "initialized" \in {mon'.seen[s], mon'.done[s]} => rows'[s].initialized
    <3>1. /\ "raw" \in {mon'.seen[s], mon'.done[s]} => "raw" \in {mon.seen[s], mon.done[s]}
          /\ "initialized" \in {mon'.seen[s], mon'.done[s]} => "initialized" \in {mon.seen[s], mon.done[s]}
      BY <1>2
    <3>2. "raw" \in {mon.seen[s], mon.done[s]} \/ "initialized" \in {mon.seen[s], mon.done[s]} => Seen(s)
      BY DEF Seen
    <3> QED BY <1>0, <1>1, <3>1, <3>2 DEF MonitorOK
  <2>2. \A s, t \in Storages : Seen(s)' /\ Seen(t)' /\ rows'[s].dev = rows'[t].dev => s = t
    BY <1>0, <1>1, <1>2 DEF MonitorOK
  <2> QED BY <1>2, <2>1, <2>2 DEF MonitorOK
<1>3. CASE MonitorRead
  <2> DEFINE seen == [s \in Storages |-> IF ~Watched(s) THEN "none"
                                         ELSE IF rows[s].initialized THEN "initialized" ELSE "raw"]
  <2>1. \A s \in Storages : /\ seen[s] = "raw" => ~rows[s].initialized
                            /\ seen[s] = "initialized" => rows[s].initialized
                            /\ seen[s] # "none" => Exists(s)
    BY DEF Watched, StatusIn, Exists
  <2>2. mon' = [IdleMonitor EXCEPT !.pc = "loop", !.seen = seen] /\ UNCHANGED <<rows, monReply>>
        /\ monReply = "none"
    BY <1>0, <1>3 DEF MonitorRead, MonitorOK
  <2> HIDE DEF seen
  <2>3. mon'.seen = seen /\ \A s \in Storages : mon'.done[s] = "none"
    BY <2>2, Pieces DEF IdleMonitor
  <2> QED BY <1>0, <2>1, <2>2, <2>3 DEF MonitorOK, Seen, RowsOK
<1>4. CASE MonitorCall
  <2>1. PICK s \in Storages : mon' = [mon EXCEPT !.pc = "wait", !.cur = s]
    BY <1>4 DEF MonitorCall
  <2>2. mon'.pc = "wait" /\ mon'.seen = mon.seen /\ mon'.done = mon.done
    BY <1>0, <2>1 DEF Monitors
  <2> QED BY <1>2, <2>2 DEF Seen
<1>5. CASE MonitorResult
  <2> DEFINE c == mon.cur
  <2>1. c \in Storages /\ mon.seen[c] \in {"raw", "initialized"} /\ monReply' = "none"
    BY <1>0, <1>5 DEF MonitorResult, Monitors, Typed
  <2>2. PICK h \in {mon.seen[c], "error"} : h = Heard
    BY DEF Heard
  <2>3. mon' = [mon EXCEPT !.pc = "loop", !.cur = NoStorage, !.seen[c] = "none", !.done[c] = h]
    BY <1>5, <2>2 DEF MonitorResult
  <2> HIDE DEF c
  <2>4. /\ mon'.pc = "loop"
        /\ mon'.seen = [mon.seen EXCEPT ![c] = "none"] /\ mon'.done = [mon.done EXCEPT ![c] = h]
    BY <1>0, <2>1, <2>3 DEF Monitors
  <2>5. \A s \in Storages : /\ mon'.seen[s] = (IF s = c THEN "none" ELSE mon.seen[s])
                            /\ mon'.done[s] = (IF s = c THEN h ELSE mon.done[s])
    BY <1>0, <2>1, <2>4 DEF Monitors
  <2> QED BY <1>2, <2>1, <2>2, <2>4, <2>5 DEF Seen
<1>6. CASE mon' \in {IdleMonitor, [IdleMonitor EXCEPT !.pc = "dead"]} /\ monReply' = "none"
  <2>1. /\ mon'.pc # "wait" /\ monReply' = "none"
        /\ \A s \in Storages : mon'.seen[s] = "none" /\ mon'.done[s] = "none"
    BY <1>6, Pieces
  <2> QED BY <1>2, <2>1 DEF Seen
<1>7. CASE MonitorWrite
  <2>1. monReply' = "none"
    BY <1>0, <1>7 DEF MonitorWrite, MonitorOK
  <2> QED BY <1>6, <1>7, <2>1 DEF MonitorWrite
<1>8. CASE ServiceCrash \/ HostReboot
  BY <1>6, <1>8 DEF ServiceCrash, HostReboot
<1>9. CASE UNCHANGED mon
  <2>1. mon'.pc # "wait" => monReply' = "none"
    <3>1. CASE UNCHANGED monReply
      BY <1>0, <1>9, <3>1 DEF MonitorOK
    <3>2. CASE DomainExecute
      <4>1. PICK i, o : Executed(i, o)
        BY <3>2, Execution
      <4>2. i \in DOMAIN domQ /\ (domQ[i].owner # "mon" => monReply' = monReply)
        BY <4>1 DEF Executed
      <4> QED BY <1>0, <1>9, <4>2 DEF OwnedOK, MonitorOK
    <3>3. CASE MonitorTimeout
      BY <1>9, <3>3 DEF MonitorTimeout
    <3>4. CASE MonitorResult \/ ServiceCrash \/ HostReboot
      BY <3>4 DEF MonitorResult, ServiceCrash, HostReboot
    <3> QED BY <3>1, <3>2, <3>3, <3>4, Frames
  <2> QED BY <1>2, <1>9, <2>1 DEF Seen
<1> QED BY <1>3, <1>4, <1>5, <1>7, <1>8, <1>9, Frames DEF MonitorStep

LEMMA InvStep == IInv /\ [Next]_vars => IInv'
BY TypedStep, RowsOKStep, HandlersOKStep, ObjectsOKStep, OwnedOKStep, MonitorOKStep DEF IInv, Base

LEMMA Invariance == Spec => []IInv
<1>1. Init => IInv
  BY InitInv
<1>2. IInv /\ [Next]_vars => IInv'
  BY InvStep
<1> QED BY <1>1, <1>2, PTL DEF Spec

\* Every variable keeps its type.
THEOREM TypeCorrect == Spec => []TypeOK
<1>1. IInv => TypeOK
  BY DEF IInv, Typed
<1> QED BY <1>1, Invariance, PTL

\* No object is left on a storage that is gone, nor on its way to one: the objects are
\* looked up again once the deletion is committed, and an object service that was told of
\* the storage before is still in the handler that asked.
THEOREM NothingLeftBehind == Spec => []ObjectsHaveStorage
<1>1. IInv => ObjectsHaveStorage
  BY DEF IInv, Base, ObjectsOK
<1> QED BY <1>1, Invariance, PTL

-----------------------------------------------------------------------------
(* What is on the devices *)

\* What the thread is about to format it knew before, or reads now of a storage that
\* is not initialized.
LEMMA RawOld ==
  ASSUME Typed, [Next]_vars, NEW t \in Storages, mon'.seen[t] = "raw"
  PROVE  mon.seen[t] = "raw" \/ (Exists(t) /\ ~rows[t].initialized /\ UNCHANGED rows)
<1>0. mon \in Monitors
  BY DEF Typed, TypeOK
<1>1. CASE MonitorRead
  <2> DEFINE seen == [s \in Storages |-> IF ~Watched(s) THEN "none"
                                         ELSE IF rows[s].initialized THEN "initialized" ELSE "raw"]
  <2>1. seen[t] = "raw" => Exists(t) /\ ~rows[t].initialized
    BY DEF Watched, StatusIn, Exists
  <2>2. mon' = [IdleMonitor EXCEPT !.pc = "loop", !.seen = seen] /\ UNCHANGED rows
    BY <1>1 DEF MonitorRead
  <2> HIDE DEF seen
  <2>3. mon'.seen = seen
    BY <2>2 DEF IdleMonitor
  <2> QED BY <2>1, <2>2, <2>3
<1>2. CASE MonitorCall
  <2>1. PICK s \in Storages : mon' = [mon EXCEPT !.pc = "wait", !.cur = s]
    BY <1>2 DEF MonitorCall
  <2> QED BY <1>0, <2>1 DEF Monitors
<1>3. CASE MonitorResult
  <2>1. PICK c \in Storages, h \in {Heard} :
          mon' = [mon EXCEPT !.pc = "loop", !.cur = NoStorage, !.seen[c] = "none", !.done[c] = h]
    BY <1>3 DEF MonitorResult, Typed
  <2>2. mon'.seen = [mon.seen EXCEPT ![c] = "none"]
    BY <1>0, <2>1 DEF Monitors
  <2> QED BY <1>0, <2>2 DEF Monitors
<1>4. CASE mon' \in {IdleMonitor, [IdleMonitor EXCEPT !.pc = "dead"]}
  BY <1>4, Pieces
<1>5. CASE MonitorWrite \/ ServiceCrash \/ HostReboot
  BY <1>4, <1>5 DEF MonitorWrite, ServiceCrash, HostReboot
<1> QED BY <1>1, <1>2, <1>3, <1>5, Frames DEF MonitorStep

\* While an initialized storage is there, no step makes its device one that may be
\* formatted.
LEMMA DangerOld ==
  ASSUME Typed, Base, [Next]_vars, NEW s \in Storages, Exists(s), rows[s].initialized,
         NEW d, d = rows[s].dev, Danger(d)'
  PROVE  Danger(d)
<1>0. RowsOK /\ Onward /\ mon \in Monitors
  BY RowsStep DEF Base, Typed, TypeOK
<1>1. ASSUME NEW k \in DOMAIN domQ', domQ'[k].dev = d, Formats(domQ'[k])
      PROVE  Danger(d)
  <2>1. CASE New(k)
    <3>1. PICK op, t, e, init, owner : Calls(op, t, e, init, owner)
                                       /\ domQ'[k] = Request(op, t, e, init, owner)
      BY <2>1 DEF New
    <3>2. e = d /\ op \in SetUpOps /\ ~init /\ init \in BOOLEAN
      BY <1>1, <3>1 DEF Request, Formats, Calls
    <3>3. CASE t \in Storages /\ rows[t].status = "new" /\ rows[t].dev = e
      <4>1. t = s
        BY <1>0, <3>2, <3>3 DEF RowsOK, Exists
      <4> QED BY <1>0, <3>3, <4>1 DEF RowsOK, Fresh
    <3>4. CASE t \in Storages /\ Exists(t) /\ rows[t].dev = e /\ init = rows[t].initialized
      <4>1. t = s
        BY <1>0, <3>2, <3>4 DEF RowsOK
      <4> QED BY <3>2, <3>4, <4>1
    <3>5. CASE t \in Storages /\ mon.seen[t] # "none" /\ rows[t].dev = e
               /\ init = (mon.seen[t] = "initialized")
      <4>1. mon.seen[t] = "raw"
        BY <1>0, <3>2, <3>5 DEF Monitors
      <4> QED BY <3>2, <3>5, <4>1 DEF Danger
    <3> QED BY <3>1, <3>2, <3>3, <3>4, <3>5 DEF Calls
  <2>2. CASE \E m \in DOMAIN domQ : Old(k, m)
    BY <1>1, <2>2 DEF Old, Formats, Danger
  <2> QED BY <2>1, <2>2, QueueKept
<1>2. ASSUME NEW t \in Storages, mon'.seen[t] = "raw", rows'[t].dev = d
      PROVE  Danger(d)
  <2>1. CASE mon.seen[t] = "raw"
    <3>1. rows[t].status # "none"
      BY <2>1 DEF Typed, Seen, Fresh
    <3> QED BY <1>0, <1>2, <2>1, <3>1 DEF Onward, Danger
  <2>2. CASE Exists(t) /\ ~rows[t].initialized /\ UNCHANGED rows
    BY <1>0, <1>2, <2>2 DEF RowsOK
  <2> QED BY <1>2, <2>1, <2>2, RawOld
<1> QED BY <1>1, <1>2 DEF Danger

\* When the thread's request is executed, nothing that formats is left before it, and
\* nothing of the kind behind it.
LEMMA LastSetUp ==
  ASSUME Typed, Base, NEW i, NEW o, Executed(i, o), domQ[i].owner = "mon", NEW k \in DOMAIN domQ'
  PROVE  domQ'[k].op \notin SetUpOps
<1>1. PICK m \in DOMAIN domQ : domQ'[k] = domQ[m] /\ m # i
  BY LeftBehind
<1>2. domQ[i].op = "do_setup" /\ (domQ[m].op = "do_setup" => m <= i)
  BY DEF Base, OwnedOK, Executed
<1>3. \/ Priority(domQ[m]) < Priority(domQ[i])
      \/ Priority(domQ[m]) = Priority(domQ[i]) /\ i <= m
  BY DEF Executed, IsHead
<1>4. Priority(domQ[i]) = 5
  BY <1>2 DEF Priority
<1>5. i \in Nat /\ m \in Nat
  BY DEF Executed
<1>6. CASE domQ[m].op \in {"create", "delete"}
  BY <1>3, <1>4, <1>6 DEF Priority
<1>7. CASE domQ[m].op = "do_setup"
  BY <1>1, <1>2, <1>3, <1>4, <1>5, <1>7 DEF Priority
<1> QED BY <1>1, <1>6, <1>7 DEF SetUpOps

\* A request to delete a storage was in the queue, or the handler makes it now.
LEMMA DeleteCalled ==
  ASSUME Typed, [Next]_vars, NEW s \in Storages, DeleteQueued(s)'
  PROVE  \/ DeleteQueued(s)
         \/ /\ job.op = "_delete_storage" /\ job.st = s
            /\ objs[s] = "none" /\ asker.pc = "idle" /\ UNCHANGED <<objs, asker>>
<1>1. PICK k \in DOMAIN domQ' : domQ'[k].op = "delete" /\ domQ'[k].st = s
  BY DEF DeleteQueued
<1>2. CASE New(k)
  <2>1. PICK op, t, d, init, owner : Calls(op, t, d, init, owner)
                                     /\ domQ'[k] = Request(op, t, d, init, owner)
    BY <1>2 DEF New
  <2>2. op = "delete" /\ t = s
    BY <1>1, <2>1 DEF Request
  <2>3. DeleteStart /\ s = job.st /\ "empty" \in Answers(s)
    BY <2>1, <2>2 DEF Calls, SetUpOps
  <2> QED BY <2>3 DEF DeleteStart, Answers, objVars
<1>3. CASE \E m \in DOMAIN domQ : Old(k, m)
  BY <1>1, <1>3 DEF Old, DeleteQueued
<1> QED BY <1>2, <1>3, QueueKept

\* A deletion is ahead of a storage because it was, or because it is asked for now.
LEMMA DeleteAsked ==
  ASSUME Typed, Base, [Next]_vars, NEW s \in Storages, DeleteAhead(s)'
  PROVE  DeleteAhead(s) \/ rows'[s].status = "deleting"
<1>0. HandlersOK /\ job \in Jobs
  BY DEF Base, Typed, TypeOK
<1>1. CASE DeleteQueued(s)'
  BY <1>1, DeleteCalled DEF DeleteAhead, DeleteOps
<1>2. ASSUME ~DeleteAhead(s),
             \/ job'.op \in DeleteOps /\ job'.st = s
             \/ \E i \in DOMAIN casts' : casts'[i].op = "_delete_storage" /\ casts'[i].st = s
      PROVE  rows'[s].status = "deleting"
  <2>0. /\ ~(job.op \in DeleteOps /\ job.st = s)
        /\ \A i \in DOMAIN casts : ~(casts[i].op = "_delete_storage" /\ casts[i].st = s)
        /\ NoJob.op \notin DeleteOps /\ "_delete_storage" \in DeleteOps /\ "delete_storage" \in DeleteOps
    BY <1>2 DEF DeleteAhead, DeleteOps, NoJob
  <2>1. CASE Quiet
    BY <1>2, <2>0, <2>1 DEF Quiet
  <2>2. CASE TakeCast
    <3>1. PICK i \in DOMAIN casts :
           /\ job = NoJob /\ job' = casts[i] /\ casts' = RemoveAt(casts, i) /\ casts' \in Seq(Jobs)
           /\ \A k \in DOMAIN casts' : \E m \in DOMAIN casts : casts'[k] = casts[m]
      BY <2>2, CastTaken
    <3>2. casts[i].op \in DeleteOps => casts[i].op = "_delete_storage"
      BY DEF Typed, CastOps, DeleteOps
    <3> QED BY <1>2, <2>0, <3>1, <3>2
  <2>3. CASE PublishCast
    BY <1>0, <1>2, <2>0, <2>3, Published
  <2>4. CASE ServiceCrash
    BY <1>0, <1>2, <2>0, <2>4, Redelivered
  <2>5. CASE HostReboot /\ casts' = <<>> /\ job' = NoJob
    <3>1. DOMAIN casts' = {}
      BY <2>5, EmptySeq
    <3> QED BY <1>2, <2>0, <2>5, <3>1
  <2>6. CASE UNCHANGED casts /\ Done
    BY <1>0, <1>2, <2>0, <2>6, Ended
  <2>7. CASE UNCHANGED casts /\ job' = NoJob
    BY <1>2, <2>0, <2>7
  <2>8. CASE UNCHANGED casts /\ job' = [job EXCEPT !.pc = "domain"]
    BY <1>0, <1>2, <2>0, <2>8, JobMoved
  <2>9. ASSUME NEW t \in Storages, UNCHANGED casts, job' = Job("create_storage", t, "cast")
        PROVE  FALSE
    <3>1. job'.op = "create_storage"
      BY <2>9, JobType
    <3> QED BY <1>2, <2>0, <2>9, <3>1 DEF DeleteOps
  <2>10. ASSUME NEW t \in Storages, DeleteStorage(t), UNCHANGED casts,
                job' = Job("delete_storage", t, "cast")
         PROVE  rows'[s].status = "deleting"
    <3>1. job'.st = t
      BY <2>10, JobType
    <3>2. s = t
      BY <1>2, <2>0, <2>10, <3>1
    <3>3. SetStatus(s, "deleting") /\ "deleting" \in StorageStatus \cup {"none", "deleted"}
      BY <2>10, <3>2 DEF DeleteStorage, StorageStatus
    <3> QED BY <3>3, StatusSet
  <2>11. CASE UNCHANGED casts /\ job' = Job("partition", NoStorage, "domain")
    <3>1. job'.op = "partition"
      BY <2>11, JobType
    <3> QED BY <1>2, <2>0, <2>11, <3>1 DEF DeleteOps
  <2> QED BY <1>0, <2>1, <2>2, <2>3, <2>4, <2>5, <2>6, <2>7, <2>8, <2>9, <2>10, <2>11, JobStep
<1> QED BY <1>1, <1>2 DEF DeleteAhead

\* The thread has set a storage up because it had, or because nothing formats its
\* device any more.
LEMMA SetUpNow ==
  ASSUME Typed, Base, [Next]_vars, NEW s \in Storages, NEW d, rows[s].dev = d,
         SetUpSeen(s)', Danger(d)'
  PROVE  SetUpSeen(s)
<1>0. mon \in Monitors
  BY DEF Typed, TypeOK
<1>1. CASE MonitorResult
  <2> DEFINE c == mon.cur
  <2>1. c \in Storages
    BY <1>1 DEF MonitorResult, Typed
  <2>2. PICK h \in {"none", "error", "raw", "initialized"} : h = Heard
    BY <1>0, <2>1 DEF Heard, Monitors
  <2>3. mon' = [mon EXCEPT !.pc = "loop", !.cur = NoStorage, !.seen[c] = "none", !.done[c] = h]
    BY <1>1, <2>2 DEF MonitorResult
  <2> HIDE DEF c
  <2>4. mon'.pc = "loop" /\ mon'.done = [mon.done EXCEPT ![c] = h]
    BY <1>0, <2>1, <2>3 DEF Monitors
  <2>5. mon'.done[s] = "initialized"
    BY <2>4 DEF SetUpSeen
  <2>6. CASE s # c
    <3>1. mon.done[s] = "initialized"
      BY <1>0, <2>1, <2>4, <2>5, <2>6 DEF Monitors
    <3> QED BY <3>1 DEF SetUpSeen
  <2>7. CASE s = c
    <3>1. Heard = "initialized"
      BY <1>0, <2>1, <2>2, <2>4, <2>5, <2>7 DEF Monitors
    <3> QED BY <1>1, <2>7, <3>1 DEF Heard, SetUpSeen, MonitorResult, c
  <2> QED BY <2>6, <2>7
<1>2. CASE MonitorCall
  <2>1. PICK t \in Storages : mon' = [mon EXCEPT !.pc = "wait", !.cur = t]
    BY <1>2 DEF MonitorCall
  <2>2. mon'.done = mon.done /\ monReply' = "none"
    BY <1>0, <1>2, <2>1 DEF Monitors, MonitorCall, Base, MonitorOK
  <2> QED BY <2>2 DEF SetUpSeen
<1>3. CASE DomainExecute
  <2>1. PICK i, o : Executed(i, o)
    BY <1>3, Execution
  <2>2. mon' = mon
    BY <2>1 DEF Executed
  <2>3. CASE domQ[i].owner # "mon"
    BY <2>1, <2>2, <2>3 DEF Executed, SetUpSeen
  <2>4. CASE domQ[i].owner = "mon" /\ mon.seen[s] = "initialized" /\ mon.done[s] # "initialized"
    <3>1. \A k \in DOMAIN domQ' : ~Formats(domQ'[k])
      BY <2>1, <2>4, LastSetUp DEF Formats
    <3>2. PICK t \in Storages : mon'.seen[t] = "raw" /\ rows'[t].dev = d
      BY <3>1 DEF Danger
    <3>3. Seen(t) /\ rows[t].dev = d /\ Seen(s)
      BY <2>1, <2>2, <2>4, <3>2 DEF Seen, Executed
    <3>4. t = s
      BY <3>3 DEF Base, MonitorOK
    <3> QED BY <2>2, <2>4, <3>2, <3>4
  <2> QED BY <2>2, <2>3, <2>4 DEF SetUpSeen
<1>4. CASE MonitorRead \/ MonitorWrite \/ ServiceCrash \/ HostReboot
  <2>1. mon'.done[s] = "none" /\ mon'.pc # "wait"
    <3>1. CASE MonitorRead
      <4>1. mon'.pc = "loop" /\ mon'.done = IdleMonitor.done
        BY <3>1 DEF MonitorRead, IdleMonitor
      <4> QED BY <4>1, Pieces
    <3>2. CASE MonitorWrite
      <4>1. mon' = IdleMonitor \/ mon' = [IdleMonitor EXCEPT !.pc = "dead"]
        BY <3>2 DEF MonitorWrite
      <4> QED BY <4>1, Pieces
    <3>3. CASE ServiceCrash \/ HostReboot
      <4>1. mon' = IdleMonitor
        BY <3>3 DEF ServiceCrash, HostReboot
      <4> QED BY <4>1, Pieces
    <3> QED BY <1>4, <3>1, <3>2, <3>3
  <2> QED BY <2>1 DEF SetUpSeen
<1>5. CASE MonitorTimeout
  BY <1>5 DEF MonitorTimeout, SetUpSeen
<1>6. CASE UNCHANGED <<mon, monReply>>
  BY <1>6 DEF SetUpSeen
<1>7. CASE UNCHANGED mon /\ ~UNCHANGED monReply
  <2>1. MonitorResult \/ DomainExecute \/ MonitorTimeout \/ ServiceCrash \/ HostReboot
    BY <1>7, Frames
  <2> QED BY <1>1, <1>3, <1>4, <1>5, <2>1
<1> QED BY <1>1, <1>2, <1>4, <1>6, <1>7, Frames DEF MonitorStep

\* An initialized storage is available because it was, or because the thread has set
\* it up.
LEMMA Available ==
  ASSUME Typed, Base, [Next]_vars, NEW s \in Storages, Exists(s), rows[s].initialized,
         rows'[s].status = "available"
  PROVE  rows[s].status = "available" \/ SetUpSeen(s)
<1>1. ASSUME NEW t \in Storages, NEW x \in StorageStatus \cup {"none", "deleted"}, SetStatus(t, x),
             x # "available"
      PROVE  rows[s].status = "available"
  BY <1>1, StatusSet
<1>2. CASE MonitorWrite
  <2>1. \/ rows'[s] = rows[s]
        \/ /\ mon.done[s] # "none"
           /\ rows'[s].status = IF mon.done[s] = "error" THEN "error" ELSE "available"
    BY <1>2, RowsUpdated DEF Base
  <2>2. mon.done[s] \in {"none", "error", "raw", "initialized"} /\ mon.done[s] # "raw"
    BY DEF Typed, TypeOK, Monitors, Base, MonitorOK
  <2> QED BY <2>1, <2>2 DEF SetUpSeen
<1>3. CASE CreateFinish
  <2>1. job.st \in Storages /\ Fresh(job.st)
    BY <1>3 DEF CreateFinish, Typed, Base, HandlersOK, Fresh
  <2>2. s # job.st
    BY <2>1 DEF Base, RowsOK
  <2>3. rows'[s] = rows[s]
    BY <1>3, <2>1, <2>2 DEF CreateFinish, SetStatus, Typed, TypeOK
  <2> QED BY <2>3
<1>4. CASE CreateStart \/ DeleteStart \/ DeleteFinish
  <2>1. /\ job.st \in Storages
        /\ UNCHANGED rows \/ \E x \in {"creating", "error", "deleted"} : SetStatus(job.st, x)
    BY <1>4 DEF CreateStart, DeleteStart, DeleteFinish, Typed
  <2>2. {"creating", "error", "deleted"} \subseteq StorageStatus \cup {"none", "deleted"}
    BY DEF StorageStatus
  <2> QED BY <1>1, <2>1, <2>2
<1>5. ASSUME NEW t \in Storages, DeleteStorage(t) PROVE rows[s].status = "available"
  BY <1>1, <1>5 DEF DeleteStorage, StorageStatus
<1>6. ASSUME NEW t \in Storages, NEW n \in Names, NEW d \in Devices, CreateStorage(t, n, d)
      PROVE  rows[s].status = "available"
  <2>1. rows[t].status = "none" /\ \A u \in Storages : u # t => rows'[u] = rows[u]
    BY <1>6, RowInserted
  <2> QED BY <2>1 DEF Exists
<1>7. CASE UNCHANGED rows
  BY <1>7
<1> QED BY <1>2, <1>3, <1>4, <1>5, <1>6, <1>7, RowFrames

\* Nothing of an initialized storage is on a device that may be formatted, unless it was.
LEMMA StoredNow ==
  ASSUME Typed, Base, [Next]_vars, NEW s \in Storages, objs'[s] = "device"
  PROVE  \/ objs[s] = "device" /\ ~StoreObject
         \/ /\ StoreObject /\ UNCHANGED <<rows, mnt, domQ>>
            /\ data'[rows[s].dev] = data[rows[s].dev] \cup {s} /\ rows[s].dev \in Devices /\ Exists(s)
            /\ rows[s].initialized
            /\ Told(s) /\ asker.up /\ s \in mnt[rows[s].dev]
         \/ /\ StoreObject /\ UNCHANGED <<rows, mnt, domQ>> /\ objs[s] = "device"
            /\ \A d \in Devices : data[d] \subseteq data'[d]
<1>0. objs \in [Storages -> Places] /\ data \in [Devices -> SUBSET Storages]
  BY DEF Typed, TypeOK
<1>1. CASE StoreObject
  <2> DEFINE t == asker.st
             d == rows[t].dev
  <2>1. t \in Storages /\ Told(t) /\ Exists(t)
    BY <1>1 DEF StoreObject, Typed, Told, Base, ObjectsOK, ObjectsHaveStorage
  <2>2. d \in Devices
    BY <2>1 DEF Typed, Exists
  <2>3. UNCHANGED <<rows, mnt, domQ>>
    BY <1>1 DEF StoreObject
  <2>4. CASE asker.up /\ t \in mnt[d]
    <3>1. /\ objs' = [objs EXCEPT ![t] = IF rows[t].initialized THEN "device" ELSE "raw"]
          /\ data' = [data EXCEPT ![d] = @ \cup {t}]
      BY <1>1, <2>4 DEF StoreObject
    <3>2. data'[d] = data[d] \cup {t} /\ \A e \in Devices : data[e] \subseteq data'[e]
      BY <1>0, <2>2, <3>1
    <3>3. CASE s = t
      <4>1. rows[t].initialized
        BY <1>0, <2>1, <3>1, <3>3
      <4> QED BY <1>1, <2>1, <2>2, <2>3, <2>4, <3>2, <3>3, <4>1
    <3>4. CASE s # t
      <4>1. objs[s] = "device"
        BY <1>0, <2>1, <3>1, <3>4
      <4> QED BY <1>1, <2>3, <3>2, <4>1
    <3> QED BY <3>3, <3>4
  <2>5. CASE ~(asker.up /\ t \in mnt[d])
    <3>1. data' = data /\ \E p \in {"row", "root", objs[t]} : objs' = [objs EXCEPT ![t] = p]
      BY <1>1, <2>5 DEF StoreObject
    <3>2. objs[s] = "device"
      BY <1>0, <2>1, <3>1
    <3> QED BY <1>1, <2>3, <3>1, <3>2
  <2> QED BY <2>4, <2>5
<1>2. CASE ~StoreObject
  <2>1. UNCHANGED objs \/ \E t \in Storages : RemoveObjects(t)
    BY <1>2, Frames DEF objVars, Tell, GiveUp, HostReboot, Ask
  <2>2. ASSUME NEW t \in Storages, RemoveObjects(t) PROVE objs[s] = "device"
    BY <1>0, <2>2 DEF RemoveObjects
  <2> QED BY <1>2, <2>1, <2>2
<1> QED BY <1>1, <1>2

LEMMA DevicesOKStep ==
  ASSUME Typed, Base, DevicesOK, [Next]_vars
  PROVE  DevicesOK'
<1>0. RowsOK /\ HandlersOK /\ ObjectsOK /\ OwnedOK /\ MonitorOK /\ Onward
  BY RowsStep DEF Base
<1> SUFFICES ASSUME NEW s \in Storages, Exists(s)', rows'[s].initialized,
                    NEW d \in {rows'[s].dev}, Danger(d)'
             PROVE  /\ ~SetUpSeen(s)'
                    /\ rows'[s].status = "available" => ~DeleteAhead(s)'
                    /\ Told(s)' /\ asker'.up => ~DeleteQueued(s)'
                    /\ objs'[s] = "device" => ~DeleteQueued(s)' /\ s \in mnt'[d]
  BY DEF DevicesOK, DeviceSafe, Danger, Exists, Told
<1>1. CASE Exists(s) /\ rows[s].initialized
  <2>1. rows[s].dev = d /\ d \in Devices
    BY <1>0, <1>1 DEF Onward, Exists, Typed
  <2>2. Danger(d)
    BY <1>1, <2>1, DangerOld
  <2>3. /\ ~SetUpSeen(s)
        /\ rows[s].status = "available" => ~DeleteAhead(s)
        /\ Told(s) /\ asker.up => ~DeleteQueued(s)
        /\ objs[s] = "device" => ~DeleteQueued(s) /\ s \in mnt[d]
    BY <1>1, <2>1, <2>2 DEF DevicesOK, DeviceSafe
  <2>4. ~SetUpSeen(s)'
    BY <2>1, <2>3, SetUpNow
  <2>5. ASSUME rows'[s].status = "available" PROVE ~DeleteAhead(s)'
    <3>1. rows[s].status = "available"
      BY <1>1, <2>3, <2>5, Available
    <3> QED BY <2>3, <2>5, <3>1, DeleteAsked
  <2>6. ASSUME Told(s)', asker'.up PROVE ~DeleteQueued(s)'
    <3>1. ~DeleteQueued(s)
      <4>1. CASE asker' = asker
        BY <2>3, <2>6, <4>1 DEF Told
      <4>2. CASE Tell
        <5>1. asker' # IdleAsker /\ asker \in Askers
          BY <2>6, Pieces DEF Told, Typed, TypeOK
        <5>2. asker' = [asker EXCEPT !.pc = "told", !.up = rows[asker.st].status = "available"]
          BY <4>2, <5>1 DEF Tell
        <5>3. asker.st = s /\ rows[s].status = "available"
          BY <2>6, <5>1, <5>2 DEF Told, Askers
        <5> QED BY <2>3, <5>3 DEF DeleteAhead
      <4>3. CASE asker' = IdleAsker
        BY <2>6, <4>3, Pieces DEF Told
      <4>4. ASSUME NEW t \in Storages, Ask(t) PROVE FALSE
        BY <2>6, <4>4 DEF Ask, Told, IdleAsker
      <4> QED BY <4>1, <4>2, <4>3, <4>4, Frames DEF objVars, GiveUp, StoreObject, HostReboot, RemoveObjects
    <3>2. asker.pc = "idle" => asker' # asker
      BY <2>6 DEF Told
    <3> QED BY <3>1, <3>2, DeleteCalled
  <2>7. ASSUME objs'[s] = "device" PROVE ~DeleteQueued(s)' /\ s \in mnt'[d]
    <3>1. ~DeleteQueued(s) /\ s \in mnt[d]
      BY <2>1, <2>3, <2>7, StoredNow
    <3>2. ~DeleteQueued(s)'
      <4>1. ~(objs[s] = "none" /\ UNCHANGED objs)
        BY <2>7
      <4> QED BY <3>1, <4>1, DeleteCalled
    <3>3. s \in mnt'[d]
      <4>1. CASE UNCHANGED mnt
        BY <3>1, <4>1
      <4>2. ASSUME NEW i \in DOMAIN domQ, NEW o \in Outcomes(domQ[i]), HostBecomes(o.host)
            PROVE  s \in mnt'[d]
        <5>1. Keeps(domQ[i], o.host) /\ mnt' = o.host.mnt
          BY <4>2, OutcomeKeeps DEF HostBecomes
        <5>2. ~(domQ[i].op = "delete" /\ domQ[i].st = s)
          BY <3>1 DEF DeleteQueued
        <5> QED BY <2>1, <3>1, <5>1, <5>2 DEF Keeps
      <4>3. CASE DomainExecute
        BY <4>2, <4>3 DEF DomainExecute
      <4>4. CASE DomainCrash
        BY <4>2, <4>4 DEF DomainCrash
      <4>5. CASE HostReboot
        <5>1. DOMAIN domQ' = {} /\ \A t \in Storages : mon'.seen[t] = "none"
          BY <4>5, EmptySeq, Pieces DEF HostReboot
        <5> QED BY <5>1 DEF Danger
      <4> QED BY <4>1, <4>3, <4>4, <4>5, Frames DEF hostVars, StoreObject, RemoveObjects
    <3> QED BY <3>2, <3>3
  <2> QED BY <2>4, <2>5, <2>6, <2>7
\* The end of the creation: nothing else has been asked of the storage yet.
<1>2. CASE ~(Exists(s) /\ rows[s].initialized)
  <2>1. Fresh(s) /\ ~rows[s].initialized
    <3>1. CASE Exists(s)
      BY <1>0, <1>2, <3>1 DEF Onward
    <3>2. CASE ~Exists(s)
      BY <1>0, <3>2 DEF Onward, RowsOK, Fresh
    <3> QED BY <3>1, <3>2
  <2>2. CreateFinish /\ job.st = s /\ svcReply = "ok"
    <3>1. ASSUME NEW t \in Storages, NEW x \in StorageStatus \cup {"none", "deleted"}, SetStatus(t, x)
          PROVE  FALSE
      BY <2>1, <3>1, StatusSet
    <3>2. CASE UNCHANGED rows
      BY <2>1, <3>2
    <3>3. CASE MonitorWrite
      BY <2>1, <3>3, RowsUpdated DEF Base
    <3>4. CASE CreateFinish
      <4>1. job.st \in Storages /\ svcReply \in {"ok", "err", "timeout"}
        BY <3>4 DEF CreateFinish, Typed, TypeOK
      <4>2. CASE svcReply # "ok"
        <5>1. UNCHANGED rows \/ SetStatus(job.st, "error")
          BY <3>4, <4>1, <4>2 DEF CreateFinish
        <5> QED BY <3>1, <3>2, <4>1, <5>1 DEF StorageStatus
      <4>3. CASE svcReply = "ok"
        <5>1. rows' = [rows EXCEPT ![job.st].status = "available", ![job.st].initialized = TRUE]
          BY <3>4, <4>3 DEF CreateFinish
        <5>2. s = job.st
          BY <2>1, <4>1, <5>1, RowCreated
        <5> QED BY <3>4, <4>3, <5>2
      <4> QED BY <4>2, <4>3
    <3>5. CASE CreateStart \/ DeleteStart \/ DeleteFinish
      <4>1. /\ job.st \in Storages
            /\ UNCHANGED rows \/ \E x \in {"creating", "error", "deleted"} : SetStatus(job.st, x)
        BY <3>5 DEF CreateStart, DeleteStart, DeleteFinish, Typed
      <4>2. {"creating", "error", "deleted"} \subseteq StorageStatus \cup {"none", "deleted"}
        BY DEF StorageStatus
      <4> QED BY <3>1, <3>2, <4>1, <4>2
    <3>6. ASSUME NEW t \in Storages, DeleteStorage(t) PROVE FALSE
      BY <3>1, <3>6 DEF DeleteStorage, StorageStatus
    <3>7. ASSUME NEW t \in Storages, NEW n \in Names, NEW e \in Devices, CreateStorage(t, n, e)
          PROVE  FALSE
      <4>1. /\ rows'[t].initialized = FALSE /\ \A u \in Storages : u # t => rows'[u] = rows[u]
        BY <3>7, RowInserted
      <4> QED BY <2>1, <4>1
    <3> QED BY <3>2, <3>3, <3>4, <3>5, <3>6, <3>7, RowFrames
  <2>3. UNCHANGED <<hostVars, objVars, casts, domQ, monVars>> /\ job.op = "_create_storage"
    BY <2>2 DEF CreateFinish
  <2>4. ~Seen(s) /\ (mon.pc = "wait" => mon.cur # s)
    BY <2>1 DEF Typed, Seen
  <2>5. ~SetUpSeen(s)'
    BY <2>3, <2>4 DEF SetUpSeen, Seen, monVars
  <2>6. ~DeleteQueued(s)'
    BY <1>0, <2>1, <2>3 DEF DeleteQueued, OwnedOK, Fresh
  <2>7. ~DeleteAhead(s)'
    <3>1. job \in Jobs /\ Done
      BY <2>2 DEF CreateFinish, Typed, TypeOK
    <3>2. job'.op \notin DeleteOps
      BY <2>3, <3>1, Ended DEF DeleteOps, CastOps
    <3>3. \A i \in DOMAIN casts : casts[i].op = "_delete_storage" => casts[i].st # s
      BY <1>0, <2>1 DEF HandlersOK
    <3> QED BY <2>3, <2>6, <3>2, <3>3 DEF DeleteAhead
  <2>8. objs'[s] # "device"
    BY <1>0, <2>1, <2>3 DEF ObjectsOK, objVars
  <2> QED BY <2>5, <2>6, <2>7, <2>8
<1> QED BY <1>1, <1>2

LEMMA SurviveStep ==
  ASSUME Typed, Base, DevicesOK, Prompt, ObjectsSurvive, [Next]_vars
  PROVE  ObjectsSurvive'
<1> SUFFICES ASSUME NEW s \in Storages, objs'[s] = "device" PROVE s \in data'[rows'[s].dev]
  BY DEF ObjectsSurvive
<1>0. ObjectsOK /\ OwnedOK /\ Onward
  BY RowsStep DEF Base
<1>1. CASE StoreObject
  BY <1>1, StoredNow DEF ObjectsSurvive, ObjectsOK, ObjectsHaveStorage, Base, Typed, Exists
<1>2. CASE ~StoreObject
  <2> DEFINE d == rows[s].dev
  <2>1. objs[s] = "device"
    BY <1>2, StoredNow
  <2>2. Exists(s) /\ rows[s].initialized /\ rows'[s].dev = d /\ d \in Devices /\ s \in data[d]
    BY <1>0, <2>1 DEF ObjectsOK, ObjectsHaveStorage, Onward, Exists, Typed, ObjectsSurvive
  <2> HIDE DEF d
  <2>3. CASE UNCHANGED data
    BY <2>2, <2>3
  <2>4. ASSUME NEW i \in DOMAIN domQ, NEW o \in Outcomes(domQ[i]), HostBecomes(o.host)
        PROVE  s \in data'[d]
    <3>1. Keeps(domQ[i], o.host) /\ data' = o.host.data
      BY <2>4, OutcomeKeeps DEF HostBecomes
    <3>2. ~(d = domQ[i].dev /\ domQ[i].op = "delete_partition")
      BY <1>0, <2>2 DEF Prompt, OwnedOK, d
    <3>3. ~(d = domQ[i].dev /\ Formats(domQ[i]) /\ mnt[d] = {})
      BY <2>1, <2>2 DEF Danger, DevicesOK, DeviceSafe, d
    <3> QED BY <2>2, <3>1, <3>2, <3>3 DEF Keeps
  <2>5. CASE DomainExecute
    BY <2>2, <2>4, <2>5 DEF DomainExecute
  <2>6. CASE DomainCrash
    BY <2>2, <2>4, <2>6 DEF DomainCrash
  <2>7. ASSUME NEW t \in Storages, RemoveObjects(t) PROVE s \in data'[d]
    <3>1. t # s
      BY <2>7 DEF RemoveObjects, Typed, TypeOK
    <3> QED BY <2>2, <2>7, <3>1 DEF RemoveObjects
  <2> QED BY <1>2, <2>2, <2>3, <2>5, <2>6, <2>7, Frames DEF hostVars, HostReboot
<1> QED BY <1>1, <1>2

\* What was put on an initialized storage stays on its device, as long as no deletion of a
\* partition waits in the domain queue after its call has ended: whatever else times out,
\* is redelivered or restarts, what may still format the device of an available storage
\* comes when the device is mounted, or not at all.
THEOREM DataSurvive == Spec /\ []Prompt => []ObjectsSurvive
<1>1. Init => DataInv
  <2> SUFFICES ASSUME Init PROVE DevicesOK /\ ObjectsSurvive
    BY InitInv DEF DataInv
  <2>1. \A s \in Storages : ~Exists(s) /\ objs[s] = "none"
    BY DEF Init, NoRow, Exists, Nothing
  <2> QED BY <2>1 DEF DevicesOK, ObjectsSurvive
<1>2. DataInv /\ Prompt /\ [Next]_vars => DataInv'
  <2>1. DataInv /\ [Next]_vars => IInv'
    BY InvStep DEF DataInv
  <2>2. DataInv /\ [Next]_vars => DevicesOK'
    BY DevicesOKStep DEF DataInv, IInv
  <2>3. DataInv /\ Prompt /\ [Next]_vars => ObjectsSurvive'
    BY SurviveStep DEF DataInv, IInv
  <2> QED BY <2>1, <2>2, <2>3 DEF DataInv
<1>3. DataInv => ObjectsSurvive
  BY DEF DataInv
<1> QED BY <1>1, <1>2, <1>3, PTL DEF Spec
============================================================================
