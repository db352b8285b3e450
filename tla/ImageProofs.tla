----------------------------- MODULE ImageProofs -----------------------------
(***************************************************************************)
(* Proofs about ImageService, for any images, names and machines, and any  *)
(* number of attachments and faults: its types, that without failures the  *)
(* bytes of an upload reach the file of its image and no other's do, that  *)
(* an attached image keeps its file, and that a deleted image leaves none. *)
(* None is inductive: what becomes of a file is decided by who has the     *)
(* temporary file of its name, by the one handler that runs, by whose      *)
(* answer it awaits, and by what is behind that request in the domain's    *)
(* queue.                                                                  *)
(***************************************************************************)
EXTENDS ImageService, TLAPS

-----------------------------------------------------------------------------
(* The inductive invariant *)

\* Handlers run one at a time, and each at the steps of its code.
JobOK ==
  /\ job.pc = "idle" <=> job = NoJob
  /\ job.op = "none" <=> job = NoJob
  /\ job # NoJob => job.img \in Images /\ casts = <<>>
  /\ job.pc = "cast" => job.op \in {"upload_image", "delete_image"}
  /\ job.op \in {"upload_image", "delete_image"} => job.pc = "cast"
  /\ job.pc \in {"upload", "delete_from_tmp", "finish"} => job.op = "_create_image"
  /\ job.pc = "domain" => job.op \in {"_delete_image", "attach_image"}
  /\ job.pc \in {"start", "ack"} => job.op \in {"_create_image", "_delete_image"}
  /\ job.op = "attach_image" => job.pc = "domain" /\ job.vm \in VMs /\ rows[job.img].att[job.vm] < MaxAttach
  /\ job # NoJob => rows[job.img].status # "none"
  /\ job.pc \in {"upload", "delete_from_tmp", "finish", "domain"} => Exists(job.img)

\* A cast waits alone.
CastsOK ==
  /\ Len(casts) <= 1
  /\ \A k \in DOMAIN casts :
       /\ casts[k].op \in {"_create_image", "_delete_image"} /\ casts[k].pc = "start"
       /\ casts[k].img \in Images /\ rows[casts[k].img].status # "none"

\* A row is made when the upload handler is through, and has the name of the upload.
UploadsOK ==
  /\ \A i \in Images : rows[i].status # "none" => uploads[i].pc = "done" /\ rows[i].name = uploads[i].name
  /\ \A i \in Images : uploads[i].pc # "idle" => uploads[i].name \in Names
  /\ \A i \in Images : rows[i].status \in {"none", "new"} => rows[i].type = ""
  /\ \A i \in Images : rows[i].status = "none" => ~HasAttachment(i)

Waiting == job.pc \in {"upload", "delete_from_tmp", "domain"}
AskedFor ==
  CASE job.op = "_delete_image" -> "delete"
    [] job.op = "attach_image" -> "attach_image_info"
    [] OTHER -> job.pc

\* Requests are about images with a row; the one whose answer is awaited is the
\* handler's, and only questions of the monitoring come behind it.
DomainOK ==
  /\ \A k \in DOMAIN domQ :
       /\ rows[domQ[k].img].status # "none"
       /\ domQ[k].op \in {"upload", "delete"} => rows[domQ[k].img].type # "" /\ domQ[k].type # ""
       /\ domQ[k].owner = "mon" => domQ[k].op = "attach_image_info"
  /\ \A k \in DOMAIN domQ : domQ[k].owner = "svc" =>
       /\ Waiting /\ reply = "none" /\ domQ[k].img = job.img /\ domQ[k].op = AskedFor
       /\ \A m \in DOMAIN domQ : m > k => domQ[m].owner # "svc" /\ domQ[m].op = "attach_image_info"

\* An answer is there only for who waits for it, and then nothing of this image is
\* still to come.
AnswerOK ==
  /\ reply # "none" => Waiting
  /\ reply \in {"ok", "err"} => \A k \in DOMAIN domQ : domQ[k].op = "attach_image_info"
  /\ reply = "ok" /\ job.op = "_delete_image" => files[job.img] = {}
  /\ reply = "ok" /\ job.op = "attach_image" => files[job.img] # {}

\* What the monitoring has read is past its creation, or gone.
MonOK ==
  /\ \A i \in mon.todo \cup mon.good : rows[i].status \notin {"none", "new", "uploading"}
  /\ mon.pc = "asked" => mon.cur \in mon.todo

NothingMakes(i) == \A k \in DOMAIN domQ : ~(domQ[k].op = "upload" /\ domQ[k].img = i)
NothingRemoves(i) == \A k \in DOMAIN domQ : ~(domQ[k].op = "delete" /\ domQ[k].img = i)

FilesOK ==
  /\ \A i \in Images : rows[i].type = "" \/ rows[i].status = "deleted" => files[i] = {} /\ NothingMakes(i)
  /\ \A i \in Images : HasAttachment(i) => files[i] # {} /\ NothingRemoves(i) /\ ~BeingDeleted(i)

Creating(i) == rows[i].status \in {"new", "uploading"}

\* Two uploads that need the temporary file of one name are known as mixed, and who
\* has the file open is writing to it.
MixedOK ==
  /\ \A i, j \in Images : Pending(i) /\ Pending(j) /\ uploads[i].name = uploads[j].name =>
       i = j \/ (i \in mixed /\ j \in mixed)
  /\ \A n \in Names : \A i \in tmp[n].open : uploads[i].pc = "writing" /\ uploads[i].name = n

\* Without failures an image being created is in the hands of its handlers.
HandsOK ==
  faults = 0 =>
    /\ \A i \in Images : Creating(i) =>
         \/ job.op \in {"upload_image", "_create_image"} /\ job.img = i /\ job.pc # "ack"
         \/ \E k \in DOMAIN casts : casts[k].op = "_create_image" /\ casts[k].img = i
    /\ job.op = "upload_image" \/ At("_create_image", "start") => rows[job.img].status = "new"
    /\ job.pc = "upload" => rows[job.img].status = "uploading" /\ job.saw = "uploading"
    /\ job.pc \in {"delete_from_tmp", "finish"} => Creating(job.img) /\ job.saw \in {"new", "uploading"}
    /\ \A k \in DOMAIN casts : casts[k].op = "_create_image" => rows[casts[k].img].status = "new"
    /\ \A k \in DOMAIN domQ : domQ[k].owner # "none"

\* The upload still needs its bytes in the temporary file.
NeedsTmp(i) ==
  \/ uploads[i].pc = "written"
  \/ Creating(i) /\ ~(job.img = i /\ job.pc \in {"delete_from_tmp", "finish"})
\* The row is past its creation, and no deletion has been carried out.
Stored(i) ==
  /\ rows[i].type # ""
  /\ rows[i].status \in {"available", "error", "deleting"}
  /\ ~(At("_delete_image", "domain") /\ job.img = i /\ reply = "ok")

\* Without failures the bytes of an upload that is not mixed are where they should
\* be: in the temporary file,
TmpBytesOK ==
  faults = 0 => \A i \in Images \ mixed :
    /\ uploads[i].pc = "writing" => tmp[uploads[i].name] = [in |-> {i}, open |-> {i}]
    /\ NeedsTmp(i) => tmp[uploads[i].name] = [in |-> {i}, open |-> {}]

\* on the way to the image file,
JobBytesOK ==
  faults = 0 => \A i \in Images \ mixed : job.img = i =>
    /\ job.pc = "upload" => reply = "none" \/ (reply = "ok" /\ files[i] = {i})
    /\ job.pc = "delete_from_tmp" => rows[i].type = ""
    /\ job.pc = "finish" /\ rows[i].type # "" => files[i] = {i}

\* and in the image file.
StoredOK ==
  faults = 0 => \A i \in Images \ mixed : Stored(i) => files[i] = {i}

IInv ==
  /\ TypeOK /\ JobOK /\ CastsOK /\ UploadsOK /\ DomainOK /\ AnswerOK /\ MonOK /\ FilesOK
  /\ MixedOK /\ HandsOK /\ TmpBytesOK /\ JobBytesOK /\ StoredOK
-----------------------------------------------------------------------------
(* Sequences and types *)

LEMMA TailOf ==
  ASSUME NEW S, NEW q \in Seq(S), q # <<>>
  PROVE  /\ Tail(q) \in Seq(S) /\ Head(q) \in S /\ Head(q) = q[1] /\ 1 \in DOMAIN q
         /\ Len(Tail(q)) = Len(q) - 1 /\ Len(q) \in Nat \ {0}
         /\ \A k \in DOMAIN Tail(q) : k + 1 \in DOMAIN q /\ Tail(q)[k] = q[k + 1]
OBVIOUS

LEMMA AppendOf ==
  ASSUME NEW S, NEW q \in Seq(S), NEW m \in S
  PROVE  /\ Append(q, m) \in Seq(S) /\ Len(Append(q, m)) = Len(q) + 1
         /\ DOMAIN q = 1..Len(q) /\ Len(q) \in Nat
         /\ \A k \in DOMAIN Append(q, m) :
              (k \in DOMAIN q /\ Append(q, m)[k] = q[k]) \/ (k = Len(q) + 1 /\ Append(q, m)[k] = m)
         /\ \A k \in DOMAIN q : k \in DOMAIN Append(q, m) /\ Append(q, m)[k] = q[k]
         /\ Append(q, m)[Len(q) + 1] = m /\ Len(q) + 1 \in DOMAIN Append(q, m)
OBVIOUS

LEMMA OneElement ==
  ASSUME NEW S, NEW m \in S
  PROVE  /\ <<m>> \in Seq(S) /\ Len(<<m>>) = 1 /\ DOMAIN <<m>> = {1} /\ <<m>>[1] = m
         /\ Append(<<>>, m) = <<m>> /\ <<m>> \o <<>> = <<m>>
OBVIOUS

LEMMA EmptySequence == DOMAIN <<>> = {} /\ Len(<<>>) = 0 /\ Len(<<>>) <= 1
OBVIOUS

LEMMA DisownedOf ==
  ASSUME TypeOK, NEW owners
  PROVE  /\ Disowned(owners) \in Seq(Requests) /\ DOMAIN Disowned(owners) = DOMAIN domQ
         /\ \A k \in DOMAIN domQ :
              /\ Disowned(owners)[k].op = domQ[k].op /\ Disowned(owners)[k].img = domQ[k].img
              /\ Disowned(owners)[k].type = domQ[k].type
              /\ Disowned(owners)[k].owner = (IF domQ[k].owner \in owners THEN "none" ELSE domQ[k].owner)
<1>1. ASSUME NEW r \in Requests
      PROVE  /\ [r EXCEPT !.owner = "none"] \in Requests /\ [r EXCEPT !.owner = "none"].owner = "none"
             /\ [r EXCEPT !.owner = "none"].op = r.op
             /\ [r EXCEPT !.owner = "none"].img = r.img
             /\ [r EXCEPT !.owner = "none"].type = r.type
  BY DEF Requests
<1>2. domQ \in Seq(Requests) /\ \A k \in DOMAIN domQ : domQ[k] \in Requests
  BY DEF TypeOK
<1> DEFINE D == Disowned(owners)
<1>3. \A k \in DOMAIN domQ :
        D[k] = IF domQ[k].owner \in owners THEN [domQ[k] EXCEPT !.owner = "none"] ELSE domQ[k]
  BY DEF Disowned
<1>4. D \in [1..Len(domQ) -> Requests] /\ DOMAIN D = 1..Len(domQ) /\ Len(domQ) \in Nat
      /\ DOMAIN domQ = 1..Len(domQ)
  BY <1>1, <1>2 DEF Disowned
<1> HIDE DEF D
<1>5. D \in Seq(Requests)
  BY ONLY <1>4
<1>6. \A k \in DOMAIN domQ :
        /\ D[k].op = domQ[k].op /\ D[k].img = domQ[k].img /\ D[k].type = domQ[k].type
        /\ D[k].owner = (IF domQ[k].owner \in owners THEN "none" ELSE domQ[k].owner)
  BY <1>1, <1>2, <1>3
<1> QED BY <1>4, <1>5, <1>6 DEF D

LEMMA JobOf ==
  ASSUME NEW op \in {"upload_image", "_create_image", "delete_image", "_delete_image", "attach_image"},
         NEW i \in Images, NEW pc \in {"start", "cast", "domain"}
  PROVE  /\ Job(op, i, pc) \in Jobs /\ Job(op, i, pc).op = op /\ Job(op, i, pc).img = i
         /\ Job(op, i, pc).pc = pc /\ Job(op, i, pc) # NoJob
BY DEF Job, NoJob, Jobs

LEMMA NoTypes ==
  /\ NoJob \in Jobs /\ NoJob.op = "none" /\ NoJob.pc = "idle" /\ NoJob.img = NoImage
  /\ NoRow \in Rows /\ NoRow.status = "none" /\ NoRow.type = "" /\ \A v \in VMs : NoRow.att[v] = 0
  /\ IdleMonitor \in Monitors /\ IdleMonitor.pc = "idle"
  /\ IdleMonitor.todo = {} /\ IdleMonitor.good = {} /\ IdleMonitor.cur = NoImage
  /\ NoImage \notin Images
BY ImageAssumption
   DEF NoJob, Jobs, NoRow, Rows, Attachments, StorageTypes, ImageStatus, IdleMonitor, Monitors

LEMMA Elements ==
  ASSUME TypeOK
  PROVE  /\ \A k \in DOMAIN domQ : domQ[k] \in Requests /\ domQ[k].img \in Images
         /\ \A k \in DOMAIN casts : casts[k] \in Jobs
         /\ \A i \in Images : rows[i] \in Rows
         /\ \A i \in Images : uploads[i] \in Uploads
         /\ \A n \in Names : tmp[n] \in TmpFiles
<1>1. \A r \in Requests : r.img \in Images
  BY DEF Requests
<1> QED BY <1>1 DEF TypeOK

\* A job that goes on, or ends, is still about its image.
LEMMA StepOf ==
  ASSUME job \in Jobs
  PROVE  /\ \A pc \in {"upload", "delete_from_tmp", "finish", "domain", "ack"} :
              /\ [job EXCEPT !.pc = pc] \in Jobs /\ [job EXCEPT !.pc = pc].pc = pc
              /\ [job EXCEPT !.pc = pc].op = job.op /\ [job EXCEPT !.pc = pc].img = job.img
              /\ [job EXCEPT !.pc = pc].saw = job.saw /\ [job EXCEPT !.pc = pc].vm = job.vm
         /\ \A pc \in {"upload", "delete_from_tmp"}, s \in ImageStatus \cup {"none"} :
              /\ [job EXCEPT !.pc = pc, !.saw = s] \in Jobs /\ [job EXCEPT !.pc = pc, !.saw = s].pc = pc
              /\ [job EXCEPT !.pc = pc, !.saw = s].op = job.op
              /\ [job EXCEPT !.pc = pc, !.saw = s].img = job.img
              /\ [job EXCEPT !.pc = pc, !.saw = s].saw = s /\ [job EXCEPT !.pc = pc, !.saw = s].vm = job.vm
<1>1. ASSUME NEW pc \in {"upload", "delete_from_tmp", "finish", "domain", "ack"}
      PROVE  /\ [job EXCEPT !.pc = pc] \in Jobs /\ [job EXCEPT !.pc = pc].pc = pc
             /\ [job EXCEPT !.pc = pc].op = job.op /\ [job EXCEPT !.pc = pc].img = job.img
             /\ [job EXCEPT !.pc = pc].saw = job.saw /\ [job EXCEPT !.pc = pc].vm = job.vm
  BY <1>1 DEF Jobs
<1>2. ASSUME NEW pc \in {"upload", "delete_from_tmp"}, NEW s \in ImageStatus \cup {"none"}
      PROVE  /\ [job EXCEPT !.pc = pc, !.saw = s] \in Jobs /\ [job EXCEPT !.pc = pc, !.saw = s].pc = pc
             /\ [job EXCEPT !.pc = pc, !.saw = s].op = job.op
             /\ [job EXCEPT !.pc = pc, !.saw = s].img = job.img
             /\ [job EXCEPT !.pc = pc, !.saw = s].saw = s /\ [job EXCEPT !.pc = pc, !.saw = s].vm = job.vm
  <2> DEFINE k == [job EXCEPT !.pc = pc]
  <2>1. k \in Jobs /\ k.pc = pc /\ k.op = job.op /\ k.img = job.img /\ k.vm = job.vm
    BY <1>1, <1>2
  <2>2. [job EXCEPT !.pc = pc, !.saw = s] = [k EXCEPT !.saw = s]
    BY DEF Jobs
  <2> HIDE DEF k
  <2> QED BY <1>2, <2>1, <2>2 DEF Jobs
<1> QED BY <1>1, <1>2

\* The rows but for their status.
SameRows ==
  /\ rows' \in [Images -> Rows]
  /\ \A i \in Images : /\ rows'[i].status = "none" <=> rows[i].status = "none"
                       /\ rows'[i].name = rows[i].name /\ rows'[i].type = rows[i].type
                       /\ rows'[i].att = rows[i].att

LEMMA StatusSet ==
  ASSUME TypeOK, NEW i \in Images, Exists(i), NEW s \in ImageStatus \cup {"deleted"}, SetStatus(i, s)
  PROVE  /\ SameRows /\ rows'[i].status = s /\ s # "none"
         /\ \A j \in Images \ {i} : rows'[j] = rows[j]
<1>1. rows[i] \in Rows /\ rows \in [Images -> Rows] /\ s # "none"
  BY DEF TypeOK, ImageStatus
<1>2. PICK r \in Rows : r = rows[i]
  BY <1>1
<1>3. /\ [r EXCEPT !.status = s] \in Rows /\ [r EXCEPT !.status = s].status = s
      /\ [r EXCEPT !.status = s].name = r.name /\ [r EXCEPT !.status = s].type = r.type
      /\ [r EXCEPT !.status = s].att = r.att
  BY DEF Rows
<1>4. rows' = [rows EXCEPT ![i] = [r EXCEPT !.status = s]]
  BY <1>2 DEF SetStatus
<1> HIDE DEF SetStatus
<1>5. /\ rows' \in [Images -> Rows] /\ rows'[i] = [r EXCEPT !.status = s]
      /\ \A j \in Images \ {i} : rows'[j] = rows[j]
  BY <1>1, <1>3, <1>4
<1> QED BY <1>1, <1>2, <1>3, <1>5 DEF SameRows, Exists

\* A call goes to the end of the domain's queue.
LEMMA CallOf ==
  ASSUME TypeOK, NEW op \in {"upload", "delete", "delete_from_tmp", "attach_image_info"},
         NEW i \in Images, NEW type \in StorageTypes, NEW owner \in {"svc", "mon"}, Call(op, i, type, owner)
  PROVE  /\ domQ' \in Seq(Requests) /\ Len(domQ) \in Nat /\ DOMAIN domQ = 1..Len(domQ)
         /\ \A k \in DOMAIN domQ' : k \in 1..(Len(domQ) + 1)
         /\ \A k \in DOMAIN domQ' :
              \/ k \in DOMAIN domQ /\ domQ'[k] = domQ[k]
              \/ /\ k = Len(domQ) + 1 /\ domQ'[k].op = op /\ domQ'[k].img = i
                 /\ domQ'[k].type = type /\ domQ'[k].owner = owner
<1> DEFINE r == [op |-> op, img |-> i, type |-> type, owner |-> owner]
<1>1. r \in Requests /\ r.op = op /\ r.img = i /\ r.type = type /\ r.owner = owner
  BY DEF Requests
<1>2. domQ \in Seq(Requests) /\ domQ' = Append(domQ, r)
  BY DEF TypeOK, Call
<1> HIDE DEF r
<1> QED BY <1>1, <1>2, AppendOf

\* What is said of the files holds on when neither they nor the domain's queue change.
LEMMA FilesKept ==
  ASSUME FilesOK, files' = files, domQ' = domQ,
         \A i \in Images : /\ rows'[i].type = "" => rows[i].type = ""
                           /\ rows'[i].status = "deleted" => rows[i].status = "deleted"
                           /\ HasAttachment(i)' => HasAttachment(i)
                           /\ HasAttachment(i)' /\ ~BeingDeleted(i) => ~BeingDeleted(i)'
  PROVE  FilesOK'
<1>1. ASSUME NEW i \in Images, rows'[i].type = "" \/ rows'[i].status = "deleted"
      PROVE  files'[i] = {} /\ NothingMakes(i)'
  BY <1>1 DEF FilesOK, NothingMakes
<1>2. ASSUME NEW i \in Images, HasAttachment(i)'
      PROVE  files'[i] # {} /\ NothingRemoves(i)' /\ ~BeingDeleted(i)'
  BY <1>2 DEF FilesOK, NothingRemoves
<1> QED BY <1>1, <1>2 DEF FilesOK

\* Nor is anything else said of requests that stay as they are.
LEMMA DomainKept ==
  ASSUME DomainOK, domQ' = domQ,
         \A k \in DOMAIN domQ : domQ[k].owner # "svc" \/ (job' = job /\ reply' = reply),
         \A k \in DOMAIN domQ : /\ rows'[domQ[k].img].status # "none"
                                /\ rows[domQ[k].img].type # "" => rows'[domQ[k].img].type # ""
  PROVE  DomainOK'
<1>1. ASSUME NEW k \in DOMAIN domQ
      PROVE  /\ rows'[domQ'[k].img].status # "none"
             /\ domQ'[k].op \in {"upload", "delete"} => rows'[domQ'[k].img].type # "" /\ domQ'[k].type # ""
             /\ domQ'[k].owner = "mon" => domQ'[k].op = "attach_image_info"
  BY <1>1 DEF DomainOK
<1>2. ASSUME NEW k \in DOMAIN domQ, domQ[k].owner = "svc"
      PROVE  /\ Waiting' /\ reply' = "none" /\ domQ'[k].img = job'.img /\ domQ'[k].op = AskedFor'
             /\ \A m \in DOMAIN domQ' : m > k => domQ'[m].owner # "svc" /\ domQ'[m].op = "attach_image_info"
  BY <1>2 DEF DomainOK, Waiting, AskedFor
<1> QED BY <1>1, <1>2 DEF DomainOK

LEMMA DomainSame ==
  ASSUME DomainOK, domQ' = domQ, rows' = rows, job' = job, reply' = reply
  PROVE  DomainOK'
<1>1. ASSUME NEW k \in DOMAIN domQ
      PROVE  /\ rows'[domQ'[k].img].status # "none"
             /\ domQ'[k].op \in {"upload", "delete"} => rows'[domQ'[k].img].type # "" /\ domQ'[k].type # ""
             /\ domQ'[k].owner = "mon" => domQ'[k].op = "attach_image_info"
  BY <1>1 DEF DomainOK
<1>2. ASSUME NEW k \in DOMAIN domQ, domQ[k].owner = "svc"
      PROVE  /\ Waiting' /\ reply' = "none" /\ domQ'[k].img = job'.img /\ domQ'[k].op = AskedFor'
             /\ \A m \in DOMAIN domQ' : m > k => domQ'[m].owner # "svc" /\ domQ'[m].op = "attach_image_info"
  BY <1>2 DEF DomainOK, Waiting, AskedFor
<1> QED BY <1>1, <1>2 DEF DomainOK

\* An image that has a row keeps what is known of its upload and its attachments.
LEMMA UploadsKept ==
  ASSUME UploadsOK, uploads' = uploads, SameRows, NEW i \in Images,
         rows'[i].status \notin {"none", "new"},
         \A j \in Images \ {i} : rows'[j] = rows[j],
         \A j \in Images : HasAttachment(j)' => HasAttachment(j)
  PROVE  UploadsOK'
<1>1. \A j \in Images : /\ rows'[j].status = "none" <=> rows[j].status = "none"
                       /\ rows'[j].name = rows[j].name /\ rows'[j].type = rows[j].type
  BY DEF SameRows
<1>2. \A j \in Images : rows'[j].status # "none" => uploads'[j].pc = "done" /\ rows'[j].name = uploads'[j].name
  BY <1>1 DEF UploadsOK
<1>3. \A j \in Images : uploads'[j].pc # "idle" => uploads'[j].name \in Names
  BY DEF UploadsOK
<1>4. \A j \in Images : rows'[j].status \in {"none", "new"} => rows'[j].type = ""
  <2>1. \A j \in Images : rows[j].status \in {"none", "new"} => rows[j].type = ""
    BY DEF UploadsOK
  <2> QED BY <2>1
<1>5. \A j \in Images : rows'[j].status = "none" => ~HasAttachment(j)'
  <2>1. \A j \in Images : rows[j].status = "none" => ~HasAttachment(j)
    BY DEF UploadsOK
  <2> QED BY <1>1, <2>1
<1> QED BY <1>2, <1>3, <1>4, <1>5 DEF UploadsOK

LEMMA CallKeeps ==
  ASSUME TypeOK, NEW op \in {"upload", "delete", "delete_from_tmp", "attach_image_info"},
         NEW i \in Images, NEW type \in StorageTypes, NEW owner \in {"svc", "mon"}, Call(op, i, type, owner)
  PROVE  \A j \in Images : /\ NothingMakes(j) /\ (op # "upload" \/ j # i) => NothingMakes(j)'
                           /\ NothingRemoves(j) /\ (op # "delete" \/ j # i) => NothingRemoves(j)'
BY CallOf DEF NothingMakes, NothingRemoves

\* The handler calls, and waits.
LEMMA HandlerCalls ==
  ASSUME TypeOK, DomainOK, NEW op \in {"upload", "delete", "delete_from_tmp", "attach_image_info"},
         NEW i \in Images, NEW type \in StorageTypes, Call(op, i, type, "svc"),
         \A k \in DOMAIN domQ : domQ[k].owner # "svc",
         \A j \in Images : /\ rows[j].status # "none" => rows'[j].status # "none"
                           /\ rows[j].type # "" => rows'[j].type # "",
         rows'[i].status # "none", op \in {"upload", "delete"} => rows'[i].type # "" /\ type # "",
         Waiting', reply' = "none", job'.img = i, AskedFor' = op
  PROVE  DomainOK'
<1>1. /\ Len(domQ) \in Nat /\ DOMAIN domQ = 1..Len(domQ)
      /\ \A k \in DOMAIN domQ' :
           \/ k \in DOMAIN domQ /\ domQ'[k] = domQ[k]
           \/ /\ k = Len(domQ) + 1 /\ domQ'[k].op = op /\ domQ'[k].img = i
              /\ domQ'[k].type = type /\ domQ'[k].owner = "svc"
      /\ \A k \in DOMAIN domQ' : k \in 1..(Len(domQ) + 1)
  <2>1. op \in {"upload", "delete", "delete_from_tmp", "attach_image_info"} /\ "svc" \in {"svc", "mon"}
    OBVIOUS
  <2>2. i \in Images /\ type \in StorageTypes /\ TypeOK /\ Call(op, i, type, "svc")
    OBVIOUS
  <2> QED BY ONLY <2>1, <2>2, CallOf
<1>2. \A k \in DOMAIN domQ : domQ[k].img \in Images
  BY Elements
<1>3. ASSUME NEW k \in DOMAIN domQ'
      PROVE  /\ rows'[domQ'[k].img].status # "none"
             /\ domQ'[k].op \in {"upload", "delete"} => rows'[domQ'[k].img].type # "" /\ domQ'[k].type # ""
             /\ domQ'[k].owner = "mon" => domQ'[k].op = "attach_image_info"
  BY <1>1, <1>2, <1>3 DEF DomainOK
<1>4. ASSUME NEW k \in DOMAIN domQ', domQ'[k].owner = "svc"
      PROVE  /\ domQ'[k].img = job'.img /\ domQ'[k].op = op /\ k = Len(domQ) + 1
             /\ \A m \in DOMAIN domQ' : ~(m > k)
  <2>1. k = Len(domQ) + 1 /\ domQ'[k].op = op /\ domQ'[k].img = i
    BY <1>1, <1>4
  <2>2. \A m \in DOMAIN domQ' : ~(m > k)
    BY ONLY <1>1, <2>1
  <2> QED BY <2>1, <2>2
<1> QED BY <1>3, <1>4 DEF DomainOK

\* The monitoring asks.
LEMMA MonitorAsks ==
  ASSUME TypeOK, DomainOK, NEW i \in Images, NEW type \in StorageTypes,
         Call("attach_image_info", i, type, "mon"),
         rows' = rows, rows[i].status # "none", job' = job, reply' = reply
  PROVE  DomainOK'
<1>1. /\ Len(domQ) \in Nat /\ DOMAIN domQ = 1..Len(domQ)
      /\ \A k \in DOMAIN domQ' :
           \/ k \in DOMAIN domQ /\ domQ'[k] = domQ[k]
           \/ /\ k = Len(domQ) + 1 /\ domQ'[k].op = "attach_image_info" /\ domQ'[k].img = i
              /\ domQ'[k].type = type /\ domQ'[k].owner = "mon"
      /\ domQ' \in Seq(Requests)
  BY CallOf
<1>2. ASSUME NEW k \in DOMAIN domQ'
      PROVE  /\ rows'[domQ'[k].img].status # "none"
             /\ domQ'[k].op \in {"upload", "delete"} => rows'[domQ'[k].img].type # "" /\ domQ'[k].type # ""
             /\ domQ'[k].owner = "mon" => domQ'[k].op = "attach_image_info"
  BY <1>1, <1>2 DEF DomainOK
<1>3. ASSUME NEW k \in DOMAIN domQ', domQ'[k].owner = "svc"
      PROVE  /\ Waiting' /\ reply' = "none" /\ domQ'[k].img = job'.img /\ domQ'[k].op = AskedFor'
             /\ \A m \in DOMAIN domQ' : m > k => domQ'[m].owner # "svc" /\ domQ'[m].op = "attach_image_info"
  BY <1>1, <1>3 DEF DomainOK, Waiting, AskedFor
<1> QED BY <1>2, <1>3 DEF DomainOK

LEMMA CloseTmpGood ==
  ASSUME IInv, NEW i \in Images, CloseTmp(i)
  PROVE  IInv'
<1> USE DEF Exists, At, Done, apiVars, svcVars
<1>1. TypeOK /\ JobOK /\ CastsOK /\ UploadsOK /\ DomainOK /\ AnswerOK /\ MonOK /\ FilesOK /\ MixedOK
      /\ HandsOK /\ TmpBytesOK /\ JobBytesOK /\ StoredOK
  BY DEF IInv
<1>2. /\ uploads[i] \in Uploads /\ uploads[i].pc = "writing" /\ uploads[i].name \in Names
  BY <1>1 DEF TypeOK, CloseTmp, UploadsOK
<1>3. /\ uploads' \in [Images -> Uploads] /\ uploads'[i].pc = "written" /\ uploads'[i].name = uploads[i].name
      /\ \A j \in Images \ {i} : uploads'[j] = uploads[j]
  BY <1>1, <1>2 DEF TypeOK, CloseTmp, Uploads
<1> DEFINE n == uploads[i].name
<1>4. tmp \in [Names -> TmpFiles] /\ tmp[n] \in TmpFiles
      /\ \A t \in TmpFiles : t = [in |-> t.in, open |-> t.open]
  BY <1>1, <1>2 DEF TypeOK, TmpFiles
<1>5. i \in tmp[n].open => tmp' = [tmp EXCEPT ![n] = [in |-> tmp[n].in \cup {i}, open |-> tmp[n].open \ {i}]]
  BY <1>2, <1>4 DEF CloseTmp
<1>6. [in |-> tmp[n].in \cup {i}, open |-> tmp[n].open \ {i}] \in TmpFiles
  BY <1>4 DEF TmpFiles
<1>7. i \notin tmp[n].open => tmp' = tmp
  BY DEF CloseTmp
<1>a. n \in Names
  BY <1>2
<1> HIDE DEF n
<1>8. /\ tmp' \in [Names -> TmpFiles] /\ \A m \in Names \ {n} : tmp'[m] = tmp[m]
      /\ tmp'[n].in \subseteq tmp[n].in \cup {i} /\ tmp'[n].open = tmp[n].open \ {i}
      /\ tmp[n] = [in |-> {i}, open |-> {i}] => tmp'[n] = [in |-> {i}, open |-> {}]
  <2> DEFINE t == [in |-> tmp[n].in \cup {i}, open |-> tmp[n].open \ {i}]
  <2>1. t \in TmpFiles /\ t.in = tmp[n].in \cup {i} /\ t.open = tmp[n].open \ {i}
    BY <1>6
  <2>2. tmp[n] = [in |-> {i}, open |-> {i}] => t = [in |-> {i}, open |-> {}]
    OBVIOUS
  <2>3. i \in tmp[n].open => tmp' = [tmp EXCEPT ![n] = t]
    BY <1>5
  <2> HIDE DEF t
  <2>4. CASE i \in tmp[n].open
    BY <1>a, <1>4, <2>1, <2>2, <2>3, <2>4
  <2>5. CASE i \notin tmp[n].open
    BY <1>4, <1>7, <2>5
  <2> QED BY <2>4, <2>5
<1>9. TypeOK'
  BY <1>1, <1>2, <1>3, <1>4, <1>5, <1>6, <1>7, <1>8 DEF CloseTmp, TypeOK
<1>10. JobOK'
  BY <1>1, <1>2, <1>3, <1>4, <1>5, <1>6, <1>7, <1>8 DEF CloseTmp, JobOK
<1>11. CastsOK'
  BY <1>1, <1>2, <1>3, <1>4, <1>5, <1>6, <1>7, <1>8 DEF CloseTmp, CastsOK
<1>12. UploadsOK'
  BY <1>1, <1>2, <1>3, <1>4, <1>5, <1>6, <1>7, <1>8 DEF CloseTmp, UploadsOK, HasAttachment
<1>13. DomainOK'
  <2>1. domQ' = domQ /\ rows' = rows /\ job' = job /\ reply' = reply
    BY DEF CloseTmp
  <2> QED BY <1>1, <2>1, DomainSame
<1>14. AnswerOK'
  BY <1>1, <1>2, <1>3, <1>4, <1>5, <1>6, <1>7, <1>8 DEF CloseTmp, AnswerOK, Waiting
<1>15. MonOK'
  BY <1>1, <1>2, <1>3, <1>4, <1>5, <1>6, <1>7, <1>8 DEF CloseTmp, MonOK
<1>16. FilesOK'
  BY <1>1, <1>2, <1>3, <1>4, <1>5, <1>6, <1>7, <1>8, FilesKept DEF CloseTmp, HasAttachment, BeingDeleted
<1>17. MixedOK'
  BY <1>1, <1>2, <1>3, <1>4, <1>5, <1>6, <1>7, <1>8 DEF CloseTmp, MixedOK, Pending
<1>18. HandsOK'
  BY <1>1, <1>2, <1>3, <1>4, <1>5, <1>6, <1>7, <1>8 DEF CloseTmp, HandsOK, Creating
<1>19. TmpBytesOK'
  <2> SUFFICES ASSUME faults' = 0, NEW j \in Images \ mixed'
               PROVE  /\ uploads'[j].pc = "writing" => tmp'[uploads'[j].name] = [in |-> {j}, open |-> {j}]
                      /\ NeedsTmp(j)' => tmp'[uploads'[j].name] = [in |-> {j}, open |-> {}]
    BY DEF TmpBytesOK
  <2>1. /\ uploads[j].pc = "writing" => tmp[uploads[j].name] = [in |-> {j}, open |-> {j}]
        /\ NeedsTmp(j) => tmp[uploads[j].name] = [in |-> {j}, open |-> {}]
    BY <1>1 DEF TmpBytesOK, CloseTmp
  <2>2. rows[i].status = "none"
    BY <1>1, <1>2 DEF UploadsOK
  <2>3. CASE j = i
    BY <1>2, <1>3, <1>8, <2>1, <2>2, <2>3 DEF CloseTmp, NeedsTmp, Creating, n
  <2>4. CASE j # i
    <3>1. Pending(i) /\ (uploads[j].pc = "writing" \/ NeedsTmp(j) => Pending(j)) /\ mixed' = mixed
      BY <1>2 DEF Pending, NeedsTmp, Creating, CloseTmp
    <3>2. uploads[j].pc = "writing" \/ NeedsTmp(j) => uploads[j].name # n /\ uploads[j].name \in Names
      BY <1>1, <2>4, <3>1 DEF MixedOK, UploadsOK, n, NeedsTmp, Creating
    <3> QED BY <1>3, <1>8, <2>1, <2>4, <3>2 DEF NeedsTmp, Creating, CloseTmp
  <2> QED BY <2>3, <2>4
<1>20. JobBytesOK'
  BY <1>1, <1>2, <1>3, <1>4, <1>5, <1>6, <1>7, <1>8 DEF CloseTmp, JobBytesOK
<1>21. StoredOK'
  BY <1>1, <1>2, <1>3, <1>4, <1>5, <1>6, <1>7, <1>8 DEF CloseTmp, StoredOK, Stored
<1> QED BY <1>9, <1>10, <1>11, <1>12, <1>13, <1>14, <1>15, <1>16, <1>17, <1>18, <1>19, <1>20, <1>21 DEF IInv

LEMMA TakeCastGood ==
  ASSUME IInv, TakeCast
  PROVE  IInv'
<1> USE DEF Exists, At, Done, apiVars, svcVars
<1>1. TypeOK /\ JobOK /\ CastsOK /\ UploadsOK /\ DomainOK /\ AnswerOK /\ MonOK /\ FilesOK /\ MixedOK
      /\ HandsOK /\ TmpBytesOK /\ JobBytesOK /\ StoredOK
  BY DEF IInv
<1>2. /\ job' = casts[1] /\ 1 \in DOMAIN casts /\ casts' = <<>> /\ casts[1] \in Jobs
  BY <1>1, TailOf, Elements DEF TypeOK, TakeCast, CastsOK
<1>3. \A k \in DOMAIN casts : k = 1
  BY <1>1, <1>2 DEF TypeOK, CastsOK
<1>4. /\ job.pc = "idle" /\ job.op = "none" /\ job'.pc = "start"
      /\ job'.op \in {"_create_image", "_delete_image"} /\ rows[job'.img].status # "none"
      /\ job' # NoJob /\ job'.img \in Images
  BY <1>1, <1>2, NoTypes DEF TakeCast, CastsOK
<1>5. TypeOK'
  BY <1>1, <1>2, <1>3, <1>4 DEF TakeCast, TypeOK
<1>6. JobOK'
  BY <1>1, <1>2, <1>3, <1>4 DEF TakeCast, JobOK
<1>7. CastsOK'
  BY <1>1, <1>2, <1>3, <1>4 DEF TakeCast, CastsOK
<1>8. UploadsOK'
  BY <1>1, <1>2, <1>3, <1>4 DEF TakeCast, UploadsOK, HasAttachment
<1>9. DomainOK'
  BY <1>1, <1>2, <1>3, <1>4 DEF TakeCast, DomainOK, Waiting, AskedFor
<1>10. AnswerOK'
  BY <1>1, <1>2, <1>3, <1>4 DEF TakeCast, AnswerOK, Waiting
<1>11. MonOK'
  BY <1>1, <1>2, <1>3, <1>4 DEF TakeCast, MonOK
<1>12. FilesOK'
  <2>1. \A i \in Images : BeingDeleted(i)' => BeingDeleted(i)
    BY <1>2, <1>4 DEF BeingDeleted
  <2> QED BY <1>1, <2>1, FilesKept DEF TakeCast, HasAttachment
<1>13. MixedOK'
  BY <1>1, <1>2, <1>3, <1>4 DEF TakeCast, MixedOK, Pending
<1>14. HandsOK'
  BY <1>1, <1>2, <1>3, <1>4 DEF TakeCast, HandsOK, Creating
<1>15. TmpBytesOK'
  BY <1>1, <1>2, <1>3, <1>4 DEF TakeCast, TmpBytesOK, NeedsTmp, Creating
<1>16. JobBytesOK'
  BY <1>1, <1>2, <1>3, <1>4 DEF TakeCast, JobBytesOK
<1>17. StoredOK'
  BY <1>1, <1>2, <1>3, <1>4 DEF TakeCast, StoredOK, Stored
<1> QED BY <1>5, <1>6, <1>7, <1>8, <1>9, <1>10, <1>11, <1>12, <1>13, <1>14, <1>15, <1>16, <1>17 DEF IInv

LEMMA AckCastGood ==
  ASSUME IInv, AckCast
  PROVE  IInv'
<1> USE DEF Exists, At, Done, apiVars, svcVars
<1>1. TypeOK /\ JobOK /\ CastsOK /\ UploadsOK /\ DomainOK /\ AnswerOK /\ MonOK /\ FilesOK /\ MixedOK
      /\ HandsOK /\ TmpBytesOK /\ JobBytesOK /\ StoredOK
  BY DEF IInv
<1>2. job'.pc = "idle" /\ job'.op = "none" /\ job' \in Jobs /\ job'.img = NoImage /\ casts = <<>>
      /\ NoImage \notin Images
  BY <1>1, NoTypes DEF AckCast, JobOK
<1>3. TypeOK'
  BY <1>1, <1>2 DEF AckCast, TypeOK
<1>4. JobOK'
  BY <1>1, <1>2 DEF AckCast, JobOK
<1>5. CastsOK'
  BY <1>1, <1>2 DEF AckCast, CastsOK
<1>6. UploadsOK'
  BY <1>1, <1>2 DEF AckCast, UploadsOK, HasAttachment
<1>7. DomainOK'
  BY <1>1, <1>2 DEF AckCast, DomainOK, Waiting, AskedFor
<1>8. AnswerOK'
  BY <1>1, <1>2 DEF AckCast, AnswerOK, Waiting
<1>9. MonOK'
  BY <1>1, <1>2 DEF AckCast, MonOK
<1>10. FilesOK'
  BY <1>1, <1>2 DEF AckCast, FilesOK, HasAttachment, NothingMakes, NothingRemoves, BeingDeleted
<1>11. MixedOK'
  BY <1>1, <1>2 DEF AckCast, MixedOK, Pending
<1>12. HandsOK'
  BY <1>1, <1>2 DEF AckCast, HandsOK, Creating
<1>13. TmpBytesOK'
  BY <1>1, <1>2 DEF AckCast, TmpBytesOK, NeedsTmp, Creating
<1>14. JobBytesOK'
  BY <1>1, <1>2 DEF AckCast, JobBytesOK
<1>15. StoredOK'
  BY <1>1, <1>2 DEF AckCast, StoredOK, Stored
<1> QED BY <1>3, <1>4, <1>5, <1>6, <1>7, <1>8, <1>9, <1>10, <1>11, <1>12, <1>13, <1>14, <1>15 DEF IInv

LEMMA PublishCastGood ==
  ASSUME IInv, PublishCast
  PROVE  IInv'
<1> USE DEF Exists, At, Done, apiVars, svcVars
<1>1. TypeOK /\ JobOK /\ CastsOK /\ UploadsOK /\ DomainOK /\ AnswerOK /\ MonOK /\ FilesOK /\ MixedOK
      /\ HandsOK /\ TmpBytesOK /\ JobBytesOK /\ StoredOK
  BY DEF IInv
<1>2. /\ job # NoJob /\ job.pc = "cast" /\ casts = <<>> /\ job.op \in {"upload_image", "delete_image"}
      /\ job.img \in Images /\ rows[job.img].status # "none"
  BY <1>1, NoTypes DEF PublishCast, JobOK
<1> DEFINE c == Job(IF job.op = "upload_image" THEN "_create_image" ELSE "_delete_image", job.img, "start")
<1>3. /\ c \in Jobs /\ c.op = (IF job.op = "upload_image" THEN "_create_image" ELSE "_delete_image")
      /\ c.img = job.img /\ c.pc = "start"
  BY <1>2, JobOf
<1>4. casts' = Append(<<>>, c)
  BY <1>2 DEF PublishCast
<1> HIDE DEF c
<1>5. casts' \in Seq(Jobs) /\ Len(casts') = 1 /\ DOMAIN casts' = {1} /\ casts'[1] = c
  BY <1>3, <1>4, OneElement
<1>6. job'.pc = "idle" /\ job'.op = "none" /\ job' = NoJob /\ job' \in Jobs /\ job'.img = NoImage
      /\ NoImage \notin Images
  BY NoTypes DEF PublishCast
<1>7. TypeOK'
  BY <1>1, <1>2, <1>3, <1>4, <1>5, <1>6 DEF PublishCast, TypeOK
<1>8. JobOK'
  BY <1>1, <1>2, <1>3, <1>4, <1>5, <1>6 DEF PublishCast, JobOK
<1>9. CastsOK'
  BY <1>1, <1>2, <1>3, <1>4, <1>5, <1>6 DEF PublishCast, CastsOK
<1>10. UploadsOK'
  BY <1>1, <1>2, <1>3, <1>4, <1>5, <1>6 DEF PublishCast, UploadsOK, HasAttachment
<1>11. DomainOK'
  BY <1>1, <1>2, <1>3, <1>4, <1>5, <1>6 DEF PublishCast, DomainOK, Waiting, AskedFor
<1>12. AnswerOK'
  BY <1>1, <1>2, <1>3, <1>4, <1>5, <1>6 DEF PublishCast, AnswerOK, Waiting
<1>13. MonOK'
  BY <1>1, <1>2, <1>3, <1>4, <1>5, <1>6 DEF PublishCast, MonOK
<1>14. FilesOK'
  BY <1>1, <1>2, <1>3, <1>4, <1>5, <1>6 DEF PublishCast, FilesOK, HasAttachment, NothingMakes,
                                            NothingRemoves, BeingDeleted
<1>15. MixedOK'
  BY <1>1, <1>2, <1>3, <1>4, <1>5, <1>6 DEF PublishCast, MixedOK, Pending
<1>16. HandsOK'
  BY <1>1, <1>2, <1>3, <1>4, <1>5, <1>6 DEF PublishCast, HandsOK, Creating
<1>17. TmpBytesOK'
  BY <1>1, <1>2, <1>3, <1>4, <1>5, <1>6 DEF PublishCast, TmpBytesOK, NeedsTmp, Creating
<1>18. JobBytesOK'
  BY <1>1, <1>2, <1>3, <1>4, <1>5, <1>6 DEF PublishCast, JobBytesOK
<1>19. StoredOK'
  BY <1>1, <1>2, <1>3, <1>4, <1>5, <1>6 DEF PublishCast, StoredOK, Stored
<1> QED BY <1>7, <1>8, <1>9, <1>10, <1>11, <1>12, <1>13, <1>14, <1>15, <1>16, <1>17, <1>18, <1>19 DEF IInv
LEMMA UploadImageGood ==
  ASSUME IInv, NEW i \in Images, UploadImage(i)
  PROVE  IInv'
<1> USE DEF Exists, At, Done, apiVars, svcVars
<1>1. TypeOK /\ JobOK /\ CastsOK /\ UploadsOK /\ DomainOK /\ AnswerOK /\ MonOK /\ FilesOK /\ MixedOK
      /\ HandsOK /\ TmpBytesOK /\ JobBytesOK /\ StoredOK
  BY DEF IInv
<1>2. /\ files' = files /\ casts' = casts /\ reply' = reply /\ domQ' = domQ /\ mon' = mon
      /\ faults' = faults /\ mixed' = mixed
  BY DEF UploadImage
<1> DEFINE n == uploads[i].name
<1>3. /\ uploads[i] \in Uploads /\ uploads[i].pc = "written" /\ n \in Names /\ job = NoJob /\ job.pc = "idle"
      /\ job.op = "none" /\ casts = <<>> /\ job.img = NoImage /\ reply = "none" /\ NoImage \notin Images
  BY <1>1, NoTypes DEF TypeOK, UploadImage, Free, UploadsOK, AnswerOK, Waiting
<1>4. /\ uploads' \in [Images -> Uploads] /\ uploads'[i].pc = "done" /\ uploads'[i].name = uploads[i].name
      /\ \A j \in Images \ {i} : uploads'[j] = uploads[j]
  BY <1>1, <1>3 DEF TypeOK, UploadImage, Uploads
<1>5. /\ rows[i].status = "none" /\ files[i] = {} /\ NothingMakes(i) /\ rows[i].type = "" /\ ~HasAttachment(i)
      /\ i \notin mon.todo \cup mon.good /\ \A k \in DOMAIN domQ : domQ[k].img # i
  BY <1>1, <1>3 DEF UploadsOK, FilesOK, MonOK, DomainOK
<1>6. tmp' \in [Names -> TmpFiles] /\ tmp' \in {tmp, Unlinked(n)} /\ \A m \in Names \ {n} : tmp'[m] = tmp[m]
  <2>1. tmp' \in {tmp, Unlinked(n)}
    BY DEF UploadImage
  <2>2. NoFile \in TmpFiles /\ tmp \in [Names -> TmpFiles]
    BY <1>1 DEF TypeOK, NoFile, TmpFiles
  <2> QED BY <1>3, <2>1, <2>2 DEF Unlinked
<1>7. tmp'[n].open \subseteq tmp[n].open /\ \A m \in Names : tmp'[m].open \subseteq tmp[m].open
  BY <1>1, <1>3, <1>6 DEF TypeOK, Unlinked, NoFile, TmpFiles
<1>8. /\ rows' \in [Images -> Rows] /\ \A j \in Images \ {i} : rows'[j] = rows[j]
      /\ rows'[i].type = "" /\ ~HasAttachment(i)'
      /\ \/ rows' = rows /\ job' = job
         \/ /\ rows'[i].status = "new" /\ rows'[i].name = n /\ tmp' = tmp
            /\ job' = Job("upload_image", i, "cast")

  <2>1. CASE rows' = rows /\ job' = job
    BY <1>1, <1>5, <2>1 DEF TypeOK, HasAttachment
  <2>2. CASE /\ rows' = [rows EXCEPT ![i] = [NoRow EXCEPT !.status = "new", !.name = n]]
             /\ job' = Job("upload_image", i, "cast") /\ tmp' = tmp
    <3> DEFINE r == [NoRow EXCEPT !.status = "new", !.name = n]
    <3>1. r \in Rows /\ r.status = "new" /\ r.name = n /\ r.type = "" /\ \A v \in VMs : r.att[v] = 0
      BY <1>3, NoTypes DEF Rows, NoRow, ImageStatus
    <3> HIDE DEF r
    <3>2. rows' \in [Images -> Rows] /\ rows'[i] = r /\ \A j \in Images \ {i} : rows'[j] = rows[j]
      BY <1>1, <2>2, <3>1 DEF TypeOK, r
    <3> HIDE DEF n
    <3>3. ~HasAttachment(i)'
      <4>1. \A v \in VMs : rows'[i].att[v] = 0
        BY <3>1, <3>2
      <4> QED BY <4>1 DEF HasAttachment
    <3> QED BY <2>2, <3>1, <3>2, <3>3
  <2> QED BY <2>1, <2>2 DEF UploadImage
<1> HIDE DEF n
<1> DEFINE j0 == Job("upload_image", i, "cast")
<1>9. /\ j0 \in Jobs /\ j0.op = "upload_image" /\ j0.img = i /\ j0.pc = "cast" /\ j0 # NoJob
  BY JobOf
<1> HIDE DEF j0
<1>10. \/ rows' = rows /\ job' = job
      \/ /\ rows'[i].status = "new" /\ rows'[i].name = n /\ tmp' = tmp
         /\ job' = j0
  BY <1>8 DEF j0
<1>11. \A j \in Images : HasAttachment(j)' => HasAttachment(j) /\ j # i
  BY <1>5, <1>8 DEF HasAttachment
<1>12. \A j \in Images : BeingDeleted(j)' <=> BeingDeleted(j)
  BY <1>2, <1>3, <1>9, <1>10 DEF BeingDeleted
<1>13. TypeOK'
  BY <1>1, <1>2, <1>3, <1>4, <1>5, <1>6, <1>7, <1>8, <1>9, <1>10, <1>11, <1>12 DEF TypeOK
<1>14. JobOK'
  BY <1>1, <1>2, <1>3, <1>4, <1>5, <1>6, <1>7, <1>8, <1>9, <1>10, <1>11, <1>12 DEF JobOK
<1>15. CastsOK'
  BY <1>2, <1>3, EmptySequence DEF CastsOK
<1>16. UploadsOK'
  <2>1. \A j \in Images : rows'[j].status # "none" =>
            uploads'[j].pc = "done" /\ rows'[j].name = uploads'[j].name
    <3>1. \A j \in Images \ {i} : rows[j].status # "none" => uploads[j].pc = "done" /\ rows[j].name = uploads[j].name
      BY <1>1 DEF UploadsOK
    <3>2. rows'[i].status # "none" => rows'[i].name = n
      BY <1>5, <1>10
    <3>3. uploads'[i].name = n
      BY <1>4 DEF n
    <3> QED BY <1>4, <1>8, <3>1, <3>2, <3>3
  <2>2. \A j \in Images : uploads'[j].pc # "idle" => uploads'[j].name \in Names
    BY <1>1, <1>3, <1>4 DEF UploadsOK, n
  <2>3. \A j \in Images : rows'[j].status \in {"none", "new"} => rows'[j].type = ""
    BY <1>1, <1>8 DEF UploadsOK
  <2>4. \A j \in Images : rows'[j].status = "none" => ~HasAttachment(j)'
    <3>1. \A j \in Images \ {i} : rows[j].status = "none" => ~HasAttachment(j)
      BY <1>1 DEF UploadsOK
    <3> QED BY <1>8, <1>11, <3>1
  <2> QED BY <2>1, <2>2, <2>3, <2>4 DEF UploadsOK
<1>17. DomainOK'
  <2>1. \A k \in DOMAIN domQ : domQ[k].img \in Images \ {i}
    BY <1>1, <1>5, Elements
  <2> QED BY <1>1, <1>2, <1>3, <1>8, <2>1, DomainKept DEF DomainOK, Waiting
<1>18. AnswerOK'
  BY <1>1, <1>2, <1>3, <1>4, <1>5, <1>6, <1>7, <1>8, <1>9, <1>10, <1>11, <1>12 DEF AnswerOK, Waiting
<1>19. MonOK'
  <2>1. mon.todo \subseteq Images /\ mon.good \subseteq Images
    BY <1>1 DEF TypeOK, Monitors
  <2> QED BY <1>1, <1>2, <1>5, <1>8, <2>1 DEF MonOK
<1>20. FilesOK'
  BY <1>1, <1>2, <1>5, <1>8, <1>11, <1>12, FilesKept
<1>21. MixedOK'
  <2>1. \A j \in Images : /\ Pending(j)' => Pending(j)
                          /\ uploads'[j].name = uploads[j].name
                          /\ uploads[j].pc = "writing" => uploads'[j].pc = "writing"
    BY <1>3, <1>4, <1>8 DEF Pending
  <2>2. \A m \in Names : tmp[m].open \subseteq Images
    BY <1>1 DEF TypeOK, TmpFiles
  <2>3. \A m \in Names : \A j \in tmp'[m].open : uploads'[j].pc = "writing" /\ uploads'[j].name = m
    BY <1>1, <1>7, <2>1, <2>2 DEF MixedOK
  <2>4. \A j, k \in Images : Pending(j)' /\ Pending(k)' /\ uploads'[j].name = uploads'[k].name =>
          j = k \/ (j \in mixed' /\ k \in mixed')
    BY <1>1, <1>2, <2>1 DEF MixedOK
  <2> QED BY <2>3, <2>4 DEF MixedOK
<1>22. HandsOK'
  <2>1. CASE rows' = rows /\ job' = job
    BY <1>1, <1>2, <2>1 DEF HandsOK, Creating
  <2>2. CASE rows'[i].status = "new" /\ job' = j0
    <3>1. faults = 0 => \A j \in Images : ~Creating(j)
      BY <1>1, <1>3, EmptySequence DEF HandsOK
    <3>2. faults = 0 => \A k \in DOMAIN domQ : domQ[k].owner # "none"
      BY <1>1 DEF HandsOK
    <3> QED BY <1>2, <1>3, <1>8, <1>9, <2>2, <3>1, <3>2, EmptySequence DEF HandsOK, Creating
  <2> QED BY <1>10, <2>1, <2>2
<1>23. TmpBytesOK'
  <2> SUFFICES ASSUME faults' = 0, NEW j \in Images \ mixed'
               PROVE  /\ uploads'[j].pc = "writing" => tmp'[uploads'[j].name] = [in |-> {j}, open |-> {j}]
                      /\ NeedsTmp(j)' => tmp'[uploads'[j].name] = [in |-> {j}, open |-> {}]
    BY DEF TmpBytesOK
  <2>1. /\ uploads[j].pc = "writing" => tmp[uploads[j].name] = [in |-> {j}, open |-> {j}]
        /\ NeedsTmp(j) => tmp[uploads[j].name] = [in |-> {j}, open |-> {}]
    BY <1>1, <1>2 DEF TmpBytesOK
  <2>2. CASE j = i
    BY <1>3, <1>4, <1>5, <1>9, <1>10, <2>1, <2>2 DEF NeedsTmp, Creating, n
  <2>3. CASE j # i
    <3>1. NeedsTmp(j)' => NeedsTmp(j)
      <4>1. uploads'[j] = uploads[j] /\ rows'[j] = rows[j]
        BY <1>4, <1>8, <2>3
      <4>2. ~(job.img = j /\ job.pc \in {"delete_from_tmp", "finish"})
        BY <1>3
      <4> QED BY ONLY <4>1, <4>2 DEF NeedsTmp, Creating
    <3>2. Pending(i) /\ (uploads[j].pc = "writing" \/ NeedsTmp(j) => Pending(j)) /\ mixed' = mixed
      BY <1>2, <1>3 DEF Pending, NeedsTmp, Creating, n
    <3>3. uploads[j].pc = "writing" \/ NeedsTmp(j) => uploads[j].name # n /\ uploads[j].name \in Names
      BY <1>1, <2>3, <3>2 DEF MixedOK, UploadsOK, n, NeedsTmp, Creating
    <3> QED BY <1>4, <1>6, <2>1, <2>3, <3>1, <3>3
  <2> QED BY <2>2, <2>3
<1>24. JobBytesOK'
  BY <1>1, <1>2, <1>3, <1>4, <1>5, <1>6, <1>7, <1>8, <1>9, <1>10, <1>11, <1>12 DEF JobBytesOK
<1>25. StoredOK'
  <2>1. \A j \in Images : Stored(j)' => Stored(j)
    BY <1>3, <1>8, <1>9, <1>10 DEF Stored
  <2> QED BY <1>1, <1>2, <2>1 DEF StoredOK
<1> QED BY <1>13, <1>14, <1>15, <1>16, <1>17, <1>18, <1>19, <1>20, <1>21, <1>22, <1>23, <1>24, <1>25 DEF IInv

LEMMA OpenTmpGood ==
  ASSUME IInv, NEW i \in Images, NEW n \in Names, OpenTmp(i, n)
  PROVE  IInv'
<1> USE DEF Exists, At, Done, apiVars, svcVars
<1>1. TypeOK /\ JobOK /\ CastsOK /\ UploadsOK /\ DomainOK /\ AnswerOK /\ MonOK /\ FilesOK /\ MixedOK
      /\ HandsOK /\ TmpBytesOK /\ JobBytesOK /\ StoredOK
  BY DEF IInv
<1>2. /\ uploads[i].pc = "idle" /\ rows[i].status = "none" /\ ~Pending(i)
  BY <1>1 DEF OpenTmp, UploadsOK, Pending
<1>3. /\ uploads' \in [Images -> Uploads] /\ uploads'[i].pc = "writing" /\ uploads'[i].name = n
      /\ \A j \in Images \ {i} : uploads'[j] = uploads[j]
  BY <1>1, <1>2 DEF TypeOK, OpenTmp, Uploads
<1>4. tmp \in [Names -> TmpFiles] /\ tmp[n] \in TmpFiles /\ tmp[n].open \subseteq Images
  BY <1>1 DEF TypeOK, TmpFiles
<1> DEFINE t == [in |-> {i}, open |-> tmp[n].open \cup {i}]
<1>5. t \in TmpFiles /\ t.in = {i} /\ t.open = tmp[n].open \cup {i}
  BY <1>4 DEF TmpFiles
<1>6. tmp' = [tmp EXCEPT ![n] = t]
  BY DEF OpenTmp
<1>7. /\ tmp' \in [Names -> TmpFiles] /\ tmp'[n] = t /\ \A m \in Names \ {n} : tmp'[m] = tmp[m]
      /\ tmp[n].open = {} => tmp'[n] = [in |-> {i}, open |-> {i}]
  BY <1>4, <1>5, <1>6
<1> HIDE DEF t
<1>8. /\ mixed \subseteq mixed' /\ mixed' \subseteq Images
      /\ \A j \in Images \ {i} : Pending(j) /\ uploads[j].name = n => i \in mixed' /\ j \in mixed'
  BY <1>1 DEF OpenTmp, TypeOK
<1>9. \A j \in Images : Pending(j)' <=> Pending(j) \/ j = i
  BY <1>2, <1>3 DEF Pending, OpenTmp
<1>10. TypeOK'
  BY <1>1, <1>2, <1>3, <1>4, <1>5, <1>6, <1>7, <1>8, <1>9 DEF OpenTmp, TypeOK
<1>11. JobOK'
  BY <1>1, <1>2, <1>3, <1>4, <1>5, <1>6, <1>7, <1>8, <1>9 DEF OpenTmp, JobOK
<1>12. CastsOK'
  BY <1>1, <1>2, <1>3, <1>4, <1>5, <1>6, <1>7, <1>8, <1>9 DEF OpenTmp, CastsOK
<1>13. UploadsOK'
  <2>1. rows' = rows
    BY DEF OpenTmp
  <2>2. \A j \in Images : rows'[j].status # "none" =>
          uploads'[j].pc = "done" /\ rows'[j].name = uploads'[j].name
    BY <1>1, <1>2, <1>3, <2>1 DEF UploadsOK
  <2>3. \A j \in Images : uploads'[j].pc # "idle" => uploads'[j].name \in Names
    BY <1>1, <1>3 DEF UploadsOK
  <2>4. \A j \in Images : /\ rows'[j].status \in {"none", "new"} => rows'[j].type = ""
                          /\ rows'[j].status = "none" => ~HasAttachment(j)'
    BY <1>1, <2>1 DEF UploadsOK, HasAttachment
  <2> QED BY <2>2, <2>3, <2>4 DEF UploadsOK
<1>14. DomainOK'
  <2>1. domQ' = domQ /\ rows' = rows /\ job' = job /\ reply' = reply
    BY DEF OpenTmp
  <2> QED BY <1>1, <2>1, DomainSame
<1>15. AnswerOK'
  BY <1>1, <1>2, <1>3, <1>4, <1>5, <1>6, <1>7, <1>8, <1>9 DEF OpenTmp, AnswerOK, Waiting
<1>16. MonOK'
  BY <1>1, <1>2, <1>3, <1>4, <1>5, <1>6, <1>7, <1>8, <1>9 DEF OpenTmp, MonOK
<1>17. FilesOK'
  BY <1>1, <1>2, <1>3, <1>4, <1>5, <1>6, <1>7, <1>8, <1>9, FilesKept DEF OpenTmp, HasAttachment, BeingDeleted
<1>18. MixedOK'
  <2>1. \A j, k \in Images \ {i} : Pending(j)' /\ Pending(k)' /\ uploads'[j].name = uploads'[k].name =>
          j = k \/ (j \in mixed' /\ k \in mixed')
    BY <1>1, <1>3, <1>8, <1>9 DEF MixedOK
  <2>2. \A m \in Names : \A j \in tmp'[m].open : uploads'[j].pc = "writing" /\ uploads'[j].name = m
    <3> SUFFICES ASSUME NEW m \in Names, NEW j \in tmp'[m].open
                 PROVE  uploads'[j].pc = "writing" /\ uploads'[j].name = m
      OBVIOUS
    <3>1. j \in tmp[m].open \/ (m = n /\ j = i)
      BY <1>5, <1>7
    <3>2. tmp[m].open \subseteq Images
      BY <1>4 DEF TmpFiles
    <3> QED BY <1>1, <1>2, <1>3, <3>1, <3>2 DEF MixedOK
  <2> QED BY <1>3, <1>8, <1>9, <2>1, <2>2 DEF MixedOK
<1>19. HandsOK'
  BY <1>1, <1>2, <1>3, <1>4, <1>5, <1>6, <1>7, <1>8, <1>9 DEF OpenTmp, HandsOK, Creating
<1>20. TmpBytesOK'
  <2> SUFFICES ASSUME faults' = 0, NEW j \in Images \ mixed'
               PROVE  /\ uploads'[j].pc = "writing" => tmp'[uploads'[j].name] = [in |-> {j}, open |-> {j}]
                      /\ NeedsTmp(j)' => tmp'[uploads'[j].name] = [in |-> {j}, open |-> {}]
    BY DEF TmpBytesOK
  <2>1. j \notin mixed /\ faults = 0
    BY <1>8 DEF OpenTmp
  <2>2. /\ uploads[j].pc = "writing" => tmp[uploads[j].name] = [in |-> {j}, open |-> {j}]
        /\ NeedsTmp(j) => tmp[uploads[j].name] = [in |-> {j}, open |-> {}]
    BY <1>1, <2>1 DEF TmpBytesOK
  <2>3. CASE j = i
    <3>1. tmp[n].open = {}
      <4>1. \A k \in tmp[n].open : k \in Images /\ Pending(k) /\ uploads[k].name = n
        BY <1>1, <1>4 DEF MixedOK, Pending
      <4> QED BY <1>2, <1>8, <2>3, <4>1
    <3> QED BY <1>2, <1>3, <1>7, <2>3, <3>1 DEF NeedsTmp, Creating, OpenTmp
  <2>4. CASE j # i
    <3>1. NeedsTmp(j)' => NeedsTmp(j)
      BY <1>3, <2>4 DEF NeedsTmp, Creating, OpenTmp
    <3>2. uploads[j].pc = "writing" \/ NeedsTmp(j) => Pending(j)
      BY DEF Pending, NeedsTmp, Creating
    <3>3. uploads[j].pc = "writing" \/ NeedsTmp(j) => uploads[j].name # n /\ uploads[j].name \in Names
      BY <1>1, <1>8, <2>4, <3>2 DEF UploadsOK, NeedsTmp, Creating
    <3> QED BY <1>3, <1>7, <2>2, <2>4, <3>1, <3>3
  <2> QED BY <2>3, <2>4
<1>21. JobBytesOK'
  BY <1>1, <1>2, <1>3, <1>4, <1>5, <1>6, <1>7, <1>8, <1>9 DEF OpenTmp, JobBytesOK
<1>22. StoredOK'
  BY <1>1, <1>2, <1>3, <1>4, <1>5, <1>6, <1>7, <1>8, <1>9 DEF OpenTmp, StoredOK, Stored
<1> QED BY <1>10, <1>11, <1>12, <1>13, <1>14, <1>15, <1>16, <1>17, <1>18, <1>19, <1>20, <1>21, <1>22 DEF IInv
LEMMA DeleteImageGood ==
  ASSUME IInv, NEW i \in Images, DeleteImage(i)
  PROVE  IInv'
<1> USE DEF Exists, At, Done, apiVars, svcVars
<1>1. TypeOK /\ JobOK /\ CastsOK /\ UploadsOK /\ DomainOK /\ AnswerOK /\ MonOK /\ FilesOK /\ MixedOK
      /\ HandsOK /\ TmpBytesOK /\ JobBytesOK /\ StoredOK
  BY DEF IInv
<1>2. /\ tmp' = tmp /\ files' = files /\ casts' = casts /\ reply' = reply /\ domQ' = domQ /\ mon' = mon
      /\ faults' = faults /\ uploads' = uploads /\ mixed' = mixed
  BY DEF DeleteImage
<1>3. /\ job = NoJob /\ job.pc = "idle" /\ job.op = "none" /\ job.img = NoImage
      /\ NoImage \notin Images /\ casts = <<>> /\ reply = "none"
      /\ rows[i].status \notin {"none", "deleted"} /\ DOMAIN casts = {}
  BY <1>1, NoTypes, EmptySequence DEF DeleteImage, Free, JobOK, AnswerOK, Waiting
<1> DEFINE j0 == Job("delete_image", i, "cast")
<1>4. j0 \in Jobs /\ j0.op = "delete_image" /\ j0.img = i /\ j0.pc = "cast" /\ j0 # NoJob
  BY JobOf
<1>5. /\ SameRows /\ rows'[i].status \in {"deleting", "error"} /\ \A j \in Images \ {i} : rows'[j] = rows[j]
      /\ (rows'[i].status = "deleting" /\ job' = j0 /\ Deletable(i))
           \/ (rows'[i].status = "error" /\ job' = job)
  <2>1. CASE SetStatus(i, "deleting") /\ job' = j0 /\ Deletable(i)
    BY <1>1, <1>3, <2>1, StatusSet DEF ImageStatus
  <2>2. CASE SetStatus(i, "error") /\ job' = job
    BY <1>1, <1>3, <2>2, StatusSet DEF ImageStatus
  <2> QED BY <2>1, <2>2 DEF DeleteImage
<1> HIDE DEF j0
<1>6. \A j \in Images : (HasAttachment(j)' <=> HasAttachment(j)) /\ (HasAttachment(i) => job' = job)
  BY <1>5 DEF HasAttachment, SameRows, Deletable
<1>7. faults = 0 => \A j \in Images : ~Creating(j)
  BY <1>1, <1>3 DEF HandsOK
<1>8. \A j \in Images : HasAttachment(j) => (BeingDeleted(j)' <=> BeingDeleted(j))
  BY <1>2, <1>3, <1>4, <1>5, <1>6 DEF BeingDeleted
<1>9. TypeOK'
  BY <1>1, <1>2, <1>4, <1>5 DEF TypeOK, SameRows
<1>10. JobOK'
  BY <1>1, <1>2, <1>3, <1>4, <1>5 DEF JobOK, SameRows
<1>11. CastsOK'
  BY <1>2, <1>3, EmptySequence DEF CastsOK
<1>12. UploadsOK'
  BY <1>1, <1>2, <1>3, <1>5, <1>6, UploadsKept
<1>13. DomainOK'
  BY <1>1, <1>2, <1>3, <1>5, Elements, DomainKept DEF SameRows, DomainOK, Waiting
<1>14. AnswerOK'
  BY <1>1, <1>2, <1>3 DEF AnswerOK
<1>15. MonOK'
  <2>1. mon.todo \subseteq Images /\ mon.good \subseteq Images
    BY <1>1 DEF TypeOK, Monitors
  <2> QED BY <1>1, <1>2, <1>5, <2>1 DEF MonOK
<1>16. FilesOK'
  BY <1>1, <1>2, <1>5, <1>6, <1>8, FilesKept DEF SameRows
<1>17. MixedOK'
  BY <1>1, <1>2, <1>5 DEF MixedOK, Pending, SameRows
<1>18. HandsOK'
  <2>1. faults = 0 => \A k \in DOMAIN domQ : domQ[k].owner # "none"
    BY <1>1 DEF HandsOK
  <2>2. faults = 0 => \A j \in Images : ~Creating(j)'
    BY <1>5, <1>7 DEF Creating
  <2>3. job'.op \in {"none", "delete_image"} /\ job'.pc \in {"idle", "cast"}
    BY <1>3, <1>4, <1>5
  <2> QED BY <1>2, <1>3, <2>1, <2>2, <2>3 DEF HandsOK
<1>19. TmpBytesOK'
  <2>1. faults = 0 => \A j \in Images : NeedsTmp(j)' => NeedsTmp(j)
    BY <1>2, <1>5, <1>7 DEF NeedsTmp, Creating
  <2> QED BY <1>1, <1>2, <2>1 DEF TmpBytesOK
<1>20. JobBytesOK'
  <2>1. job'.pc \in {"idle", "cast"}
    BY <1>3, <1>4, <1>5
  <2> QED BY <2>1 DEF JobBytesOK
<1>21. StoredOK'
  <2>1. faults = 0 => \A j \in Images : Stored(j)' => Stored(j)
    <3>1. \A j \in Images : rows[j].status \in ImageStatus \cup {"none", "deleted"}
      BY <1>1, Elements DEF Rows
    <3>2. faults = 0 => rows[i].status \in {"available", "error", "deleting"}
      BY <1>3, <1>7, <3>1 DEF Creating, ImageStatus
    <3>3. \A j \in Images : rows'[j].type = rows[j].type
      BY <1>5 DEF SameRows
    <3> QED BY <1>3, <1>5, <3>2, <3>3 DEF Stored
  <2> QED BY <1>1, <1>2, <2>1 DEF StoredOK
<1> QED BY <1>9, <1>10, <1>11, <1>12, <1>13, <1>14, <1>15, <1>16, <1>17, <1>18, <1>19, <1>20, <1>21 DEF IInv

LEMMA CreateFinishGood ==
  ASSUME IInv, CreateFinish
  PROVE  IInv'
<1> USE DEF Exists, At, Done, apiVars, svcVars
<1>1. TypeOK /\ JobOK /\ CastsOK /\ UploadsOK /\ DomainOK /\ AnswerOK /\ MonOK /\ FilesOK /\ MixedOK
      /\ HandsOK /\ TmpBytesOK /\ JobBytesOK /\ StoredOK
  BY DEF IInv
<1>2. /\ uploads' = uploads /\ mixed' = mixed /\ files' = files /\ casts' = casts /\ reply' = reply
      /\ domQ' = domQ /\ mon' = mon /\ faults' = faults
  BY DEF CreateFinish
<1> DEFINE i == job.img
<1>3. /\ job \in Jobs /\ job.op = "_create_image" /\ job.pc = "finish" /\ job # NoJob /\ i \in Images
      /\ DOMAIN casts = {}
      /\ Exists(i) /\ reply = "none"
  BY <1>1, NoTypes, EmptySequence DEF CreateFinish, JobOK, TypeOK, AnswerOK, Waiting
<1>4. job' \in Jobs /\ job'.op = job.op /\ job'.pc = "ack" /\ job'.img = i /\ job' # NoJob
  BY <1>3, StepOf, NoTypes DEF CreateFinish, Ended
<1>5. /\ SameRows /\ ((rows' = rows /\ job.saw = "available") \/ rows'[i].status = "available")
      /\ \A j \in Images \ {i} : rows'[j] = rows[j]
  <2>1. CASE SetStatus(i, "available")
    BY <1>1, <1>3, <2>1, StatusSet DEF ImageStatus
  <2>2. CASE rows' = rows /\ job.saw = "available"
    BY <1>1, <2>2 DEF SameRows, TypeOK
  <2> QED BY <2>1, <2>2 DEF CreateFinish
<1> DEFINE n == rows[i].name
<1>6. n = uploads[i].name /\ n \in Names
  BY <1>1, <1>3 DEF UploadsOK
<1>7. /\ tmp' \in [Names -> TmpFiles] /\ \A m \in Names \ {n} : tmp'[m] = tmp[m]
      /\ \A m \in Names : tmp'[m].open \subseteq tmp[m].open
  <2>1. NoFile \in TmpFiles /\ tmp \in [Names -> TmpFiles] /\ NoFile.open = {}
    BY <1>1 DEF TypeOK, NoFile, TmpFiles
  <2>2. tmp' = [tmp EXCEPT ![n] = NoFile]
    BY DEF CreateFinish, Unlinked
  <2> QED BY <2>1, <2>2
<1>8. \A j \in Images : HasAttachment(j)' <=> HasAttachment(j)
  BY <1>5 DEF HasAttachment, SameRows
<1>9. \A j \in Images : BeingDeleted(j)' <=> BeingDeleted(j)
  BY <1>2, <1>3, <1>4 DEF BeingDeleted
<1>10. faults = 0 => /\ Creating(i) /\ job.saw # "available" /\ rows'[i].status = "available"
                    /\ \A j \in Images \ {i} : ~Creating(j)
  BY <1>1, <1>3, <1>5 DEF HandsOK
<1> HIDE DEF n
<1>11. TypeOK'
  BY <1>1, <1>2, <1>4, <1>5, <1>7 DEF TypeOK, SameRows
<1>12. JobOK'
  BY <1>1, <1>2, <1>3, <1>4, <1>5 DEF JobOK, SameRows
<1>13. CastsOK'
  BY <1>1, <1>2, <1>3, EmptySequence DEF CastsOK
<1>14. UploadsOK'
  <2>1. CASE rows' = rows
    BY <1>1, <1>2, <2>1 DEF UploadsOK, HasAttachment
  <2>2. CASE rows'[i].status = "available"
    BY <1>1, <1>2, <1>3, <1>5, <1>8, <2>2, UploadsKept
  <2> QED BY <1>5, <2>1, <2>2
<1>15. DomainOK'
  BY <1>1, <1>2, <1>3, <1>5, Elements, DomainKept DEF SameRows, DomainOK, Waiting
<1>16. AnswerOK'
  BY <1>2, <1>3 DEF AnswerOK
<1>17. MonOK'
  <2>1. mon.todo \subseteq Images /\ mon.good \subseteq Images
    BY <1>1 DEF TypeOK, Monitors
  <2> QED BY <1>1, <1>2, <1>5, <2>1 DEF MonOK
<1>18. FilesOK'
  BY <1>1, <1>2, <1>3, <1>5, <1>8, <1>9, FilesKept DEF SameRows
<1>19. MixedOK'
  <2>1. \A m \in Names : tmp[m].open \subseteq Images
    BY <1>1 DEF TypeOK, TmpFiles
  <2> QED BY <1>1, <1>2, <1>5, <1>7, <2>1 DEF MixedOK, Pending, SameRows
<1>20. HandsOK'
  <2>1. faults = 0 => \A k \in DOMAIN domQ : domQ[k].owner # "none"
    BY <1>1 DEF HandsOK
  <2>2. faults = 0 => \A j \in Images : ~Creating(j)'
    BY <1>5, <1>10 DEF Creating
  <2> QED BY <1>2, <1>3, <1>4, <2>1, <2>2 DEF HandsOK
<1>21. TmpBytesOK'
  <2> SUFFICES ASSUME faults' = 0, NEW j \in Images \ mixed'
               PROVE  /\ uploads'[j].pc = "writing" => tmp'[uploads'[j].name] = [in |-> {j}, open |-> {j}]
                      /\ NeedsTmp(j)' => tmp'[uploads'[j].name] = [in |-> {j}, open |-> {}]
    BY DEF TmpBytesOK
  <2>1. /\ uploads[j].pc = "writing" => tmp[uploads[j].name] = [in |-> {j}, open |-> {j}]
        /\ NeedsTmp(j) => tmp[uploads[j].name] = [in |-> {j}, open |-> {}]
    BY <1>1, <1>2 DEF TmpBytesOK
  <2>2. j = i => uploads[j].pc = "done" /\ ~NeedsTmp(j)'
    BY <1>1, <1>2, <1>3, <1>10 DEF NeedsTmp, Creating, UploadsOK
  <2>3. j # i /\ NeedsTmp(j)' => NeedsTmp(j)
    BY <1>2, <1>3, <1>5 DEF NeedsTmp, Creating
  <2>4. j # i /\ (uploads[j].pc = "writing" \/ NeedsTmp(j)) =>
            uploads[j].name # n /\ uploads[j].name \in Names
    <3>1. Pending(i) /\ (uploads[j].pc = "writing" \/ NeedsTmp(j) => Pending(j))
      BY <1>2, <1>10 DEF Pending, NeedsTmp, Creating
    <3>2. uploads[j].pc = "writing" \/ NeedsTmp(j) => uploads[j].pc # "idle"
      BY <1>1 DEF NeedsTmp, Creating, UploadsOK
    <3> QED BY <1>1, <1>2, <1>3, <1>6, <3>1, <3>2 DEF MixedOK, UploadsOK
  <2> QED BY <1>2, <1>7, <2>1, <2>2, <2>3, <2>4
<1>22. JobBytesOK'
  BY <1>4 DEF JobBytesOK
<1>23. StoredOK'
  <2> SUFFICES ASSUME faults' = 0, NEW j \in Images \ mixed', Stored(j)'
               PROVE  files'[j] = {j}
    BY DEF StoredOK
  <2>1. CASE j = i
    BY <1>1, <1>2, <1>3, <1>5, <2>1 DEF JobBytesOK, Stored, SameRows
  <2>2. CASE j # i
    BY <1>1, <1>2, <1>3, <1>5, <2>2 DEF StoredOK, Stored
  <2> QED BY <2>1, <2>2
<1> QED BY <1>11, <1>12, <1>13, <1>14, <1>15, <1>16, <1>17, <1>18, <1>19, <1>20, <1>21, <1>22, <1>23 DEF IInv
LEMMA AttachImageGood ==
  ASSUME IInv, NEW i \in Images, NEW v \in VMs, AttachImage(i, v)
  PROVE  IInv'
<1> USE DEF Exists, At, Done, apiVars, svcVars
<1>1. TypeOK /\ JobOK /\ CastsOK /\ UploadsOK /\ DomainOK /\ AnswerOK /\ MonOK /\ FilesOK /\ MixedOK
      /\ HandsOK /\ TmpBytesOK /\ JobBytesOK /\ StoredOK
  BY DEF IInv
<1>2. /\ uploads' = uploads /\ mixed' = mixed /\ tmp' = tmp /\ rows' = rows /\ files' = files
      /\ casts' = casts
      /\ reply' = reply /\ mon' = mon /\ faults' = faults
  BY DEF AttachImage
<1>3. /\ job = NoJob /\ job.pc = "idle" /\ job.op = "none" /\ job.img = NoImage /\ NoImage \notin Images
      /\ casts = <<>> /\ reply = "none" /\ DOMAIN casts = {} /\ rows[i].status = "available"
      /\ rows[i].att[v] < MaxAttach /\ rows[i].type \in StorageTypes
  BY <1>1, NoTypes, EmptySequence, Elements DEF AttachImage, Free, JobOK, AnswerOK, Waiting, Rows
<1> DEFINE j0 == Job("attach_image", i, "domain")
           j1 == [j0 EXCEPT !.vm = v]
<1>4. j0 \in Jobs /\ j0.op = "attach_image" /\ j0.img = i /\ j0.pc = "domain"
  BY JobOf
<1>5. job' = j1
  BY DEF AttachImage
<1> HIDE DEF j0
<1>6. /\ job' \in Jobs /\ job'.op = "attach_image" /\ job'.img = i /\ job'.pc = "domain" /\ job'.vm = v
      /\ job' # NoJob
  BY <1>4, <1>5, NoTypes DEF Jobs
<1> HIDE DEF j1
<1>7. Call("attach_image_info", i, rows[i].type, "svc") /\ \A k \in DOMAIN domQ : domQ[k].owner # "svc"
  BY <1>1, <1>3 DEF AttachImage, DomainOK, Waiting
<1>8. domQ' \in Seq(Requests)
  BY <1>1, <1>3, <1>7, CallOf
<1>9. \A j \in Images : ~BeingDeleted(j)'
  BY <1>2, <1>3, <1>6 DEF BeingDeleted
<1>10. Waiting' /\ AskedFor' = "attach_image_info"
  BY <1>6 DEF Waiting, AskedFor
<1>11. TypeOK'
  BY <1>1, <1>2, <1>6, <1>8 DEF TypeOK
<1>12. JobOK'
  BY <1>2, <1>3, <1>6 DEF JobOK
<1>13. CastsOK'
  BY <1>2, <1>3, EmptySequence DEF CastsOK
<1>14. UploadsOK'
  BY <1>1, <1>2 DEF UploadsOK, HasAttachment
<1>15. DomainOK'
  BY <1>1, <1>2, <1>3, <1>6, <1>7, <1>10, HandlerCalls
<1>16. AnswerOK'
  BY <1>2, <1>3 DEF AnswerOK
<1>17. MonOK'
  BY <1>1, <1>2 DEF MonOK
<1>18. FilesOK'
  <2>1. \A j \in Images : (NothingMakes(j) => NothingMakes(j)') /\ (NothingRemoves(j) => NothingRemoves(j)')
    BY <1>1, <1>3, <1>7, CallKeeps
  <2> QED BY <1>1, <1>2, <1>9, <2>1 DEF FilesOK, HasAttachment
<1>19. MixedOK'
  BY <1>1, <1>2 DEF MixedOK, Pending
<1>20. HandsOK'
  <2>1. faults = 0 => \A j \in Images : ~Creating(j)
    BY <1>1, <1>3 DEF HandsOK
  <2>2. faults = 0 => \A k \in DOMAIN domQ' : domQ'[k].owner # "none"
    BY <1>1, <1>3, <1>7, CallOf DEF HandsOK
  <2> QED BY <1>2, <1>3, <1>6, <2>1, <2>2 DEF HandsOK, Creating
<1>21. TmpBytesOK'
  BY <1>1, <1>2, <1>3, <1>6 DEF TmpBytesOK, NeedsTmp, Creating
<1>22. JobBytesOK'
  BY <1>6 DEF JobBytesOK
<1>23. StoredOK'
  BY <1>1, <1>2, <1>3, <1>6 DEF StoredOK, Stored
<1> QED BY <1>11, <1>12, <1>13, <1>14, <1>15, <1>16, <1>17, <1>18, <1>19, <1>20, <1>21, <1>22, <1>23 DEF IInv

LEMMA DetachImageGood ==
  ASSUME IInv, NEW i \in Images, NEW v \in VMs, DetachImage(i, v)
  PROVE  IInv'
<1> USE DEF Exists, At, Done, apiVars, svcVars
<1>1. TypeOK /\ JobOK /\ CastsOK /\ UploadsOK /\ DomainOK /\ AnswerOK /\ MonOK /\ FilesOK /\ MixedOK
      /\ HandsOK /\ TmpBytesOK /\ JobBytesOK /\ StoredOK
  BY DEF IInv
<1>2. /\ uploads' = uploads /\ mixed' = mixed /\ tmp' = tmp /\ files' = files /\ casts' = casts
      /\ reply' = reply /\ mon' = mon /\ faults' = faults /\ domQ' = domQ /\ job' = job
  BY DEF DetachImage
<1>3. /\ job = NoJob /\ job.pc = "idle" /\ job.op = "none" /\ casts = <<>> /\ reply = "none"
      /\ rows[i].status \notin {"none", "deleted"} /\ DOMAIN casts = {} /\ job.img = NoImage
      /\ NoImage \notin Images
  BY <1>1, NoTypes, EmptySequence DEF DetachImage, Free, JobOK, AnswerOK, Waiting
<1>4. /\ rows' \in [Images -> Rows] /\ \A j \in Images \ {i} : rows'[j] = rows[j]
      /\ rows'[i].type = rows[i].type /\ rows'[i].name = rows[i].name
      /\ rows'[i].status = rows[i].status \/ rows'[i].status = "error"
      /\ HasAttachment(i)' => HasAttachment(i)
  <2>1. CASE SetStatus(i, "error")
    BY <1>1, <1>3, <2>1, StatusSet DEF ImageStatus, SameRows, HasAttachment
  <2>2. CASE \E n \in Left(i, v) : rows' = [rows EXCEPT ![i].att[v] = n]
    <3>1. PICK n \in Left(i, v) : rows' = [rows EXCEPT ![i].att[v] = n]
      BY <2>2
    <3>2. PICK r \in Rows : r = rows[i]
      BY <1>1 DEF TypeOK
    <3>3. r.att \in [VMs -> 0..MaxAttach]
      BY DEF Rows, Attachments
    <3>4. r.att[v] \in 0..MaxAttach
      BY <3>3
    <3>5. n \in 0..(r.att[v] \div 2)
      BY <3>2, <3>4 DEF Left
    <3>6. n \in 0..MaxAttach /\ (n > 0 => r.att[v] > 0)
      BY <3>4, <3>5, ImageAssumption
    <3>7. [r.att EXCEPT ![v] = n] \in Attachments
      BY <3>3, <3>6 DEF Attachments
    <3> DEFINE q == [r EXCEPT !.att = [r.att EXCEPT ![v] = n]]
    <3>8. /\ q \in Rows /\ q.status = r.status /\ q.type = r.type /\ q.name = r.name
          /\ q.att = [r.att EXCEPT ![v] = n]
      BY <3>7 DEF Rows
    <3>9. rows' = [rows EXCEPT ![i] = q]
      BY <3>1, <3>2
    <3> HIDE DEF q
    <3>10. /\ rows' \in [Images -> Rows] /\ rows'[i] = q /\ \A j \in Images \ {i} : rows'[j] = rows[j]
      BY <1>1, <3>8, <3>9 DEF TypeOK
    <3>11. \A w \in VMs : rows'[i].att[w] > 0 => rows[i].att[w] > 0
      BY <3>2, <3>3, <3>6, <3>8, <3>10
    <3>12. HasAttachment(i)' => HasAttachment(i)
      BY <3>11 DEF HasAttachment
    <3> QED BY <3>2, <3>8, <3>10, <3>12
  <2> QED BY <2>1, <2>2 DEF DetachImage
<1>5. \A j \in Images : HasAttachment(j)' => HasAttachment(j)
  BY <1>4 DEF HasAttachment
<1>6. \A j \in Images : /\ rows'[j].type = rows[j].type /\ rows'[j].name = rows[j].name
                        /\ rows'[j].status = rows[j].status \/ rows'[j].status = "error"
                        /\ rows'[j].status = "none" <=> rows[j].status = "none"
  BY <1>3, <1>4
<1>7. faults = 0 => \A j \in Images : ~Creating(j)
  BY <1>1, <1>3 DEF HandsOK
<1>8. TypeOK'
  BY <1>1, <1>2, <1>4 DEF TypeOK
<1>9. JobOK'
  BY <1>1, <1>2, <1>3, NoTypes DEF JobOK
<1>10. CastsOK'
  BY <1>2, <1>3, EmptySequence DEF CastsOK
<1>11. UploadsOK'
  BY <1>1, <1>2, <1>3, <1>4, <1>5, <1>6 DEF UploadsOK
<1>12. DomainOK'
  BY <1>1, <1>2, <1>3, <1>6, Elements, DomainKept DEF DomainOK, Waiting
<1>13. AnswerOK'
  BY <1>2, <1>3 DEF AnswerOK
<1>14. MonOK'
  <2>1. mon.todo \subseteq Images /\ mon.good \subseteq Images
    BY <1>1 DEF TypeOK, Monitors
  <2> QED BY <1>1, <1>2, <1>6, <2>1 DEF MonOK
<1>15. FilesOK'
  BY <1>1, <1>2, <1>5, <1>6, FilesKept DEF BeingDeleted
<1>16. MixedOK'
  <2>1. \A j \in Images : Pending(j)' => Pending(j)
    BY <1>2, <1>6 DEF Pending
  <2> QED BY <1>1, <1>2, <2>1 DEF MixedOK
<1>17. HandsOK'
  <2>1. faults = 0 => \A k \in DOMAIN domQ : domQ[k].owner # "none"
    BY <1>1 DEF HandsOK
  <2>2. faults = 0 => \A j \in Images : ~Creating(j)'
    BY <1>6, <1>7 DEF Creating
  <2> QED BY <1>2, <1>3, <2>1, <2>2 DEF HandsOK
<1>18. TmpBytesOK'
  <2>1. faults = 0 => \A j \in Images : NeedsTmp(j)' => NeedsTmp(j)
    BY <1>2, <1>6, <1>7 DEF NeedsTmp, Creating
  <2> QED BY <1>1, <1>2, <2>1 DEF TmpBytesOK
<1>19. JobBytesOK'
  BY <1>2, <1>3 DEF JobBytesOK
<1>20. StoredOK'
  <2>1. faults = 0 => \A j \in Images : Stored(j)' => Stored(j)
    BY <1>1, <1>2, <1>3, <1>4, <1>6, <1>7 DEF Stored, Creating, TypeOK, Rows, ImageStatus
  <2> QED BY <1>1, <1>2, <2>1 DEF StoredOK
<1> QED BY <1>8, <1>9, <1>10, <1>11, <1>12, <1>13, <1>14, <1>15, <1>16, <1>17, <1>18, <1>19, <1>20 DEF IInv
\* The row and the job of an upload that begins.
Recorded(i, type) == rows' = [rows EXCEPT ![i].status = "uploading", ![i].type = type]
Goes(pc, saw) == job' = [job EXCEPT !.pc = pc, !.saw = saw]

LEMMA CreateAbsentGood ==
  ASSUME IInv, CreateStart, ~Exists(job.img)
  PROVE  IInv'
<1> USE DEF Exists, At, Done, apiVars, svcVars
<1>1. TypeOK /\ JobOK /\ CastsOK /\ UploadsOK /\ DomainOK /\ AnswerOK /\ MonOK /\ FilesOK /\ MixedOK
      /\ HandsOK /\ TmpBytesOK /\ JobBytesOK /\ StoredOK
  BY DEF IInv
<1>2. uploads' = uploads /\ mixed' = mixed /\ tmp' = tmp /\ files' = files /\ casts' = casts
      /\ reply' = reply /\ mon' = mon /\ faults' = faults
  BY DEF CreateStart
<1>3. /\ job \in Jobs /\ job # NoJob /\ job.op = "_create_image" /\ job.pc = "start" /\ job.img \in Images
      /\ casts = <<>> /\ DOMAIN casts = {} /\ rows[job.img].status # "none" /\ reply = "none"
  BY <1>1, NoTypes, EmptySequence DEF CreateStart, JobOK, TypeOK, AnswerOK, Waiting
<1>4. rows' = rows /\ domQ' = domQ /\ job' = [job EXCEPT !.pc = "ack"]
  BY <1>3 DEF CreateStart, Ended
<1>5. /\ job' \in Jobs /\ job'.op = job.op /\ job'.pc = "ack" /\ job'.img = job.img /\ job' # NoJob
  BY <1>3, <1>4, StepOf, NoTypes
<1>6. faults # 0
  BY <1>1, <1>3 DEF HandsOK
<1>7. TypeOK'
  BY <1>1, <1>2, <1>4, <1>5 DEF TypeOK
<1>8. JobOK'
  BY <1>1, <1>2, <1>3, <1>4, <1>5 DEF JobOK
<1>9. CastsOK'
  <2>1. casts' = <<>>
    BY <1>2, <1>3
  <2>2. DOMAIN casts' = {} /\ Len(casts') <= 1
    BY ONLY <2>1, EmptySequence
  <2> QED BY ONLY <2>2 DEF CastsOK
<1>10. UploadsOK'
  BY <1>1, <1>2, <1>4 DEF UploadsOK, HasAttachment
<1>11. DomainOK'
  BY <1>1, <1>2, <1>3, <1>4, DomainKept DEF DomainOK, Waiting
<1>12. AnswerOK'
  BY <1>2, <1>3 DEF AnswerOK
<1>13. MonOK'
  BY <1>1, <1>2, <1>4 DEF MonOK
<1>14. FilesOK'
  BY <1>1, <1>2, <1>3, <1>4, <1>5, FilesKept DEF HasAttachment, BeingDeleted
<1>15. MixedOK'
  BY <1>1, <1>2, <1>4 DEF MixedOK, Pending
<1>16. HandsOK'
  BY <1>2, <1>6 DEF HandsOK
<1>17. TmpBytesOK'
  BY <1>2, <1>6 DEF TmpBytesOK
<1>18. JobBytesOK'
  BY <1>2, <1>6 DEF JobBytesOK
<1>19. StoredOK'
  BY <1>2, <1>6 DEF StoredOK
<1> QED BY <1>7, <1>8, <1>9, <1>10, <1>11, <1>12, <1>13, <1>14, <1>15, <1>16, <1>17, <1>18, <1>19 DEF IInv

LEMMA CreateUploadsGood ==
  ASSUME IInv, CreateStart, NEW type \in StorageTypes \ {""},
         rows[job.img].status = "new",
         Recorded(job.img, type),
         Call("upload", job.img, type, "svc"), Goes("upload", "uploading")
  PROVE  IInv'
<1> USE DEF Exists, At, Done, apiVars, svcVars
<1>1. TypeOK /\ JobOK /\ CastsOK /\ UploadsOK /\ DomainOK /\ AnswerOK /\ MonOK /\ FilesOK /\ MixedOK
      /\ HandsOK /\ TmpBytesOK /\ JobBytesOK /\ StoredOK
  BY DEF IInv
<1>2. uploads' = uploads /\ mixed' = mixed /\ tmp' = tmp /\ files' = files /\ casts' = casts
      /\ reply' = reply /\ mon' = mon /\ faults' = faults
  BY DEF CreateStart
<1>3. /\ job \in Jobs /\ job # NoJob /\ job.op = "_create_image" /\ job.pc = "start" /\ job.img \in Images
      /\ casts = <<>> /\ DOMAIN casts = {} /\ rows[job.img].status # "none" /\ reply = "none"
  BY <1>1, NoTypes, EmptySequence DEF CreateStart, JobOK, TypeOK, AnswerOK, Waiting
<1> DEFINE i == job.img
<1>4. /\ job' \in Jobs /\ job'.op = job.op /\ job'.pc = "upload" /\ job'.img = job.img /\ job' # NoJob
      /\ job'.saw = "uploading"
  <2>1. /\ job' \in Jobs /\ job'.op = job.op /\ job'.img = job.img
        /\ job'.pc = "upload" /\ job'.saw = "uploading"
    BY <1>3, StepOf DEF ImageStatus, Goes
  <2>2. NoJob.pc = "idle"
    BY NoTypes
  <2> QED BY <2>1, <2>2
<1>5. /\ rows' \in [Images -> Rows] /\ \A j \in Images \ {i} : rows'[j] = rows[j]
      /\ rows'[i].type = type /\ rows'[i].name = rows[i].name /\ rows'[i].att = rows[i].att
      /\ rows'[i].status = "uploading"
  <2>1. rows[i] \in Rows /\ rows \in [Images -> Rows]
    BY <1>1, <1>3 DEF TypeOK
  <2>2. PICK r \in Rows : r = rows[i]
    BY <2>1
  <2> DEFINE q == [r EXCEPT !.status = "uploading", !.type = type]
  <2>3. /\ q \in Rows /\ q.status = "uploading" /\ q.type = type
        /\ q.name = r.name /\ q.att = r.att
    BY DEF Rows, ImageStatus
  <2>4. rows' = [rows EXCEPT ![i] = q]
    BY <2>2 DEF Recorded
  <2> HIDE DEF q
  <2> QED BY <1>3, <2>1, <2>2, <2>3, <2>4
<1>6. \A k \in DOMAIN domQ : domQ[k].owner # "svc"
  BY <1>1, <1>3 DEF DomainOK, Waiting
<1>7. rows[i].type = "" /\ files[i] = {} /\ ~HasAttachment(i) /\ i \notin mon.todo \cup mon.good
  <2>1. rows[i].type = "" /\ files[i] = {} /\ i \notin mon.todo \cup mon.good
    BY <1>1, <1>3 DEF UploadsOK, FilesOK, MonOK
  <2> QED BY <1>1, <1>3, <2>1 DEF FilesOK
<1>8. \A j \in Images : HasAttachment(j)' <=> HasAttachment(j)
  BY <1>5 DEF HasAttachment
<1>9. \A j \in Images : BeingDeleted(j)' <=> BeingDeleted(j)
  BY <1>2, <1>3, <1>4 DEF BeingDeleted
<1>10. domQ' \in Seq(Requests)
  BY <1>1, <1>3, CallOf
<1>11. \A j \in Images :
         (NothingMakes(j) /\ j # i => NothingMakes(j)') /\ (NothingRemoves(j) => NothingRemoves(j)')
  BY <1>1, <1>3, CallKeeps
<1>12. Waiting' /\ AskedFor' = "upload"
  BY <1>3, <1>4 DEF Waiting, AskedFor
<1>13. TypeOK'
  BY <1>1, <1>2, <1>4, <1>5, <1>10 DEF TypeOK
<1>14. JobOK'
  BY <1>1, <1>2, <1>3, <1>4, <1>5 DEF JobOK
<1>15. CastsOK'
  <2>1. casts' = <<>>
    BY <1>2, <1>3
  <2>2. DOMAIN casts' = {} /\ Len(casts') <= 1
    BY ONLY <2>1, EmptySequence
  <2> QED BY ONLY <2>2 DEF CastsOK
<1>16. UploadsOK'
  BY <1>1, <1>2, <1>3, <1>5, <1>8 DEF UploadsOK
<1>17. DomainOK'
  <2>1. \A j \in Images : /\ rows[j].status # "none" => rows'[j].status # "none"
                         /\ rows[j].type # "" => rows'[j].type # ""
    BY <1>5
  <2> QED BY <1>1, <1>2, <1>3, <1>4, <1>5, <1>6, <1>12, <2>1, HandlerCalls
<1>18. AnswerOK'
  BY <1>2, <1>3 DEF AnswerOK
<1>19. MonOK'
  <2>1. mon.todo \subseteq Images /\ mon.good \subseteq Images
    BY <1>1 DEF TypeOK, Monitors
  <2> QED BY <1>1, <1>2, <1>3, <1>5, <1>7, <2>1 DEF MonOK
<1>20. FilesOK'
  BY <1>1, <1>2, <1>3, <1>5, <1>7, <1>8, <1>9, <1>11 DEF FilesOK
<1>21. MixedOK'
  <2>1. \A j \in Images : Pending(j)' <=> Pending(j)
    BY <1>2, <1>3, <1>5 DEF Pending
  <2> QED BY <1>1, <1>2, <2>1 DEF MixedOK
<1>22. HandsOK'
  <2>1. faults = 0 => \A k \in DOMAIN domQ' : domQ'[k].owner # "none"
    <3>1. \A k \in DOMAIN domQ' : (k \in DOMAIN domQ /\ domQ'[k] = domQ[k]) \/ domQ'[k].owner = "svc"
      BY <1>1, <1>3, CallOf
    <3>2. faults = 0 => \A k \in DOMAIN domQ : domQ[k].owner # "none"
      BY <1>1 DEF HandsOK
    <3> QED BY <3>1, <3>2
  <2>2. faults = 0 => \A j \in Images \ {i} : ~Creating(j)
    BY <1>1, <1>3 DEF HandsOK
  <2> QED BY <1>2, <1>3, <1>4, <1>5, <2>1, <2>2 DEF HandsOK, Creating
<1>23. TmpBytesOK'
  <2>1. \A j \in Images : NeedsTmp(j)' => NeedsTmp(j)
    BY <1>2, <1>3, <1>4, <1>5 DEF NeedsTmp, Creating
  <2> QED BY <1>1, <1>2, <2>1 DEF TmpBytesOK
<1>24. JobBytesOK'
  BY <1>2, <1>3, <1>4 DEF JobBytesOK
<1>25. StoredOK'
  <2>1. \A j \in Images : Stored(j)' => Stored(j)
    BY <1>2, <1>3, <1>4, <1>5 DEF Stored
  <2> QED BY <1>1, <1>2, <2>1 DEF StoredOK
<1> QED BY <1>13, <1>14, <1>15, <1>16, <1>17, <1>18, <1>19, <1>20, <1>21, <1>22, <1>23, <1>24, <1>25 DEF IInv

LEMMA CreateRefusesGood ==
  ASSUME IInv, CreateStart, Exists(job.img), rows' = rows,
         Call("delete_from_tmp", job.img, rows[job.img].type, "svc"),
         Goes("delete_from_tmp", rows[job.img].status)
  PROVE  IInv'
<1> USE DEF Exists, At, Done, apiVars, svcVars
<1>1. TypeOK /\ JobOK /\ CastsOK /\ UploadsOK /\ DomainOK /\ AnswerOK /\ MonOK /\ FilesOK /\ MixedOK
      /\ HandsOK /\ TmpBytesOK /\ JobBytesOK /\ StoredOK
  BY DEF IInv
<1>2. uploads' = uploads /\ mixed' = mixed /\ tmp' = tmp /\ files' = files /\ casts' = casts
      /\ reply' = reply /\ mon' = mon /\ faults' = faults
  BY DEF CreateStart
<1>3. /\ job \in Jobs /\ job # NoJob /\ job.op = "_create_image" /\ job.pc = "start" /\ job.img \in Images
      /\ casts = <<>> /\ DOMAIN casts = {} /\ rows[job.img].status # "none" /\ reply = "none"
      /\ rows[job.img].status \in ImageStatus /\ rows[job.img].type \in StorageTypes
  BY <1>1, NoTypes, EmptySequence DEF CreateStart, JobOK, TypeOK, AnswerOK, Waiting, Rows
<1> DEFINE i == job.img
<1>4. /\ job' \in Jobs /\ job'.op = job.op /\ job'.pc = "delete_from_tmp" /\ job'.img = job.img
      /\ job' # NoJob /\ job'.saw = rows[i].status
  <2>1. /\ job' \in Jobs /\ job'.op = job.op /\ job'.img = job.img
        /\ job'.pc = "delete_from_tmp" /\ job'.saw = rows[i].status
    BY <1>3, StepOf DEF ImageStatus, Goes
  <2>2. NoJob.pc = "idle"
    BY NoTypes
  <2> QED BY <2>1, <2>2
<1>5. \A k \in DOMAIN domQ : domQ[k].owner # "svc"
  BY <1>1, <1>3 DEF DomainOK, Waiting
<1>6. domQ' \in Seq(Requests)
  BY <1>1, <1>3, CallOf
<1>7. \A j \in Images : (NothingMakes(j) => NothingMakes(j)') /\ (NothingRemoves(j) => NothingRemoves(j)')
  BY <1>1, <1>3, CallKeeps
<1>8. Waiting' /\ AskedFor' = "delete_from_tmp"
  BY <1>3, <1>4 DEF Waiting, AskedFor
<1>9. \A j \in Images : (BeingDeleted(j)' <=> BeingDeleted(j)) /\ (HasAttachment(j)' <=> HasAttachment(j))
  BY <1>2, <1>3, <1>4 DEF BeingDeleted, HasAttachment
<1>10. TypeOK'
  BY <1>1, <1>2, <1>4, <1>6 DEF TypeOK
<1>11. JobOK'
  BY <1>1, <1>2, <1>3, <1>4 DEF JobOK
<1>12. CastsOK'
  <2>1. casts' = <<>>
    BY <1>2, <1>3
  <2>2. DOMAIN casts' = {} /\ Len(casts') <= 1
    BY ONLY <2>1, EmptySequence
  <2> QED BY ONLY <2>2 DEF CastsOK
<1>13. UploadsOK'
  BY <1>1, <1>2, <1>9 DEF UploadsOK
<1>14. DomainOK'
  BY <1>1, <1>2, <1>3, <1>4, <1>5, <1>8, HandlerCalls
<1>15. AnswerOK'
  BY <1>2, <1>3 DEF AnswerOK
<1>16. MonOK'
  BY <1>1, <1>2 DEF MonOK
<1>17. FilesOK'
  BY <1>1, <1>2, <1>7, <1>9 DEF FilesOK
<1>18. MixedOK'
  BY <1>1, <1>2 DEF MixedOK, Pending
<1>19. HandsOK'
  <2>1. faults = 0 => \A k \in DOMAIN domQ' : domQ'[k].owner # "none"
    <3>1. \A k \in DOMAIN domQ' : (k \in DOMAIN domQ /\ domQ'[k] = domQ[k]) \/ domQ'[k].owner = "svc"
      BY <1>1, <1>3, CallOf
    <3>2. faults = 0 => \A k \in DOMAIN domQ : domQ[k].owner # "none"
      BY <1>1 DEF HandsOK
    <3> QED BY <3>1, <3>2
  <2>2. faults = 0 => rows[i].status = "new" /\ \A j \in Images \ {i} : ~Creating(j)
    BY <1>1, <1>3 DEF HandsOK
  <2> QED BY <1>2, <1>3, <1>4, <2>1, <2>2 DEF HandsOK, Creating
<1>20. TmpBytesOK'
  BY <1>1, <1>2, <1>3, <1>4 DEF TmpBytesOK, NeedsTmp, Creating
<1>21. JobBytesOK'
  <2>1. faults = 0 => rows[i].type = ""
    BY <1>1, <1>3 DEF HandsOK, UploadsOK
  <2> QED BY <1>2, <1>3, <1>4, <2>1 DEF JobBytesOK
<1>22. StoredOK'
  BY <1>1, <1>2, <1>3, <1>4 DEF StoredOK, Stored
<1> QED BY <1>10, <1>11, <1>12, <1>13, <1>14, <1>15, <1>16, <1>17, <1>18, <1>19, <1>20, <1>21, <1>22 DEF IInv

LEMMA CreateStartGood ==
  ASSUME IInv, CreateStart
  PROVE  IInv'
<1>1. CASE ~Exists(job.img)
  BY <1>1, CreateAbsentGood
<1>2. CASE Exists(job.img)
  BY <1>2, CreateUploadsGood, CreateRefusesGood DEF CreateStart, Recorded, Goes
<1> QED BY <1>1, <1>2
LEMMA CreateUploadedOkGood ==
  ASSUME IInv, CreateUploaded, reply = "ok"
  PROVE  IInv'
<1> USE DEF Exists, At, Done, apiVars, svcVars
<1>1. TypeOK /\ JobOK /\ CastsOK /\ UploadsOK /\ DomainOK /\ AnswerOK /\ MonOK /\ FilesOK /\ MixedOK
      /\ HandsOK /\ TmpBytesOK /\ JobBytesOK /\ StoredOK
  BY DEF IInv
<1>2. uploads' = uploads /\ mixed' = mixed /\ tmp' = tmp /\ rows' = rows /\ files' = files
      /\ casts' = casts /\ mon' = mon /\ faults' = faults
  BY DEF CreateUploaded
<1>3. /\ job \in Jobs /\ job # NoJob /\ job.op = "_create_image" /\ job.pc = "upload" /\ job.img \in Images
      /\ casts = <<>> /\ DOMAIN casts = {} /\ rows[job.img].status # "none" /\ Exists(job.img)
  BY <1>1, NoTypes, EmptySequence DEF CreateUploaded, JobOK, TypeOK, AnswerOK, Waiting
<1>4. reply' = "none" /\ domQ' = domQ /\ job' = [job EXCEPT !.pc = "finish"]
  BY DEF CreateUploaded
<1>5. /\ job' \in Jobs /\ job'.op = job.op /\ job'.pc = "finish" /\ job'.img = job.img /\ job' # NoJob
      /\ job'.saw = job.saw
  <2>1. /\ job' \in Jobs /\ job'.op = job.op /\ job'.img = job.img /\ job'.pc = "finish"
        /\ job'.saw = job.saw
    BY <1>3, <1>4, StepOf
  <2>2. NoJob.pc = "idle"
    BY NoTypes
  <2> QED BY <2>1, <2>2
<1>6. \A j \in Images : (BeingDeleted(j)' <=> BeingDeleted(j)) /\ (HasAttachment(j)' <=> HasAttachment(j))
  BY <1>2, <1>3, <1>5 DEF BeingDeleted, HasAttachment
<1>7. TypeOK'
  BY <1>1, <1>2, <1>4, <1>5 DEF TypeOK
<1>8. JobOK'
  BY <1>1, <1>2, <1>3, <1>5 DEF JobOK
<1>9. CastsOK'
  <2>1. casts' = <<>>
    BY <1>2, <1>3
  <2>2. DOMAIN casts' = {} /\ Len(casts') <= 1
    BY ONLY <2>1, EmptySequence
  <2> QED BY ONLY <2>2 DEF CastsOK
<1>10. UploadsOK'
  BY <1>1, <1>2, <1>6 DEF UploadsOK
<1>11. DomainOK'
  BY <1>1, <1>2, <1>4, DomainKept DEF DomainOK
<1>12. AnswerOK'
  BY <1>4 DEF AnswerOK
<1>13. MonOK'
  BY <1>1, <1>2 DEF MonOK
<1>14. FilesOK'
  BY <1>1, <1>2, <1>4, <1>6, FilesKept
<1>15. MixedOK'
  BY <1>1, <1>2 DEF MixedOK, Pending
<1>16. HandsOK'
  BY <1>1, <1>2, <1>3, <1>4, <1>5 DEF HandsOK, Creating
<1>17. TmpBytesOK'
  <2>1. \A j \in Images : NeedsTmp(j)' => NeedsTmp(j)
    BY <1>2, <1>3, <1>5 DEF NeedsTmp, Creating
  <2> QED BY <1>1, <1>2, <2>1 DEF TmpBytesOK
<1>18. JobBytesOK'
  BY <1>1, <1>2, <1>3, <1>5 DEF JobBytesOK
<1>19. StoredOK'
  BY <1>1, <1>2, <1>3, <1>5 DEF StoredOK, Stored
<1> QED BY <1>7, <1>8, <1>9, <1>10, <1>11, <1>12, <1>13, <1>14, <1>15, <1>16, <1>17, <1>18, <1>19 DEF IInv

LEMMA CreateUploadedNotGood ==
  ASSUME IInv, CreateUploaded, reply # "ok"
  PROVE  IInv'
<1> USE DEF Exists, At, Done, apiVars, svcVars
<1>1. TypeOK /\ JobOK /\ CastsOK /\ UploadsOK /\ DomainOK /\ AnswerOK /\ MonOK /\ FilesOK /\ MixedOK
      /\ HandsOK /\ TmpBytesOK /\ JobBytesOK /\ StoredOK
  BY DEF IInv
<1>2. uploads' = uploads /\ mixed' = mixed /\ tmp' = tmp /\ rows' = rows /\ files' = files
      /\ casts' = casts /\ mon' = mon /\ faults' = faults
  BY DEF CreateUploaded
<1>3. /\ job \in Jobs /\ job # NoJob /\ job.op = "_create_image" /\ job.pc = "upload" /\ job.img \in Images
      /\ casts = <<>> /\ DOMAIN casts = {} /\ rows[job.img].status # "none" /\ Exists(job.img)
      /\ rows[job.img].type \in StorageTypes
  BY <1>1, NoTypes, EmptySequence DEF CreateUploaded, JobOK, TypeOK, AnswerOK, Waiting, Rows
<1>4. /\ reply' = "none" /\ reply # "none" /\ job' = [job EXCEPT !.pc = "delete_from_tmp"]
      /\ Call("delete_from_tmp", job.img, rows[job.img].type, "svc")
  BY DEF CreateUploaded
<1>5. /\ job' \in Jobs /\ job'.op = job.op /\ job'.pc = "delete_from_tmp" /\ job'.img = job.img
      /\ job' # NoJob /\ job'.saw = job.saw
  <2>1. /\ job' \in Jobs /\ job'.op = job.op /\ job'.img = job.img /\ job'.pc = "delete_from_tmp"
        /\ job'.saw = job.saw
    BY <1>3, <1>4, StepOf
  <2>2. NoJob.pc = "idle"
    BY NoTypes
  <2> QED BY <2>1, <2>2
<1>6. \A k \in DOMAIN domQ : domQ[k].owner # "svc"
  BY <1>1, <1>4 DEF DomainOK
<1>7. domQ' \in Seq(Requests)
  BY <1>1, <1>3, <1>4, CallOf
<1>8. \A j \in Images : (NothingMakes(j) => NothingMakes(j)') /\ (NothingRemoves(j) => NothingRemoves(j)')
  BY <1>1, <1>3, <1>4, CallKeeps
<1>9. Waiting' /\ AskedFor' = "delete_from_tmp"
  BY <1>3, <1>5 DEF Waiting, AskedFor
<1>10. \A j \in Images : (BeingDeleted(j)' <=> BeingDeleted(j)) /\ (HasAttachment(j)' <=> HasAttachment(j))
  BY <1>2, <1>3, <1>5 DEF BeingDeleted, HasAttachment
<1>11. TypeOK'
  BY <1>1, <1>2, <1>4, <1>5, <1>7 DEF TypeOK
<1>12. JobOK'
  BY <1>1, <1>2, <1>3, <1>5 DEF JobOK
<1>13. CastsOK'
  <2>1. casts' = <<>>
    BY <1>2, <1>3
  <2>2. DOMAIN casts' = {} /\ Len(casts') <= 1
    BY ONLY <2>1, EmptySequence
  <2> QED BY ONLY <2>2 DEF CastsOK
<1>14. UploadsOK'
  BY <1>1, <1>2, <1>10 DEF UploadsOK
<1>15. DomainOK'
  BY <1>1, <1>2, <1>3, <1>4, <1>5, <1>6, <1>9, HandlerCalls
<1>16. AnswerOK'
  BY <1>4 DEF AnswerOK
<1>17. MonOK'
  BY <1>1, <1>2 DEF MonOK
<1>18. FilesOK'
  BY <1>1, <1>2, <1>8, <1>10 DEF FilesOK
<1>19. MixedOK'
  BY <1>1, <1>2 DEF MixedOK, Pending
<1>20. HandsOK'
  <2>1. faults = 0 => \A k \in DOMAIN domQ' : domQ'[k].owner # "none"
    <3>1. \A k \in DOMAIN domQ' : (k \in DOMAIN domQ /\ domQ'[k] = domQ[k]) \/ domQ'[k].owner = "svc"
      BY <1>1, <1>3, <1>4, CallOf
    <3>2. faults = 0 => \A k \in DOMAIN domQ : domQ[k].owner # "none"
      BY <1>1 DEF HandsOK
    <3> QED BY <3>1, <3>2
  <2>2. faults = 0 => /\ rows[job.img].status = "uploading" /\ job.saw = "uploading"
                      /\ \A j \in Images : Creating(j) => j = job.img
    BY <1>1, <1>3 DEF HandsOK
  <2> QED BY <1>2, <1>3, <1>5, <2>1, <2>2 DEF HandsOK, Creating
<1>21. TmpBytesOK'
  <2>1. \A j \in Images : NeedsTmp(j)' => NeedsTmp(j)
    BY <1>2, <1>3, <1>5 DEF NeedsTmp, Creating
  <2> QED BY <1>1, <1>2, <2>1 DEF TmpBytesOK
<1>22. JobBytesOK'
  <2>1. faults = 0 => job.img \in mixed
    BY <1>1, <1>3, <1>4 DEF JobBytesOK
  <2> QED BY <1>2, <1>5, <2>1 DEF JobBytesOK
<1>23. StoredOK'
  BY <1>1, <1>2, <1>3, <1>5 DEF StoredOK, Stored
<1> QED BY <1>11, <1>12, <1>13, <1>14, <1>15, <1>16, <1>17, <1>18, <1>19, <1>20, <1>21, <1>22, <1>23 DEF IInv

LEMMA CreateCleanedGood ==
  ASSUME IInv, CreateCleaned
  PROVE  IInv'
<1> USE DEF Exists, At, Done, apiVars, svcVars
<1>1. TypeOK /\ JobOK /\ CastsOK /\ UploadsOK /\ DomainOK /\ AnswerOK /\ MonOK /\ FilesOK /\ MixedOK
      /\ HandsOK /\ TmpBytesOK /\ JobBytesOK /\ StoredOK
  BY DEF IInv
<1>2. uploads' = uploads /\ mixed' = mixed /\ tmp' = tmp /\ rows' = rows /\ files' = files
      /\ casts' = casts /\ domQ' = domQ /\ mon' = mon /\ faults' = faults
  BY DEF CreateCleaned
<1>3. /\ job \in Jobs /\ job # NoJob /\ job.op = "_create_image" /\ job.pc = "delete_from_tmp"
      /\ job.img \in Images
      /\ casts = <<>> /\ DOMAIN casts = {} /\ rows[job.img].status # "none" /\ Exists(job.img)
  BY <1>1, NoTypes, EmptySequence DEF CreateCleaned, JobOK, TypeOK, AnswerOK, Waiting
<1>4. reply' = "none" /\ reply # "none" /\ job' = [job EXCEPT !.pc = "finish"]
  BY DEF CreateCleaned
<1>5. /\ job' \in Jobs /\ job'.op = job.op /\ job'.pc = "finish" /\ job'.img = job.img /\ job' # NoJob
      /\ job'.saw = job.saw
  <2>1. /\ job' \in Jobs /\ job'.op = job.op /\ job'.img = job.img /\ job'.pc = "finish"
        /\ job'.saw = job.saw
    BY <1>3, <1>4, StepOf
  <2>2. NoJob.pc = "idle"
    BY NoTypes
  <2> QED BY <2>1, <2>2
<1>6. \A j \in Images : (BeingDeleted(j)' <=> BeingDeleted(j)) /\ (HasAttachment(j)' <=> HasAttachment(j))
  BY <1>2, <1>3, <1>5 DEF BeingDeleted, HasAttachment
<1>7. TypeOK'
  BY <1>1, <1>2, <1>4, <1>5 DEF TypeOK
<1>8. JobOK'
  BY <1>1, <1>2, <1>3, <1>5 DEF JobOK
<1>9. CastsOK'
  <2>1. casts' = <<>>
    BY <1>2, <1>3
  <2>2. DOMAIN casts' = {} /\ Len(casts') <= 1
    BY ONLY <2>1, EmptySequence
  <2> QED BY ONLY <2>2 DEF CastsOK
<1>10. UploadsOK'
  BY <1>1, <1>2, <1>6 DEF UploadsOK
<1>11. DomainOK'
  BY <1>1, <1>2, <1>4, DomainKept DEF DomainOK
<1>12. AnswerOK'
  BY <1>4 DEF AnswerOK
<1>13. MonOK'
  BY <1>1, <1>2 DEF MonOK
<1>14. FilesOK'
  BY <1>1, <1>2, <1>6, FilesKept
<1>15. MixedOK'
  BY <1>1, <1>2 DEF MixedOK, Pending
<1>16. HandsOK'
  BY <1>1, <1>2, <1>3, <1>4, <1>5 DEF HandsOK, Creating
<1>17. TmpBytesOK'
  <2>1. \A j \in Images : NeedsTmp(j)' => NeedsTmp(j)
    BY <1>2, <1>3, <1>5 DEF NeedsTmp, Creating
  <2> QED BY <1>1, <1>2, <2>1 DEF TmpBytesOK
<1>18. JobBytesOK'
  BY <1>1, <1>2, <1>3, <1>5 DEF JobBytesOK
<1>19. StoredOK'
  BY <1>1, <1>2, <1>3, <1>5 DEF StoredOK, Stored
<1> QED BY <1>7, <1>8, <1>9, <1>10, <1>11, <1>12, <1>13, <1>14, <1>15, <1>16, <1>17, <1>18, <1>19 DEF IInv

LEMMA DeleteAbsentGood ==
  ASSUME IInv, DeleteStart, ~Exists(job.img)
  PROVE  IInv'
<1> USE DEF Exists, At, Done, apiVars, svcVars
<1>1. TypeOK /\ JobOK /\ CastsOK /\ UploadsOK /\ DomainOK /\ AnswerOK /\ MonOK /\ FilesOK /\ MixedOK
      /\ HandsOK /\ TmpBytesOK /\ JobBytesOK /\ StoredOK
  BY DEF IInv
<1>2. uploads' = uploads /\ mixed' = mixed /\ tmp' = tmp /\ files' = files /\ casts' = casts
      /\ reply' = reply /\ mon' = mon /\ faults' = faults
  BY DEF DeleteStart
<1>3. /\ job \in Jobs /\ job # NoJob /\ job.op = "_delete_image" /\ job.pc = "start" /\ job.img \in Images
      /\ casts = <<>> /\ DOMAIN casts = {} /\ rows[job.img].status # "none" /\ reply = "none"
  BY <1>1, NoTypes, EmptySequence DEF DeleteStart, JobOK, TypeOK, AnswerOK, Waiting
<1>4. rows' = rows /\ domQ' = domQ /\ job' = [job EXCEPT !.pc = "ack"]
  BY <1>3 DEF DeleteStart, Ended
<1>5. /\ job' \in Jobs /\ job'.op = job.op /\ job'.pc = "ack" /\ job'.img = job.img /\ job' # NoJob
  <2>1. /\ job' \in Jobs /\ job'.op = job.op /\ job'.img = job.img /\ job'.pc = "ack"
    BY <1>3, <1>4, StepOf
  <2>2. NoJob.pc = "idle"
    BY NoTypes
  <2> QED BY <2>1, <2>2
<1>6. faults = 0 => \A j \in Images : ~Creating(j)
  BY <1>1, <1>3 DEF HandsOK
<1>7. TypeOK'
  BY <1>1, <1>2, <1>4, <1>5 DEF TypeOK
<1>8. JobOK'
  BY <1>1, <1>2, <1>3, <1>4, <1>5 DEF JobOK
<1>9. CastsOK'
  <2>1. casts' = <<>>
    BY <1>2, <1>3
  <2>2. DOMAIN casts' = {} /\ Len(casts') <= 1
    BY ONLY <2>1, EmptySequence
  <2> QED BY ONLY <2>2 DEF CastsOK
<1>10. UploadsOK'
  BY <1>1, <1>2, <1>4 DEF UploadsOK, HasAttachment
<1>11. DomainOK'
  BY <1>1, <1>2, <1>3, <1>4, DomainKept DEF DomainOK, Waiting
<1>12. AnswerOK'
  BY <1>2, <1>3 DEF AnswerOK
<1>13. MonOK'
  BY <1>1, <1>2, <1>4 DEF MonOK
<1>14. FilesOK'
  BY <1>1, <1>2, <1>3, <1>4, <1>5, FilesKept DEF HasAttachment, BeingDeleted
<1>15. MixedOK'
  BY <1>1, <1>2, <1>4 DEF MixedOK, Pending
<1>16. HandsOK'
  <2>1. faults = 0 => \A k \in DOMAIN domQ : domQ[k].owner # "none"
    BY <1>1 DEF HandsOK
  <2>2. faults = 0 => \A j \in Images : ~Creating(j)'
    BY <1>4, <1>6 DEF Creating
  <2> QED BY <1>2, <1>3, <2>1, <2>2, <1>4, <1>5 DEF HandsOK
<1>17. TmpBytesOK'
  <2>1. \A j \in Images : NeedsTmp(j)' => NeedsTmp(j)
    BY <1>2, <1>3, <1>4, <1>5 DEF NeedsTmp, Creating
  <2> QED BY <1>1, <1>2, <2>1 DEF TmpBytesOK
<1>18. JobBytesOK'
  BY <1>5 DEF JobBytesOK
<1>19. StoredOK'
  BY <1>1, <1>2, <1>3, <1>4, <1>5 DEF StoredOK, Stored
<1> QED BY <1>7, <1>8, <1>9, <1>10, <1>11, <1>12, <1>13, <1>14, <1>15, <1>16, <1>17, <1>18, <1>19 DEF IInv

LEMMA DeleteEmptyGood ==
  ASSUME IInv, DeleteStart, Exists(job.img), rows[job.img].type = ""
  PROVE  IInv'
<1> USE DEF Exists, At, Done, apiVars, svcVars
<1>1. TypeOK /\ JobOK /\ CastsOK /\ UploadsOK /\ DomainOK /\ AnswerOK /\ MonOK /\ FilesOK /\ MixedOK
      /\ HandsOK /\ TmpBytesOK /\ JobBytesOK /\ StoredOK
  BY DEF IInv
<1>2. uploads' = uploads /\ mixed' = mixed /\ tmp' = tmp /\ files' = files /\ casts' = casts
      /\ reply' = reply /\ mon' = mon /\ faults' = faults
  BY DEF DeleteStart
<1>3. /\ job \in Jobs /\ job # NoJob /\ job.op = "_delete_image" /\ job.pc = "start" /\ job.img \in Images
      /\ casts = <<>> /\ DOMAIN casts = {} /\ rows[job.img].status # "none" /\ reply = "none"
  BY <1>1, NoTypes, EmptySequence DEF DeleteStart, JobOK, TypeOK, AnswerOK, Waiting
<1> DEFINE i == job.img
<1>4. /\ SameRows /\ rows'[i].status = "deleted" /\ \A j \in Images \ {i} : rows'[j] = rows[j]
      /\ domQ' = domQ /\ job' = [job EXCEPT !.pc = "ack"]
  <2>1. SetStatus(i, "deleted") /\ domQ' = domQ
    BY DEF DeleteStart, RowDeleted
  <2>2. job' = [job EXCEPT !.pc = "ack"]
    BY <1>3 DEF DeleteStart, Ended
  <2> QED BY <1>1, <1>3, <2>1, <2>2, StatusSet
<1>5. /\ job' \in Jobs /\ job'.op = job.op /\ job'.pc = "ack" /\ job'.img = job.img /\ job' # NoJob
  <2>1. /\ job' \in Jobs /\ job'.op = job.op /\ job'.img = job.img /\ job'.pc = "ack"
    BY <1>3, <1>4, StepOf
  <2>2. NoJob.pc = "idle"
    BY NoTypes
  <2> QED BY <2>1, <2>2
<1>6. faults = 0 => \A j \in Images : ~Creating(j)
  BY <1>1, <1>3 DEF HandsOK
<1>7. \A j \in Images : HasAttachment(j)' <=> HasAttachment(j)
  BY <1>4 DEF HasAttachment, SameRows
<1>8. \A j \in Images : BeingDeleted(j)' <=> BeingDeleted(j)
  BY <1>2, <1>3, <1>5 DEF BeingDeleted
<1>9. TypeOK'
  BY <1>1, <1>2, <1>4, <1>5 DEF TypeOK, SameRows
<1>10. JobOK'
  BY <1>1, <1>2, <1>3, <1>4, <1>5 DEF JobOK
<1>11. CastsOK'
  <2>1. casts' = <<>>
    BY <1>2, <1>3
  <2>2. DOMAIN casts' = {} /\ Len(casts') <= 1
    BY ONLY <2>1, EmptySequence
  <2> QED BY ONLY <2>2 DEF CastsOK
<1>12. UploadsOK'
  <2>1. rows'[i].status \notin {"none", "new"}
    BY <1>4
  <2> QED BY <1>1, <1>2, <1>3, <1>4, <1>7, <2>1, UploadsKept
<1>13. DomainOK'
  BY <1>1, <1>2, <1>3, <1>4, Elements, DomainKept DEF DomainOK, Waiting, SameRows
<1>14. AnswerOK'
  BY <1>2, <1>3 DEF AnswerOK
<1>15. MonOK'
  <2>1. mon.todo \subseteq Images /\ mon.good \subseteq Images
    BY <1>1 DEF TypeOK, Monitors
  <2> QED BY <1>1, <1>2, <1>4, <2>1 DEF MonOK
<1>16. FilesOK'
  <2>1. \A j \in Images : NothingMakes(j)' = NothingMakes(j) /\ NothingRemoves(j)' = NothingRemoves(j)
    BY <1>4 DEF NothingMakes, NothingRemoves
  <2>2. files[i] = {} /\ NothingMakes(i)
    BY <1>1, <1>3 DEF FilesOK
  <2>3. \A j \in Images : rows'[j].type = "" \/ rows'[j].status = "deleted" =>
          files'[j] = {} /\ NothingMakes(j)'
    <3>1. \A j \in Images : rows'[j].type = rows[j].type
      BY <1>4 DEF SameRows
    <3> QED BY <1>1, <1>2, <1>4, <2>1, <2>2, <3>1 DEF FilesOK
  <2>4. \A j \in Images : HasAttachment(j)' => files'[j] # {} /\ NothingRemoves(j)' /\ ~BeingDeleted(j)'
    BY <1>1, <1>2, <1>7, <1>8, <2>1 DEF FilesOK
  <2> QED BY <2>3, <2>4 DEF FilesOK
<1>17. MixedOK'
  <2>1. \A j \in Images : Pending(j)' => Pending(j)
    BY <1>2, <1>4 DEF Pending
  <2> QED BY <1>1, <1>2, <2>1 DEF MixedOK
<1>18. HandsOK'
  <2>1. faults = 0 => \A k \in DOMAIN domQ : domQ[k].owner # "none"
    BY <1>1 DEF HandsOK
  <2>2. faults = 0 => \A j \in Images : ~Creating(j)'
    BY <1>4, <1>6 DEF Creating
  <2> QED BY <1>2, <1>3, <2>1, <2>2, <1>4, <1>5 DEF HandsOK
<1>19. TmpBytesOK'
  <2>1. \A j \in Images : NeedsTmp(j)' => NeedsTmp(j)
    BY <1>2, <1>3, <1>4, <1>5 DEF NeedsTmp, Creating
  <2> QED BY <1>1, <1>2, <2>1 DEF TmpBytesOK
<1>20. JobBytesOK'
  BY <1>5 DEF JobBytesOK
<1>21. StoredOK'
  <2>1. \A j \in Images : Stored(j)' => Stored(j)
    BY <1>2, <1>3, <1>4, <1>5 DEF Stored, SameRows
  <2> QED BY <1>1, <1>2, <2>1 DEF StoredOK
<1> QED BY <1>9, <1>10, <1>11, <1>12, <1>13, <1>14, <1>15, <1>16, <1>17, <1>18, <1>19, <1>20, <1>21 DEF IInv

LEMMA DeleteAsksGood ==
  ASSUME IInv, DeleteStart, Exists(job.img), rows[job.img].type # ""
  PROVE  IInv'
<1> USE DEF Exists, At, Done, apiVars, svcVars
<1>1. TypeOK /\ JobOK /\ CastsOK /\ UploadsOK /\ DomainOK /\ AnswerOK /\ MonOK /\ FilesOK /\ MixedOK
      /\ HandsOK /\ TmpBytesOK /\ JobBytesOK /\ StoredOK
  BY DEF IInv
<1>2. uploads' = uploads /\ mixed' = mixed /\ tmp' = tmp /\ files' = files /\ casts' = casts
      /\ reply' = reply /\ mon' = mon /\ faults' = faults
  BY DEF DeleteStart
<1>3. /\ job \in Jobs /\ job # NoJob /\ job.op = "_delete_image" /\ job.pc = "start" /\ job.img \in Images
      /\ casts = <<>> /\ DOMAIN casts = {} /\ rows[job.img].status # "none" /\ reply = "none"
      /\ rows[job.img].type \in StorageTypes
  BY <1>1, NoTypes, EmptySequence DEF DeleteStart, JobOK, TypeOK, AnswerOK, Waiting, Rows
<1> DEFINE i == job.img
<1>4. /\ rows' = rows /\ Call("delete", i, rows[i].type, "svc") /\ job' = [job EXCEPT !.pc = "domain"]
  BY DEF DeleteStart
<1>5. /\ job' \in Jobs /\ job'.op = job.op /\ job'.pc = "domain" /\ job'.img = job.img /\ job' # NoJob
  <2>1. /\ job' \in Jobs /\ job'.op = job.op /\ job'.img = job.img /\ job'.pc = "domain"
    BY <1>3, <1>4, StepOf
  <2>2. NoJob.pc = "idle"
    BY NoTypes
  <2> QED BY <2>1, <2>2
<1>6. \A k \in DOMAIN domQ : domQ[k].owner # "svc"
  BY <1>1, <1>3 DEF DomainOK, Waiting
<1>7. domQ' \in Seq(Requests)
  BY <1>1, <1>3, <1>4, CallOf
<1>8. \A j \in Images :
        (NothingMakes(j) => NothingMakes(j)') /\ (NothingRemoves(j) /\ j # i => NothingRemoves(j)')
  BY <1>1, <1>3, <1>4, CallKeeps
<1>9. Waiting' /\ AskedFor' = "delete"
  BY <1>3, <1>5 DEF Waiting, AskedFor
<1>10. \A j \in Images : (BeingDeleted(j)' <=> BeingDeleted(j)) /\ (HasAttachment(j)' <=> HasAttachment(j))
  BY <1>2, <1>3, <1>4, <1>5 DEF BeingDeleted, HasAttachment
<1>11. ~HasAttachment(job.img)
  BY <1>1, <1>3 DEF FilesOK, BeingDeleted
<1>12. faults = 0 => \A j \in Images : ~Creating(j)
  BY <1>1, <1>3 DEF HandsOK
<1>13. TypeOK'
  BY <1>1, <1>2, <1>4, <1>5, <1>7 DEF TypeOK
<1>14. JobOK'
  BY <1>1, <1>2, <1>3, <1>4, <1>5 DEF JobOK
<1>15. CastsOK'
  <2>1. casts' = <<>>
    BY <1>2, <1>3
  <2>2. DOMAIN casts' = {} /\ Len(casts') <= 1
    BY ONLY <2>1, EmptySequence
  <2> QED BY ONLY <2>2 DEF CastsOK
<1>16. UploadsOK'
  BY <1>1, <1>2, <1>4, <1>10 DEF UploadsOK
<1>17. DomainOK'
  BY <1>1, <1>2, <1>3, <1>4, <1>5, <1>6, <1>9, HandlerCalls
<1>18. AnswerOK'
  BY <1>2, <1>3 DEF AnswerOK
<1>19. MonOK'
  BY <1>1, <1>2, <1>4 DEF MonOK
<1>20. FilesOK'
  BY <1>1, <1>2, <1>4, <1>8, <1>10, <1>11 DEF FilesOK
<1>21. MixedOK'
  BY <1>1, <1>2, <1>4 DEF MixedOK, Pending
<1>22. HandsOK'
  <2>1. faults = 0 => \A k \in DOMAIN domQ' : domQ'[k].owner # "none"
    <3>1. \A k \in DOMAIN domQ' : (k \in DOMAIN domQ /\ domQ'[k] = domQ[k]) \/ domQ'[k].owner = "svc"
      BY <1>1, <1>3, <1>4, CallOf
    <3>2. faults = 0 => \A k \in DOMAIN domQ : domQ[k].owner # "none"
      BY <1>1 DEF HandsOK
    <3> QED BY <3>1, <3>2
  <2> QED BY <1>2, <1>3, <1>4, <1>5, <1>12, <2>1 DEF HandsOK, Creating
<1>23. TmpBytesOK'
  <2>1. \A j \in Images : NeedsTmp(j)' => NeedsTmp(j)
    BY <1>2, <1>3, <1>4, <1>5 DEF NeedsTmp, Creating
  <2> QED BY <1>1, <1>2, <2>1 DEF TmpBytesOK
<1>24. JobBytesOK'
  BY <1>5 DEF JobBytesOK
<1>25. StoredOK'
  BY <1>1, <1>2, <1>3, <1>4, <1>5 DEF StoredOK, Stored
<1> QED BY <1>13, <1>14, <1>15, <1>16, <1>17, <1>18, <1>19, <1>20, <1>21, <1>22, <1>23, <1>24, <1>25 DEF IInv

LEMMA CreateUploadedGood ==
  ASSUME IInv, CreateUploaded
  PROVE  IInv'
BY CreateUploadedOkGood, CreateUploadedNotGood

LEMMA DeleteStartGood ==
  ASSUME IInv, DeleteStart
  PROVE  IInv'
BY DeleteAbsentGood, DeleteEmptyGood, DeleteAsksGood
LEMMA DeleteFinishGood ==
  ASSUME IInv, DeleteFinish
  PROVE  IInv'
<1> USE DEF Exists, At, Done, apiVars, svcVars
<1>1. TypeOK /\ JobOK /\ CastsOK /\ UploadsOK /\ DomainOK /\ AnswerOK /\ MonOK /\ FilesOK /\ MixedOK
      /\ HandsOK /\ TmpBytesOK /\ JobBytesOK /\ StoredOK
  BY DEF IInv
<1>2. uploads' = uploads /\ mixed' = mixed /\ tmp' = tmp /\ files' = files /\ casts' = casts
      /\ domQ' = domQ /\ mon' = mon /\ faults' = faults
  BY DEF DeleteFinish
<1>3. /\ job \in Jobs /\ job # NoJob /\ job.op = "_delete_image" /\ job.pc = "domain" /\ job.img \in Images
      /\ casts = <<>> /\ DOMAIN casts = {} /\ rows[job.img].status # "none" /\ Exists(job.img)
      /\ reply # "none" /\ reply' = "none"
  BY <1>1, NoTypes, EmptySequence DEF DeleteFinish, JobOK, TypeOK, AnswerOK, Waiting
<1> DEFINE i == job.img
<1>4. /\ SameRows /\ \A j \in Images \ {i} : rows'[j] = rows[j]
      /\ rows'[i].status = (IF reply = "ok" THEN "deleted" ELSE "error")
      /\ job' = [job EXCEPT !.pc = "ack"]
  <2>1. SetStatus(i, IF reply = "ok" THEN "deleted" ELSE "error")
    BY DEF DeleteFinish, RowDeleted
  <2>2. job' = [job EXCEPT !.pc = "ack"]
    BY <1>3 DEF DeleteFinish, Ended
  <2>3. (IF reply = "ok" THEN "deleted" ELSE "error") \in ImageStatus \cup {"deleted"}
    BY DEF ImageStatus
  <2> QED BY <1>1, <1>3, <2>1, <2>2, <2>3, StatusSet
<1>5. /\ job' \in Jobs /\ job'.op = job.op /\ job'.pc = "ack" /\ job'.img = job.img /\ job' # NoJob
  <2>1. /\ job' \in Jobs /\ job'.op = job.op /\ job'.img = job.img /\ job'.pc = "ack"
    BY <1>3, <1>4, StepOf
  <2>2. NoJob.pc = "idle"
    BY NoTypes
  <2> QED BY <2>1, <2>2
<1>6. faults = 0 => \A j \in Images : ~Creating(j)
  BY <1>1, <1>3 DEF HandsOK
<1>7. \A j \in Images : HasAttachment(j)' <=> HasAttachment(j)
  BY <1>4 DEF HasAttachment, SameRows
<1>8. \A j \in Images : BeingDeleted(j)' <=> BeingDeleted(j)
  BY <1>2, <1>3, <1>5 DEF BeingDeleted
<1>9. reply = "ok" => files[i] = {} /\ NothingMakes(i)
  BY <1>1, <1>3 DEF AnswerOK, NothingMakes
<1>10. TypeOK'
  BY <1>1, <1>2, <1>3, <1>4, <1>5 DEF TypeOK, SameRows
<1>11. JobOK'
  BY <1>1, <1>2, <1>3, <1>4, <1>5 DEF JobOK
<1>12. CastsOK'
  <2>1. casts' = <<>>
    BY <1>2, <1>3
  <2>2. DOMAIN casts' = {} /\ Len(casts') <= 1
    BY ONLY <2>1, EmptySequence
  <2> QED BY ONLY <2>2 DEF CastsOK
<1>13. UploadsOK'
  <2>1. rows'[i].status \notin {"none", "new"}
    BY <1>4
  <2> QED BY <1>1, <1>2, <1>3, <1>4, <1>7, <2>1, UploadsKept
<1>14. DomainOK'
  BY <1>1, <1>2, <1>3, <1>4, Elements, DomainKept DEF DomainOK, Waiting, SameRows
<1>15. AnswerOK'
  BY <1>3 DEF AnswerOK
<1>16. MonOK'
  <2>1. mon.todo \subseteq Images /\ mon.good \subseteq Images
    BY <1>1 DEF TypeOK, Monitors
  <2> QED BY <1>1, <1>2, <1>4, <2>1 DEF MonOK
<1>17. FilesOK'
  <2>1. \A j \in Images : NothingMakes(j)' = NothingMakes(j) /\ NothingRemoves(j)' = NothingRemoves(j)
    BY <1>2 DEF NothingMakes, NothingRemoves
  <2>2. \A j \in Images : rows'[j].type = "" \/ rows'[j].status = "deleted" =>
          files'[j] = {} /\ NothingMakes(j)'
    <3>1. \A j \in Images : rows'[j].type = rows[j].type
      BY <1>4 DEF SameRows
    <3>2. \A j \in Images : rows[j].type = "" \/ rows[j].status = "deleted" => files[j] = {} /\ NothingMakes(j)
      BY <1>1 DEF FilesOK
    <3>3. rows'[i].status = "deleted" => reply = "ok"
      BY <1>4
    <3> QED BY <1>2, <1>4, <1>9, <2>1, <3>1, <3>2, <3>3
  <2>3. \A j \in Images : HasAttachment(j)' => files'[j] # {} /\ NothingRemoves(j)' /\ ~BeingDeleted(j)'
    BY <1>1, <1>2, <1>7, <1>8, <2>1 DEF FilesOK
  <2> QED BY <2>2, <2>3 DEF FilesOK
<1>18. MixedOK'
  <2>1. \A j \in Images : Pending(j)' => Pending(j)
    BY <1>2, <1>4 DEF Pending
  <2> QED BY <1>1, <1>2, <2>1 DEF MixedOK
<1>19. HandsOK'
  <2>1. faults = 0 => \A k \in DOMAIN domQ : domQ[k].owner # "none"
    BY <1>1 DEF HandsOK
  <2>2. faults = 0 => \A j \in Images : ~Creating(j)'
    BY <1>4, <1>6 DEF Creating
  <2> QED BY <1>2, <1>3, <1>5, <2>1, <2>2 DEF HandsOK
<1>20. TmpBytesOK'
  <2>1. \A j \in Images : NeedsTmp(j)' => NeedsTmp(j)
    BY <1>2, <1>3, <1>4, <1>5 DEF NeedsTmp, Creating
  <2> QED BY <1>1, <1>2, <2>1 DEF TmpBytesOK
<1>21. JobBytesOK'
  BY <1>5 DEF JobBytesOK
<1>22. StoredOK'
  <2>1. faults = 0 => \A j \in Images : Stored(j)' => Stored(j)
    <3>1. rows[i].status \in ImageStatus \cup {"none", "deleted"}
      BY <1>1, <1>3 DEF TypeOK, Rows
    <3> QED BY <1>3, <1>4, <1>5, <1>6, <3>1 DEF Stored, SameRows, Creating, ImageStatus
  <2> QED BY <1>1, <1>2, <2>1 DEF StoredOK
<1> QED BY <1>10, <1>11, <1>12, <1>13, <1>14, <1>15, <1>16, <1>17, <1>18, <1>19, <1>20, <1>21, <1>22 DEF IInv

LEMMA AttachFinishGood ==
  ASSUME IInv, AttachFinish
  PROVE  IInv'
<1> USE DEF Exists, At, Done, apiVars, svcVars
<1>1. TypeOK /\ JobOK /\ CastsOK /\ UploadsOK /\ DomainOK /\ AnswerOK /\ MonOK /\ FilesOK /\ MixedOK
      /\ HandsOK /\ TmpBytesOK /\ JobBytesOK /\ StoredOK
  BY DEF IInv
<1>2. uploads' = uploads /\ mixed' = mixed /\ tmp' = tmp /\ files' = files /\ casts' = casts
      /\ domQ' = domQ /\ mon' = mon /\ faults' = faults
  BY DEF AttachFinish
<1>3. /\ job \in Jobs /\ job # NoJob /\ job.op = "attach_image" /\ job.pc = "domain" /\ job.img \in Images
      /\ casts = <<>> /\ DOMAIN casts = {} /\ rows[job.img].status # "none" /\ Exists(job.img)
      /\ reply # "none" /\ reply' = "none" /\ job.vm \in VMs /\ rows[job.img].att[job.vm] < MaxAttach
  BY <1>1, NoTypes, EmptySequence DEF AttachFinish, JobOK, TypeOK, AnswerOK, Waiting
<1> DEFINE i == job.img
<1>4. /\ rows' \in [Images -> Rows] /\ (reply # "ok" => rows' = rows)
      /\ \A j \in Images \ {i} : rows'[j] = rows[j]
      /\ rows'[i].status = rows[i].status /\ rows'[i].name = rows[i].name /\ rows'[i].type = rows[i].type
  <2>1. rows[i] \in Rows /\ rows \in [Images -> Rows]
    BY <1>1, <1>3 DEF TypeOK
  <2>2. PICK r \in Rows : r = rows[i]
    BY <2>1
  <2>3. r.att \in [VMs -> 0..MaxAttach]
    BY DEF Rows, Attachments
  <2> DEFINE a == [r.att EXCEPT ![job.vm] = @ + 1]
             q == [r EXCEPT !.att = a]
  <2>4. a \in Attachments
    BY <1>3, <2>2, <2>3, ImageAssumption DEF Attachments
  <2> HIDE DEF a
  <2>5. q \in Rows /\ q.status = r.status /\ q.name = r.name /\ q.type = r.type
    BY <2>4 DEF Rows
  <2>6. rows' = IF reply = "ok" THEN [rows EXCEPT ![i] = q] ELSE rows
    BY <2>2 DEF AttachFinish, a
  <2> HIDE DEF q
  <2> QED BY <1>3, <2>1, <2>2, <2>5, <2>6
<1>5. /\ job' = NoJob /\ job' \in Jobs /\ job'.pc = "idle" /\ job'.op = "none" /\ job'.img = NoImage
      /\ NoImage \notin Images
  BY <1>3, NoTypes DEF AttachFinish, Ended
<1>6. \A j \in Images : /\ rows'[j].status = rows[j].status /\ rows'[j].name = rows[j].name
                        /\ rows'[j].type = rows[j].type
                        /\ HasAttachment(j)' => HasAttachment(j) \/ (j = i /\ reply = "ok")
  BY <1>4 DEF HasAttachment
<1>7. \A j \in Images : ~BeingDeleted(j)'
  BY <1>2, <1>3, <1>5 DEF BeingDeleted
<1>8. reply = "ok" => files[i] # {} /\ NothingRemoves(i)
  BY <1>1, <1>3 DEF AnswerOK, NothingRemoves
<1>9. TypeOK'
  BY <1>1, <1>2, <1>3, <1>4, <1>5 DEF TypeOK
<1>10. JobOK'
  BY <1>5 DEF JobOK
<1>11. CastsOK'
  <2>1. casts' = <<>>
    BY <1>2, <1>3
  <2>2. DOMAIN casts' = {} /\ Len(casts') <= 1
    BY ONLY <2>1, EmptySequence
  <2> QED BY ONLY <2>2 DEF CastsOK
<1>12. UploadsOK'
  <2>1. \A j \in Images : rows[j].status = "none" => ~HasAttachment(j)'
    BY <1>1, <1>3, <1>6 DEF UploadsOK
  <2> QED BY <1>1, <1>2, <1>6, <2>1 DEF UploadsOK
<1>13. DomainOK'
  BY <1>1, <1>2, <1>3, <1>6, Elements, DomainKept DEF DomainOK, Waiting
<1>14. AnswerOK'
  BY <1>3 DEF AnswerOK
<1>15. MonOK'
  <2>1. mon.todo \subseteq Images /\ mon.good \subseteq Images
    BY <1>1 DEF TypeOK, Monitors
  <2> QED BY <1>1, <1>2, <1>6, <2>1 DEF MonOK
<1>16. FilesOK'
  <2>1. \A j \in Images : NothingMakes(j)' = NothingMakes(j) /\ NothingRemoves(j)' = NothingRemoves(j)
    BY <1>2 DEF NothingMakes, NothingRemoves
  <2> QED BY <1>1, <1>2, <1>6, <1>7, <1>8, <2>1 DEF FilesOK
<1>17. MixedOK'
  <2>1. \A j \in Images : Pending(j)' => Pending(j)
    BY <1>2, <1>6 DEF Pending
  <2> QED BY <1>1, <1>2, <2>1 DEF MixedOK
<1>18. HandsOK'
  <2>1. faults = 0 => \A k \in DOMAIN domQ : domQ[k].owner # "none"
    BY <1>1 DEF HandsOK
  <2>2. faults = 0 => \A j \in Images : ~Creating(j)
    BY <1>1, <1>3 DEF HandsOK
  <2> QED BY <1>2, <1>3, <1>5, <1>6, <2>1, <2>2 DEF HandsOK, Creating
<1>19. TmpBytesOK'
  <2>1. \A j \in Images : NeedsTmp(j)' => NeedsTmp(j)
    BY <1>2, <1>3, <1>5, <1>6 DEF NeedsTmp, Creating
  <2> QED BY <1>1, <1>2, <2>1 DEF TmpBytesOK
<1>20. JobBytesOK'
  BY <1>5 DEF JobBytesOK
<1>21. StoredOK'
  <2>1. \A j \in Images : Stored(j)' => Stored(j)
    BY <1>3, <1>5, <1>6 DEF Stored
  <2> QED BY <1>1, <1>2, <2>1 DEF StoredOK
<1> QED BY <1>9, <1>10, <1>11, <1>12, <1>13, <1>14, <1>15, <1>16, <1>17, <1>18, <1>19, <1>20, <1>21 DEF IInv

-----------------------------------------------------------------------------
(* The monitoring *)

\* It changes the status of images past their creation, and nothing else of a row.
Judged ==
  /\ SameRows
  /\ \A j \in Images : \/ rows'[j].status = rows[j].status
                       \/ /\ rows[j].status \notin {"none", "deleted", "new", "uploading"}
                          /\ rows'[j].status \in {"available", "error"}

LEMMA JudgedKeeps ==
  ASSUME IInv, Judged, uploads' = uploads, mixed' = mixed, tmp' = tmp, files' = files, casts' = casts,
         job' = job, reply' = reply, faults' = 0 => faults = 0
  PROVE  /\ JobOK' /\ CastsOK' /\ UploadsOK' /\ MixedOK' /\ TmpBytesOK' /\ JobBytesOK' /\ StoredOK'
         /\ \A j \in Images :
              (HasAttachment(j)' <=> HasAttachment(j)) /\ (BeingDeleted(j)' <=> BeingDeleted(j))
<1> USE DEF Exists, At
<1>1. TypeOK /\ JobOK /\ CastsOK /\ UploadsOK /\ MixedOK /\ TmpBytesOK /\ JobBytesOK /\ StoredOK
  BY DEF IInv
<1>2. \A j \in Images : (HasAttachment(j)' <=> HasAttachment(j)) /\ (BeingDeleted(j)' <=> BeingDeleted(j))
  BY DEF HasAttachment, BeingDeleted, Judged, SameRows
<1>3. \A j \in Images : /\ rows'[j].status = "none" <=> rows[j].status = "none"
                        /\ rows'[j].status = "new" <=> rows[j].status = "new"
                        /\ rows'[j].status = "uploading" <=> rows[j].status = "uploading"
                        /\ rows'[j].status = "deleted" <=> rows[j].status = "deleted"
                        /\ rows'[j].name = rows[j].name /\ rows'[j].type = rows[j].type
                        /\ rows'[j].att = rows[j].att
  BY DEF Judged, SameRows
<1>4. JobOK'
  <2>1. job # NoJob => job.img \in Images
    BY <1>1 DEF JobOK
  <2>2. job.pc \in {"upload", "delete_from_tmp", "finish", "domain"} \/ job.op = "attach_image" => job # NoJob
    BY NoTypes
  <2> QED BY <1>1, <1>3, <2>1, <2>2 DEF JobOK
<1>5. CastsOK'
  BY <1>1, <1>3 DEF CastsOK
<1>6. UploadsOK'
  BY <1>1, <1>2, <1>3 DEF UploadsOK
<1>7. MixedOK'
  <2>1. \A j \in Images : Pending(j)' <=> Pending(j)
    BY <1>3 DEF Pending
  <2> QED BY <1>1, <2>1 DEF MixedOK
<1>8. TmpBytesOK'
  <2>1. \A j \in Images : NeedsTmp(j)' <=> NeedsTmp(j)
    BY <1>3 DEF NeedsTmp, Creating
  <2> QED BY <1>1, <2>1 DEF TmpBytesOK
<1>9. JobBytesOK'
  BY <1>1, <1>3 DEF JobBytesOK
<1>10. StoredOK'
  <2>1. \A j \in Images : Stored(j)' => Stored(j)
    <3>1. \A j \in Images : rows[j].status \in ImageStatus \cup {"none", "deleted"}
      BY <1>1, Elements DEF Rows
    <3> QED BY <3>1 DEF Stored, Judged, SameRows, ImageStatus
  <2> QED BY <1>1, <2>1 DEF StoredOK
<1> QED BY <1>2, <1>4, <1>5, <1>6, <1>7, <1>8, <1>9, <1>10

LEMMA JudgedQueueKept ==
  ASSUME IInv, Judged, uploads' = uploads, mixed' = mixed, tmp' = tmp, files' = files, casts' = casts,
         job' = job, reply' = reply, faults' = 0 => faults = 0, domQ' = domQ
  PROVE  DomainOK' /\ AnswerOK' /\ FilesOK' /\ HandsOK'
<1>1. TypeOK /\ JobOK /\ CastsOK /\ DomainOK /\ AnswerOK /\ FilesOK /\ HandsOK
  BY DEF IInv
<1>2. \A j \in Images : /\ rows'[j].status = "none" <=> rows[j].status = "none"
                        /\ rows'[j].status = "new" <=> rows[j].status = "new"
                        /\ rows'[j].status = "uploading" <=> rows[j].status = "uploading"
                        /\ rows'[j].status = "deleted" <=> rows[j].status = "deleted"
                        /\ rows'[j].type = rows[j].type
  BY DEF Judged, SameRows
<1>3. DomainOK'
  <2>1. \A k \in DOMAIN domQ : /\ rows'[domQ[k].img].status # "none"
                               /\ rows[domQ[k].img].type # "" => rows'[domQ[k].img].type # ""
    BY <1>1, <1>2, Elements DEF DomainOK
  <2>2. \A k \in DOMAIN domQ : domQ[k].owner # "svc" \/ (job' = job /\ reply' = reply)
    OBVIOUS
  <2>3. DomainOK /\ domQ' = domQ
    BY <1>1
  <2> QED BY ONLY <2>1, <2>2, <2>3, DomainKept
<1>4. AnswerOK'
  BY <1>1 DEF AnswerOK, Waiting
<1>5. FilesOK'
  BY <1>1, <1>2, JudgedKeeps, FilesKept
<1>6. HandsOK'
  <2>1. job # NoJob => job.img \in Images
    BY <1>1 DEF JobOK
  <2>2. job.op = "upload_image" \/ At("_create_image", "start") \/ job.pc \in {"upload", "delete_from_tmp", "finish"}
          => job # NoJob
    BY NoTypes DEF At
  <2>3. \A k \in DOMAIN casts : casts[k].img \in Images
    BY <1>1 DEF CastsOK
  <2> QED BY <1>1, <1>2, <2>1, <2>2, <2>3 DEF HandsOK, Creating, At
<1> QED BY <1>3, <1>4, <1>5, <1>6

LEMMA MarkedIs ==
  ASSUME IInv, NEW i \in mon.todo, Marked(i)
  PROVE  Judged /\ mon' \in Monitors /\ MonOK'
<1> USE DEF Exists
<1>1. TypeOK /\ MonOK /\ mon \in Monitors
  BY DEF IInv, TypeOK
<1>2. i \in Images /\ mon.todo \subseteq Images /\ mon.good \subseteq Images
  BY <1>1 DEF Monitors
<1>3. CASE Exists(i)
  <2>1. SetStatus(i, "error")
    BY <1>3 DEF Marked
  <2>2. mon' = [mon EXCEPT !.pc = "loop", !.todo = @ \ {i}, !.cur = NoImage, !.reply = "none"]
    BY <1>3 DEF Marked
  <2>3. /\ mon' \in Monitors /\ mon'.pc = "loop" /\ mon'.todo \subseteq mon.todo /\ mon'.good = mon.good
    BY <1>1, <2>2 DEF Monitors
  <2>4. SameRows /\ rows'[i].status = "error" /\ \A j \in Images \ {i} : rows'[j] = rows[j]
    BY <1>1, <1>2, <1>3, <2>1, StatusSet DEF ImageStatus
  <2>5. Judged
    BY <1>1, <1>3, <2>4 DEF Judged, MonOK
  <2> QED BY <1>1, <1>2, <2>3, <2>4, <2>5 DEF MonOK
<1>4. CASE ~Exists(i)
  <2>1. rows' = rows /\ mon' = [IdleMonitor EXCEPT !.pc = "dead"]
    BY <1>4 DEF Marked
  <2>2. mon' \in Monitors /\ mon'.pc = "dead" /\ mon'.todo = {} /\ mon'.good = {}
    BY <2>1, NoTypes DEF Monitors
  <2> QED BY <1>1, <2>1, <2>2 DEF Judged, SameRows, TypeOK, MonOK
<1> QED BY <1>3, <1>4

LEMMA MonitorLoadGood ==
  ASSUME IInv, MonitorLoad
  PROVE  IInv'
<1>1. TypeOK /\ mon \in Monitors /\ MonOK
  BY DEF IInv, TypeOK
<1>2. /\ uploads' = uploads /\ mixed' = mixed /\ tmp' = tmp /\ files' = files /\ casts' = casts
      /\ rows' = rows
      /\ job' = job /\ reply' = reply /\ faults' = faults /\ domQ' = domQ
  BY DEF MonitorLoad, apiVars, svcVars
<1> DEFINE todo == {i \in Images : rows[i].status \in {"available", "error"}}
<1>3. /\ mon' \in Monitors /\ mon'.pc = "loaded" /\ mon'.todo = todo /\ mon'.good = mon.good
  BY <1>1 DEF MonitorLoad, Monitors
<1>4. TypeOK' /\ Judged
  BY <1>1, <1>2, <1>3 DEF TypeOK, Judged, SameRows
<1>5. MonOK'
  BY <1>1, <1>2, <1>3 DEF MonOK
<1> QED BY <1>2, <1>4, <1>5, JudgedKeeps, JudgedQueueKept DEF IInv

LEMMA MonitorStoragesGood ==
  ASSUME IInv, MonitorStorages
  PROVE  IInv'
<1>1. TypeOK /\ mon \in Monitors /\ MonOK
  BY DEF IInv, TypeOK
<1>2. /\ uploads' = uploads /\ mixed' = mixed /\ tmp' = tmp /\ files' = files /\ casts' = casts
      /\ rows' = rows
      /\ job' = job /\ reply' = reply /\ domQ' = domQ
  BY DEF MonitorStorages, apiVars, svcVars
<1>3. faults' \in 0..MaxFaults /\ (faults' = 0 => faults = 0)
  <2>1. faults' = faults \/ (faults < MaxFaults /\ faults' = faults + 1)
    BY DEF MonitorStorages, Fault
  <2>2. faults \in 0..MaxFaults /\ MaxFaults \in Nat
    BY <1>1, ImageAssumption DEF TypeOK
  <2> QED BY ONLY <2>1, <2>2
<1>4. /\ mon' \in Monitors /\ mon'.pc # "asked" /\ mon'.todo \subseteq mon.todo
      /\ mon'.good \subseteq mon.good
  <2>1. ASSUME NEW up \in BOOLEAN, mon' = [mon EXCEPT !.pc = "loop", !.storage = up]
        PROVE  /\ mon' \in Monitors /\ mon'.pc = "loop" /\ mon'.todo = mon.todo /\ mon'.good = mon.good
    BY <1>1, <2>1 DEF Monitors
  <2>2. /\ IdleMonitor.pc = "idle" /\ IdleMonitor \in Monitors /\ IdleMonitor.todo = {}
        /\ IdleMonitor.good = {}
        /\ [IdleMonitor EXCEPT !.pc = "dead"] \in Monitors /\ [IdleMonitor EXCEPT !.pc = "dead"].pc = "dead"
        /\ [IdleMonitor EXCEPT !.pc = "dead"].todo = {} /\ [IdleMonitor EXCEPT !.pc = "dead"].good = {}
    BY NoTypes DEF Monitors
  <2> QED BY <2>1, <2>2 DEF MonitorStorages
<1>5. TypeOK' /\ Judged
  BY <1>1, <1>2, <1>3, <1>4 DEF TypeOK, Judged, SameRows
<1>6. MonOK'
  BY <1>1, <1>2, <1>4 DEF MonOK
<1> QED BY <1>2, <1>3, <1>5, <1>6, JudgedKeeps, JudgedQueueKept DEF IInv

LEMMA MonitorAnswerGood ==
  ASSUME IInv, MonitorAnswer
  PROVE  IInv'
<1>1. TypeOK /\ mon \in Monitors /\ MonOK /\ mon.cur \in mon.todo
  BY DEF IInv, TypeOK, MonOK, MonitorAnswer
<1>2. /\ uploads' = uploads /\ mixed' = mixed /\ tmp' = tmp /\ files' = files /\ casts' = casts
      /\ job' = job /\ reply' = reply /\ domQ' = domQ /\ faults' = faults
  BY DEF MonitorAnswer, apiVars, svcVars
<1>3. Judged /\ mon' \in Monitors /\ MonOK'
  <2>1. CASE mon.reply = "ok"
    <3>1. /\ rows' = rows
          /\ mon' = [mon EXCEPT !.pc = "loop", !.todo = @ \ {mon.cur}, !.good = @ \cup {mon.cur},
                                !.cur = NoImage, !.reply = "none"]
      BY <2>1 DEF MonitorAnswer
    <3>2. mon.cur \in Images
      BY <1>1 DEF Monitors
    <3>3. /\ mon' \in Monitors /\ mon'.pc = "loop" /\ mon'.todo \subseteq mon.todo
          /\ mon'.good = mon.good \cup {mon.cur}
      BY <1>1, <3>1, <3>2 DEF Monitors
    <3> QED BY <1>1, <3>1, <3>3 DEF Judged, SameRows, TypeOK, MonOK
  <2>2. CASE mon.reply # "ok"
    BY <1>1, <2>2, MarkedIs DEF MonitorAnswer
  <2> QED BY <2>1, <2>2
<1>4. TypeOK'
  BY <1>1, <1>2, <1>3 DEF TypeOK, Judged, SameRows
<1> QED BY <1>2, <1>3, <1>4, JudgedKeeps, JudgedQueueKept DEF IInv

LEMMA MonitorWriteGood ==
  ASSUME IInv, MonitorWrite
  PROVE  IInv'
<1> USE DEF Exists
<1>1. TypeOK /\ mon \in Monitors /\ MonOK /\ mon.good \subseteq Images
  BY DEF IInv, TypeOK, Monitors
<1>2. /\ uploads' = uploads /\ mixed' = mixed /\ tmp' = tmp /\ files' = files /\ casts' = casts
      /\ job' = job /\ reply' = reply /\ domQ' = domQ /\ faults' = faults
  BY DEF MonitorWrite, apiVars, svcVars
<1>3. Judged /\ mon' \in Monitors /\ MonOK'
  <2>1. CASE \A i \in mon.good : Exists(i)
    <3>1. /\ rows' = [i \in Images |-> IF i \in mon.good
                                       THEN [rows[i] EXCEPT !.status = "available"] ELSE rows[i]]
          /\ mon' = IdleMonitor
      BY <2>1 DEF MonitorWrite
    <3>2. \A r \in Rows : LET q == [r EXCEPT !.status = "available"] IN
            q \in Rows /\ q.status = "available" /\ q.name = r.name /\ q.type = r.type /\ q.att = r.att
      BY DEF Rows, ImageStatus
    <3>3. \A i \in Images : rows[i] \in Rows
      BY <1>1, Elements
    <3>4. \A i \in Images : /\ rows'[i] \in Rows /\ rows'[i].name = rows[i].name
                            /\ rows'[i].type = rows[i].type /\ rows'[i].att = rows[i].att
                            /\ \/ rows'[i].status = rows[i].status
                               \/ i \in mon.good /\ rows'[i].status = "available"
      BY <3>1, <3>2, <3>3
    <3>5. rows' \in [Images -> Rows]
      BY <3>1, <3>4
    <3>6. Judged
      BY <1>1, <2>1, <3>4, <3>5 DEF Judged, SameRows, MonOK
    <3> QED BY <3>1, <3>6, NoTypes DEF MonOK
  <2>2. CASE ~\A i \in mon.good : Exists(i)
    <3>1. rows' = rows /\ mon' = [IdleMonitor EXCEPT !.pc = "dead"]
      BY <2>2 DEF MonitorWrite
    <3>2. mon' \in Monitors /\ mon'.pc = "dead" /\ mon'.todo = {} /\ mon'.good = {}
      BY <3>1, NoTypes DEF Monitors
    <3> QED BY <1>1, <3>1, <3>2 DEF Judged, SameRows, TypeOK, MonOK
  <2> QED BY <2>1, <2>2
<1>4. TypeOK'
  BY <1>1, <1>2, <1>3 DEF TypeOK, Judged, SameRows
<1> QED BY <1>2, <1>3, <1>4, JudgedKeeps, JudgedQueueKept DEF IInv

LEMMA MonitorNextGood ==
  ASSUME IInv, MonitorNext
  PROVE  IInv'
<1>1. TypeOK /\ mon \in Monitors /\ MonOK /\ mon.todo \subseteq Images /\ DomainOK /\ AnswerOK
      /\ FilesOK /\ HandsOK
  BY DEF IInv, TypeOK, Monitors
<1>2. /\ uploads' = uploads /\ mixed' = mixed /\ tmp' = tmp /\ files' = files /\ casts' = casts
      /\ job' = job /\ reply' = reply /\ faults' = faults
  BY DEF MonitorNext, apiVars, svcVars
<1>3. PICK i \in mon.todo :
        IF mon.storage
        THEN /\ Call("attach_image_info", i, rows[i].type, "mon")
             /\ mon' = [mon EXCEPT !.pc = "asked", !.cur = i]
             /\ rows' = rows
        ELSE Marked(i) /\ domQ' = domQ
  BY DEF MonitorNext
<1>4. CASE ~mon.storage
  <2>1. Judged /\ mon' \in Monitors /\ MonOK' /\ domQ' = domQ
    BY <1>3, <1>4, MarkedIs
  <2>2. TypeOK'
    BY <1>1, <1>2, <2>1 DEF TypeOK, Judged, SameRows
  <2> QED BY <1>2, <2>1, <2>2, JudgedKeeps, JudgedQueueKept DEF IInv
<1>5. CASE mon.storage
  <2>1. /\ Call("attach_image_info", i, rows[i].type, "mon") /\ rows' = rows
        /\ mon' = [mon EXCEPT !.pc = "asked", !.cur = i]
    BY <1>3, <1>5
  <2>2. i \in Images /\ rows[i].type \in StorageTypes /\ rows[i].status # "none"
    BY <1>1, Elements DEF Rows, MonOK
  <2>3. /\ mon' \in Monitors /\ mon'.pc = "asked" /\ mon'.cur = i /\ mon'.todo = mon.todo
        /\ mon'.good = mon.good
    BY <1>1, <2>1, <2>2 DEF Monitors
  <2>4. MonOK'
    BY <1>1, <2>1, <2>3 DEF MonOK
  <2>5. /\ domQ' \in Seq(Requests)
        /\ \A k \in DOMAIN domQ' :
             \/ k \in DOMAIN domQ /\ domQ'[k] = domQ[k]
             \/ domQ'[k].op = "attach_image_info" /\ domQ'[k].owner = "mon"
    BY <1>1, <2>1, <2>2, CallOf
  <2>6. TypeOK' /\ Judged
    BY <1>1, <1>2, <2>1, <2>3, <2>5 DEF TypeOK, Judged, SameRows
  <2>7. /\ JobOK' /\ CastsOK' /\ UploadsOK' /\ MixedOK' /\ TmpBytesOK' /\ JobBytesOK' /\ StoredOK'
        /\ \A j \in Images :
             (HasAttachment(j)' <=> HasAttachment(j)) /\ (BeingDeleted(j)' <=> BeingDeleted(j))
    BY <1>2, <2>6, JudgedKeeps
  <2>8. DomainOK'
    BY <1>1, <1>2, <2>1, <2>2, MonitorAsks
  <2>9. AnswerOK'
    BY <1>1, <1>2, <2>5 DEF AnswerOK, Waiting
  <2>10. FilesOK'
    <3>1. \A j \in Images : (NothingMakes(j) => NothingMakes(j)') /\ (NothingRemoves(j) => NothingRemoves(j)')
      BY <2>5 DEF NothingMakes, NothingRemoves
    <3> QED BY <1>1, <1>2, <2>1, <2>7, <3>1 DEF FilesOK
  <2>11. HandsOK'
    BY <1>1, <1>2, <2>1, <2>5 DEF HandsOK, Creating, At
  <2> QED BY <2>4, <2>6, <2>7, <2>8, <2>9, <2>10, <2>11 DEF IInv
<1> QED BY <1>4, <1>5

\* Requests whose sender has stopped waiting are what they were, and wait for nobody.
LEMMA DisownedKeeps ==
  ASSUME TypeOK, DomainOK, FilesOK, NEW owners \in {{"svc"}, {"mon"}, {"svc", "mon"}},
         domQ' = Disowned(owners), files' = files,
         \A j \in Images : /\ rows'[j].status = "none" <=> rows[j].status = "none"
                           /\ rows'[j].status = "deleted" <=> rows[j].status = "deleted"
                           /\ rows'[j].type = rows[j].type
                           /\ HasAttachment(j)' => HasAttachment(j)
                           /\ HasAttachment(j) /\ BeingDeleted(j)' => BeingDeleted(j),
         "svc" \in owners \/ (job' = job /\ reply' = reply)
  PROVE  domQ' \in Seq(Requests) /\ DomainOK' /\ FilesOK'
<1>1. /\ domQ' \in Seq(Requests) /\ DOMAIN domQ' = DOMAIN domQ
      /\ \A k \in DOMAIN domQ :
           /\ domQ'[k].op = domQ[k].op /\ domQ'[k].img = domQ[k].img /\ domQ'[k].type = domQ[k].type
           /\ domQ'[k].owner = (IF domQ[k].owner \in owners THEN "none" ELSE domQ[k].owner)
           /\ domQ[k].img \in Images
  BY DisownedOf, Elements
<1>2. DomainOK'
  <2>1. \A k \in DOMAIN domQ' :
          /\ rows'[domQ'[k].img].status # "none"
          /\ domQ'[k].op \in {"upload", "delete"} => rows'[domQ'[k].img].type # "" /\ domQ'[k].type # ""
          /\ domQ'[k].owner = "mon" => domQ'[k].op = "attach_image_info"
    <3>1. \A k \in DOMAIN domQ :
            /\ rows[domQ[k].img].status # "none"
            /\ domQ[k].op \in {"upload", "delete"} => rows[domQ[k].img].type # "" /\ domQ[k].type # ""
            /\ domQ[k].owner = "mon" => domQ[k].op = "attach_image_info"
      BY DEF DomainOK
    <3>2. \A k \in DOMAIN domQ : /\ rows'[domQ[k].img].status = "none" <=> rows[domQ[k].img].status = "none"
                                 /\ rows'[domQ[k].img].type = rows[domQ[k].img].type
      BY <1>1
    <3>3. \A k \in DOMAIN domQ : domQ'[k].owner = "mon" => domQ[k].owner = "mon"
      BY <1>1
    <3>4. \A k \in DOMAIN domQ' : k \in DOMAIN domQ /\ domQ'[k].op = domQ[k].op
                                /\ domQ'[k].img = domQ[k].img /\ domQ'[k].type = domQ[k].type
      BY <1>1
    <3>5. ASSUME NEW k \in DOMAIN domQ'
          PROVE  /\ rows'[domQ'[k].img].status # "none"
                 /\ domQ'[k].op \in {"upload", "delete"} =>
                        rows'[domQ'[k].img].type # "" /\ domQ'[k].type # ""
                 /\ domQ'[k].owner = "mon" => domQ'[k].op = "attach_image_info"
      <4>1. /\ k \in DOMAIN domQ /\ domQ'[k].op = domQ[k].op /\ domQ'[k].img = domQ[k].img
            /\ domQ'[k].type = domQ[k].type
        BY <3>4
      <4>2. rows'[domQ'[k].img].status # "none" /\ rows'[domQ'[k].img].type = rows[domQ[k].img].type
        BY <3>1, <3>2, <4>1
      <4> QED BY <3>1, <3>3, <4>1, <4>2
    <3> QED BY <3>5
  <2>2. CASE "svc" \in owners
    <3>1. \A k \in DOMAIN domQ' : domQ'[k].owner # "svc"
      BY <1>1, <2>2
    <3> QED BY <2>1, <3>1 DEF DomainOK
  <2>3. CASE job' = job /\ reply' = reply
    <3>1. ASSUME NEW k \in DOMAIN domQ', domQ'[k].owner = "svc"
          PROVE  /\ Waiting /\ reply = "none" /\ domQ'[k].img = job.img /\ domQ'[k].op = AskedFor
                 /\ \A m \in DOMAIN domQ' : m > k =>
                        domQ'[m].owner # "svc" /\ domQ'[m].op = "attach_image_info"
      <4>1. k \in DOMAIN domQ /\ domQ[k].owner = "svc"
        BY <1>1, <3>1
      <4>2. /\ Waiting /\ reply = "none" /\ domQ[k].img = job.img /\ domQ[k].op = AskedFor
            /\ \A m \in DOMAIN domQ : m > k => domQ[m].owner # "svc" /\ domQ[m].op = "attach_image_info"
        BY <4>1 DEF DomainOK
      <4>3. \A m \in DOMAIN domQ : domQ[m].owner # "svc" => domQ'[m].owner # "svc"
        BY <1>1
      <4> QED BY <1>1, <4>1, <4>2, <4>3
    <3>2. Waiting' = Waiting /\ AskedFor' = AskedFor
      BY <2>3 DEF Waiting, AskedFor
    <3> QED BY <2>1, <2>3, <3>1, <3>2 DEF DomainOK
  <2> QED BY <2>2, <2>3
<1>3. FilesOK'
  <2>1. \A j \in Images : (NothingMakes(j) => NothingMakes(j)') /\ (NothingRemoves(j) => NothingRemoves(j)')
    BY <1>1 DEF NothingMakes, NothingRemoves
  <2> QED BY <2>1 DEF FilesOK
<1> QED BY <1>1, <1>2, <1>3

LEMMA Faulted ==
  ASSUME TypeOK, Fault
  PROVE  faults' \in 0..MaxFaults /\ faults' # 0 /\ HandsOK' /\ TmpBytesOK' /\ JobBytesOK' /\ StoredOK'
<1>1. faults' \in 0..MaxFaults /\ faults' # 0
  BY ImageAssumption DEF TypeOK, Fault
<1> QED BY <1>1 DEF HandsOK, TmpBytesOK, JobBytesOK, StoredOK

LEMMA MonitorTimeoutGood ==
  ASSUME IInv, MonitorTimeout
  PROVE  IInv'
<1>1. TypeOK /\ mon \in Monitors /\ MonOK /\ mon.cur \in mon.todo /\ DomainOK /\ AnswerOK /\ FilesOK
  BY DEF IInv, TypeOK, MonOK, MonitorTimeout
<1>2. /\ uploads' = uploads /\ mixed' = mixed /\ tmp' = tmp /\ files' = files /\ casts' = casts
      /\ job' = job /\ reply' = reply /\ domQ' = Disowned({"mon"}) /\ Fault
  BY DEF MonitorTimeout, apiVars, svcVars
<1>3. Judged /\ mon' \in Monitors /\ MonOK'
  BY <1>1, MarkedIs DEF MonitorTimeout
<1>4. faults' \in 0..MaxFaults /\ faults' # 0 /\ HandsOK' /\ TmpBytesOK' /\ JobBytesOK' /\ StoredOK'
  BY <1>1, <1>2, Faulted
<1>5. /\ JobOK' /\ CastsOK' /\ UploadsOK' /\ MixedOK'
      /\ \A j \in Images : (HasAttachment(j)' <=> HasAttachment(j)) /\ (BeingDeleted(j)' <=> BeingDeleted(j))
  BY <1>2, <1>3, <1>4, JudgedKeeps
<1>6. \A j \in Images : /\ rows'[j].status = "none" <=> rows[j].status = "none"
                        /\ rows'[j].status = "deleted" <=> rows[j].status = "deleted"
                        /\ rows'[j].type = rows[j].type
  BY <1>3 DEF Judged, SameRows
<1>7. domQ' \in Seq(Requests) /\ DomainOK' /\ FilesOK'
  BY <1>1, <1>2, <1>5, <1>6, DisownedKeeps
<1>8. AnswerOK'
  <2>1. \A k \in DOMAIN domQ' : k \in DOMAIN domQ /\ domQ'[k].op = domQ[k].op
    BY <1>1, <1>2, DisownedOf
  <2> QED BY <1>1, <1>2, <2>1 DEF AnswerOK, Waiting
<1>9. TypeOK'
  BY <1>1, <1>2, <1>3, <1>4, <1>7 DEF TypeOK, Judged, SameRows
<1> QED BY <1>3, <1>4, <1>5, <1>7, <1>8, <1>9 DEF IInv

-----------------------------------------------------------------------------
(* The domain *)

LEMMA HeadOf ==
  ASSUME TypeOK, domQ # <<>>
  PROVE  /\ Head(domQ) \in Requests /\ Head(domQ) = domQ[1] /\ 1 \in DOMAIN domQ
         /\ Head(domQ).img \in Images /\ Tail(domQ) \in Seq(Requests) /\ DOMAIN domQ \subseteq Nat \ {0}
         /\ \A k \in DOMAIN Tail(domQ) : /\ k \in Nat \ {0} /\ k + 1 \in DOMAIN domQ
                                         /\ Tail(domQ)[k] = domQ[k + 1]
<1>1. domQ \in Seq(Requests)
  BY DEF TypeOK
<1>2. DOMAIN domQ \subseteq Nat \ {0} /\ DOMAIN Tail(domQ) \subseteq Nat \ {0}
  BY <1>1
<1> QED BY <1>1, <1>2, TailOf, Elements

\* What the handler waits for tells where it is.
LEMMA AskedIs ==
  ASSUME JobOK, Waiting
  PROVE  /\ job # NoJob /\ job.img \in Images /\ casts = <<>>
         /\ AskedFor = "upload" => job.op = "_create_image" /\ job.pc = "upload"
         /\ AskedFor = "delete_from_tmp" => job.op = "_create_image" /\ job.pc = "delete_from_tmp"
         /\ AskedFor = "delete" => job.op = "_delete_image" /\ job.pc = "domain"
         /\ AskedFor = "attach_image_info" => job.op = "attach_image" /\ job.pc = "domain"
<1>1. job # NoJob
  BY NoTypes DEF Waiting
<1> QED BY <1>1 DEF JobOK, Waiting, AskedFor

\* A request changes the file of its image, and only that.
Touched(r) ==
  /\ \A j \in Images : j # r.img => files'[j] = files[j]
  /\ \/ r.op = "upload" /\ files'[r.img] # {}
     \/ r.op = "delete" /\ files'[r.img] = {}
     \/ files'[r.img] = files[r.img]
  /\ r.op \notin {"upload", "delete"} => files' = files

LEMMA ExecutedIs ==
  ASSUME IInv, domQ # <<>>, CanSucceed(Head(domQ)),
         files' = FilesAfter(Head(domQ)), tmp' = TmpAfter(Head(domQ))
  PROVE  /\ files' \in [Images -> SUBSET (Images \cup {NoImage})] /\ Touched(Head(domQ))
         /\ Head(domQ).op = "upload" => /\ tmp[rows[Head(domQ).img].name] # NoFile
                                        /\ files'[Head(domQ).img] = Converted(Head(domQ))
         /\ Head(domQ).op = "delete" => files'[Head(domQ).img] = {}
         /\ Head(domQ).op = "attach_image_info" => files[Head(domQ).img] # {}
         /\ tmp' \in [Names -> TmpFiles] /\ (Head(domQ).op # "delete_from_tmp" => tmp' = tmp)
         /\ \A n \in Names : tmp'[n].open \subseteq tmp[n].open
         /\ \A n \in Names : n # rows[Head(domQ).img].name => tmp'[n] = tmp[n]
<1> DEFINE r == Head(domQ)
           n == rows[r.img].name
<1>1. TypeOK /\ UploadsOK /\ DomainOK /\ r \in Requests /\ r = domQ[1] /\ 1 \in DOMAIN domQ
      /\ r.img \in Images
  BY HeadOf DEF IInv
<1>2. rows[r.img].status # "none" /\ n \in Names
  BY <1>1 DEF DomainOK, UploadsOK
<1>3. tmp \in [Names -> TmpFiles] /\ tmp[n] \in TmpFiles
      /\ files \in [Images -> SUBSET (Images \cup {NoImage})]
  BY <1>1, <1>2 DEF TypeOK
<1>4. NoFile \in TmpFiles /\ NoFile.open = {} /\ \A t \in TmpFiles : t # NoFile => t.in \cup t.open # {}
  <2>1. \A t \in TmpFiles : t = [in |-> t.in, open |-> t.open]
    BY DEF TmpFiles
  <2>2. \A t \in TmpFiles : t.in = {} /\ t.open = {} => t = NoFile
    BY <2>1 DEF NoFile
  <2> QED BY <2>2 DEF NoFile, TmpFiles
<1>5. Converted(r) \subseteq Images /\ (tmp[n] # NoFile => Converted(r) # {})
  BY <1>3, <1>4 DEF Converted, TmpFiles
<1> HIDE DEF r, n
<1>6. r.op \in {"upload", "delete", "delete_from_tmp", "attach_image_info"}
  BY <1>1 DEF Requests
<1>7. CASE r.op = "upload"
  <2>1. tmp[n] # NoFile /\ files' = [files EXCEPT ![r.img] = Converted(r)] /\ tmp' = tmp
    BY <1>7 DEF CanSucceed, UploadOk, DeleteOk, InfoOk, CleanOk, TmpExists, FilesAfter, TmpAfter, r, n
  <2> QED BY <1>1, <1>3, <1>5, <1>7, <2>1 DEF Touched, r, n
<1>8. CASE r.op = "delete"
  <2>1. files' = [files EXCEPT ![r.img] = {}] /\ tmp' = tmp
    BY <1>8 DEF FilesAfter, TmpAfter, r
  <2> QED BY <1>1, <1>3, <1>8, <2>1 DEF Touched, r, n
<1>9. CASE r.op = "attach_image_info"
  <2>1. files[r.img] # {} /\ files' = files /\ tmp' = tmp
    BY <1>9 DEF CanSucceed, UploadOk, DeleteOk, InfoOk, CleanOk, FilesAfter, TmpAfter, r
  <2> QED BY <1>1, <1>3, <1>9, <2>1 DEF Touched, r, n
<1>10. CASE r.op = "delete_from_tmp"
  <2>1. files' = files /\ tmp' = [tmp EXCEPT ![n] = NoFile]
    BY <1>10 DEF FilesAfter, TmpAfter, Unlinked, r, n
  <2>2. tmp' \in [Names -> TmpFiles] /\ tmp'[n] = NoFile /\ \A m \in Names \ {n} : tmp'[m] = tmp[m]
    BY <1>2, <1>3, <1>4, <2>1
  <2>3. \A m \in Names : tmp'[m].open \subseteq tmp[m].open
    BY <1>4, <2>2
  <2> QED BY <1>1, <1>3, <1>10, <2>1, <2>2, <2>3 DEF Touched, r, n
<1> QED BY <1>6, <1>7, <1>8, <1>9, <1>10

LEMMA TouchedKeeps ==
  ASSUME TypeOK, FilesOK, NEW m \in DOMAIN domQ, Touched(domQ[m]),
         rows' = rows, job' = job, casts' = casts,
         \A k \in DOMAIN domQ' : \E l \in DOMAIN domQ : domQ'[k] = domQ[l]
  PROVE  FilesOK'
<1>1. domQ[m].img \in Images
  BY Elements
<1>2. \A j \in Images : (NothingMakes(j) => NothingMakes(j)') /\ (NothingRemoves(j) => NothingRemoves(j)')
  BY DEF NothingMakes, NothingRemoves
<1>3. \A j \in Images : NothingMakes(j) /\ files[j] = {} => files'[j] = {}
  BY <1>1 DEF NothingMakes, Touched
<1>4. \A j \in Images : NothingRemoves(j) /\ files[j] # {} => files'[j] # {}
  BY <1>1 DEF NothingRemoves, Touched
<1>5. \A j \in Images : BeingDeleted(j)' = BeingDeleted(j) /\ HasAttachment(j)' = HasAttachment(j)
  BY DEF BeingDeleted, HasAttachment
<1> QED BY <1>2, <1>3, <1>4, <1>5 DEF FilesOK

\* The rest does not mind what the domain does.
LEMMA DomainKeeps ==
  ASSUME IInv, uploads' = uploads, mixed' = mixed, rows' = rows, casts' = casts, job' = job,
         \A n \in Names : tmp'[n].open \subseteq tmp[n].open,
         mon' \in Monitors, mon'.pc = mon.pc, mon'.todo = mon.todo, mon'.good = mon.good, mon'.cur = mon.cur
  PROVE  JobOK' /\ CastsOK' /\ UploadsOK' /\ MixedOK' /\ MonOK'
<1>1. TypeOK /\ JobOK /\ CastsOK /\ UploadsOK /\ MixedOK /\ MonOK
  BY DEF IInv
<1>2. JobOK' /\ CastsOK' /\ MonOK'
  BY <1>1 DEF JobOK, CastsOK, MonOK, Exists
<1>3. UploadsOK'
  BY <1>1 DEF UploadsOK, HasAttachment
<1>4. MixedOK'
  <2>1. \A i \in Images : Pending(i)' = Pending(i)
    BY DEF Pending
  <2> QED BY <1>1, <2>1 DEF MixedOK
<1> QED BY <1>2, <1>3, <1>4

LEMMA DomainCrashGood ==
  ASSUME IInv, DomainCrash
  PROVE  IInv'
<1>1. TypeOK /\ DomainOK /\ AnswerOK /\ FilesOK /\ mon \in Monitors
  BY DEF IInv, TypeOK
<1>2. /\ uploads' = uploads /\ mixed' = mixed /\ rows' = rows /\ casts' = casts /\ job' = job
      /\ reply' = reply
      /\ domQ' = domQ /\ mon' = mon /\ Fault /\ domQ # <<>>
  BY DEF DomainCrash, apiVars, svcVars
<1> DEFINE r == Head(domQ)
<1>3. /\ files' \in [Images -> SUBSET (Images \cup {NoImage})] /\ Touched(r)
      /\ tmp' \in [Names -> TmpFiles] /\ \A n \in Names : tmp'[n].open \subseteq tmp[n].open
  BY <1>2, ExecutedIs DEF DomainCrash
<1>4. r = domQ[1] /\ 1 \in DOMAIN domQ
  BY <1>1, <1>2, HeadOf
<1>5. faults' \in 0..MaxFaults /\ HandsOK' /\ TmpBytesOK' /\ JobBytesOK' /\ StoredOK'
  BY <1>1, <1>2, Faulted
<1>6. JobOK' /\ CastsOK' /\ UploadsOK' /\ MixedOK' /\ MonOK'
  BY <1>1, <1>2, <1>3, DomainKeeps
<1>7. DomainOK'
  BY <1>1, <1>2 DEF DomainOK, Waiting, AskedFor
<1>8. AnswerOK'
  <2>1. reply \in {"ok", "err"} => files' = files
    BY <1>1, <1>3, <1>4 DEF AnswerOK, Touched
  <2> QED BY <1>1, <1>2, <2>1 DEF AnswerOK, Waiting
<1>9. FilesOK'
  BY <1>1, <1>2, <1>3, <1>4, TouchedKeeps
<1>10. TypeOK'
  BY <1>1, <1>2, <1>3, <1>5 DEF TypeOK
<1> QED BY <1>5, <1>6, <1>7, <1>8, <1>9, <1>10 DEF IInv

\* The answer goes to who waits for it, and the request leaves the queue.
LEMMA AnsweredKeeps ==
  ASSUME IInv, domQ # <<>>, NEW answer \in {"ok", "err"}, Answered(Head(domQ), answer), domQ' = Tail(domQ),
         Touched(Head(domQ)), rows' = rows, job' = job, casts' = casts,
         answer = "ok" =>
           /\ Head(domQ).op = "delete" => files'[Head(domQ).img] = {}
           /\ Head(domQ).op = "attach_image_info" => files'[Head(domQ).img] # {}
  PROVE  /\ domQ' \in Seq(Requests) /\ DomainOK' /\ AnswerOK' /\ FilesOK'
         /\ reply' \in {"none", "ok", "err", "timeout"}
         /\ mon' \in Monitors /\ mon'.pc = mon.pc /\ mon'.todo = mon.todo /\ mon'.good = mon.good
         /\ mon'.cur = mon.cur
<1>1. TypeOK /\ JobOK /\ DomainOK /\ AnswerOK /\ FilesOK /\ mon \in Monitors
  BY DEF IInv, TypeOK
<1> DEFINE r == Head(domQ)
<1>2. /\ r \in Requests /\ r = domQ[1] /\ 1 \in DOMAIN domQ /\ r.img \in Images
      /\ domQ' \in Seq(Requests)
      /\ \A k \in DOMAIN domQ' : k \in Nat \ {0} /\ k + 1 \in DOMAIN domQ /\ domQ'[k] = domQ[k + 1]
  BY <1>1, HeadOf
<1>3. /\ reply' = (IF r.owner = "svc" THEN answer ELSE reply)
      /\ mon' = (IF r.owner = "mon" THEN [mon EXCEPT !.reply = answer] ELSE mon)
  BY DEF Answered
<1>4. /\ mon' \in Monitors /\ mon'.pc = mon.pc /\ mon'.todo = mon.todo /\ mon'.good = mon.good
      /\ mon'.cur = mon.cur
  BY <1>1, <1>3 DEF Monitors
<1>5. reply' \in {"none", "ok", "err", "timeout"}
  BY <1>1, <1>3 DEF TypeOK
<1>6. FilesOK'
  BY <1>1, <1>2, TouchedKeeps
<1> HIDE DEF r
<1>7. r.owner = "svc" =>
        /\ Waiting /\ r.img = job.img /\ r.op = AskedFor /\ reply = "none"
        /\ \A k \in DOMAIN domQ' : domQ'[k].owner # "svc" /\ domQ'[k].op = "attach_image_info"
  <2> SUFFICES ASSUME r.owner = "svc"
               PROVE  /\ Waiting /\ r.img = job.img /\ r.op = AskedFor /\ reply = "none"
                      /\ \A k \in DOMAIN domQ' : domQ'[k].owner # "svc" /\ domQ'[k].op = "attach_image_info"
    OBVIOUS
  <2>1. /\ Waiting /\ reply = "none" /\ domQ[1].img = job.img /\ domQ[1].op = AskedFor
        /\ \A m \in DOMAIN domQ : m > 1 => domQ[m].owner # "svc" /\ domQ[m].op = "attach_image_info"
    BY <1>1, <1>2 DEF DomainOK
  <2>2. \A k \in DOMAIN domQ' : k + 1 > 1
    BY <1>2
  <2> QED BY <1>2, <2>1, <2>2
<1>8. DomainOK'
  <2>1. \A k \in DOMAIN domQ' :
          /\ rows'[domQ'[k].img].status # "none"
          /\ domQ'[k].op \in {"upload", "delete"} => rows'[domQ'[k].img].type # "" /\ domQ'[k].type # ""
          /\ domQ'[k].owner = "mon" => domQ'[k].op = "attach_image_info"
    <3>1. \A l \in DOMAIN domQ :
            /\ rows[domQ[l].img].status # "none"
            /\ domQ[l].op \in {"upload", "delete"} => rows[domQ[l].img].type # "" /\ domQ[l].type # ""
            /\ domQ[l].owner = "mon" => domQ[l].op = "attach_image_info"
      BY <1>1 DEF DomainOK
    <3> SUFFICES ASSUME NEW k \in DOMAIN domQ'
                 PROVE  /\ rows'[domQ'[k].img].status # "none"
                        /\ domQ'[k].op \in {"upload", "delete"} =>
                              rows'[domQ'[k].img].type # "" /\ domQ'[k].type # ""
                        /\ domQ'[k].owner = "mon" => domQ'[k].op = "attach_image_info"
      OBVIOUS
    <3>2. k + 1 \in DOMAIN domQ /\ domQ'[k] = domQ[k + 1] /\ rows' = rows
      BY <1>2
    <3> QED BY ONLY <3>1, <3>2
  <2>2. ASSUME NEW k \in DOMAIN domQ', domQ'[k].owner = "svc"
        PROVE  /\ Waiting' /\ reply' = "none" /\ domQ'[k].img = job'.img /\ domQ'[k].op = AskedFor'
               /\ \A m \in DOMAIN domQ' : m > k => domQ'[m].owner # "svc" /\ domQ'[m].op = "attach_image_info"
    <3>1. r.owner # "svc" /\ reply' = reply
      BY <1>3, <1>7, <2>2
    <3>2. /\ Waiting /\ reply = "none" /\ domQ[k + 1].img = job.img /\ domQ[k + 1].op = AskedFor
          /\ \A m \in DOMAIN domQ : m > k + 1 => domQ[m].owner # "svc" /\ domQ[m].op = "attach_image_info"
      BY <1>1, <1>2, <2>2 DEF DomainOK
    <3>3. \A m \in DOMAIN domQ' : m > k => m + 1 > k + 1
      BY <1>2
    <3> QED BY <1>2, <3>1, <3>2, <3>3 DEF Waiting, AskedFor
  <2> QED BY <2>1, <2>2 DEF DomainOK
<1>9. AnswerOK'
  <2>1. CASE r.owner = "svc"
    <3>1. job.op = "_delete_image" => r.op = "delete"
      BY <1>1, <1>7, <2>1 DEF AskedFor
    <3>2. job.op = "attach_image" => r.op = "attach_image_info"
      BY <1>1, <1>7, <2>1 DEF AskedFor
    <3>3. answer = "ok" => /\ r.op = "delete" => files'[r.img] = {}
                           /\ r.op = "attach_image_info" => files'[r.img] # {}
      BY DEF r
    <3> QED BY <1>3, <1>7, <2>1, <3>1, <3>2, <3>3 DEF AnswerOK, Waiting
  <2>2. CASE r.owner # "svc"
    <3>1. reply' = reply
      BY <1>3, <2>2
    <3>2. reply \in {"ok", "err"} =>
              files' = files /\ \A k \in DOMAIN domQ' : domQ'[k].op = "attach_image_info"
      BY <1>1, <1>2 DEF AnswerOK, Touched, r
    <3> QED BY <1>1, <3>1, <3>2 DEF AnswerOK, Waiting
  <2> QED BY <2>1, <2>2
<1> QED BY <1>2, <1>4, <1>5, <1>6, <1>8, <1>9

LEMMA DomainFailsGood ==
  ASSUME IInv, DomainFails
  PROVE  IInv'
<1>1. TypeOK /\ FilesOK /\ mon \in Monitors
  BY DEF IInv, TypeOK
<1> DEFINE r == Head(domQ)
<1>2. /\ uploads' = uploads /\ mixed' = mixed /\ rows' = rows /\ casts' = casts /\ job' = job /\ tmp' = tmp
      /\ domQ' = Tail(domQ) /\ Answered(r, "err") /\ Fault /\ domQ # <<>>
      /\ files' = files \/ (r.op = "upload" /\ files' = [files EXCEPT ![r.img] = {NoImage}])
  BY DEF DomainFails, apiVars
<1>3. r \in Requests /\ r.img \in Images
  BY <1>1, <1>2, HeadOf
<1>4. files' \in [Images -> SUBSET (Images \cup {NoImage})] /\ Touched(r)
  <2>1. files \in [Images -> SUBSET (Images \cup {NoImage})] /\ {NoImage} \in SUBSET (Images \cup {NoImage})
    BY <1>1 DEF TypeOK
  <2> HIDE DEF r
  <2> QED BY <1>2, <1>3, <2>1 DEF Touched
<1>5. faults' \in 0..MaxFaults /\ HandsOK' /\ TmpBytesOK' /\ JobBytesOK' /\ StoredOK'
  BY <1>1, <1>2, Faulted
<1>6. /\ domQ' \in Seq(Requests) /\ DomainOK' /\ AnswerOK' /\ FilesOK'
      /\ reply' \in {"none", "ok", "err", "timeout"}
      /\ mon' \in Monitors /\ mon'.pc = mon.pc /\ mon'.todo = mon.todo /\ mon'.good = mon.good
      /\ mon'.cur = mon.cur
  BY <1>2, <1>4, AnsweredKeeps
<1>7. JobOK' /\ CastsOK' /\ UploadsOK' /\ MixedOK' /\ MonOK'
  BY <1>2, <1>6, DomainKeeps
<1>8. TypeOK'
  BY <1>1, <1>2, <1>4, <1>5, <1>6 DEF TypeOK
<1> QED BY <1>5, <1>6, <1>7, <1>8 DEF IInv

LEMMA DomainExecuteGood ==
  ASSUME IInv, DomainExecute
  PROVE  IInv'
<1> USE DEF At
<1>1. /\ TypeOK /\ JobOK /\ UploadsOK /\ DomainOK /\ AnswerOK /\ FilesOK /\ MixedOK /\ HandsOK
      /\ TmpBytesOK /\ JobBytesOK /\ StoredOK /\ mon \in Monitors
  BY DEF IInv, TypeOK
<1> DEFINE r == Head(domQ)
           answer == IF CanSucceed(r) THEN "ok" ELSE "err"
<1>2. /\ uploads' = uploads /\ mixed' = mixed /\ rows' = rows /\ casts' = casts /\ job' = job
      /\ faults' = faults /\ domQ' = Tail(domQ) /\ domQ # <<>> /\ Answered(r, answer)
  BY DEF DomainExecute, apiVars
<1>3. /\ r \in Requests /\ r = domQ[1] /\ 1 \in DOMAIN domQ /\ r.img \in Images
      /\ \A k \in DOMAIN domQ' : k + 1 \in DOMAIN domQ /\ domQ'[k] = domQ[k + 1]
  BY <1>1, <1>2, HeadOf
<1>4. /\ files' \in [Images -> SUBSET (Images \cup {NoImage})] /\ Touched(r)
      /\ (r.op = "upload" /\ CanSucceed(r)) => files'[r.img] = Converted(r)
      /\ (r.op = "delete" /\ CanSucceed(r)) => files'[r.img] = {}
      /\ (r.op = "attach_image_info" /\ CanSucceed(r)) => files[r.img] # {}
      /\ ~CanSucceed(r) => files' = files
      /\ tmp' \in [Names -> TmpFiles] /\ (r.op # "delete_from_tmp" => tmp' = tmp)
      /\ \A n \in Names : tmp'[n].open \subseteq tmp[n].open
      /\ \A n \in Names : n # rows[r.img].name => tmp'[n] = tmp[n]
  <2>1. CASE CanSucceed(r)
    <3>1. files' = FilesAfter(r) /\ tmp' = TmpAfter(r)
      BY <2>1 DEF DomainExecute
    <3> QED BY <1>2, <2>1, <3>1, ExecutedIs
  <2>2. CASE ~CanSucceed(r)
    <3>1. files' = files /\ tmp' = tmp
      BY <2>2 DEF DomainExecute
    <3> HIDE DEF r
    <3> QED BY <1>1, <2>2, <3>1 DEF Touched, TypeOK
  <2> QED BY <2>1, <2>2
<1>5. /\ domQ' \in Seq(Requests) /\ DomainOK' /\ AnswerOK' /\ FilesOK'
      /\ reply' \in {"none", "ok", "err", "timeout"}
      /\ mon' \in Monitors /\ mon'.pc = mon.pc /\ mon'.todo = mon.todo /\ mon'.good = mon.good
      /\ mon'.cur = mon.cur
  <2>1. answer = "ok" => /\ r.op = "delete" => files'[r.img] = {}
                         /\ r.op = "attach_image_info" => files'[r.img] # {}
    BY <1>4 DEF Touched
  <2>2. answer \in {"ok", "err"}
    OBVIOUS
  <2> HIDE DEF answer
  <2> QED BY <1>2, <1>4, <2>1, <2>2, AnsweredKeeps
<1>6. JobOK' /\ CastsOK' /\ UploadsOK' /\ MixedOK' /\ MonOK'
  BY <1>2, <1>4, <1>5, DomainKeeps
<1>7. TypeOK'
  BY <1>1, <1>2, <1>4, <1>5 DEF TypeOK
<1>8. HandsOK'
  BY <1>1, <1>2, <1>3 DEF HandsOK, Creating
<1>9. reply' = IF r.owner = "svc" THEN answer ELSE reply
  BY <1>2 DEF Answered
<1> HIDE DEF r
<1>10. r.owner = "svc" => /\ Waiting /\ r.img = job.img /\ r.op = AskedFor /\ reply = "none" /\ job # NoJob
  BY <1>1, <1>3, AskedIs DEF DomainOK
<1>11. faults = 0 => r.owner = "svc" \/ r.op = "attach_image_info"
  BY <1>1, <1>3 DEF HandsOK, DomainOK, Requests
<1>12. /\ (r.owner = "svc" /\ r.op = "upload") => job.op = "_create_image" /\ job.pc = "upload"
       /\ (r.owner = "svc" /\ r.op = "delete_from_tmp") =>
              job.op = "_create_image" /\ job.pc = "delete_from_tmp"
       /\ (r.owner = "svc" /\ r.op = "delete") => job.op = "_delete_image" /\ job.pc = "domain"
       /\ (r.owner = "svc" /\ r.op = "attach_image_info") => job.op = "attach_image" /\ job.pc = "domain"
  BY <1>1, <1>10, AskedIs
<1>13. TmpBytesOK'
  <2> SUFFICES ASSUME faults' = 0, NEW j \in Images \ mixed'
               PROVE  /\ uploads'[j].pc = "writing" => tmp'[uploads'[j].name] = [in |-> {j}, open |-> {j}]
                      /\ NeedsTmp(j)' => tmp'[uploads'[j].name] = [in |-> {j}, open |-> {}]
    BY DEF TmpBytesOK
  <2>1. /\ uploads[j].pc = "writing" => tmp[uploads[j].name] = [in |-> {j}, open |-> {j}]
        /\ NeedsTmp(j) => tmp[uploads[j].name] = [in |-> {j}, open |-> {}]
    BY <1>1, <1>2 DEF TmpBytesOK
  <2>2. NeedsTmp(j)' = NeedsTmp(j)
    BY <1>2 DEF NeedsTmp, Creating
  <2>3. CASE r.op # "delete_from_tmp"
    BY <1>2, <1>4, <2>1, <2>2, <2>3
  <2>4. CASE r.op = "delete_from_tmp"
    <3>1. job.img = r.img /\ job.pc = "delete_from_tmp" /\ Creating(r.img) /\ Pending(r.img)
      BY <1>1, <1>2, <1>10, <1>11, <1>12, <2>4 DEF HandsOK, Pending, Creating
    <3>2. j = r.img => uploads[j].pc = "done" /\ ~NeedsTmp(j)
      BY <1>1, <3>1 DEF NeedsTmp, UploadsOK, Creating
    <3>3. uploads[j].pc = "writing" \/ NeedsTmp(j) => Pending(j) /\ uploads[j].name \in Names
      BY <1>1 DEF Pending, NeedsTmp, Creating, UploadsOK
    <3>4. rows[r.img].name = uploads[r.img].name
      BY <1>1, <1>3, <3>1 DEF UploadsOK, Creating
    <3>5. j # r.img /\ (uploads[j].pc = "writing" \/ NeedsTmp(j)) => uploads[j].name # rows[r.img].name
      BY <1>1, <1>2, <1>3, <3>1, <3>3, <3>4 DEF MixedOK
    <3> QED BY <1>2, <1>4, <2>1, <2>2, <3>2, <3>3, <3>5
  <2> QED BY <2>3, <2>4
<1>14. JobBytesOK'
  <2> SUFFICES ASSUME faults' = 0, NEW i \in Images \ mixed', job'.img = i
               PROVE  /\ job'.pc = "upload" => reply' = "none" \/ (reply' = "ok" /\ files'[i] = {i})
                      /\ job'.pc = "delete_from_tmp" => rows'[i].type = ""
                      /\ job'.pc = "finish" /\ rows'[i].type # "" => files'[i] = {i}
    BY DEF JobBytesOK
  <2>1. /\ job.pc = "upload" => reply = "none" \/ (reply = "ok" /\ files[i] = {i})
        /\ job.pc = "delete_from_tmp" => rows[i].type = ""
        /\ job.pc = "finish" /\ rows[i].type # "" => files[i] = {i}
    BY <1>1, <1>2 DEF JobBytesOK
  <2>2. CASE r.owner # "svc"
    <3>1. reply' = reply /\ files' = files
      BY <1>2, <1>4, <1>9, <1>11, <2>2 DEF Touched
    <3> QED BY <1>2, <2>1, <3>1
  <2>3. CASE r.owner = "svc" /\ job.pc = "upload"
    <3>1. r.op = "upload" /\ r.img = i
      BY <1>1, <1>2, <1>10, <2>3 DEF AskedFor, JobOK
    <3>2. Creating(i) /\ uploads[i].name = rows[i].name /\ NeedsTmp(i)
      BY <1>1, <1>2, <2>3 DEF HandsOK, Creating, UploadsOK, NeedsTmp
    <3>3. tmp[rows[i].name] = [in |-> {i}, open |-> {}]
      BY <1>1, <1>2, <3>2 DEF TmpBytesOK
    <3>4. r.type # ""
      BY <1>1, <1>3, <3>1 DEF DomainOK
    <3>5. CanSucceed(r) /\ Converted(r) = {i}
      <4>1. tmp[rows[i].name].in = {i} /\ tmp[rows[i].name].open = {} /\ tmp[rows[i].name] # NoFile
        BY <3>3 DEF NoFile
      <4> QED BY <3>1, <3>4, <4>1 DEF CanSucceed, UploadOk, HasClass, TmpExists, Converted
    <3> QED BY <1>2, <1>4, <1>9, <2>3, <3>1, <3>5
  <2>4. CASE r.owner = "svc" /\ job.pc # "upload"
    <3>1. job.pc # "finish"
      BY <1>10, <2>4 DEF Waiting
    <3> QED BY <1>2, <2>1, <2>4, <3>1
  <2> QED BY <2>2, <2>3, <2>4
<1>15. StoredOK'
  <2> SUFFICES ASSUME faults' = 0, NEW i \in Images \ mixed', Stored(i)'
               PROVE  files'[i] = {i}
    BY DEF StoredOK
  <2>1. Stored(i)
    BY <1>2, <1>9, <1>10 DEF Stored
  <2>2. files[i] = {i}
    BY <1>1, <1>2, <2>1 DEF StoredOK
  <2>3. r.op = "upload" => i # r.img
    BY <1>1, <1>2, <1>10, <1>11, <1>12, <2>1 DEF Stored, HandsOK
  <2>4. r.op = "delete" /\ i = r.img => ~CanSucceed(r)
    BY <1>2, <1>9, <1>10, <1>11, <1>12 DEF Stored
  <2> QED BY <1>3, <1>4, <2>2, <2>3, <2>4 DEF Touched
<1> QED BY <1>5, <1>6, <1>7, <1>8, <1>13, <1>14, <1>15 DEF IInv

LEMMA ServiceTimeoutGood ==
  ASSUME IInv, ServiceTimeout
  PROVE  IInv'
<1>1. TypeOK /\ DomainOK /\ FilesOK /\ mon \in Monitors
  BY DEF IInv, TypeOK
<1>2. /\ uploads' = uploads /\ mixed' = mixed /\ tmp' = tmp /\ rows' = rows /\ files' = files
      /\ casts' = casts /\ job' = job /\ mon' = mon /\ reply' = "timeout" /\ Waiting
      /\ domQ' = Disowned({"svc"}) /\ Fault
  BY DEF ServiceTimeout, apiVars, Waiting
<1>3. faults' \in 0..MaxFaults /\ HandsOK' /\ TmpBytesOK' /\ JobBytesOK' /\ StoredOK'
  BY <1>1, <1>2, Faulted
<1>4. JobOK' /\ CastsOK' /\ UploadsOK' /\ MixedOK' /\ MonOK'
  BY <1>1, <1>2, DomainKeeps
<1>5. \A j \in Images : BeingDeleted(j)' = BeingDeleted(j) /\ HasAttachment(j)' = HasAttachment(j)
  BY <1>2 DEF BeingDeleted, HasAttachment
<1>6. domQ' \in Seq(Requests) /\ DomainOK' /\ FilesOK'
  BY <1>1, <1>2, <1>5, DisownedKeeps
<1>7. AnswerOK'
  BY <1>2 DEF AnswerOK, Waiting
<1>8. TypeOK'
  BY <1>1, <1>2, <1>3, <1>6 DEF TypeOK
<1> QED BY <1>3, <1>4, <1>6, <1>7, <1>8 DEF IInv

\* A cast that was not acknowledged is there again, from its start.
LEMMA ServiceCrashGood ==
  ASSUME IInv, ServiceCrash
  PROVE  IInv'
<1>1. TypeOK /\ JobOK /\ CastsOK /\ UploadsOK /\ DomainOK /\ FilesOK /\ MixedOK /\ job \in Jobs
  BY DEF IInv, TypeOK
<1>2. /\ uploads' = uploads /\ mixed' = mixed /\ tmp' = tmp /\ rows' = rows /\ files' = files
      /\ job # NoJob /\ job' = NoJob /\ reply' = "none" /\ mon' = IdleMonitor
      /\ domQ' = Disowned({"svc", "mon"}) /\ Fault
      /\ casts' = IF job.op \in {"_create_image", "_delete_image"}
                  THEN <<Job(job.op, job.img, "start")>> \o casts ELSE casts
  BY DEF ServiceCrash, apiVars
<1>3. job.img \in Images /\ casts = <<>> /\ rows[job.img].status # "none"
  BY <1>1, <1>2 DEF JobOK
<1> DEFINE c == Job(job.op, job.img, "start")
<1>4. casts' \in Seq(Jobs) /\ CastsOK' /\ \A j \in Images : BeingDeleted(j)' => BeingDeleted(j)
  <2>1. CASE job.op \in {"_create_image", "_delete_image"}
    <3>1. c \in Jobs /\ c.op = job.op /\ c.img = job.img /\ c.pc = "start"
      BY <1>3, <2>1, JobOf
    <3>2. casts' = <<c>> \o <<>>
      BY <1>2, <1>3, <2>1
    <3> HIDE DEF c
    <3>3. casts' \in Seq(Jobs) /\ Len(casts') = 1 /\ DOMAIN casts' = {1} /\ casts'[1] = c
      BY <3>1, <3>2, OneElement
    <3>4. CastsOK'
      BY <1>2, <1>3, <2>1, <3>1, <3>3 DEF CastsOK
    <3>5. \A j \in Images : BeingDeleted(j)' => BeingDeleted(j)
      BY <1>2, <3>1, <3>3, NoTypes DEF BeingDeleted
    <3> QED BY <3>3, <3>4, <3>5
  <2>2. CASE job.op \notin {"_create_image", "_delete_image"}
    <3>1. casts' = <<>> /\ casts' \in Seq(Jobs)
      BY <1>1, <1>2, <1>3, <2>2 DEF TypeOK
    <3>2. CastsOK'
      BY <3>1, EmptySequence DEF CastsOK
    <3>3. \A j \in Images : BeingDeleted(j)' => BeingDeleted(j)
      BY <1>2, <3>1, NoTypes, EmptySequence DEF BeingDeleted
    <3> QED BY <3>1, <3>2, <3>3
  <2> QED BY <2>1, <2>2
<1>5. faults' \in 0..MaxFaults /\ HandsOK' /\ TmpBytesOK' /\ JobBytesOK' /\ StoredOK'
  BY <1>1, <1>2, Faulted
<1>6. JobOK'
  BY <1>2, NoTypes DEF JobOK
<1>7. UploadsOK'
  BY <1>1, <1>2 DEF UploadsOK, HasAttachment
<1>8. MixedOK'
  <2>1. \A i \in Images : Pending(i)' = Pending(i)
    BY <1>2 DEF Pending
  <2> QED BY <1>1, <1>2, <2>1 DEF MixedOK
<1>9. MonOK'
  BY <1>2, NoTypes DEF MonOK
<1>10. domQ' \in Seq(Requests) /\ DomainOK' /\ FilesOK'
  <2>1. \A j \in Images : HasAttachment(j)' = HasAttachment(j)
    BY <1>2 DEF HasAttachment
  <2> QED BY <1>1, <1>2, <1>4, <2>1, DisownedKeeps
<1>11. AnswerOK'
  BY <1>2 DEF AnswerOK
<1>12. TypeOK'
  BY <1>1, <1>2, <1>4, <1>5, <1>10, NoTypes DEF TypeOK
<1> QED BY <1>4, <1>5, <1>6, <1>7, <1>8, <1>9, <1>10, <1>11, <1>12 DEF IInv

-----------------------------------------------------------------------------
(* The specification *)

LEMMA InitGood == Init => IInv
<1> SUFFICES ASSUME Init PROVE IInv
  OBVIOUS
<1>1. /\ uploads = [i \in Images |-> [pc |-> "idle", name |-> NoName]]
      /\ tmp = [n \in Names |-> NoFile] /\ rows = [i \in Images |-> NoRow]
      /\ files = [i \in Images |-> {}] /\ casts = <<>> /\ job = NoJob /\ reply = "none" /\ domQ = <<>>
      /\ mon = IdleMonitor /\ faults = 0 /\ mixed = {}
  BY DEF Init
<1>2. /\ \A i \in Images : /\ rows[i].status = "none" /\ rows[i].type = ""
                           /\ uploads[i].pc = "idle" /\ ~HasAttachment(i)
      /\ \A n \in Names : tmp[n].open = {}
  <2>1. \A i \in Images : rows[i] = NoRow /\ uploads[i].pc = "idle"
    BY <1>1
  <2>2. \A v \in VMs : ~(NoRow.att[v] > 0)
    <3>1. \A v \in VMs : NoRow.att[v] = 0
      BY NoTypes
    <3> QED BY <3>1, SMT
  <2>3. NoRow.status = "none" /\ NoRow.type = ""
    BY NoTypes
  <2>4. \A n \in Names : tmp[n].open = {}
    BY <1>1 DEF NoFile
  <2> QED BY <2>1, <2>2, <2>3, <2>4 DEF HasAttachment
<1>3. job = NoJob /\ job.op = "none" /\ job.pc = "idle"
  BY <1>1, NoTypes
<1>4. DOMAIN casts = {} /\ Len(casts) <= 1 /\ DOMAIN domQ = {}
  BY <1>1, EmptySequence
<1>5. TypeOK
  <2>1. uploads \in [Images -> Uploads] /\ tmp \in [Names -> TmpFiles]
    BY <1>1 DEF Uploads, TmpFiles, NoFile
  <2>2. rows \in [Images -> Rows] /\ job \in Jobs /\ mon \in Monitors
    BY <1>1, NoTypes
  <2>3. casts \in Seq(Jobs) /\ domQ \in Seq(Requests)
    BY <1>1
  <2>4. faults \in 0..MaxFaults
    BY <1>1, ImageAssumption
  <2> QED BY <1>1, <2>1, <2>2, <2>3, <2>4 DEF TypeOK
<1>6. JobOK /\ CastsOK /\ DomainOK
  BY <1>3, <1>4 DEF JobOK, CastsOK, DomainOK
<1>7. UploadsOK /\ MixedOK
  BY <1>2 DEF UploadsOK, MixedOK, Pending
<1>8. AnswerOK /\ MonOK
  BY <1>1, NoTypes DEF AnswerOK, MonOK
<1>9. FilesOK
  BY <1>1, <1>2, <1>4 DEF FilesOK, NothingMakes, NothingRemoves
<1>10. HandsOK
  BY <1>2, <1>3, <1>4 DEF HandsOK, Creating, At
<1>11. TmpBytesOK /\ JobBytesOK /\ StoredOK
  BY <1>2, <1>3 DEF TmpBytesOK, NeedsTmp, Creating, JobBytesOK, StoredOK, Stored
<1> QED BY <1>5, <1>6, <1>7, <1>8, <1>9, <1>10, <1>11 DEF IInv

LEMMA Stutters == IInv /\ UNCHANGED vars => IInv'
<1> SUFFICES ASSUME IInv, UNCHANGED vars PROVE IInv'
  OBVIOUS
<1>1. /\ uploads' = uploads /\ tmp' = tmp /\ rows' = rows /\ files' = files /\ casts' = casts
      /\ job' = job /\ reply' = reply /\ domQ' = domQ /\ mon' = mon /\ faults' = faults /\ mixed' = mixed
  BY DEF vars
<1>2. TypeOK' = TypeOK /\ JobOK' = JobOK /\ CastsOK' = CastsOK /\ MonOK' = MonOK
  BY <1>1 DEF TypeOK, JobOK, CastsOK, MonOK, Exists
<1>3. UploadsOK' = UploadsOK /\ DomainOK' = DomainOK /\ AnswerOK' = AnswerOK
  BY <1>1 DEF UploadsOK, HasAttachment, DomainOK, AnswerOK, Waiting, AskedFor
<1>4. FilesOK' = FilesOK /\ MixedOK' = MixedOK
  BY <1>1 DEF FilesOK, HasAttachment, NothingMakes, NothingRemoves, BeingDeleted, MixedOK, Pending
<1>5. HandsOK' = HandsOK
  BY <1>1 DEF HandsOK, Creating, At
<1>6. TmpBytesOK' = TmpBytesOK
  BY <1>1 DEF TmpBytesOK, NeedsTmp, Creating
<1>7. JobBytesOK' = JobBytesOK /\ StoredOK' = StoredOK
  BY <1>1 DEF JobBytesOK, StoredOK, Stored, At
<1> QED BY <1>2, <1>3, <1>4, <1>5, <1>6, <1>7 DEF IInv

LEMMA StepGood == IInv /\ [Next]_vars => IInv'
<1> SUFFICES ASSUME IInv, [Next]_vars PROVE IInv'
  OBVIOUS
<1>1. ASSUME NEW i \in Images,
             ApiUpload(i) \/ DeleteImage(i) \/ ApiAttach(i) \/ ApiDetach(i)
      PROVE  IInv'
  BY <1>1, OpenTmpGood, CloseTmpGood, UploadImageGood, DeleteImageGood, AttachImageGood, DetachImageGood
     DEF ApiUpload, ApiAttach, ApiDetach
<1>2. CASE HandlerStep
  BY <1>2, TakeCastGood, AckCastGood, PublishCastGood, CreateStartGood, CreateUploadedGood,
     CreateCleanedGood, CreateFinishGood, DeleteStartGood, DeleteFinishGood, AttachFinishGood DEF HandlerStep
<1>3. CASE MonitorStep
  BY <1>3, MonitorLoadGood, MonitorStoragesGood, MonitorNextGood, MonitorAnswerGood, MonitorWriteGood
     DEF MonitorStep
<1>4. CASE MonitorTimeout
  BY <1>4, MonitorTimeoutGood
<1>5. CASE DomainExecute \/ DomainFails \/ DomainCrash
  BY <1>5, DomainExecuteGood, DomainFailsGood, DomainCrashGood
<1>6. CASE ServiceTimeout \/ ServiceCrash
  BY <1>6, ServiceTimeoutGood, ServiceCrashGood
<1>7. CASE UNCHANGED vars
  BY <1>7, Stutters
<1> QED BY <1>1, <1>2, <1>3, <1>4, <1>5, <1>6, <1>7 DEF Next, ApiRequest

\* The handlers, the domain and the monitoring of the image module keep the invariant,
\* whatever uploads overlap and whatever fails, times out or is redelivered.
THEOREM ImageInvariant == Spec => []IInv
BY InitGood, StepGood, PTL DEF Spec

\* The table, the directories and the queues stay what the code takes them for.
THEOREM TypeCorrect == Spec => []TypeOK
<1>1. IInv => TypeOK
  BY DEF IInv
<1> QED BY <1>1, ImageInvariant, PTL

\* _create_image makes the image file of the bytes uploaded for it, and of no others:
\* the temporary file of its name is still its own when the domain reads it.
THEOREM UploadArrivesHolds == Spec => []UploadArrives
<1>1. ASSUME IInv PROVE UploadArrives
  <2> SUFFICES ASSUME faults = 0, NEW i \in Images \ mixed, ~BeingDeleted(i),
                      rows[i].status = "available", rows[i].type # ""
               PROVE  files[i] = {i}
    BY DEF UploadArrives
  <2>1. Stored(i)
    BY DEF Stored, BeingDeleted, At
  <2> QED BY <1>1, <2>1 DEF IInv, StoredOK
<1> QED BY <1>1, ImageInvariant, PTL

\* attach_image commits after the domain has seen the file, and no deletion it does
\* not know of is queued behind it.
THEOREM AttachedHasFileHolds == Spec => []AttachedHasFile
<1>1. IInv => AttachedHasFile
  BY DEF IInv, FilesOK, AttachedHasFile
<1> QED BY <1>1, ImageInvariant, PTL

\* _delete_image removes the row only when the domain has removed the file, and then
\* no conversion of the image is left in the queue.
THEOREM DeletedLeavesNoFileHolds == Spec => []DeletedLeavesNoFile
<1>1. IInv => DeletedLeavesNoFile
  BY DEF IInv, FilesOK, NothingMakes, DeletedLeavesNoFile
<1> QED BY <1>1, ImageInvariant, PTL
=============================================================================
