--------------------------- MODULE TemplateProofs ---------------------------
(***************************************************************************)
(* Proofs about TemplateService, for any templates, volumes and names, and *)
(* any number of waiting requests and faults: its types, that a volume     *)
(* finds the bytes of its template where it was made from them, and that   *)
(* without failures every file has its row.  Neither is inductive: what a  *)
(* finished request may do to a row depends on what is in four queues and  *)
(* two jobs, on whose answer is awaited, and on names and paths being      *)
(* unique.                                                                 *)
(***************************************************************************)
EXTENDS TemplateService, TLAPS

-----------------------------------------------------------------------------
(* The inductive invariant *)

\* Messages, and the job, name a template unless they ask for one; a job past its
\* first step has found its row.
MessageOK(m) == IF m.op = "create" THEN m.name \in Names ELSE m.t \in Templates
JobOK ==
  /\ job.pc = "idle" <=> job = NoJob
  /\ job # NoJob => job.msg \in Messages /\ job.msg.op # "get" /\ MessageOK(job.msg)
  /\ job.pc = "asked" => job.msg.op \in {"create", "edit", "delete", "_edit", "_delete"}
  /\ job.pc = "cast" => job.msg.op \in {"create", "edit", "delete"} /\ T \in Templates
  /\ job.pc = "domain" => job.msg.op \in {"_create", "_edit", "_delete"}
  /\ job.pc \in {"asked", "cast", "domain"} /\ job.msg.op # "create" => Exists(T)

\* An answer is there only for who waits for one.
ReplyOK ==
  /\ reply # "none" => job.pc \in {"asked", "domain"}
  /\ job.pc = "domain" => reply # "used"

\* The rows: names are unique, and a path is of its row's name.
RowsOK ==
  /\ \A t \in Templates : ~Exists(t) => rows[t] = NoRow
  /\ \A t \in Templates : Exists(t) =>
       rows[t].path \in Paths /\ rows[t].name \in Names /\ rows[t].path.name = rows[t].name
  /\ \A t, u \in Templates : Exists(t) /\ Exists(u) /\ rows[t].name = rows[u].name => t = u

AskedFor(op) == CASE op = "_create" -> "create" [] op = "_edit" -> "edit" [] OTHER -> "delete"

\* A request to the domain is about a row as it is, and whoever waits for it is the
\* job in hand, whose request is the last.
DomainOK ==
  /\ \A i \in DOMAIN domQ : Exists(domQ[i].t) /\ domQ[i].path = rows[domQ[i].t].path
  /\ \A i \in DOMAIN domQ : domQ[i].live =>
       /\ i = Len(domQ) /\ job.pc = "domain" /\ reply = "none"
       /\ domQ[i].op = AskedFor(job.msg.op) /\ domQ[i].t = T /\ domQ[i].name = job.msg.name
  /\ job.pc = "domain" /\ reply \in {"ok", "err"} => domQ = <<>>

\* The same for what the volume module is asked.
QuestionsOK ==
  \A i \in DOMAIN vqueue : vqueue[i].live =>
    /\ i = Len(vqueue) /\ job.pc = "asked" /\ reply = "none"
    /\ vqueue[i].op = (IF job.msg.op = "create" THEN "volume" ELSE "volumes")
    /\ job.msg.op # "create" => vqueue[i].t = T

\* The files, as long as no name was taken twice: what is at the path of a row is the
\* row's, and a file with the suffix of a creation has its row.
FilesOK ==
  ~clash =>
    /\ \A t \in Templates : Exists(t) => files[rows[t].path] \in {t, NoTemplate}
    /\ \A p \in Paths : p.ext /\ files[p] # NoTemplate =>
         Exists(files[p]) /\ rows[files[p]].path = p

\* What the domain has done and the row does not say yet.
DoneOK ==
  job.pc = "domain" /\ reply = "ok" =>
    /\ (job.msg.op = "_edit" /\ ~clash) =>
         /\ files[Renamed(rows[T].path, job.msg.name)] = T
         /\ Renamed(rows[T].path, job.msg.name) # rows[T].path => files[rows[T].path] = NoTemplate
         /\ ~NameTaken(job.msg.name, T)
    /\ job.msg.op = "_delete" => files[rows[T].path] = NoTemplate

\* The template will be changed, without another look at its volumes.
Doomed(t) ==
  \/ \E i \in DOMAIN queue : queue[i].t = t /\ queue[i].op \in {"_edit", "_delete"}
  \/ T = t /\ job.msg.op \in {"_edit", "_delete"}
  \/ T = t /\ job.msg.op \in {"edit", "delete"} /\ (job.pc = "cast" \/ reply = "ok")
  \/ \E i \in DOMAIN domQ : domQ[i].t = t /\ domQ[i].op \in {"edit", "delete"}

\* A volume that reads its template's file.
Reads(v) == v \notin late /\ vols[v].status # "none" /\ vols[v].near /\ vols[v].t \in Backing
VolumesOK ==
  \A v \in Volumes : Reads(v) =>
    /\ Exists(vols[v].t) /\ vols[v].base = rows[vols[v].t].path /\ ~Doomed(vols[v].t)
    /\ (vols[v].status = "available" /\ ~clash) => files[vols[v].base] = vols[v].t

\* Without failures nobody stops waiting for the domain, and every file has its row,
\* or will have it.
Unfailed ==
  fails + crashes = 0 =>
    /\ \A i \in DOMAIN domQ : domQ[i].live
    /\ ~clash => \A p \in Paths : files[p] # NoTemplate =>
         \/ \E t \in Templates : Exists(t) /\ rows[t].path = p
         \/ At("_edit", "domain") /\ reply = "ok" /\ p = Renamed(rows[T].path, job.msg.name)

\* Types that depend on what a message, an answer or a row is.
MoreTypes ==
  /\ \A i \in DOMAIN queue : MessageOK(queue[i])
  /\ vreply \in Paths \cup {NoAnswer, Gone}
  /\ \A v \in Volumes : vols[v].status # "none" => vols[v].base \in Paths
  /\ \A i \in DOMAIN domQ : domQ[i].path \in Paths

IInv ==
  /\ TypeOK /\ MoreTypes /\ JobOK /\ ReplyOK /\ RowsOK /\ DomainOK /\ QuestionsOK
  /\ FilesOK /\ DoneOK /\ VolumesOK /\ Unfailed
-----------------------------------------------------------------------------
(* Sequences and types *)

LEMMA TailOf ==
  ASSUME NEW S, NEW q \in Seq(S), q # <<>>
  PROVE  /\ Tail(q) \in Seq(S) /\ Head(q) \in S /\ Head(q) = q[1] /\ 1 \in DOMAIN q
         /\ Len(Tail(q)) = Len(q) - 1 /\ Len(q) \in Nat \ {0}
         /\ \A i \in DOMAIN Tail(q) : i + 1 \in DOMAIN q /\ Tail(q)[i] = q[i + 1]
OBVIOUS

LEMMA AppendOf ==
  ASSUME NEW S, NEW q \in Seq(S), NEW m \in S
  PROVE  /\ Append(q, m) \in Seq(S) /\ Len(Append(q, m)) = Len(q) + 1
         /\ \A i \in DOMAIN Append(q, m) :
              (i \in DOMAIN q /\ Append(q, m)[i] = q[i]) \/ (i = Len(q) + 1 /\ Append(q, m)[i] = m)
         /\ \A i \in DOMAIN q : i \in DOMAIN Append(q, m) /\ Append(q, m)[i] = q[i]
OBVIOUS

LEMMA PrependOf ==
  ASSUME NEW S, NEW q \in Seq(S), NEW m \in S
  PROVE  /\ <<m>> \o q \in Seq(S)
         /\ \A i \in DOMAIN (<<m>> \o q) :
              (i = 1 /\ (<<m>> \o q)[i] = m) \/ (i - 1 \in DOMAIN q /\ (<<m>> \o q)[i] = q[i - 1])
OBVIOUS

LEMMA UnheardRequests ==
  ASSUME NEW q \in Seq(Requests)
  PROVE  /\ Unheard(q) \in Seq(Requests) /\ Len(Unheard(q)) = Len(q) /\ DOMAIN Unheard(q) = DOMAIN q
         /\ \A i \in DOMAIN q : /\ ~Unheard(q)[i].live /\ Unheard(q)[i].op = q[i].op
                                /\ Unheard(q)[i].t = q[i].t /\ Unheard(q)[i].path = q[i].path
                                /\ Unheard(q)[i].name = q[i].name
<1>1. ASSUME NEW r \in Requests
      PROVE  /\ [r EXCEPT !.live = FALSE] \in Requests /\ ~[r EXCEPT !.live = FALSE].live
             /\ [r EXCEPT !.live = FALSE].op = r.op
             /\ [r EXCEPT !.live = FALSE].t = r.t
             /\ [r EXCEPT !.live = FALSE].path = r.path
             /\ [r EXCEPT !.live = FALSE].name = r.name
  BY DEF Requests
<1>2. \A i \in DOMAIN q : q[i] \in Requests
  OBVIOUS
<1>3. \A i \in DOMAIN q : Unheard(q)[i] = [q[i] EXCEPT !.live = FALSE]
  BY DEF Unheard
<1>4. /\ Unheard(q) \in [1..Len(q) -> Requests] /\ DOMAIN Unheard(q) = 1..Len(q) /\ Len(q) \in Nat
      /\ DOMAIN q = 1..Len(q)
  BY <1>1, <1>2 DEF Unheard
<1>5. Unheard(q) \in Seq(Requests) /\ Len(Unheard(q)) = Len(q)
  BY ONLY <1>4
<1> QED BY <1>1, <1>2, <1>3, <1>4, <1>5

LEMMA UnheardMessages ==
  ASSUME NEW q \in Seq(Messages)
  PROVE  /\ Unheard(q) \in Seq(Messages) /\ Len(Unheard(q)) = Len(q) /\ DOMAIN Unheard(q) = DOMAIN q
         /\ \A i \in DOMAIN q : /\ ~Unheard(q)[i].live /\ Unheard(q)[i].op = q[i].op
                                /\ Unheard(q)[i].t = q[i].t /\ Unheard(q)[i].name = q[i].name
<1>1. ASSUME NEW r \in Messages
      PROVE  /\ [r EXCEPT !.live = FALSE] \in Messages /\ ~[r EXCEPT !.live = FALSE].live
             /\ [r EXCEPT !.live = FALSE].op = r.op
             /\ [r EXCEPT !.live = FALSE].t = r.t
             /\ [r EXCEPT !.live = FALSE].name = r.name
  BY DEF Messages
<1>2. \A i \in DOMAIN q : q[i] \in Messages
  OBVIOUS
<1>3. \A i \in DOMAIN q : Unheard(q)[i] = [q[i] EXCEPT !.live = FALSE]
  BY DEF Unheard
<1>4. /\ Unheard(q) \in [1..Len(q) -> Messages] /\ DOMAIN Unheard(q) = 1..Len(q) /\ Len(q) \in Nat
      /\ DOMAIN q = 1..Len(q)
  BY <1>1, <1>2 DEF Unheard
<1>5. Unheard(q) \in Seq(Messages) /\ Len(Unheard(q)) = Len(q)
  BY ONLY <1>4
<1> QED BY <1>1, <1>2, <1>3, <1>4, <1>5

LEMMA UnheardQuestions ==
  ASSUME NEW q \in Seq(Questions)
  PROVE  /\ Unheard(q) \in Seq(Questions) /\ Len(Unheard(q)) = Len(q) /\ DOMAIN Unheard(q) = DOMAIN q
         /\ \A i \in DOMAIN q : ~Unheard(q)[i].live
<1>1. ASSUME NEW r \in Questions
      PROVE  /\ [r EXCEPT !.live = FALSE] \in Questions /\ ~[r EXCEPT !.live = FALSE].live
             /\ [r EXCEPT !.live = FALSE].op = r.op
             /\ [r EXCEPT !.live = FALSE].t = r.t
  BY DEF Questions
<1>2. \A i \in DOMAIN q : q[i] \in Questions
  OBVIOUS
<1>3. \A i \in DOMAIN q : Unheard(q)[i] = [q[i] EXCEPT !.live = FALSE]
  BY DEF Unheard
<1>4. /\ Unheard(q) \in [1..Len(q) -> Questions] /\ DOMAIN Unheard(q) = 1..Len(q) /\ Len(q) \in Nat
      /\ DOMAIN q = 1..Len(q)
  BY <1>1, <1>2 DEF Unheard
<1>5. Unheard(q) \in Seq(Questions) /\ Len(Unheard(q)) = Len(q)
  BY ONLY <1>4
<1> QED BY <1>1, <1>2, <1>3, <1>4, <1>5

LEMMA NoTypes ==
  /\ NoJob \in Jobs /\ NoJob.pc = "idle" /\ NoJob.msg = NoMessage
  /\ NoMessage.op = "none" /\ NoMessage.t = NoTemplate
  /\ NoRow \in Rows /\ NoRow.status = "none" /\ NoRow.path = NoPath
  /\ NoVol \in Vols /\ NoVol.status = "none"
  /\ NoVolumeJob \in VolumeJobs /\ NoVolumeJob.pc = "idle" /\ NoVolumeJob.t = NoTemplate
  /\ NoPath \notin Paths
BY TemplateAssumption
   DEF NoJob, Jobs, NoMessage, NoRow, Rows, NoPath, Paths, NoVol, Vols, NoVolumeJob, VolumeJobs

LEMMA Elements ==
  ASSUME TypeOK
  PROVE  /\ \A i \in DOMAIN domQ : domQ[i] \in Requests /\ domQ[i].t \in Templates
         /\ \A p \in Paths : files[p] \in Templates \cup {NoTemplate}
         /\ \A i \in DOMAIN queue : queue[i] \in Messages
         /\ \A i \in DOMAIN vqueue : vqueue[i] \in Questions
         /\ \A t \in Templates : rows[t] \in Rows
<1>1. /\ domQ \in Seq(Requests) /\ queue \in Seq(Messages) /\ vqueue \in Seq(Questions)
      /\ files \in [Paths -> Templates \cup {NoTemplate}] /\ rows \in [Templates -> Rows]
  BY DEF TypeOK
<1>2. \A r \in Requests : r.t \in Templates
  BY DEF Requests
<1> QED BY <1>1, <1>2

\* The rows but for their status.
SameRows ==
  \A t \in Templates : /\ Exists(t) <=> rows'[t].status # "none"
                       /\ rows'[t].path = rows[t].path /\ rows'[t].name = rows[t].name

LEMMA StatusSet ==
  ASSUME TypeOK, RowsOK, NEW t \in Templates, Exists(t), NEW s \in TemplateStatus, SetStatus(t, s)
  PROVE  rows' \in [Templates -> Rows] /\ SameRows /\ RowsOK'
<1>1. rows[t] \in Rows /\ rows \in [Templates -> Rows] /\ s # "none"
  BY DEF TypeOK, TemplateStatus
<1>2. PICK r \in Rows : r = rows[t]
  BY <1>1
<1>3. /\ [r EXCEPT !.status = s] \in Rows /\ [r EXCEPT !.status = s].status = s
      /\ [r EXCEPT !.status = s].path = r.path /\ [r EXCEPT !.status = s].name = r.name
  BY DEF Rows
<1>4. rows' = [rows EXCEPT ![t] = [r EXCEPT !.status = s]]
  BY <1>2 DEF SetStatus
<1>5. SameRows
  BY <1>1, <1>2, <1>3, <1>4 DEF SameRows, Exists
<1>6. \A u \in Templates : rows'[u].status = "none" => rows'[u] = rows[u]
  BY <1>1, <1>3, <1>4
<1> QED BY <1>1, <1>2, <1>3, <1>4, <1>5, <1>6 DEF SameRows, RowsOK, Exists

LEMMA FilesKept ==
  ASSUME TypeOK, RowsOK, FilesOK, SameRows, files' = files, clash' = clash
  PROVE  FilesOK'
BY Elements DEF FilesOK, SameRows, RowsOK, Exists

\* What is said of the volumes holds on when no template that has some is touched.
LEMMA VolumesKept ==
  ASSUME TypeOK, VolumesOK, vols' = vols, late' = late,
         \A t \in Backing : Exists(t) /\ Related(t) # {} /\ ~Doomed(t) =>
           /\ rows'[t].status # "none" /\ rows'[t].path = rows[t].path /\ ~Doomed(t)'
           /\ (~clash' /\ files[rows[t].path] = t) => files'[rows[t].path] = t,
         clash => clash'
  PROVE  VolumesOK'
<1> SUFFICES ASSUME NEW v \in Volumes, Reads(v)'
             PROVE  (/\ Exists(vols[v].t) /\ vols[v].base = rows[vols[v].t].path /\ ~Doomed(vols[v].t)
                     /\ (vols[v].status = "available" /\ ~clash) => files[vols[v].base] = vols[v].t)'
  BY DEF VolumesOK
<1>1. Reads(v) /\ vols[v].t \in Backing
  BY TemplateAssumption DEF Reads
<1>2. /\ Exists(vols[v].t) /\ vols[v].base = rows[vols[v].t].path /\ ~Doomed(vols[v].t)
      /\ (vols[v].status = "available" /\ ~clash) => files[vols[v].base] = vols[v].t
  BY <1>1 DEF VolumesOK
<1>3. v \in Related(vols[v].t)
  BY <1>1 DEF Related, Reads
<1>4. vols'[v].t = vols[v].t
  OBVIOUS
<1> QED BY <1>1, <1>2, <1>3, <1>4 DEF Exists

LEMMA CallDomainIs ==
  ASSUME TypeOK, RowsOK, DomainOK, T \in Templates, Exists(T), job.msg \in Messages, job.pc # "domain",
         NEW op \in {"create", "edit", "delete"}, CallDomain(op)
  PROVE  /\ domQ' \in Seq(Requests) /\ Len(domQ') \in Nat
         /\ \A i \in DOMAIN domQ' :
              \/ i \in DOMAIN domQ /\ domQ'[i] = domQ[i] /\ ~domQ[i].live
              \/ /\ i = Len(domQ') /\ domQ'[i].op = op /\ domQ'[i].t = T /\ domQ'[i].live = TRUE
                 /\ domQ'[i].path = rows[T].path /\ domQ'[i].name = job.msg.name
<1> DEFINE r == [op |-> op, t |-> T, path |-> rows[T].path, name |-> job.msg.name, live |-> TRUE]
<1>1. /\ r \in Requests /\ r.op = op /\ r.t = T /\ r.live = TRUE /\ r.path = rows[T].path
      /\ r.name = job.msg.name
  BY DEF Requests, RowsOK, Messages
<1>2. domQ \in Seq(Requests) /\ domQ' = Append(domQ, r)
  BY DEF TypeOK, CallDomain
<1>3. \A i \in DOMAIN domQ : ~domQ[i].live
  BY DEF DomainOK
<1> HIDE DEF r
<1> QED BY <1>1, <1>2, <1>3, AppendOf

-----------------------------------------------------------------------------
(* The template service layer *)

LEMMA RequestGood ==
  ASSUME IInv, NEW msg \in Messages, msg.op \in {"create", "edit", "delete"}, MessageOK(msg), Request(msg)
  PROVE  IInv'
<1> USE DEF T, Exists, At, Goto, Done, templateVars, volumeVars, SetStatus
<1>1. TypeOK /\ MoreTypes /\ JobOK /\ ReplyOK /\ RowsOK /\ DomainOK /\ QuestionsOK /\ FilesOK /\ DoneOK
      /\ VolumesOK /\ Unfailed
  BY DEF IInv
<1>2. queue \in Seq(Messages) /\ queue' \in Seq(Messages)
      /\ \A i \in DOMAIN queue' : queue'[i] = msg \/ \E j \in DOMAIN queue : queue'[i] = queue[j]
  BY <1>1, AppendOf DEF TypeOK, Request
<1>3. TypeOK' /\ MoreTypes'
  BY <1>1, <1>2 DEF Request, TypeOK, MoreTypes
<1>4. JobOK'
  BY <1>1, <1>2 DEF Request, JobOK, MessageOK
<1>5. ReplyOK'
  BY <1>1, <1>2 DEF Request, ReplyOK
<1>6. RowsOK'
  BY <1>1, <1>2 DEF Request, RowsOK
<1>7. DomainOK'
  BY <1>1, <1>2 DEF Request, DomainOK
<1>8. QuestionsOK'
  BY <1>1, <1>2 DEF Request, QuestionsOK
<1>9. FilesOK'
  BY <1>1, <1>2 DEF Request, FilesOK
<1>10. DoneOK'
  BY <1>1, <1>2 DEF Request, DoneOK, NameTaken
<1>11. VolumesOK'
  <2>1. \A t \in Templates : ~Doomed(t) => ~Doomed(t)'
    BY <1>1, <1>2 DEF Doomed, Request
  <2> QED BY <1>1, <2>1, VolumesKept, TemplateAssumption DEF Request
<1>12. Unfailed'
  BY <1>1, <1>2 DEF Request, Unfailed
<1> QED BY <1>3, <1>4, <1>5, <1>6, <1>7, <1>8, <1>9, <1>10, <1>11, <1>12 DEF IInv

LEMMA TakeMessageGood ==
  ASSUME IInv, TakeMessage
  PROVE  IInv'
<1> USE DEF T, Exists, At, Goto, Done, templateVars, volumeVars, SetStatus
<1>1. TypeOK /\ MoreTypes /\ JobOK /\ ReplyOK /\ RowsOK /\ DomainOK /\ QuestionsOK /\ FilesOK /\ DoneOK
      /\ VolumesOK /\ Unfailed
  BY DEF IInv
<1>2. /\ queue \in Seq(Messages) /\ queue' \in Seq(Messages) /\ Head(queue) \in Messages
      /\ MessageOK(Head(queue))
      /\ \E j \in DOMAIN queue : Head(queue) = queue[j]
      /\ \A i \in DOMAIN queue' : \E j \in DOMAIN queue : queue'[i] = queue[j]
  BY <1>1, TailOf DEF TypeOK, TakeMessage, MoreTypes
<1>3. /\ job' \in Jobs /\ job'.msg = Head(queue) /\ job'.pc = "start" /\ job' # NoJob
      /\ job.pc = "idle" /\ job.msg.op = "none" /\ reply = "none"
  BY <1>1, <1>2, NoTypes DEF Jobs, TakeMessage, ReplyOK
<1>4. TypeOK' /\ MoreTypes'
  BY <1>1, <1>2, <1>3 DEF TakeMessage, TypeOK, MoreTypes
<1>5. JobOK'
  BY <1>1, <1>2, <1>3 DEF TakeMessage, JobOK, MessageOK
<1>6. ReplyOK'
  BY <1>1, <1>2, <1>3 DEF TakeMessage, ReplyOK
<1>7. RowsOK'
  BY <1>1, <1>2, <1>3 DEF TakeMessage, RowsOK
<1>8. DomainOK'
  BY <1>1, <1>2, <1>3 DEF TakeMessage, DomainOK
<1>9. QuestionsOK'
  BY <1>1, <1>2, <1>3 DEF TakeMessage, QuestionsOK
<1>10. FilesOK'
  BY <1>1, <1>2, <1>3 DEF TakeMessage, FilesOK
<1>11. DoneOK'
  BY <1>1, <1>2, <1>3 DEF TakeMessage, DoneOK, NameTaken
<1>12. VolumesOK'
  <2>1. \A t \in Templates : ~Doomed(t) => ~Doomed(t)'
    BY <1>1, <1>2, <1>3 DEF Doomed, TakeMessage
  <2> QED BY <1>1, <2>1, VolumesKept, TemplateAssumption DEF TakeMessage
<1>13. Unfailed'
  BY <1>1, <1>2, <1>3 DEF TakeMessage, Unfailed
<1> QED BY <1>4, <1>5, <1>6, <1>7, <1>8, <1>9, <1>10, <1>11, <1>12, <1>13 DEF IInv

LEMMA GetTemplateGood ==
  ASSUME IInv, GetTemplate
  PROVE  IInv'
<1> USE DEF T, Exists, At, Goto, Done, templateVars, volumeVars, SetStatus
<1>1. TypeOK /\ MoreTypes /\ JobOK /\ ReplyOK /\ RowsOK /\ DomainOK /\ QuestionsOK /\ FilesOK /\ DoneOK
      /\ VolumesOK /\ Unfailed
  BY DEF IInv
<1>2. /\ queue \in Seq(Messages) /\ queue' \in Seq(Messages) /\ Head(queue) \in Messages
      /\ MessageOK(Head(queue))
      /\ \A i \in DOMAIN queue' : \E j \in DOMAIN queue : queue'[i] = queue[j]
  BY <1>1, TailOf DEF TypeOK, GetTemplate, MoreTypes
<1>3. Head(queue).t \in Templates /\ (Exists(Head(queue).t) => rows[Head(queue).t].path \in Paths)
  BY <1>1, <1>2 DEF RowsOK, MessageOK, GetTemplate
<1>4. vreply' \in Paths \cup {NoAnswer, Gone}
  BY <1>1, <1>3 DEF GetTemplate, MoreTypes
<1>5. TypeOK' /\ MoreTypes'
  BY <1>1, <1>2, <1>4 DEF GetTemplate, TypeOK, MoreTypes, NoAnswer, Gone
<1>6. JobOK'
  BY <1>1, <1>2, <1>3, <1>4 DEF GetTemplate, JobOK, MessageOK
<1>7. ReplyOK'
  BY <1>1, <1>2, <1>3, <1>4 DEF GetTemplate, ReplyOK
<1>8. RowsOK'
  BY <1>1, <1>2, <1>3, <1>4 DEF GetTemplate, RowsOK
<1>9. DomainOK'
  BY <1>1, <1>2, <1>3, <1>4 DEF GetTemplate, DomainOK
<1>10. QuestionsOK'
  BY <1>1, <1>2, <1>3, <1>4 DEF GetTemplate, QuestionsOK
<1>11. FilesOK'
  BY <1>1, <1>2, <1>3, <1>4 DEF GetTemplate, FilesOK
<1>12. DoneOK'
  BY <1>1, <1>2, <1>3, <1>4 DEF GetTemplate, DoneOK, NameTaken
<1>13. VolumesOK'
  <2>1. \A t \in Templates : ~Doomed(t) => ~Doomed(t)'
    BY <1>1, <1>2 DEF Doomed, GetTemplate
  <2> QED BY <1>1, <2>1, VolumesKept, TemplateAssumption DEF GetTemplate
<1>14. Unfailed'
  BY <1>1, <1>2, <1>3, <1>4 DEF GetTemplate, Unfailed
<1> QED BY <1>5, <1>6, <1>7, <1>8, <1>9, <1>10, <1>11, <1>12, <1>13, <1>14 DEF IInv

LEMMA PublishCastGood ==
  ASSUME IInv, PublishCast
  PROVE  IInv'
<1> USE DEF T, Exists, At, Goto, Done, templateVars, volumeVars, SetStatus
<1>1. TypeOK /\ MoreTypes /\ JobOK /\ ReplyOK /\ RowsOK /\ DomainOK /\ QuestionsOK /\ FilesOK /\ DoneOK
      /\ VolumesOK /\ Unfailed
  BY DEF IInv
<1>2. job.msg \in Messages /\ job.msg.op \in {"create", "edit", "delete"} /\ T \in Templates /\ job # NoJob
      /\ reply = "none"
  BY <1>1, NoTypes DEF JobOK, PublishCast, ReplyOK
<1>3. PICK op \in {"_create", "_edit", "_delete"} :
        /\ queue' = Append(queue, [job.msg EXCEPT !.op = op])
        /\ op = "_create" <=> job.msg.op = "create"
  BY <1>2 DEF PublishCast
<1>4. /\ [job.msg EXCEPT !.op = op] \in Messages /\ [job.msg EXCEPT !.op = op].op = op
      /\ [job.msg EXCEPT !.op = op].t = T
  BY <1>2 DEF Messages, Operations
<1>5. queue \in Seq(Messages) /\ queue' \in Seq(Messages)
      /\ \A i \in DOMAIN queue' : queue'[i] = [job.msg EXCEPT !.op = op]
                                 \/ \E j \in DOMAIN queue : queue'[i] = queue[j]
  BY <1>1, <1>3, <1>4, AppendOf DEF TypeOK
<1>6. job' = NoJob /\ job'.pc = "idle" /\ job'.msg.op = "none" /\ job' \in Jobs
  BY NoTypes DEF PublishCast
<1>7. TypeOK' /\ MoreTypes'
  BY <1>1, <1>2, <1>4, <1>5, <1>6 DEF PublishCast, TypeOK, MoreTypes, MessageOK
<1>8. JobOK'
  BY <1>1, <1>2, <1>3, <1>4, <1>5, <1>6 DEF PublishCast, JobOK, MessageOK
<1>9. ReplyOK'
  BY <1>1, <1>2, <1>3, <1>4, <1>5, <1>6 DEF PublishCast, ReplyOK
<1>10. RowsOK'
  BY <1>1, <1>2, <1>3, <1>4, <1>5, <1>6 DEF PublishCast, RowsOK
<1>11. DomainOK'
  BY <1>1, <1>2, <1>3, <1>4, <1>5, <1>6 DEF PublishCast, DomainOK
<1>12. QuestionsOK'
  BY <1>1, <1>2, <1>3, <1>4, <1>5, <1>6 DEF PublishCast, QuestionsOK
<1>13. FilesOK'
  BY <1>1, <1>2, <1>3, <1>4, <1>5, <1>6 DEF PublishCast, FilesOK
<1>14. DoneOK'
  BY <1>1, <1>2, <1>3, <1>4, <1>5, <1>6 DEF PublishCast, DoneOK, NameTaken
<1>15. VolumesOK'
  <2>1. \A t \in Templates : ~Doomed(t) => ~Doomed(t)'
    BY <1>1, <1>2, <1>3, <1>4, <1>5, <1>6 DEF Doomed, PublishCast
  <2> QED BY <1>1, <2>1, VolumesKept, TemplateAssumption DEF PublishCast
<1>16. Unfailed'
  BY <1>1, <1>2, <1>3, <1>4, <1>5, <1>6 DEF PublishCast, Unfailed
<1> QED BY <1>7, <1>8, <1>9, <1>10, <1>11, <1>12, <1>13, <1>14, <1>15, <1>16 DEF IInv

LEMMA CreateStartGood ==
  ASSUME IInv, CreateStart
  PROVE  IInv'
<1> USE DEF T, Exists, At, Goto, Done, templateVars, volumeVars, SetStatus
<1>1. TypeOK /\ MoreTypes /\ JobOK /\ ReplyOK /\ RowsOK /\ DomainOK /\ QuestionsOK /\ FilesOK /\ DoneOK
      /\ VolumesOK /\ Unfailed
  BY DEF IInv
<1>2. vqueue \in Seq(Questions) /\ vqueue' \in Seq(Questions) /\ Len(vqueue') = Len(vqueue) + 1
      /\ \A i \in DOMAIN vqueue' :
           \/ i \in DOMAIN vqueue /\ vqueue'[i] = vqueue[i]
           \/ i = Len(vqueue') /\ vqueue'[i].op = "volume"
  <2>1. [op |-> "volume", t |-> NoTemplate, live |-> TRUE] \in Questions
    BY DEF Questions
  <2> QED BY <1>1, <2>1, AppendOf DEF TypeOK, CreateStart, AskVolumes
<1>3. job' \in Jobs /\ job' # NoJob /\ job'.pc = "asked" /\ job'.msg = job.msg /\ job # NoJob /\ reply = "none"
  BY <1>1, NoTypes DEF TypeOK, Jobs, CreateStart, JobOK, ReplyOK
<1>4. TypeOK' /\ MoreTypes'
  BY <1>1, <1>2, <1>3 DEF CreateStart, TypeOK, MoreTypes
<1>5. JobOK'
  BY <1>1, <1>2, <1>3 DEF CreateStart, JobOK, MessageOK
<1>6. ReplyOK'
  BY <1>1, <1>2, <1>3 DEF CreateStart, ReplyOK
<1>7. RowsOK'
  BY <1>1, <1>2, <1>3 DEF CreateStart, RowsOK
<1>8. DomainOK'
  BY <1>1, <1>2, <1>3 DEF CreateStart, DomainOK
<1>9. QuestionsOK'
  BY <1>1, <1>2, <1>3 DEF CreateStart, QuestionsOK
<1>10. FilesOK'
  BY <1>1, <1>2, <1>3 DEF CreateStart, FilesOK
<1>11. DoneOK'
  BY <1>1, <1>2, <1>3 DEF CreateStart, DoneOK, NameTaken
<1>12. VolumesOK'
  <2>1. \A t \in Templates : ~Doomed(t) => ~Doomed(t)'
    BY <1>1, <1>3 DEF Doomed, CreateStart
  <2> QED BY <1>1, <2>1, VolumesKept, TemplateAssumption DEF CreateStart
<1>13. Unfailed'
  BY <1>1, <1>2, <1>3 DEF CreateStart, Unfailed
<1> QED BY <1>4, <1>5, <1>6, <1>7, <1>8, <1>9, <1>10, <1>11, <1>12, <1>13 DEF IInv

LEMMA AskRelatedGood ==
  ASSUME IInv, AskRelated
  PROVE  IInv'
<1> USE DEF T, Exists, At, Goto, Done, templateVars, volumeVars, SetStatus
<1>1. TypeOK /\ MoreTypes /\ JobOK /\ ReplyOK /\ RowsOK /\ DomainOK /\ QuestionsOK /\ FilesOK /\ DoneOK
      /\ VolumesOK /\ Unfailed
  BY DEF IInv
<1>2. T \in Templates /\ job \in Jobs /\ job # NoJob /\ job.msg.op \in {"edit", "delete", "_edit", "_delete"}
      /\ reply = "none"
  BY <1>1, NoTypes DEF TypeOK, AskRelated, JobOK, ReplyOK, MessageOK
<1>3. \/ vqueue' = vqueue /\ job' = NoJob
      \/ /\ Exists(T) /\ job' \in Jobs /\ job' # NoJob /\ job'.pc = "asked" /\ job'.msg = job.msg
         /\ vqueue' = Append(vqueue, [op |-> "volumes", t |-> T, live |-> TRUE])
  BY <1>2, NoTypes DEF AskRelated, AskVolumes, Jobs
<1>4. vqueue \in Seq(Questions) /\ vqueue' \in Seq(Questions)
      /\ \A i \in DOMAIN vqueue' :
           \/ i \in DOMAIN vqueue /\ vqueue'[i] = vqueue[i]
           \/ /\ i = Len(vqueue') /\ vqueue'[i].op = "volumes" /\ vqueue'[i].t = T
              /\ job'.pc = "asked" /\ job'.msg = job.msg
  <2> DEFINE m == [op |-> "volumes", t |-> T, live |-> TRUE]
  <2>1. m \in Questions /\ m.op = "volumes" /\ m.t = T
    BY <1>2 DEF Questions
  <2> HIDE DEF m
  <2>2. CASE vqueue' = Append(vqueue, m) /\ job'.pc = "asked" /\ job'.msg = job.msg
    <3>1. vqueue \in Seq(Questions)
      BY <1>1 DEF TypeOK
    <3> QED BY <2>1, <2>2, <3>1, AppendOf
  <2>3. CASE vqueue' = vqueue
    BY <1>1, <2>3 DEF TypeOK
  <2> QED BY <1>3, <2>2, <2>3 DEF m
<1>5. job' \in Jobs /\ (job'.pc = "idle" <=> job' = NoJob) /\ job'.pc \in {"idle", "asked"}
  BY <1>3, NoTypes
<1>6. TypeOK' /\ MoreTypes'
  BY <1>1, <1>2, <1>3, <1>4, <1>5 DEF AskRelated, TypeOK, MoreTypes
<1>7. JobOK'
  BY <1>1, <1>2, <1>3, <1>4, <1>5 DEF AskRelated, JobOK, MessageOK
<1>8. ReplyOK'
  BY <1>1, <1>2, <1>3, <1>4, <1>5 DEF AskRelated, ReplyOK
<1>9. RowsOK'
  BY <1>1, <1>2, <1>3, <1>4, <1>5 DEF AskRelated, RowsOK
<1>10. DomainOK'
  BY <1>1, <1>2, <1>3, <1>4, <1>5 DEF AskRelated, DomainOK
<1>11. QuestionsOK'
  BY <1>1, <1>2, <1>3, <1>4, <1>5 DEF AskRelated, QuestionsOK
<1>12. FilesOK'
  BY <1>1, <1>2, <1>3, <1>4, <1>5 DEF AskRelated, FilesOK
<1>13. DoneOK'
  BY <1>1, <1>2, <1>3, <1>4, <1>5 DEF AskRelated, DoneOK, NameTaken
<1>14. VolumesOK'
  <2>1. \A t \in Templates : ~Doomed(t) => ~Doomed(t)'
    BY <1>1, <1>2, <1>3 DEF Doomed, AskRelated, NoJob, NoMessage
  <2> QED BY <1>1, <2>1, VolumesKept, TemplateAssumption DEF AskRelated
<1>15. Unfailed'
  BY <1>1, <1>2, <1>3, <1>4, <1>5 DEF AskRelated, Unfailed
<1> QED BY <1>6, <1>7, <1>8, <1>9, <1>10, <1>11, <1>12, <1>13, <1>14, <1>15 DEF IInv

LEMMA CheckGood ==
  ASSUME IInv, Check
  PROVE  IInv'
<1> USE DEF T, Exists, At, Goto, Done, templateVars, volumeVars, SetStatus
<1>1. TypeOK /\ MoreTypes /\ JobOK /\ ReplyOK /\ RowsOK /\ DomainOK /\ QuestionsOK /\ FilesOK /\ DoneOK
      /\ VolumesOK /\ Unfailed
  BY DEF IInv
<1>2. T \in Templates /\ job \in Jobs /\ job # NoJob /\ Exists(T) /\ job.msg.op \in {"edit", "delete"}
  BY <1>1, NoTypes DEF TypeOK, Check, JobOK, MessageOK
<1>3. \/ rows' = rows /\ job' = NoJob
      \/ /\ job' \in Jobs /\ job' # NoJob /\ job'.pc = "cast" /\ job'.msg = job.msg /\ MayChange
         /\ \E s \in {"editing", "deleting"} : SetStatus(T, s)
  BY <1>2, NoTypes DEF Check, Jobs
<1>4. rows' \in [Templates -> Rows] /\ SameRows /\ RowsOK'
  <2>1. CASE rows' = rows
    BY <1>1, <2>1 DEF TypeOK, SameRows, RowsOK
  <2> QED BY <1>1, <1>2, <1>3, <2>1, StatusSet DEF TemplateStatus
<1>5. job' \in Jobs /\ (job'.pc = "idle" <=> job' = NoJob) /\ job'.pc \in {"idle", "cast"} /\ reply' = "none"
  BY <1>3, NoTypes DEF Check
<1>6. TypeOK' /\ MoreTypes'
  BY <1>1, <1>2, <1>3, <1>4, <1>5 DEF Check, TypeOK, MoreTypes
<1>7. JobOK'
  BY <1>1, <1>2, <1>3, <1>4, <1>5, NoTypes DEF Check, JobOK, MessageOK, SameRows, Jobs
<1>8. ReplyOK'
  BY <1>1, <1>2, <1>3, <1>4, <1>5 DEF Check, ReplyOK
<1>9. RowsOK'
  BY <1>4
<1>10. DomainOK'
  BY <1>1, <1>2, <1>4, <1>5, Elements DEF Check, DomainOK, SameRows
<1>11. QuestionsOK'
  BY <1>1, <1>2, <1>3, <1>4, <1>5 DEF Check, QuestionsOK
<1>12. FilesOK'
  BY <1>1, <1>4, FilesKept DEF Check
<1>13. DoneOK'
  BY <1>1, <1>2, <1>3, <1>4, <1>5 DEF Check, DoneOK, NameTaken
<1>14. VolumesOK'
  <2>1. \A t \in Backing : ~Doomed(t) => ~Doomed(t)'
    <3>1. CASE job' = NoJob
      BY <1>2, <1>5, <3>1, NoTypes DEF Doomed, Check
    <3>2. CASE job'.msg = job.msg /\ MayChange
      BY <1>2, <1>5, <3>2 DEF Doomed, Check, MayChange
    <3> QED BY <1>3, <3>1, <3>2
  <2> QED BY <1>1, <1>4, <2>1, VolumesKept, TemplateAssumption DEF Check, SameRows
<1>15. Unfailed'
  BY <1>1, <1>2, <1>4, <1>5, Elements DEF Check, Unfailed, SameRows
<1> QED BY <1>6, <1>7, <1>8, <1>9, <1>10, <1>11, <1>12, <1>13, <1>14, <1>15 DEF IInv
LEMMA ChangeCallGood ==
  ASSUME IInv, ChangeCall
  PROVE  IInv'
<1> USE DEF T, Exists, At, Goto, Done, templateVars, volumeVars, SetStatus
<1>1. TypeOK /\ MoreTypes /\ JobOK /\ ReplyOK /\ RowsOK /\ DomainOK /\ QuestionsOK /\ FilesOK /\ DoneOK
      /\ VolumesOK /\ Unfailed
  BY DEF IInv
<1>2. T \in Templates /\ job \in Jobs /\ job # NoJob /\ job.msg \in Messages /\ Exists(T)
      /\ job.msg.op \in {"_edit", "_delete"} /\ job.pc = "asked"
  BY <1>1, NoTypes DEF TypeOK, ChangeCall, JobOK, MessageOK
<1>3. \/ domQ' = domQ /\ job' = NoJob
      \/ /\ job' \in Jobs /\ job' # NoJob /\ job'.pc = "domain" /\ job'.msg = job.msg
         /\ CallDomain(AskedFor(job.msg.op))
  BY <1>2, NoTypes DEF ChangeCall, Jobs, AskedFor
<1>4. /\ domQ' \in Seq(Requests) /\ Len(domQ') \in Nat
      /\ \A i \in DOMAIN domQ' :
           \/ i \in DOMAIN domQ /\ domQ'[i] = domQ[i] /\ ~domQ[i].live
           \/ /\ i = Len(domQ') /\ domQ'[i].t = T /\ domQ'[i].op = AskedFor(job.msg.op)
              /\ domQ'[i].path = rows[T].path /\ domQ'[i].name = job.msg.name
              /\ domQ'[i].live = TRUE /\ job'.pc = "domain" /\ job'.msg = job.msg
  <2>1. AskedFor(job.msg.op) \in {"create", "edit", "delete"}
    BY DEF AskedFor
  <2>2. CASE CallDomain(AskedFor(job.msg.op)) /\ job'.pc = "domain" /\ job'.msg = job.msg
    BY <1>1, <1>2, <2>1, <2>2, CallDomainIs
  <2>3. CASE domQ' = domQ
    BY <1>1, <1>2, <2>3 DEF TypeOK, DomainOK
  <2> QED BY <1>3, <2>2, <2>3
<1>5. job' \in Jobs /\ (job'.pc = "idle" <=> job' = NoJob) /\ job'.pc \in {"idle", "domain"} /\ reply' = "none"
  BY <1>3, NoTypes DEF ChangeCall
<1>6. TypeOK' /\ MoreTypes'
  BY <1>1, <1>2, <1>4, <1>5 DEF ChangeCall, TypeOK, MoreTypes, RowsOK
<1>7. JobOK'
  BY <1>1, <1>2, <1>3, NoTypes DEF ChangeCall, JobOK, MessageOK
<1>8. ReplyOK'
  BY <1>1, <1>2, <1>3, <1>4, <1>5 DEF ChangeCall, ReplyOK
<1>9. RowsOK'
  BY <1>1, <1>2, <1>3, <1>4, <1>5 DEF ChangeCall, RowsOK
<1>10. DomainOK'
  BY <1>1, <1>2, <1>3, <1>4, <1>5 DEF ChangeCall, DomainOK
<1>11. QuestionsOK'
  BY <1>1, <1>2, <1>3, <1>4, <1>5 DEF ChangeCall, QuestionsOK
<1>12. FilesOK'
  BY <1>1, <1>2, <1>3, <1>4, <1>5 DEF ChangeCall, FilesOK
<1>13. DoneOK'
  BY <1>1, <1>2, <1>3, <1>4, <1>5 DEF ChangeCall, DoneOK, NameTaken
<1>14. VolumesOK'
  <2>1. \A t \in Templates : ~Doomed(t) => ~Doomed(t)'
    BY <1>1, <1>2, <1>3, <1>4, <1>5, NoTypes DEF Doomed, ChangeCall
  <2> QED BY <1>1, <2>1, VolumesKept, TemplateAssumption DEF ChangeCall
<1>15. Unfailed'
  BY <1>1, <1>2, <1>4, <1>5 DEF ChangeCall, Unfailed
<1> QED BY <1>6, <1>7, <1>8, <1>9, <1>10, <1>11, <1>12, <1>13, <1>14, <1>15 DEF IInv

LEMMA CreateCallGood ==
  ASSUME IInv, CreateCall
  PROVE  IInv'
<1> USE DEF T, Exists, At, Goto, Done, templateVars, volumeVars, SetStatus
<1>1. TypeOK /\ MoreTypes /\ JobOK /\ ReplyOK /\ RowsOK /\ DomainOK /\ QuestionsOK /\ FilesOK /\ DoneOK
      /\ VolumesOK /\ Unfailed
  BY DEF IInv
<1>2. T \in Templates /\ job \in Jobs /\ job # NoJob /\ job.msg \in Messages /\ job.msg.op = "_create"
      /\ job.pc = "start" /\ reply = "none"
  BY <1>1, NoTypes DEF TypeOK, CreateCall, JobOK, MessageOK, ReplyOK
<1>3. \/ domQ' = domQ /\ job' = NoJob /\ rows' = rows
      \/ /\ job' \in Jobs /\ job' # NoJob /\ job'.pc = "domain" /\ job'.msg = job.msg
         /\ Exists(T) /\ SetStatus(T, "creating") /\ CallDomain("create")
  BY <1>2, NoTypes DEF CreateCall, Jobs
<1>4. rows' \in [Templates -> Rows] /\ SameRows /\ RowsOK'
  <2>1. CASE rows' = rows
    BY <1>1, <2>1 DEF TypeOK, SameRows, RowsOK
  <2> QED BY <1>1, <1>2, <1>3, <2>1, StatusSet DEF TemplateStatus
<1>5. /\ domQ' \in Seq(Requests) /\ Len(domQ') \in Nat
      /\ \A i \in DOMAIN domQ' :
           \/ i \in DOMAIN domQ /\ domQ'[i] = domQ[i] /\ ~domQ[i].live
           \/ /\ i = Len(domQ') /\ domQ'[i].t = T /\ domQ'[i].op = "create" /\ Exists(T)
              /\ domQ'[i].path = rows[T].path /\ domQ'[i].name = job.msg.name
              /\ domQ'[i].live = TRUE /\ job'.pc = "domain" /\ job'.msg = job.msg
  <2>2. CASE CallDomain("create") /\ job'.pc = "domain" /\ job'.msg = job.msg /\ Exists(T)
    BY <1>1, <1>2, <2>2, CallDomainIs
  <2>3. CASE domQ' = domQ
    BY <1>1, <1>2, <2>3 DEF TypeOK, DomainOK
  <2> QED BY <1>3, <2>2, <2>3
<1>6. job' \in Jobs /\ (job'.pc = "idle" <=> job' = NoJob) /\ job'.pc \in {"idle", "domain"} /\ reply' = "none"
  BY <1>2, <1>3, NoTypes DEF CreateCall
<1>7. TypeOK' /\ MoreTypes'
  BY <1>1, <1>2, <1>4, <1>5, <1>6 DEF CreateCall, TypeOK, MoreTypes, RowsOK
<1>8. JobOK'
  BY <1>1, <1>2, <1>3, <1>4, NoTypes DEF CreateCall, JobOK, MessageOK, SameRows
<1>9. ReplyOK'
  BY <1>1, <1>2, <1>3, <1>4, <1>5, <1>6 DEF CreateCall, ReplyOK
<1>10. RowsOK'
  BY <1>4
<1>11. DomainOK'
  BY <1>1, <1>2, <1>4, <1>5, <1>6, Elements DEF DomainOK, SameRows, AskedFor
<1>12. QuestionsOK'
  BY <1>1, <1>2, <1>3, <1>4, <1>5, <1>6 DEF CreateCall, QuestionsOK
<1>13. FilesOK'
  BY <1>1, <1>4, FilesKept DEF CreateCall
<1>14. DoneOK'
  BY <1>1, <1>2, <1>3, <1>4, <1>5, <1>6 DEF CreateCall, DoneOK, NameTaken
<1>15. VolumesOK'
  <2>1. \A t \in Templates : ~Doomed(t) => ~Doomed(t)'
    BY <1>1, <1>2, <1>3, <1>5, <1>6, NoTypes DEF Doomed, CreateCall
  <2> QED BY <1>1, <1>4, <2>1, VolumesKept, TemplateAssumption DEF CreateCall, SameRows
<1>16. Unfailed'
  BY <1>1, <1>2, <1>4, <1>5, <1>6 DEF CreateCall, Unfailed, SameRows
<1> QED BY <1>7, <1>8, <1>9, <1>10, <1>11, <1>12, <1>13, <1>14, <1>15, <1>16 DEF IInv

LEMMA CreateFinishGood ==
  ASSUME IInv, CreateFinish
  PROVE  IInv'
<1> USE DEF T, Exists, At, Goto, Done, templateVars, volumeVars, SetStatus
<1>1. TypeOK /\ MoreTypes /\ JobOK /\ ReplyOK /\ RowsOK /\ DomainOK /\ QuestionsOK /\ FilesOK /\ DoneOK
      /\ VolumesOK /\ Unfailed
  BY DEF IInv
<1>2. T \in Templates /\ Exists(T) /\ job.msg.op = "_create" /\ job.pc = "domain"
  BY <1>1, NoTypes DEF TypeOK, CreateFinish, JobOK, MessageOK
<1>3. rows' \in [Templates -> Rows] /\ SameRows /\ RowsOK'
  <2>1. \E s \in TemplateStatus : SetStatus(T, s)
    BY DEF CreateFinish, TemplateStatus
  <2> QED BY <1>1, <1>2, <2>1, StatusSet
<1>4. job' = NoJob /\ job'.pc = "idle" /\ job'.msg.op = "none" /\ job' \in Jobs /\ reply' = "none"
  BY NoTypes DEF CreateFinish
<1>5. \A i \in DOMAIN domQ : ~domQ[i].live
  BY <1>1, <1>2 DEF CreateFinish, DomainOK
<1>6. TypeOK' /\ MoreTypes'
  BY <1>1, <1>2, <1>3, <1>4, <1>5 DEF CreateFinish, TypeOK, MoreTypes
<1>7. JobOK'
  BY <1>1, <1>2, <1>3, <1>4, <1>5 DEF CreateFinish, JobOK, MessageOK
<1>8. ReplyOK'
  BY <1>1, <1>2, <1>3, <1>4, <1>5 DEF CreateFinish, ReplyOK
<1>9. RowsOK'
  BY <1>3
<1>10. DomainOK'
  BY <1>1, <1>2, <1>3, <1>4, <1>5, Elements DEF CreateFinish, DomainOK, SameRows
<1>11. QuestionsOK'
  BY <1>1, <1>2, <1>3, <1>4, <1>5 DEF CreateFinish, QuestionsOK
<1>12. FilesOK'
  BY <1>1, <1>3, FilesKept DEF CreateFinish
<1>13. DoneOK'
  BY <1>1, <1>2, <1>3, <1>4, <1>5 DEF CreateFinish, DoneOK, NameTaken
<1>14. VolumesOK'
  <2>1. \A t \in Templates : ~Doomed(t) => ~Doomed(t)'
    BY <1>1, <1>2, <1>4 DEF Doomed, CreateFinish
  <2> QED BY <1>1, <1>3, <2>1, VolumesKept, TemplateAssumption DEF CreateFinish, SameRows
<1>15. Unfailed'
  BY <1>1, <1>2, <1>3, <1>4, <1>5 DEF CreateFinish, Unfailed, SameRows
<1> QED BY <1>6, <1>7, <1>8, <1>9, <1>10, <1>11, <1>12, <1>13, <1>14, <1>15 DEF IInv

LEMMA CreateInsertGood ==
  ASSUME IInv, CreateInsert
  PROVE  IInv'
<1> USE DEF T, Exists, At, Goto, Done, templateVars, volumeVars, SetStatus
<1>1. TypeOK /\ MoreTypes /\ JobOK /\ ReplyOK /\ RowsOK /\ DomainOK /\ QuestionsOK /\ FilesOK /\ DoneOK
      /\ VolumesOK /\ Unfailed
  BY DEF IInv
<1>2. /\ job \in Jobs /\ job # NoJob /\ job.msg \in Messages /\ job.msg.op = "create" /\ job.pc = "asked"
      /\ reply' = "none" /\ job.msg.name \in Names
  BY <1>1, NoTypes DEF TypeOK, CreateInsert, JobOK, Messages, MessageOK
<1>3. \A i \in DOMAIN domQ : ~domQ[i].live
  BY <1>1, <1>2 DEF DomainOK
<1>4. ASSUME rows' = rows, job' = NoJob PROVE IInv'
  <2>1. job'.pc = "idle" /\ job'.msg.op = "none" /\ job' \in Jobs
    BY <1>4, NoTypes
  <2>2. \A t \in Templates : ~Doomed(t) => ~Doomed(t)'
    BY <1>2, <1>4, <2>1 DEF Doomed, CreateInsert
  <2>3. VolumesOK'
    BY <1>1, <1>4, <2>2, VolumesKept, TemplateAssumption DEF CreateInsert
  <2>4. TypeOK' /\ MoreTypes' /\ JobOK' /\ ReplyOK' /\ RowsOK'
    BY <1>1, <1>2, <1>4, <2>1 DEF CreateInsert, TypeOK, MoreTypes, JobOK, ReplyOK, RowsOK
  <2>5. DomainOK' /\ QuestionsOK' /\ FilesOK' /\ DoneOK' /\ Unfailed'
    BY <1>1, <1>2, <1>3, <1>4, <2>1 DEF CreateInsert, DomainOK, QuestionsOK, FilesOK, DoneOK, Unfailed
  <2> QED BY <2>3, <2>4, <2>5 DEF IInv
<1> DEFINE path == [name |-> job.msg.name, ext |-> TRUE]
           r == [status |-> "new", name |-> job.msg.name, path |-> path]
<1>5. SUFFICES ASSUME ~NameTaken(job.msg.name, NoTemplate), NEW t \in Templates, Fresh(t),
                      rows' = [rows EXCEPT ![t] = r],
                      job' = [msg |-> [job.msg EXCEPT !.t = t], pc |-> "cast"]
               PROVE  IInv'
  BY <1>4 DEF CreateInsert
<1> DEFINE m == [job.msg EXCEPT !.t = t]
<1>6. m \in Messages /\ m.op = "create" /\ m.t = t /\ m.name = job.msg.name
  BY <1>2 DEF Messages
<1> HIDE DEF m
<1>7. /\ job' \in Jobs /\ job' # NoJob /\ job'.pc = "cast" /\ job'.msg = m
  <2>1. job' = [msg |-> m, pc |-> "cast"]
    BY <1>5 DEF m
  <2> QED BY <1>6, <2>1, NoTypes DEF Jobs
<1>8. /\ r \in Rows /\ r.status = "new" /\ r.name = job.msg.name /\ r.path = path /\ path \in Paths
      /\ path.name = job.msg.name /\ path.ext = TRUE
  BY <1>2 DEF Rows, Paths, TemplateStatus
<1> HIDE DEF path, r
<1>9. /\ rows \in [Templates -> Rows] /\ rows' \in [Templates -> Rows] /\ rows'[t] = r /\ ~Exists(t)
      /\ \A u \in Templates \ {t} : rows'[u] = rows[u]
  BY <1>1, <1>5, <1>8 DEF TypeOK, Fresh
<1>10. \A u \in Templates : Exists(u) => rows[u].name # job.msg.name
  BY <1>5, TemplateAssumption DEF NameTaken
<1>11. RowsOK'
  BY <1>1, <1>2, <1>8, <1>9, <1>10 DEF RowsOK
<1>12. FilesOK'
  <2>1. ~clash => files[path] = NoTemplate
    BY <1>1, <1>8, <1>10, Elements DEF FilesOK, RowsOK
  <2> QED BY <1>1, <1>8, <1>9, <2>1, Elements, TemplateAssumption DEF FilesOK, CreateInsert
<1>13. DomainOK'
  <2>1. \A i \in DOMAIN domQ : domQ[i].t # t
    BY <1>5 DEF Fresh
  <2> QED BY <1>1, <1>3, <1>7, <1>9, <2>1, Elements DEF DomainOK, CreateInsert
<1>14. TypeOK' /\ MoreTypes'
  BY <1>1, <1>2, <1>7, <1>9 DEF CreateInsert, TypeOK, MoreTypes
<1>15. JobOK' /\ ReplyOK' /\ QuestionsOK' /\ DoneOK'
  BY <1>1, <1>2, <1>6, <1>7, <1>8, <1>9 DEF CreateInsert, JobOK, ReplyOK, QuestionsOK, DoneOK, MessageOK
<1>16. Unfailed'
  BY <1>1, <1>2, <1>9 DEF CreateInsert, Unfailed
<1>17. VolumesOK'
  <2>1. \A u \in Templates : ~Doomed(u) => ~Doomed(u)'
    BY <1>2, <1>6, <1>7 DEF Doomed, CreateInsert
  <2> QED BY <1>1, <1>9, <2>1, VolumesKept, TemplateAssumption DEF CreateInsert
<1> QED BY <1>11, <1>12, <1>13, <1>14, <1>15, <1>16, <1>17 DEF IInv

LEMMA DeleteFinishGood ==
  ASSUME IInv, DeleteFinish
  PROVE  IInv'
<1> USE DEF T, Exists, At, Goto, Done, templateVars, volumeVars, SetStatus
<1>1. TypeOK /\ MoreTypes /\ JobOK /\ ReplyOK /\ RowsOK /\ DomainOK /\ QuestionsOK /\ FilesOK /\ DoneOK
      /\ VolumesOK /\ Unfailed
  BY DEF IInv
<1>2. T \in Templates /\ Exists(T) /\ job.msg.op = "_delete" /\ job.pc = "domain"
  BY <1>1, NoTypes DEF TypeOK, DeleteFinish, JobOK, MessageOK
<1>3. job' = NoJob /\ job'.pc = "idle" /\ job'.msg.op = "none" /\ job' \in Jobs /\ reply' = "none"
  BY NoTypes DEF DeleteFinish
<1>4. \A i \in DOMAIN domQ : ~domQ[i].live
  BY <1>1, <1>2 DEF DeleteFinish, DomainOK
<1>5. /\ rows' \in [Templates -> Rows]
      /\ \/ SameRows /\ RowsOK' /\ reply # "ok"
         \/ /\ reply = "ok" /\ domQ = <<>> /\ files[rows[T].path] = NoTemplate /\ rows'[T] = NoRow
            /\ \A u \in Templates \ {T} : rows'[u] = rows[u]
  <2>1. CASE reply = "ok"
    BY <1>1, <1>2, <2>1, NoTypes DEF TypeOK, DomainOK, DoneOK, DeleteFinish
  <2>2. CASE reply # "ok"
    BY <1>1, <1>2, <2>2, StatusSet DEF DeleteFinish, TemplateStatus
  <2> QED BY <2>1, <2>2
<1>6. TypeOK' /\ MoreTypes'
  BY <1>1, <1>2, <1>3, <1>4, <1>5 DEF DeleteFinish, TypeOK, MoreTypes
<1>7. JobOK'
  BY <1>1, <1>2, <1>3, <1>4, <1>5 DEF DeleteFinish, JobOK, MessageOK
<1>8. ReplyOK'
  BY <1>1, <1>2, <1>3, <1>4, <1>5 DEF DeleteFinish, ReplyOK
<1>9. RowsOK'
  BY <1>1, <1>5, NoTypes DEF RowsOK
<1>10. DomainOK'
  BY <1>1, <1>2, <1>3, <1>4, <1>5, Elements DEF DeleteFinish, DomainOK, SameRows
<1>11. QuestionsOK'
  BY <1>1, <1>2, <1>3, <1>4, <1>5 DEF DeleteFinish, QuestionsOK
<1>12. FilesOK'
  <2>1. CASE SameRows
    BY <1>1, <2>1, FilesKept DEF DeleteFinish
  <2>2. CASE /\ files[rows[T].path] = NoTemplate /\ rows'[T] = NoRow
             /\ \A u \in Templates \ {T} : rows'[u] = rows[u]
    BY <1>1, <1>2, <2>2, Elements, NoTypes DEF FilesOK, RowsOK, DeleteFinish
  <2> QED BY <1>5, <2>1, <2>2
<1>13. DoneOK'
  BY <1>1, <1>2, <1>3, <1>4, <1>5 DEF DeleteFinish, DoneOK, NameTaken
<1>14. VolumesOK'
  <2>1. \A t \in Templates : ~Doomed(t) => ~Doomed(t)'
    BY <1>1, <1>2, <1>3 DEF Doomed, DeleteFinish
  <2>2. \A t \in Templates : ~Doomed(t) => t # T
    BY <1>2 DEF Doomed
  <2> QED BY <1>1, <1>5, <2>1, <2>2, VolumesKept, TemplateAssumption DEF DeleteFinish, SameRows
<1>15. Unfailed'
  <2>1. CASE SameRows
    BY <1>1, <1>2, <2>1 DEF DeleteFinish, Unfailed, SameRows
  <2>2. CASE /\ files[rows[T].path] = NoTemplate /\ rows'[T] = NoRow
             /\ \A u \in Templates \ {T} : rows'[u] = rows[u]
    BY <1>1, <1>2, <2>2 DEF Unfailed, DeleteFinish
  <2> QED BY <1>5, <2>1, <2>2
<1> QED BY <1>6, <1>7, <1>8, <1>9, <1>10, <1>11, <1>12, <1>13, <1>14, <1>15 DEF IInv

LEMMA EditFinishGood ==
  ASSUME IInv, EditFinish
  PROVE  IInv'
<1> USE DEF T, Exists, At, Goto, Done, templateVars, volumeVars, SetStatus
<1>1. TypeOK /\ MoreTypes /\ JobOK /\ ReplyOK /\ RowsOK /\ DomainOK /\ QuestionsOK /\ FilesOK /\ DoneOK
      /\ VolumesOK /\ Unfailed
  BY DEF IInv
<1>2. T \in Templates /\ Exists(T) /\ job.msg.op = "_edit" /\ job.pc = "domain"
      /\ job.msg.name \in Names \cup {NoName}
  BY <1>1, NoTypes DEF TypeOK, EditFinish, JobOK, MessageOK, Messages
<1>3. job' = NoJob /\ job'.pc = "idle" /\ job'.msg.op = "none" /\ job' \in Jobs /\ reply' = "none"
  BY NoTypes DEF EditFinish
<1>4. \A i \in DOMAIN domQ : ~domQ[i].live
  BY <1>1, <1>2 DEF EditFinish, DomainOK
<1>5. CASE reply = "ok" /\ ~NameTaken(job.msg.name, T)
  <2> DEFINE n == job.msg.name
             r == Edited(rows[T], n)
  <2>1. /\ rows[T] \in Rows /\ rows[T].path \in Paths /\ rows[T].name \in Names
        /\ rows[T].path.name = rows[T].name
    BY <1>1, <1>2 DEF TypeOK, RowsOK
  <2>2. n # NoName => [name |-> n, ext |-> FALSE] \in Paths /\ [name |-> n, ext |-> FALSE].name = n
    BY <1>2 DEF Paths
  <2>3. /\ r \in Rows /\ r.status = "available" /\ r.path = Renamed(rows[T].path, n) /\ r.path \in Paths
        /\ r.name = (IF n = NoName THEN rows[T].name ELSE n) /\ r.name \in Names /\ r.path.name = r.name
    BY <1>2, <2>1, <2>2 DEF Edited, Renamed, Rows, TemplateStatus
  <2>4. /\ rows' = [rows EXCEPT ![T] = r] /\ domQ = <<>> /\ domQ' = domQ
    BY <1>1, <1>2, <1>5 DEF EditFinish, DomainOK
  <2> HIDE DEF r
  <2>5. /\ rows \in [Templates -> Rows] /\ rows' \in [Templates -> Rows] /\ rows'[T] = r
        /\ \A u \in Templates \ {T} : rows'[u] = rows[u]
    BY <1>1, <1>2, <2>3, <2>4 DEF TypeOK
  <2>6. \A u \in Templates \ {T} : Exists(u) => rows[u].name # r.name
    BY <1>1, <1>2, <1>5, <2>3 DEF NameTaken, RowsOK
  <2>7. ~clash => /\ files[r.path] = T
                  /\ r.path # rows[T].path => files[rows[T].path] = NoTemplate
    BY <1>1, <1>2, <1>5, <2>3 DEF DoneOK
  <2>8. RowsOK'
    BY <1>1, <1>2, <2>3, <2>5, <2>6 DEF RowsOK
  <2>9. FilesOK'
    <3> SUFFICES ASSUME ~clash PROVE FilesOK'
      BY DEF FilesOK, EditFinish
    <3>1. \A u \in Templates : rows'[u].status # "none" => files[rows'[u].path] \in {u, NoTemplate}
      BY <1>1, <1>2, <2>5, <2>7 DEF FilesOK
    <3>2. ASSUME NEW p \in Paths, p.ext, files[p] # NoTemplate
          PROVE  rows'[files[p]].status # "none" /\ rows'[files[p]].path = p
      <4>1. files[p] \in Templates /\ Exists(files[p]) /\ rows[files[p]].path = p
        BY <1>1, <3>2, Elements DEF FilesOK
      <4>2. CASE files[p] = T
        BY <2>3, <2>5, <2>7, <3>2, <4>1, <4>2
      <4> QED BY <2>5, <4>1, <4>2
    <3> QED BY <3>1, <3>2 DEF FilesOK, EditFinish
  <2>10. TypeOK' /\ MoreTypes' /\ JobOK' /\ ReplyOK'
    BY <1>1, <1>3, <2>5 DEF EditFinish, TypeOK, MoreTypes, JobOK, ReplyOK
  <2>11. DomainOK' /\ QuestionsOK' /\ DoneOK'
    BY <1>1, <1>2, <1>3, <2>4 DEF EditFinish, DomainOK, QuestionsOK, DoneOK
  <2>12. Unfailed'
    BY <1>1, <1>2, <1>5, <2>3, <2>4, <2>5, <2>7 DEF EditFinish, Unfailed
  <2>13. VolumesOK'
    <3>1. \A t \in Templates : ~Doomed(t) => ~Doomed(t)' /\ t # T
      BY <1>1, <1>2, <1>3 DEF Doomed, EditFinish
    <3> QED BY <1>1, <2>5, <3>1, VolumesKept, TemplateAssumption DEF EditFinish
  <2> QED BY <2>8, <2>9, <2>10, <2>11, <2>12, <2>13 DEF IInv
<1>6. SUFFICES ASSUME reply = "ok" => NameTaken(job.msg.name, T)
               PROVE  IInv'
  BY <1>5
<1>7. rows' \in [Templates -> Rows] /\ SameRows /\ RowsOK'
  <2>1. rows' = rows \/ SetStatus(T, "error")
    BY <1>6 DEF EditFinish
  <2>2. CASE rows' = rows
    BY <1>1, <2>2 DEF TypeOK, SameRows, RowsOK
  <2> QED BY <1>1, <1>2, <2>1, <2>2, StatusSet DEF TemplateStatus
<1>8. TypeOK' /\ MoreTypes'
  BY <1>1, <1>2, <1>3, <1>7 DEF EditFinish, TypeOK, MoreTypes
<1>9. JobOK'
  BY <1>1, <1>2, <1>3, <1>7 DEF EditFinish, JobOK, MessageOK
<1>10. ReplyOK'
  BY <1>1, <1>2, <1>3, <1>7 DEF EditFinish, ReplyOK
<1>11. RowsOK'
  BY <1>7
<1>12. DomainOK'
  BY <1>1, <1>2, <1>3, <1>4, <1>7, Elements DEF EditFinish, DomainOK, SameRows
<1>13. QuestionsOK'
  BY <1>1, <1>2, <1>3, <1>7 DEF EditFinish, QuestionsOK
<1>14. FilesOK'
  BY <1>1, <1>7, FilesKept DEF EditFinish
<1>15. DoneOK'
  BY <1>1, <1>2, <1>3, <1>7 DEF EditFinish, DoneOK, NameTaken
<1>16. VolumesOK'
  <2>1. \A t \in Templates : ~Doomed(t) => ~Doomed(t)'
    BY <1>1, <1>2, <1>3 DEF Doomed, EditFinish
  <2> QED BY <1>1, <1>7, <2>1, VolumesKept, TemplateAssumption DEF EditFinish, SameRows
<1>17. Unfailed'
  <2>1. reply = "ok" => clash
    BY <1>1, <1>2, <1>6 DEF DoneOK
  <2> QED BY <1>1, <1>2, <1>4, <1>7, <2>1 DEF EditFinish, Unfailed, SameRows
<1> QED BY <1>8, <1>9, <1>10, <1>11, <1>12, <1>13, <1>14, <1>15, <1>16, <1>17 DEF IInv
-----------------------------------------------------------------------------
(* The domain *)

\* The request in hand is about a template as its row says.
LEMMA HeadOfDomain ==
  ASSUME IInv, domQ # <<>>
  PROVE  /\ Asked = domQ[1] /\ 1 \in DOMAIN domQ /\ Asked \in Requests /\ Asked.t \in Templates
         /\ Exists(Asked.t) /\ Asked.path = rows[Asked.t].path /\ Asked.path \in Paths
         /\ Asked.path.name = rows[Asked.t].name
         /\ Asked.op \in {"create", "edit", "delete"} /\ Asked.name \in Names \cup {NoName}
         /\ Tail(domQ) \in Seq(Requests)
         /\ \A i \in DOMAIN Tail(domQ) : i + 1 \in DOMAIN domQ /\ Tail(domQ)[i] = domQ[i + 1]
         /\ Len(Tail(domQ)) = Len(domQ) - 1 /\ Len(domQ) \in Nat \ {0}
         /\ Asked.live => Tail(domQ) = <<>> /\ job.pc = "domain" /\ reply = "none"
                          /\ Asked.op = AskedFor(job.msg.op) /\ Asked.t = T /\ Asked.name = job.msg.name
<1> USE DEF T, Exists
<1>1. TypeOK /\ RowsOK /\ DomainOK /\ domQ \in Seq(Requests)
  BY DEF IInv, TypeOK
<1>2. /\ Tail(domQ) \in Seq(Requests) /\ Asked \in Requests /\ Asked = domQ[1] /\ 1 \in DOMAIN domQ
      /\ Len(Tail(domQ)) = Len(domQ) - 1 /\ Len(domQ) \in Nat \ {0}
      /\ \A i \in DOMAIN Tail(domQ) : i + 1 \in DOMAIN domQ /\ Tail(domQ)[i] = domQ[i + 1]
  BY <1>1, TailOf DEF Asked
<1>3. /\ Asked.t \in Templates /\ Asked.op \in {"create", "edit", "delete"}
      /\ Asked.name \in Names \cup {NoName}
  BY <1>2 DEF Requests
<1>4. Exists(Asked.t) /\ Asked.path = rows[Asked.t].path
  BY <1>1, <1>2 DEF DomainOK
<1>5. Asked.live => /\ Len(domQ) = 1 /\ job.pc = "domain" /\ reply = "none"
                    /\ Asked.op = AskedFor(job.msg.op) /\ Asked.t = T /\ Asked.name = job.msg.name
  BY <1>1, <1>2 DEF DomainOK
<1>6. Len(domQ) = 1 => Tail(domQ) = <<>>
  BY <1>2
<1> QED BY <1>1, <1>2, <1>3, <1>4, <1>5, <1>6 DEF RowsOK

\* The work on the files: it touches the file of no other template, or there is a clash.
LEMMA WorkIs ==
  ASSUME IInv, domQ # <<>>, Work, rows' = rows
  PROVE  /\ files' \in [Paths -> Templates \cup {NoTemplate}] /\ clash' \in BOOLEAN
         /\ clash => clash'
         /\ FilesOK'
         /\ \A t \in Templates :
              (/\ ~clash' /\ Exists(t) /\ files[rows[t].path] = t
               /\ \A i \in DOMAIN domQ : ~(domQ[i].t = t /\ domQ[i].op \in {"edit", "delete"})) =>
                 files'[rows[t].path] = t
         /\ ~Refused =>
              /\ Asked.op = "delete" => files'[Asked.path] = NoTemplate
              /\ (Asked.op = "edit" /\ ~clash') =>
                   /\ files'[Target] = Asked.t /\ ~NameTaken(Asked.name, Asked.t)
                   /\ Target # Asked.path => files'[Asked.path] = NoTemplate
         /\ \A p \in Paths : files'[p] # NoTemplate =>
              \/ files[p] # NoTemplate
              \/ p = Asked.path
              \/ p = Target /\ Asked.op = "edit" /\ ~Refused
<1> USE DEF T, Exists
<1> USE HeadOfDomain
<1>1. /\ TypeOK /\ RowsOK /\ DomainOK /\ FilesOK /\ files \in [Paths -> Templates \cup {NoTemplate}]
      /\ clash \in BOOLEAN
  BY DEF IInv, TypeOK
<1>2. CASE Refused
  BY <1>1, <1>2 DEF Work, FilesOK
<1>3. CASE ~Refused
  <2> DEFINE u == Asked.t
             path == Asked.path
  <2>1. /\ files' = FilesAfter /\ clash' = (clash \/ Clashes) /\ Target \in Paths
        /\ Target = path \/ (Target.name = Asked.name /\ ~Target.ext /\ Asked.name # NoName)
    BY <1>3 DEF Work, Target, Renamed, Paths
  <2>2. CASE Asked.op = "create"
    <3>1. files' = [files EXCEPT ![path] = u] /\ files[path] = NoTemplate /\ clash' = clash
      BY <1>1, <1>3, <2>1, <2>2 DEF FilesAfter, Refused, Clashes
    <3>2. FilesOK'
      BY <1>1, <3>1, Elements DEF FilesOK, RowsOK
    <3>3. \A t \in Templates : Exists(t) /\ files[rows[t].path] = t => files'[rows[t].path] = t
      BY <1>1, <3>1, TemplateAssumption DEF RowsOK
    <3> QED BY <1>1, <2>2, <3>1, <3>2, <3>3
  <2>3. CASE Asked.op = "delete"
    <3>1. files' = [files EXCEPT ![path] = NoTemplate] /\ clash' = clash
      BY <1>1, <1>3, <2>1, <2>3 DEF FilesAfter, Refused, Clashes
    <3>2. FilesOK'
      BY <1>1, <3>1, Elements DEF FilesOK, RowsOK
    <3>3. \A t \in Templates \ {u} : Exists(t) /\ files[rows[t].path] = t => files'[rows[t].path] = t
      BY <1>1, <3>1 DEF RowsOK
    <3> QED BY <1>1, <2>3, <3>1, <3>2, <3>3
  <2>4. CASE Asked.op = "edit"
    <3>1. /\ files' = [files EXCEPT ![path] = NoTemplate, ![Target] = files[path]]
          /\ files[path] # NoTemplate
      BY <1>1, <1>3, <2>1, <2>4 DEF FilesAfter, Refused
    <3>2. SUFFICES ASSUME ~clash'
                   PROVE  /\ FilesOK'
                          /\ \A t \in Templates \ {u} : Exists(t) /\ files[rows[t].path] = t =>
                               files'[rows[t].path] = t
                          /\ files'[Target] = u /\ ~NameTaken(Asked.name, u)
                          /\ Target # path => files'[path] = NoTemplate
      <4>1. \A t \in Templates :
              (\A i \in DOMAIN domQ : ~(domQ[i].t = t /\ domQ[i].op \in {"edit", "delete"})) => t # u
        BY <2>4
      <4>2. files' \in [Paths -> Templates \cup {NoTemplate}] /\ clash' \in BOOLEAN /\ (clash => clash')
        BY <1>1, <2>1, <3>1
      <4>3. \A p \in Paths : files'[p] # NoTemplate => files[p] # NoTemplate \/ p = Target
        BY <1>1, <2>1, <3>1
      <4>4. clash' => FilesOK'
        BY DEF FilesOK
      <4> QED BY <1>3, <2>4, <4>1, <4>2, <4>3, <4>4
    <3>3. /\ ~clash /\ ~NameTaken(Asked.name, u) /\ (Target # path => files[Target] = NoTemplate)
      BY <2>1, <2>4, <3>2 DEF Clashes
    <3>4. files[path] = u
      BY <1>1, <3>1, <3>3 DEF FilesOK
    <3>5. /\ files'[Target] = u /\ (Target # path => files'[path] = NoTemplate)
          /\ \A p \in Paths \ {Target, path} : files'[p] = files[p]
      BY <1>1, <2>1, <3>1, <3>4
    <3>6. \A t \in Templates \ {u} : Exists(t) => rows[t].path \in Paths \ {Target, path}
      <4>1. \A t \in Templates \ {u} : Exists(t) => rows[t].name # rows[u].name
        BY <1>1 DEF RowsOK
      <4>2. \A t \in Templates \ {u} : Exists(t) => rows[t].name # Asked.name
        BY <3>3 DEF NameTaken
      <4> QED BY <1>1, <2>1, <4>1, <4>2 DEF RowsOK
    <3>7. FilesOK'
      <4>1. \A t \in Templates : Exists(t) => files'[rows[t].path] \in {t, NoTemplate}
        BY <1>1, <3>3, <3>5, <3>6 DEF FilesOK
      <4>2. ASSUME NEW p \in Paths, p.ext, files'[p] # NoTemplate
            PROVE  Exists(files'[p]) /\ rows[files'[p]].path = p
        <5>1. CASE p = Target
          BY <2>1, <3>5, <4>2, <5>1
        <5>2. CASE p # Target
          BY <1>1, <3>3, <3>5, <4>2, <5>2 DEF FilesOK
        <5> QED BY <5>1, <5>2
      <4> QED BY <4>1, <4>2 DEF FilesOK
    <3> QED BY <3>3, <3>5, <3>6, <3>7
  <2> QED BY <2>2, <2>3, <2>4
<1> QED BY <1>2, <1>3

LEMMA DomainGood ==
  ASSUME IInv, DomainDoes \/ DomainFails \/ DomainCrash
  PROVE  IInv'
<1> USE DEF T, Exists, At, templateVars, volumeVars
<1>1. TypeOK /\ MoreTypes /\ JobOK /\ ReplyOK /\ RowsOK /\ DomainOK /\ QuestionsOK /\ FilesOK /\ DoneOK
      /\ VolumesOK /\ Unfailed
  BY DEF IInv
<1>2. /\ domQ # <<>> /\ UNCHANGED <<rows, queue, job, vols, vjob, vreply, late, vqueue>>
      /\ fails' \in 0..MaxFaults /\ crashes' \in 0..MaxFaults
      /\ UNCHANGED <<fails, crashes>> \/ fails' + crashes' # 0
  BY <1>1, TemplateAssumption DEF DomainDoes, DomainFails, DomainCrash, MayFail, TypeOK
<1>3. Work \/ UNCHANGED <<files, clash>>
  BY DEF DomainDoes, DomainFails, DomainCrash
<1>4. /\ files' \in [Paths -> Templates \cup {NoTemplate}] /\ clash' \in BOOLEAN
      /\ clash => clash'
      /\ FilesOK'
      /\ \A t \in Templates :
           (/\ ~clash' /\ Exists(t) /\ files[rows[t].path] = t
            /\ \A i \in DOMAIN domQ : ~(domQ[i].t = t /\ domQ[i].op \in {"edit", "delete"})) =>
              files'[rows[t].path] = t
  <2>1. CASE Work
    BY <1>2, <2>1, WorkIs
  <2>2. CASE UNCHANGED <<files, clash>>
    BY <1>1, <1>2, <2>2 DEF TypeOK, FilesOK
  <2> QED BY <1>3, <2>1, <2>2
<1>5. /\ domQ' \in Seq(Requests) /\ reply' \in {"none", "ok", "err", "used", "timeout"}
      /\ \/ domQ' = domQ /\ reply' = reply
         \/ domQ' = Tail(domQ) /\ ~Asked.live /\ reply' = reply
         \/ domQ' = Tail(domQ) /\ Asked.live /\ reply' \in {"ok", "err"} /\ reply = "none"
  BY <1>1, <1>2, HeadOfDomain DEF TypeOK, DomainDoes, DomainFails, DomainCrash, Answer, templateVars
<1>6. TypeOK' /\ MoreTypes' /\ JobOK' /\ RowsOK'
  <2>1. \A i \in DOMAIN domQ' : domQ'[i].path \in Paths
    BY <1>1, <1>2, <1>5, HeadOfDomain DEF MoreTypes
  <2> QED BY <1>1, <1>2, <1>4, <1>5, <2>1 DEF TypeOK, MoreTypes, JobOK, RowsOK
<1>7. ReplyOK' /\ QuestionsOK'
  BY <1>1, <1>2, <1>5, HeadOfDomain DEF ReplyOK, QuestionsOK
<1>8. DomainOK'
  <2>1. CASE domQ' = domQ
    BY <1>1, <1>2, <1>5, <2>1, HeadOfDomain DEF DomainOK
  <2>2. CASE domQ' = Tail(domQ) /\ ~Asked.live /\ reply' = reply
    BY <1>1, <1>2, <2>2, HeadOfDomain DEF DomainOK
  <2>3. CASE domQ' = Tail(domQ) /\ Asked.live
    BY <1>1, <1>2, <2>3, HeadOfDomain DEF DomainOK
  <2> QED BY <1>5, <2>1, <2>2, <2>3
<1>9. DoneOK'
  <2> SUFFICES ASSUME job.pc = "domain", reply' = "ok"
               PROVE  DoneOK'
    BY <1>2 DEF DoneOK
  <2>1. reply # "ok"
    BY <1>1, <1>2 DEF DomainOK
  <2>2. DomainDoes /\ Asked.live /\ ~Refused
    BY <1>2, <2>1 DEF DomainDoes, DomainFails, DomainCrash, Answer, templateVars
  <2>3. Work /\ Asked.op = AskedFor(job.msg.op) /\ Asked.t = T /\ Asked.name = job.msg.name
    BY <1>2, <2>2, HeadOfDomain DEF DomainDoes
  <2>4. CASE job.msg.op = "_delete"
    BY <1>2, <2>2, <2>3, <2>4, HeadOfDomain, WorkIs DEF DoneOK, AskedFor
  <2>5. CASE job.msg.op = "_edit"
    BY <1>2, <2>2, <2>3, <2>5, HeadOfDomain, WorkIs DEF DoneOK, AskedFor, Target, NameTaken
  <2> QED BY <1>2, <2>4, <2>5 DEF DoneOK
<1>10. VolumesOK'
  <2>1. \A i \in DOMAIN domQ' : \E j \in DOMAIN domQ : domQ'[i] = domQ[j]
    BY <1>2, <1>5, HeadOfDomain
  <2>2. reply' = "ok" => reply = "ok" \/ job.pc = "domain"
    BY <1>2, <1>5, HeadOfDomain
  <2>3. \A t \in Templates : ~Doomed(t) =>
          /\ ~Doomed(t)'
          /\ \A i \in DOMAIN domQ : ~(domQ[i].t = t /\ domQ[i].op \in {"edit", "delete"})
    BY <1>1, <1>2, <2>1, <2>2 DEF Doomed, JobOK
  <2> QED BY <1>1, <1>2, <1>4, <2>3, VolumesKept, TemplateAssumption
<1>11. Unfailed'
  <2> SUFFICES ASSUME fails' + crashes' = 0
               PROVE  Unfailed'
    BY DEF Unfailed
  <2>1. /\ fails + crashes = 0 /\ DomainDoes /\ Asked.live
        /\ \A i \in DOMAIN domQ' : domQ'[i].live
    BY <1>1, <1>2, <1>5, HeadOfDomain
       DEF Unfailed, DomainDoes, DomainFails, DomainCrash, TypeOK, Answer
  <2>2. /\ Work /\ reply' = (IF Refused THEN "err" ELSE "ok")
        /\ job.pc = "domain" /\ reply = "none" /\ Asked.op = AskedFor(job.msg.op) /\ Asked.t = T
        /\ Asked.name = job.msg.name
    BY <1>2, <2>1, HeadOfDomain DEF DomainDoes, Answer
  <2>3. Asked.op = "edit" => job.msg.op = "_edit"
    BY <1>1, <2>2 DEF AskedFor, JobOK
  <2>4. ASSUME ~clash', NEW p \in Paths, files'[p] # NoTemplate
        PROVE  \/ \E t \in Templates : Exists(t) /\ rows[t].path = p
               \/ job.msg.op = "_edit" /\ reply' = "ok" /\ p = Renamed(rows[T].path, job.msg.name)
    <3>1. CASE files[p] # NoTemplate
      BY <1>1, <1>4, <2>1, <2>2, <2>4, <3>1 DEF Unfailed
    <3>2. CASE p = Asked.path
      BY <1>2, <3>2, HeadOfDomain
    <3>3. CASE p = Target /\ Asked.op = "edit" /\ ~Refused
      BY <1>2, <2>2, <2>3, <3>3, HeadOfDomain DEF Target
    <3> QED BY <1>2, <2>2, <2>4, <3>1, <3>2, <3>3, WorkIs
  <2> QED BY <1>2, <2>1, <2>2, <2>4 DEF Unfailed
<1> QED BY <1>4, <1>6, <1>7, <1>8, <1>9, <1>10, <1>11 DEF IInv

-----------------------------------------------------------------------------
(* The volume service layer *)

LEMMA VolumeCreateGood ==
  ASSUME IInv, NEW t \in Templates, NEW near \in BOOLEAN, VolumeCreate(t, near)
  PROVE  IInv'
<1> USE DEF T, Exists, At, Goto, Done, templateVars, volumeVars, SetStatus
<1>1. TypeOK /\ MoreTypes /\ JobOK /\ ReplyOK /\ RowsOK /\ DomainOK /\ QuestionsOK /\ FilesOK /\ DoneOK
      /\ VolumesOK /\ Unfailed
  BY DEF IInv
<1>2. /\ queue \in Seq(Messages) /\ queue' \in Seq(Messages) /\ vjob' \in VolumeJobs
      /\ \A i \in DOMAIN queue' : \/ queue'[i].op = "get" /\ queue'[i].t = t
                                 \/ \E j \in DOMAIN queue : queue'[i] = queue[j]
  <2> DEFINE m == [op |-> "get", t |-> t, name |-> NoName, live |-> TRUE]
  <2>1. m \in Messages /\ m.op = "get" /\ m.t = t
    BY DEF Messages, Operations
  <2>2. vjob' \in VolumeJobs
    BY DEF VolumeCreate, VolumeJobs
  <2>3. queue \in Seq(Messages) /\ queue' = Append(queue, m)
    BY <1>1 DEF TypeOK, VolumeCreate
  <2> HIDE DEF m
  <2> QED BY <2>1, <2>2, <2>3, AppendOf
<1>3. TypeOK' /\ MoreTypes'
  BY <1>1, <1>2 DEF VolumeCreate, TypeOK, MoreTypes, MessageOK
<1>4. JobOK'
  BY <1>1, <1>2 DEF VolumeCreate, JobOK, MessageOK
<1>5. ReplyOK'
  BY <1>1, <1>2 DEF VolumeCreate, ReplyOK
<1>6. RowsOK'
  BY <1>1, <1>2 DEF VolumeCreate, RowsOK
<1>7. DomainOK'
  BY <1>1, <1>2 DEF VolumeCreate, DomainOK
<1>8. QuestionsOK'
  BY <1>1, <1>2 DEF VolumeCreate, QuestionsOK
<1>9. FilesOK'
  BY <1>1, <1>2 DEF VolumeCreate, FilesOK
<1>10. DoneOK'
  BY <1>1, <1>2 DEF VolumeCreate, DoneOK, NameTaken
<1>11. VolumesOK'
  <2>1. \A u \in Templates : ~Doomed(u) => ~Doomed(u)'
    BY <1>1, <1>2 DEF Doomed, VolumeCreate
  <2> QED BY <1>1, <2>1, VolumesKept, TemplateAssumption DEF VolumeCreate
<1>12. Unfailed'
  BY <1>1, <1>2 DEF VolumeCreate, Unfailed
<1> QED BY <1>3, <1>4, <1>5, <1>6, <1>7, <1>8, <1>9, <1>10, <1>11, <1>12 DEF IInv


LEMMA VolumeInsertGood ==
  ASSUME IInv, VolumeInsert
  PROVE  IInv'
<1> USE DEF T, Exists, At, templateVars, volumeVars
<1>1. TypeOK /\ MoreTypes /\ JobOK /\ ReplyOK /\ RowsOK /\ DomainOK /\ QuestionsOK /\ FilesOK /\ DoneOK
      /\ VolumesOK /\ Unfailed
  BY DEF IInv
<1>2. JobOK' /\ ReplyOK' /\ RowsOK' /\ DomainOK' /\ QuestionsOK' /\ FilesOK' /\ DoneOK' /\ Unfailed'
  BY <1>1 DEF VolumeInsert, JobOK, ReplyOK, RowsOK, DomainOK, QuestionsOK, FilesOK, DoneOK, NameTaken, Unfailed
<1>3. \A t \in Templates : Doomed(t) => Changing(t)
  BY DEF Doomed, Changing
<1>4. \A t \in Templates : Doomed(t)' <=> Doomed(t)
  BY DEF Doomed, VolumeInsert
<1>5. ASSUME UNCHANGED <<vols, late>> PROVE TypeOK' /\ MoreTypes' /\ VolumesOK'
  <2>1. vjob' \in VolumeJobs
    BY NoTypes DEF VolumeInsert
  <2>2. VolumesOK'
    BY <1>1, <1>4, <1>5, VolumesKept, TemplateAssumption DEF VolumeInsert
  <2> QED BY <1>1, <1>5, <2>1, <2>2 DEF TypeOK, MoreTypes, VolumeInsert, NoAnswer
<1>6. ASSUME NEW v \in Volumes, vreply # Gone, vreply # NoAnswer,
             vols' = [vols EXCEPT ![v] = [status |-> "new", t |-> vjob.t, base |-> vreply, near |-> vjob.near]],
             late' = IF Changing(vjob.t) \/ rows[vjob.t].path # vreply THEN late \cup {v} ELSE late \ {v}
      PROVE  TypeOK' /\ MoreTypes' /\ VolumesOK'
  <2> DEFINE new == [status |-> "new", t |-> vjob.t, base |-> vreply, near |-> vjob.near]
  <2>1. vreply \in Paths /\ vjob \in VolumeJobs /\ vjob' \in VolumeJobs
    BY <1>1, <1>6, NoTypes DEF MoreTypes, TypeOK, VolumeInsert
  <2>2. /\ new \in Vols /\ new.status = "new" /\ new.t = vjob.t /\ new.base = vreply /\ new.near = vjob.near
    BY <2>1 DEF Vols, VolumeJobs
  <2>3. vols' = [vols EXCEPT ![v] = new]
    BY <1>6
  <2> HIDE DEF new
  <2>4. /\ vols \in [Volumes -> Vols] /\ vols' \in [Volumes -> Vols] /\ vols'[v] = new
        /\ \A w \in Volumes \ {v} : vols'[w] = vols[w]
    BY <1>1, <2>2, <2>3 DEF TypeOK
  <2>5. TypeOK' /\ MoreTypes'
    BY <1>1, <1>6, <2>1, <2>2, <2>4 DEF TypeOK, MoreTypes, VolumeInsert, NoAnswer
  <2>6. ASSUME NEW w \in Volumes, Reads(w)'
        PROVE  (/\ Exists(vols[w].t) /\ vols[w].base = rows[vols[w].t].path /\ ~Doomed(vols[w].t)
                /\ (vols[w].status = "available" /\ ~clash) => files[vols[w].base] = vols[w].t)'
    <3>1. CASE w = v
      <4>1. /\ v \notin late' /\ vols'[v].t = vjob.t /\ vols'[v].base = vreply /\ vjob.t \in Templates
            /\ vols'[v].status = "new"
        BY <2>2, <2>4, <2>6, <3>1, TemplateAssumption DEF Reads
      <4>2. ~Changing(vjob.t) /\ rows[vjob.t].path = vreply
        BY <1>6, <4>1
      <4>3. Exists(vjob.t)
        BY <1>1, <2>1, <4>1, <4>2, NoTypes DEF RowsOK
      <4> QED BY <1>3, <1>4, <3>1, <4>1, <4>2, <4>3 DEF VolumeInsert
    <3>2. CASE w # v
      <4>1. Reads(w) /\ vols'[w] = vols[w] /\ vols[w].t \in Templates
        BY <1>6, <2>4, <2>6, <3>2, TemplateAssumption DEF Reads
      <4> QED BY <1>1, <1>4, <4>1 DEF VolumesOK, VolumeInsert
    <3> QED BY <3>1, <3>2
  <2> QED BY <2>5, <2>6 DEF VolumesOK
<1> QED BY <1>2, <1>5, <1>6 DEF IInv, VolumeInsert


LEMMA VolumeChangeGood ==
  ASSUME IInv, VolumeMake \/ VolumeDelete
  PROVE  IInv'
<1> USE DEF T, Exists, At, templateVars, volumeVars
<1>1. TypeOK /\ MoreTypes /\ JobOK /\ ReplyOK /\ RowsOK /\ DomainOK /\ QuestionsOK /\ FilesOK /\ DoneOK
      /\ VolumesOK /\ Unfailed
  BY DEF IInv
<1>2. JobOK' /\ ReplyOK' /\ RowsOK' /\ DomainOK' /\ QuestionsOK' /\ FilesOK' /\ DoneOK' /\ Unfailed'
  BY <1>1 DEF VolumeMake, VolumeDelete, JobOK, ReplyOK, RowsOK, DomainOK, QuestionsOK, FilesOK, DoneOK,
              NameTaken, Unfailed
<1>3. \A t \in Templates : Doomed(t)' <=> Doomed(t)
  BY DEF Doomed, VolumeMake, VolumeDelete
<1>4. CASE VolumeMake
  <2>1. PICK v \in Volumes : /\ vols[v].status = "new"
                             /\ vols' = [vols EXCEPT ![v].status = IF files[vols[v].base] = NoTemplate
                                                                   THEN "creating" ELSE "available"]
    BY <1>4 DEF VolumeMake
  <2>2. PICK r \in Vols : r = vols[v]
    BY <1>1 DEF TypeOK
  <2>3. PICK s \in {"creating", "available"} :
          vols' = [vols EXCEPT ![v] = [r EXCEPT !.status = s]]
          /\ (s = "available" => files[vols[v].base] # NoTemplate)
    BY <2>1, <2>2
  <2>4. /\ [r EXCEPT !.status = s] \in Vols /\ [r EXCEPT !.status = s].status = s
        /\ [r EXCEPT !.status = s].t = r.t /\ [r EXCEPT !.status = s].base = r.base
        /\ [r EXCEPT !.status = s].near = r.near
    BY DEF Vols
  <2>5. /\ vols \in [Volumes -> Vols] /\ vols' \in [Volumes -> Vols] /\ vols'[v] = [r EXCEPT !.status = s]
        /\ \A w \in Volumes \ {v} : vols'[w] = vols[w]
    BY <1>1, <2>3, <2>4 DEF TypeOK
  <2>6. TypeOK' /\ MoreTypes'
    BY <1>1, <1>4, <2>1, <2>2, <2>4, <2>5 DEF TypeOK, MoreTypes, VolumeMake
  <2>7. ASSUME NEW w \in Volumes, Reads(w)'
        PROVE  (/\ Exists(vols[w].t) /\ vols[w].base = rows[vols[w].t].path /\ ~Doomed(vols[w].t)
                /\ (vols[w].status = "available" /\ ~clash) => files[vols[w].base] = vols[w].t)'
    <3>1. Reads(w) /\ vols'[w].t = vols[w].t /\ vols'[w].base = vols[w].base /\ vols[w].t \in Templates
      BY <1>4, <2>1, <2>2, <2>4, <2>5, <2>7, TemplateAssumption DEF Reads, VolumeMake
    <3>2. /\ Exists(vols[w].t) /\ vols[w].base = rows[vols[w].t].path /\ ~Doomed(vols[w].t)
          /\ (vols[w].status = "available" /\ ~clash) => files[vols[w].base] = vols[w].t
      BY <1>1, <3>1 DEF VolumesOK
    <3>3. (vols'[w].status = "available" /\ ~clash) => files[vols[w].base] = vols[w].t
      BY <1>1, <2>3, <2>4, <2>5, <3>1, <3>2 DEF FilesOK
    <3> QED BY <1>3, <1>4, <3>1, <3>2, <3>3 DEF VolumeMake
  <2> QED BY <1>2, <2>6, <2>7 DEF VolumesOK, IInv
<1>5. CASE VolumeDelete
  <2>1. PICK v \in Volumes : vols' = [vols EXCEPT ![v] = NoVol] /\ late' = late \ {v}
    BY <1>5 DEF VolumeDelete
  <2>2. /\ vols \in [Volumes -> Vols] /\ vols' \in [Volumes -> Vols] /\ vols'[v] = NoVol
        /\ \A w \in Volumes \ {v} : vols'[w] = vols[w]
    BY <1>1, <2>1, NoTypes DEF TypeOK
  <2>3. TypeOK' /\ MoreTypes'
    BY <1>1, <1>5, <2>1, <2>2, NoTypes DEF TypeOK, MoreTypes, VolumeDelete
  <2>4. ASSUME NEW w \in Volumes, Reads(w)'
        PROVE  Reads(w) /\ vols'[w] = vols[w] /\ vols[w].t \in Templates
    BY <2>1, <2>2, <2>4, NoTypes, TemplateAssumption DEF Reads
  <2>5. VolumesOK'
    BY <1>1, <1>3, <1>5, <2>4 DEF VolumesOK, VolumeDelete
  <2> QED BY <1>2, <2>3, <2>5 DEF IInv
<1> QED BY <1>4, <1>5

LEMMA VolumesAnswerGood ==
  ASSUME IInv, VolumesAnswer
  PROVE  IInv'
<1> USE DEF T, Exists, At, Goto, Done, templateVars, volumeVars, SetStatus
<1>1. TypeOK /\ MoreTypes /\ JobOK /\ ReplyOK /\ RowsOK /\ DomainOK /\ QuestionsOK /\ FilesOK /\ DoneOK
      /\ VolumesOK /\ Unfailed
  BY DEF IInv
<1>2. /\ vqueue \in Seq(Questions) /\ vqueue # <<>> /\ vqueue' = Tail(vqueue) /\ vqueue' \in Seq(Questions)
      /\ Head(vqueue) = vqueue[1] /\ 1 \in DOMAIN vqueue /\ Len(vqueue') = Len(vqueue) - 1
      /\ \A i \in DOMAIN vqueue' : i + 1 \in DOMAIN vqueue /\ vqueue'[i] = vqueue[i + 1]
  BY <1>1, TailOf DEF TypeOK, VolumesAnswer
<1>3. \/ reply' = reply
      \/ /\ Head(vqueue).live /\ job.pc = "asked" /\ reply = "none" /\ vqueue' = <<>>
         /\ reply' \in {"ok", "err", "used"}
         /\ (job.msg.op # "create" /\ reply' = "ok") => Related(T) = {}
  <2> SUFFICES ASSUME Head(vqueue).live
               PROVE  /\ job.pc = "asked" /\ reply = "none" /\ vqueue' = <<>>
                      /\ reply' \in {"ok", "err", "used"}
                      /\ (job.msg.op # "create" /\ reply' = "ok") => Related(T) = {}
    BY DEF VolumesAnswer
  <2>1. /\ Len(vqueue) = 1 /\ job.pc = "asked" /\ reply = "none"
        /\ job.msg.op # "create" => Head(vqueue).op = "volumes" /\ Head(vqueue).t = T
    BY <1>1, <1>2 DEF QuestionsOK
  <2>2. vqueue' = <<>>
    BY <1>2, <2>1
  <2>3. \/ Head(vqueue).op = "volume" /\ reply' \in {"ok", "err"}
        \/ reply' = "used"
        \/ reply' = "ok" /\ Related(Head(vqueue).t) = {}
    BY DEF VolumesAnswer, InUse
  <2> QED BY <2>1, <2>2, <2>3
<1>4. TypeOK' /\ MoreTypes'
  BY <1>1, <1>2, <1>3 DEF VolumesAnswer, TypeOK, MoreTypes
<1>5. JobOK'
  BY <1>1, <1>2, <1>3 DEF VolumesAnswer, JobOK, MessageOK
<1>6. ReplyOK'
  BY <1>1, <1>3 DEF VolumesAnswer, ReplyOK
<1>7. RowsOK'
  BY <1>1, <1>2, <1>3 DEF VolumesAnswer, RowsOK
<1>8. DomainOK'
  BY <1>1, <1>3 DEF VolumesAnswer, DomainOK
<1>9. QuestionsOK'
  <2>1. CASE reply' = reply
    BY <1>1, <1>2, <2>1 DEF VolumesAnswer, QuestionsOK
  <2> QED BY <1>3, <2>1 DEF QuestionsOK
<1>10. FilesOK'
  BY <1>1, <1>2, <1>3 DEF VolumesAnswer, FilesOK
<1>11. DoneOK'
  BY <1>1, <1>2, <1>3 DEF VolumesAnswer, DoneOK, NameTaken
<1>12. VolumesOK'
  <2>1. \A t \in Templates : ~Doomed(t) /\ Related(t) # {} => ~Doomed(t)'
    BY <1>1, <1>3 DEF Doomed, VolumesAnswer, JobOK
  <2> QED BY <1>1, <2>1, VolumesKept, TemplateAssumption DEF VolumesAnswer
<1>13. Unfailed'
  BY <1>1, <1>2, <1>3 DEF VolumesAnswer, Unfailed
<1> QED BY <1>4, <1>5, <1>6, <1>7, <1>8, <1>9, <1>10, <1>11, <1>12, <1>13 DEF IInv
-----------------------------------------------------------------------------
(* Timeouts and crashes *)

LEMMA TemplateExpiresGood ==
  ASSUME IInv, TemplateExpires
  PROVE  IInv'
<1> USE DEF T, Exists, At, Goto, Done, templateVars, volumeVars, SetStatus
<1>1. TypeOK /\ MoreTypes /\ JobOK /\ ReplyOK /\ RowsOK /\ DomainOK /\ QuestionsOK /\ FilesOK /\ DoneOK
      /\ VolumesOK /\ Unfailed
  BY DEF IInv
<1>2. /\ vqueue' \in Seq(Questions) /\ DOMAIN vqueue' = DOMAIN vqueue
      /\ \A i \in DOMAIN vqueue' : ~vqueue'[i].live
  BY <1>1, UnheardQuestions DEF TypeOK, TemplateExpires
<1>3. TypeOK' /\ MoreTypes'
  BY <1>1, <1>2 DEF TemplateExpires, TypeOK, MoreTypes
<1>4. JobOK'
  BY <1>1, <1>2 DEF TemplateExpires, JobOK, MessageOK
<1>5. ReplyOK'
  BY <1>1, <1>2 DEF TemplateExpires, ReplyOK
<1>6. RowsOK'
  BY <1>1, <1>2 DEF TemplateExpires, RowsOK
<1>7. DomainOK'
  BY <1>1, <1>2 DEF TemplateExpires, DomainOK
<1>8. QuestionsOK'
  BY <1>1, <1>2 DEF TemplateExpires, QuestionsOK
<1>9. FilesOK'
  BY <1>1, <1>2 DEF TemplateExpires, FilesOK
<1>10. DoneOK'
  BY <1>1, <1>2 DEF TemplateExpires, DoneOK, NameTaken
<1>11. VolumesOK'
  <2>1. \A t \in Templates : ~Doomed(t) => ~Doomed(t)'
    BY <1>1 DEF Doomed, TemplateExpires
  <2> QED BY <1>1, <2>1, VolumesKept, TemplateAssumption DEF TemplateExpires
<1>12. Unfailed'
  BY <1>1, <1>2 DEF TemplateExpires, Unfailed
<1> QED BY <1>3, <1>4, <1>5, <1>6, <1>7, <1>8, <1>9, <1>10, <1>11, <1>12 DEF IInv

LEMMA VolumeExpiresGood ==
  ASSUME IInv, VolumeExpires
  PROVE  IInv'
<1> USE DEF T, Exists, At, Goto, Done, templateVars, volumeVars, SetStatus
<1>1. TypeOK /\ MoreTypes /\ JobOK /\ ReplyOK /\ RowsOK /\ DomainOK /\ QuestionsOK /\ FilesOK /\ DoneOK
      /\ VolumesOK /\ Unfailed
  BY DEF IInv
<1>2. /\ queue' \in Seq(Messages) /\ DOMAIN queue' = DOMAIN queue
      /\ \A i \in DOMAIN queue : /\ queue'[i].op = queue[i].op /\ queue'[i].t = queue[i].t
                                /\ queue'[i].name = queue[i].name
  BY <1>1, UnheardMessages DEF TypeOK, VolumeExpires
<1>3. TypeOK' /\ MoreTypes'
  BY <1>1, <1>2 DEF VolumeExpires, TypeOK, MoreTypes, MessageOK, Gone
<1>4. JobOK'
  BY <1>1, <1>2 DEF VolumeExpires, JobOK, MessageOK
<1>5. ReplyOK'
  BY <1>1, <1>2 DEF VolumeExpires, ReplyOK
<1>6. RowsOK'
  BY <1>1, <1>2 DEF VolumeExpires, RowsOK
<1>7. DomainOK'
  BY <1>1, <1>2 DEF VolumeExpires, DomainOK
<1>8. QuestionsOK'
  BY <1>1, <1>2 DEF VolumeExpires, QuestionsOK
<1>9. FilesOK'
  BY <1>1, <1>2 DEF VolumeExpires, FilesOK
<1>10. DoneOK'
  BY <1>1, <1>2 DEF VolumeExpires, DoneOK, NameTaken
<1>11. VolumesOK'
  <2>1. \A t \in Templates : ~Doomed(t) => ~Doomed(t)'
    BY <1>1, <1>2 DEF Doomed, VolumeExpires
  <2> QED BY <1>1, <2>1, VolumesKept, TemplateAssumption DEF VolumeExpires
<1>12. Unfailed'
  BY <1>1, <1>2 DEF VolumeExpires, Unfailed
<1> QED BY <1>3, <1>4, <1>5, <1>6, <1>7, <1>8, <1>9, <1>10, <1>11, <1>12 DEF IInv

LEMMA DomainTimeoutGood ==
  ASSUME IInv, DomainTimeout
  PROVE  IInv'
<1> USE DEF T, Exists, At, Goto, Done, templateVars, volumeVars, SetStatus
<1>1. TypeOK /\ MoreTypes /\ JobOK /\ ReplyOK /\ RowsOK /\ DomainOK /\ QuestionsOK /\ FilesOK /\ DoneOK
      /\ VolumesOK /\ Unfailed
  BY DEF IInv
<1>2. /\ domQ' \in Seq(Requests) /\ DOMAIN domQ' = DOMAIN domQ
      /\ \A i \in DOMAIN domQ : /\ ~domQ'[i].live /\ domQ'[i].op = domQ[i].op /\ domQ'[i].t = domQ[i].t
                               /\ domQ'[i].path = domQ[i].path
      /\ fails' \in 0..MaxFaults /\ crashes' \in 0..MaxFaults /\ fails' + crashes' # 0
  <2>1. domQ \in Seq(Requests) /\ domQ' = Unheard(domQ)
    BY <1>1 DEF TypeOK, DomainTimeout
  <2>2. /\ fails' \in 0..MaxFaults /\ crashes' \in 0..MaxFaults /\ fails' + crashes' # 0
    BY <1>1, TemplateAssumption DEF TypeOK, DomainTimeout, MayFail
  <2> QED BY <2>1, <2>2, UnheardRequests
<1>3. TypeOK' /\ MoreTypes'
  BY <1>1, <1>2 DEF DomainTimeout, TypeOK, MoreTypes
<1>4. JobOK'
  BY <1>1, <1>2 DEF DomainTimeout, JobOK, MessageOK
<1>5. ReplyOK'
  BY <1>1, <1>2 DEF DomainTimeout, ReplyOK
<1>6. RowsOK'
  BY <1>1, <1>2 DEF DomainTimeout, RowsOK
<1>7. DomainOK'
  BY <1>1, <1>2 DEF DomainTimeout, DomainOK
<1>8. QuestionsOK'
  BY <1>1, <1>2 DEF DomainTimeout, QuestionsOK
<1>9. FilesOK'
  BY <1>1, <1>2 DEF DomainTimeout, FilesOK
<1>10. DoneOK'
  BY <1>1, <1>2 DEF DomainTimeout, DoneOK, NameTaken
<1>11. VolumesOK'
  <2>1. \A t \in Templates : ~Doomed(t) => ~Doomed(t)'
    BY <1>1, <1>2 DEF Doomed, DomainTimeout
  <2> QED BY <1>1, <2>1, VolumesKept, TemplateAssumption DEF DomainTimeout
<1>12. Unfailed'
  BY <1>1, <1>2 DEF DomainTimeout, Unfailed
<1> QED BY <1>3, <1>4, <1>5, <1>6, <1>7, <1>8, <1>9, <1>10, <1>11, <1>12 DEF IInv

LEMMA ServiceCrashGood ==
  ASSUME IInv, ServiceCrash
  PROVE  IInv'
<1> USE DEF T, Exists, At, Goto, Done, templateVars, volumeVars, SetStatus
<1>1. TypeOK /\ MoreTypes /\ JobOK /\ ReplyOK /\ RowsOK /\ DomainOK /\ QuestionsOK /\ FilesOK /\ DoneOK
      /\ VolumesOK /\ Unfailed
  BY DEF IInv
<1>2. /\ domQ' \in Seq(Requests) /\ DOMAIN domQ' = DOMAIN domQ
      /\ \A i \in DOMAIN domQ : /\ ~domQ'[i].live /\ domQ'[i].op = domQ[i].op /\ domQ'[i].t = domQ[i].t
                               /\ domQ'[i].path = domQ[i].path
      /\ fails' \in 0..MaxFaults /\ crashes' \in 0..MaxFaults /\ fails' + crashes' # 0
  <2>1. domQ \in Seq(Requests) /\ domQ' = Unheard(domQ)
    BY <1>1 DEF TypeOK, ServiceCrash
  <2>2. /\ fails' \in 0..MaxFaults /\ crashes' \in 0..MaxFaults /\ fails' + crashes' # 0
    BY <1>1, TemplateAssumption DEF TypeOK, ServiceCrash, MayFail
  <2> QED BY <2>1, <2>2, UnheardRequests
<1>3. /\ vqueue' \in Seq(Questions) /\ DOMAIN vqueue' = DOMAIN vqueue
      /\ \A i \in DOMAIN vqueue' : ~vqueue'[i].live
  BY <1>1, UnheardQuestions DEF TypeOK, ServiceCrash
<1>4. job' = NoJob /\ job'.pc = "idle" /\ job'.msg.op = "none" /\ job' \in Jobs /\ reply' = "none"
  BY NoTypes DEF ServiceCrash
<1>5. PICK m \in Messages : /\ m.op = job.msg.op /\ (m.t = T \/ m.op = "create") /\ MessageOK(m)
                            /\ queue' = <<m>> \o queue
  <2> DEFINE m == IF job.msg.op = "create" THEN [job.msg EXCEPT !.t = NoTemplate] ELSE job.msg
  <2>1. m \in Messages /\ m.op = job.msg.op /\ (m.t = T \/ m.op = "create") /\ MessageOK(m)
    BY <1>1 DEF ServiceCrash, JobOK, Messages, MessageOK
  <2>2. queue' = <<m>> \o queue
    BY DEF ServiceCrash
  <2> QED BY <2>1, <2>2
<1>6. /\ queue' \in Seq(Messages)
      /\ \A i \in DOMAIN queue' : queue'[i] = m \/ \E j \in DOMAIN queue : queue'[i] = queue[j]
  <2>1. queue \in Seq(Messages)
    BY <1>1 DEF TypeOK
  <2> QED BY <1>5, <2>1, PrependOf
<1>7. TypeOK' /\ MoreTypes'
  BY <1>1, <1>2, <1>3, <1>4, <1>5, <1>6 DEF ServiceCrash, TypeOK, MoreTypes
<1>8. JobOK'
  BY <1>1, <1>2, <1>3, <1>4, <1>5, <1>6 DEF ServiceCrash, JobOK, MessageOK
<1>9. ReplyOK'
  BY <1>1, <1>2, <1>3, <1>4, <1>5, <1>6 DEF ServiceCrash, ReplyOK
<1>10. RowsOK'
  BY <1>1, <1>2, <1>3, <1>4, <1>5, <1>6 DEF ServiceCrash, RowsOK
<1>11. DomainOK'
  BY <1>1, <1>2, <1>3, <1>4, <1>5, <1>6 DEF ServiceCrash, DomainOK
<1>12. QuestionsOK'
  BY <1>1, <1>2, <1>3, <1>4, <1>5, <1>6 DEF ServiceCrash, QuestionsOK
<1>13. FilesOK'
  BY <1>1, <1>2, <1>3, <1>4, <1>5, <1>6 DEF ServiceCrash, FilesOK
<1>14. DoneOK'
  BY <1>1, <1>2, <1>3, <1>4, <1>5, <1>6 DEF ServiceCrash, DoneOK, NameTaken
<1>15. VolumesOK'
  <2>1. \A t \in Templates : ~Doomed(t) => ~Doomed(t)'
    <3> SUFFICES ASSUME NEW t \in Templates, Doomed(t)' PROVE Doomed(t)
      OBVIOUS
    <3>1. job'.msg.op = "none"
      BY <1>4
    <3>2. CASE \E i \in DOMAIN queue' : queue'[i].t = t /\ queue'[i].op \in {"_edit", "_delete"}
      <4>1. \/ m.t = t /\ m.op \in {"_edit", "_delete"}
            \/ \E i \in DOMAIN queue : queue[i].t = t /\ queue[i].op \in {"_edit", "_delete"}
        BY <1>6, <3>2
      <4>2. m.op \in {"_edit", "_delete"} => m.op = job.msg.op /\ m.t = job.msg.t
        BY <1>5
      <4> QED BY ONLY <4>1, <4>2 DEF Doomed, T
    <3>3. CASE \E i \in DOMAIN domQ' : domQ'[i].t = t /\ domQ'[i].op \in {"edit", "delete"}
      <4>1. \E i \in DOMAIN domQ : domQ[i].t = t /\ domQ[i].op \in {"edit", "delete"}
        BY ONLY <1>2, <3>3
      <4> QED BY ONLY <4>1 DEF Doomed
    <3> QED BY <3>1, <3>2, <3>3 DEF Doomed
  <2> QED BY <1>1, <2>1, VolumesKept, TemplateAssumption DEF ServiceCrash
<1>16. Unfailed'
  BY <1>1, <1>2, <1>3, <1>4, <1>5, <1>6 DEF ServiceCrash, Unfailed
<1> QED BY <1>7, <1>8, <1>9, <1>10, <1>11, <1>12, <1>13, <1>14, <1>15, <1>16 DEF IInv

-----------------------------------------------------------------------------
(* The theorems *)

LEMMA InitIInv == Init => IInv
<1> SUFFICES ASSUME Init PROVE IInv
  OBVIOUS
<1> USE NoTypes, TemplateAssumption DEF Init, T, Exists, At
<1>1. TypeOK /\ MoreTypes
  <2>1. /\ rows \in [Templates -> Rows] /\ files \in [Paths -> Templates \cup {NoTemplate}]
        /\ vols \in [Volumes -> Vols] /\ vjob \in VolumeJobs /\ job \in Jobs
    OBVIOUS
  <2>2. /\ queue = <<>> /\ domQ = <<>> /\ vqueue = <<>>
        /\ queue \in Seq(Messages) /\ domQ \in Seq(Requests) /\ vqueue \in Seq(Questions)
    OBVIOUS
  <2>3. vreply \in Paths \cup {NoAnswer, Gone} /\ \A v \in Volumes : vols[v].status = "none"
    OBVIOUS
  <2>4. vreply \in Paths \cup {NoPath} \cup {[none |-> TRUE], [gone |-> TRUE]}
    BY DEF NoAnswer
  <2>5. late \subseteq Volumes /\ clash \in BOOLEAN /\ reply = "none"
    OBVIOUS
  <2>6. fails \in 0..MaxFaults /\ crashes \in 0..MaxFaults
    OBVIOUS
  <2> QED BY ONLY <2>1, <2>2, <2>3, <2>4, <2>5, <2>6 DEF TypeOK, MoreTypes
<1>2. JobOK /\ ReplyOK /\ RowsOK /\ DomainOK /\ QuestionsOK
  BY DEF JobOK, ReplyOK, RowsOK, DomainOK, QuestionsOK
<1>3. FilesOK /\ DoneOK /\ VolumesOK /\ Unfailed
  BY DEF FilesOK, DoneOK, VolumesOK, Reads, Unfailed
<1> QED BY <1>1, <1>2, <1>3 DEF IInv

LEMMA NextIInv == IInv /\ [Next]_vars => IInv'
<1> SUFFICES ASSUME IInv, [Next]_vars PROVE IInv'
  OBVIOUS
<1>1. CASE ApiRequest
  <2>1. ASSUME NEW msg, Request(msg), msg.op \in {"create", "edit", "delete"}, msg \in Messages, MessageOK(msg)
        PROVE  IInv'
    BY <2>1, RequestGood
  <2>2. \A n \in Names :
          LET m == [op |-> "create", t |-> NoTemplate, name |-> n, live |-> FALSE]
          IN  m \in Messages /\ m.op = "create" /\ MessageOK(m)
    BY DEF Messages, Operations, MessageOK
  <2>3. \A t \in Templates, n \in Names \cup {NoName}, op \in {"edit", "delete"} :
          LET m == [op |-> op, t |-> t, name |-> n, live |-> FALSE]
          IN  m \in Messages /\ m.op = op /\ MessageOK(m)
    BY DEF Messages, Operations, MessageOK
  <2>4. CASE ApiCreate
    BY <2>1, <2>2, <2>4 DEF ApiCreate
  <2>5. CASE ApiEdit
    BY <2>1, <2>3, <2>5 DEF ApiEdit
  <2>6. CASE ApiDelete
    BY <2>1, <2>3, <2>6 DEF ApiDelete
  <2> QED BY <1>1, <2>4, <2>5, <2>6 DEF ApiRequest
<1>2. CASE VolumeRequest
  BY <1>2, VolumeCreateGood, VolumeChangeGood DEF VolumeRequest
<1>3. CASE TemplateStep
  BY <1>3, TakeMessageGood, GetTemplateGood, PublishCastGood, CreateStartGood, CreateInsertGood,
     CreateCallGood, CreateFinishGood, AskRelatedGood, CheckGood, ChangeCallGood, EditFinishGood,
     DeleteFinishGood DEF TemplateStep
<1>4. CASE VolumeStep
  BY <1>4, VolumeInsertGood, VolumeChangeGood, VolumesAnswerGood DEF VolumeStep
<1>5. CASE DomainDoes \/ DomainFails \/ DomainCrash
  BY <1>5, DomainGood
<1>6. CASE Expires \/ DomainTimeout \/ ServiceCrash
  BY <1>6, TemplateExpiresGood, VolumeExpiresGood, DomainTimeoutGood, ServiceCrashGood DEF Expires
<1>7. CASE UNCHANGED vars
  <2> USE <1>7 DEF vars, T, Exists, At
  <2>1. TypeOK' /\ MoreTypes' /\ JobOK' /\ ReplyOK' /\ RowsOK' /\ DomainOK'
    BY DEF IInv, TypeOK, MoreTypes, JobOK, ReplyOK, RowsOK, DomainOK
  <2>2. QuestionsOK' /\ FilesOK' /\ DoneOK' /\ VolumesOK' /\ Unfailed'
    BY DEF IInv, QuestionsOK, FilesOK, DoneOK, NameTaken, VolumesOK, Reads, Doomed, Unfailed
  <2> QED BY <2>1, <2>2 DEF IInv
<1> QED BY <1>1, <1>2, <1>3, <1>4, <1>5, <1>6, <1>7 DEF Next

\* The inductive invariant of the two services, the domain and the files.
THEOREM TemplateInvariant == Spec => []IInv
<1> QED BY InitIInv, NextIInv, PTL DEF Spec

\* Rows, messages, answers and files stay of their types.
THEOREM TypeCorrect == Spec => []TypeOK
<1>1. IInv => TypeOK
  BY DEF IInv
<1> QED BY <1>1, TemplateInvariant, PTL

\* ensure_not_in_use and what follows it: no template is renamed or deleted under a
\* volume that was in the table when its volumes were asked for, whatever the
\* volume module, timeouts and crashes do in between.
THEOREM BaseStaysHolds == Spec => []BaseStays
<1>1. IInv => BaseStays
  BY DEF IInv, VolumesOK, Reads, BaseStays
<1> QED BY <1>1, TemplateInvariant, PTL

\* Without failures creations, edits and deletions leave no file without its row,
\* however the time limits of the calls between the services run out.
THEOREM NoOrphanFileHolds == Spec => []NoOrphanFile
<1>1. IInv => NoOrphanFile
  BY DEF IInv, Unfailed, NoOrphanFile
<1> QED BY <1>1, TemplateInvariant, PTL
=============================================================================
