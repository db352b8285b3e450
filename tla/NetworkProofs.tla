--------------------------- MODULE NetworkProofs ---------------------------
(***************************************************************************)
(* Proofs about NetworkService and the host it configures, with Open       *)
(* vSwitch and with netplan, for any number of ports, bridges and rows: its*)
(* types, that the host keeps an address, and that the file of the main    *)
(* port comes back when no bridge has it.  AddressKept is not inductive:   *)
(* where the address is between two commands follows from the command the  *)
(* driver is at, from what the alias of a port says (Open vSwitch), and    *)
(* from what the files and their backups say (netplan).                    *)
(***************************************************************************)
EXTENDS NetworkService, TLAPS

-----------------------------------------------------------------------------
(* The inductive invariant: the service layer *)

\* What a handler works on: only bridges are created.
JobOK(j) ==
  /\ j.op # "none" => j.name \in Ifaces
  /\ j.op \in {"create_bridge", "_create_bridge"} => j.name \in Bridges
  /\ j.op \notin {"none", "create_bridge"} => j.id \in Ids
  /\ j.pc = "cast" => j.op \in {"create_bridge", "delete_bridge"} /\ j.id \in Ids
RowsNamed == \A r \in Ids : Exists(r) => rows[r].name \in Ifaces

-----------------------------------------------------------------------------
(* The domain. *)

OvsCreation == {"add", "up", "ports", "flush", "ip", "route", "addport", "rollback"}
OvsDeletion == {"list", "restore", "unflush", "unroute", "delbr"}

\* The driver is in the request at the head of the queue, and in the code of the
\* manager the host is configured with.
InHand ==
  dom.pc # "idle" =>
    /\ domQ # <<>>
    /\ dom.pc \in OvsCreation \cup OvsDeletion <=> manager = "ovs"
    /\ dom.pc \in OvsCreation \cup {"files", "file"} => Request.op = "create"
    /\ dom.pc \in OvsDeletion \cup {"unfile"} => Request.op = "delete"

\* Only bridges are created.
AsksForBridge == \A i \in DOMAIN domQ : domQ[i].op = "create" => domQ[i].name \in Bridges

\* Addresses and the default route are on what is there; the main port of the
\* driver and the bridge that is made stay there while it is at it.
OnHost ==
  /\ host.addr \subseteq Present(host) /\ host.route \in Present(host) \cup {NoIface}
  /\ dom.pc # "idle" => dom.main \in Present(host)
  /\ dom.pc \in {"up", "ports", "flush", "ip", "route", "addport"} => Name \in host.bridges
  /\ dom.pc \in {"flush", "ip", "route"} => dom.main \in Ports
  /\ dom.pc = "restore" => dom.cur \in Ports

-----------------------------------------------------------------------------
(* Open vSwitch *)

OvsCalm == manager = "ovs" /\ crashes = 0 /\ fails <= 1 /\ ~reused

\* A port has lent its address to the bridge, and its alias says so.
Lent(b) == \E p \in host.alias : host.in[p] = b

\* The bridge has the address already, and its port is not in it yet.
Borrowing == dom.pc \in {"route", "addport", "rollback"}

OvsHost ==
  /\ host.route \in host.addr \cup {NoIface}
  /\ host.addr = {} => dom.pc = "ip" \/ (dom.pc = "rollback" /\ Name \in host.bridges /\ fails = 1)
  /\ \A b \in host.addr \cap Bridges : Lent(b) \/ (Borrowing /\ b = Name)

\* The main port has yet to be moved, or is not to be.
Unmoved == dom.pc \in {"add", "up", "flush"} \/ (dom.pc \in {"ports", "addport"} /\ dom.main \in dom.todo)

OvsCreating ==
  dom.pc \in OvsCreation =>
    /\ dom.main # Name
    /\ dom.main \in Bridges => dom.main \in host.addr
    /\ dom.pc = "add" => Name \notin host.bridges
    /\ Unmoved => host.route = dom.main
    /\ dom.pc \in {"flush", "ip", "route"} => dom.cur = dom.main /\ dom.main \notin dom.todo
    /\ dom.pc \in {"ip", "route"} => host.route = NoIface
    /\ dom.pc = "route" => Name \in host.addr
    /\ (dom.pc = "addport" /\ Name \in host.addr /\ ~Lent(Name)) =>
          dom.cur = dom.main /\ dom.main \in host.alias /\ dom.main \notin dom.todo
    /\ (dom.pc \in {"ip", "route", "addport"} /\ dom.cur = dom.main /\ dom.main \in Ports) =>
          dom.main \notin host.addr

OvsDeleting ==
  /\ dom.pc \in {"list", "restore"} => host.route = dom.main
  /\ dom.pc = "restore" => dom.cur \in host.alias /\ host.in[dom.cur] = Name
  /\ dom.pc \in OvsDeletion \ {"list"} => Name \in host.bridges
  /\ dom.pc = "unflush" => host.addr # {Name}
  /\ dom.pc \in {"unroute", "delbr"} => Name \notin host.addr

\* Nothing has failed: one interface has the address, and a port that has it is in
\* no bridge.
Single == \E a \in host.addr : host.addr = {a} /\ (a \in Ports => host.in[a] = NoIface)

OvsUnfailed ==
  fails = 0 =>
    /\ dom.pc \in {"idle", "add", "up", "ports", "flush", "rollback", "list", "restore"} => Single
    /\ dom.pc \in OvsCreation => host.addr \subseteq {dom.main, Name}
    /\ dom.pc \in OvsCreation /\ dom.main \in Ports => host.in[dom.main] \in {NoIface, Name}
    /\ dom.pc \in {"unflush", "unroute"} => host.route \in {Name, NoIface} \/ Single
    /\ dom.pc = "rollback" => \A b \in host.addr \cap Bridges : Lent(b)
    /\ dom.pc \in {"ip", "route"} => host.in[dom.main] = NoIface
    /\ dom.pc = "ip" => host.addr = {}
    /\ dom.pc = "route" => host.addr = {Name}
    /\ dom.pc = "addport" =>
         Single /\ (host.addr = {Name} /\ ~Lent(Name) => host.in[dom.main] = NoIface)
    /\ dom.pc \in {"unflush", "unroute", "delbr"} =>
         /\ \A m, n \in host.addr \ {Name} : m = n
         /\ \A p \in host.addr \cap Ports : host.in[p] \in {NoIface, Name}

OvsInv == OvsCalm => OvsHost /\ OvsCreating /\ OvsDeleting /\ OvsUnfailed

-----------------------------------------------------------------------------
(* Netplan *)

NpCalm == manager = "netplan" /\ crashes = 0 /\ ~reused /\ ~shared /\ ~stale

\* The host keeps an address, on what is there, and it is the one of Main.
NpHost ==
  /\ host.addr # {}
  /\ host.addr \cap Ports \subseteq {Main}
  /\ host.route \in host.addr \cup {NoIface}
  /\ ~conf[Main].there => Main \in host.addr

Placed == \E b \in Bridges : Main \in conf[b].ports

\* What the files and their backups say, whether the main port is in a bridge or
\* not: the backup or the flag will tell what it was.
FilesOf(b) ==
  /\ ~conf[b].there => conf[b].ports = {}
  /\ conf[b].ports \subseteq {p \in Ports : conf[p].there}
  /\ conf[b].addr <=> Main \in conf[b].ports
PlainPort(p) == ~conf[p].addr /\ ~conf[p].main /\ ~bkp[p].there
SoundFiles ==
  /\ \A b \in Bridges : FilesOf(b)
  /\ Valid
  /\ \A p \in Ports \ {Main} : PlainPort(p)
  /\ bkp[Main].there => bkp[Main].addr
  /\ Placed => ~conf[Main].addr /\ (bkp[Main].there \/ conf[Main].main)

\* The main port has its parameters when no bridge has them.
AtHome == Placed \/ (conf[Main].there => conf[Main].addr)

Settled == dom.pc = "idle" /\ ~Unapplied

NpRequest ==
  /\ dom.pc \in {"files", "unfile"} => ~Unapplied /\ dom.main = host.route
  /\ dom.pc = "files" => Name \notin host.bridges /\ ~Taken(dom.todo)

\* Between the file of the main port and the one of the bridge.
NpHandsOver ==
  dom.pc = "file" =>
    /\ ~conf[Name].there
    /\ dom.todo \subseteq {p \in Ports : conf[p].there} /\ ~Taken(dom.todo)
    /\ dom.main \in dom.todo <=> Main \in dom.todo
    /\ ~Placed => conf[Main].there /\ (conf[Main].addr <=> Main \notin dom.todo)
    /\ Main \in dom.todo => bkp[Main].there \/ conf[Main].main

NpInv ==
  NpCalm =>
    /\ NpHost /\ NpRequest /\ NpHandsOver
    /\ dom.pc # "idle" => SoundFiles
    /\ Settled => SoundFiles
    /\ Settled \/ dom.pc \in {"files", "unfile", "apply"} => AtHome

-----------------------------------------------------------------------------
(* Types of the pieces *)

LEMMA Constants0 ==
  /\ Ports \subseteq Ifaces /\ Bridges \subseteq Ifaces /\ NoIface \notin Ifaces
  /\ Ports \cap Bridges = {} /\ Main \in Ports /\ Ifaces = Ports \cup Bridges
BY NetworkAssumption DEF Ifaces

\* The queue of the domain, appended to, served and disowned.
LEMMA QueueType ==
  ASSUME HostTypeOK
  PROVE  /\ \A r \in Requests : Append(domQ, r) \in Seq(Requests)
         /\ domQ # <<>> => Request \in Requests /\ Tail(domQ) \in Seq(Requests)
         /\ Disowned \in Seq(Requests)
<1> USE DEF HostTypeOK
<1>1. \A r \in Requests : Append(domQ, r) \in Seq(Requests)
  OBVIOUS
<1>2. domQ # <<>> => Head(domQ) \in Requests /\ Tail(domQ) \in Seq(Requests)
  OBVIOUS
<1>3. Disowned \in Seq(Requests)
  <2>1. ASSUME NEW i \in 1..Len(domQ)
        PROVE  [domQ[i] EXCEPT !.owner = "none"] \in Requests
    <3>1. domQ[i] \in Requests
      OBVIOUS
    <3> QED BY <3>1 DEF Requests
  <2>2. Disowned \in [1..Len(domQ) -> Requests]
    BY <2>1 DEF Disowned
  <2>3. Len(domQ) \in Nat
    OBVIOUS
  <2> QED BY ONLY <2>2, <2>3, SMTT(30)
<1> QED BY <1>1, <1>2, <1>3 DEF Request

\* The service layer leaves the request in hand where it is.
LEMMA HeadKept ==
  ASSUME HostTypeOK, domQ # <<>>,
         (\E r \in Requests : domQ' = Append(domQ, r)) \/ domQ' = Disowned \/ domQ' = domQ
  PROVE  /\ domQ' # <<>> /\ Request'.op = Request.op /\ Request'.name = Request.name
         /\ Request'.ifaces = Request.ifaces
<1> USE DEF HostTypeOK, Request
<1>1. CASE \E r \in Requests : domQ' = Append(domQ, r)
  BY <1>1
<1>2. CASE domQ' = Disowned
  <2>1. domQ[1] \in Requests /\ 1 \in DOMAIN domQ /\ Head(domQ) = domQ[1] /\ DOMAIN domQ = 1..Len(domQ)
        /\ Len(domQ) \in Nat /\ Len(domQ) >= 1
    OBVIOUS
  <2>2. /\ Disowned[1] = [domQ[1] EXCEPT !.owner = "none"] /\ DOMAIN Disowned = 1..Len(domQ)
    BY <2>1 DEF Disowned
  <2>3. Disowned \in Seq(Requests)
    BY QueueType
  <2>4. Head(Disowned) = Disowned[1] /\ Disowned # <<>>
    BY <2>1, <2>2, <2>3
  <2>5. [domQ[1] EXCEPT !.owner = "none"].op = domQ[1].op
        /\ [domQ[1] EXCEPT !.owner = "none"].name = domQ[1].name
        /\ [domQ[1] EXCEPT !.owner = "none"].ifaces = domQ[1].ifaces
    BY <2>1 DEF Requests
  <2> QED BY <1>2, <2>1, <2>2, <2>4, <2>5
<1>3. CASE domQ' = domQ
  BY <1>3
<1> QED BY <1>1, <1>2, <1>3

\* What the commands make of the host.
LEMMA FlushedIs ==
  ASSUME NEW h \in Hosts, NEW n \in Ifaces
  PROVE  /\ Flushed(h, n) \in Hosts
         /\ Flushed(h, n).addr = h.addr \ {n}
         /\ h.route = n => Flushed(h, n).route = NoIface
         /\ h.route # n => Flushed(h, n).route = h.route
         /\ Flushed(h, n).bridges = h.bridges /\ Flushed(h, n).in = h.in /\ Flushed(h, n).alias = h.alias
BY DEF Flushed, Hosts

LEMMA AddressIs ==
  ASSUME NEW h \in Hosts, NEW n \in Ifaces
  PROVE  /\ WithAddress(h, n) \in Hosts
         /\ WithAddress(h, n).addr = h.addr \cup {n} /\ WithAddress(h, n).route = h.route
         /\ WithAddress(h, n).bridges = h.bridges /\ WithAddress(h, n).in = h.in
         /\ WithAddress(h, n).alias = h.alias
BY DEF WithAddress, Hosts

LEMMA DhclientIs ==
  ASSUME NEW h \in Hosts, NEW n \in Ifaces
  PROVE  /\ Dhclient(h, n) \in Hosts
         /\ Dhclient(h, n).addr = h.addr \cup {n}
         /\ h.route = NoIface => Dhclient(h, n).route = n
         /\ h.route # NoIface => Dhclient(h, n).route = h.route
         /\ Dhclient(h, n).bridges = h.bridges /\ Dhclient(h, n).in = h.in /\ Dhclient(h, n).alias = h.alias
<1> DEFINE w == WithAddress(h, n)
<1>1. Dhclient(h, n) = [w EXCEPT !.route = IF w.route = NoIface THEN n ELSE w.route]
  BY DEF Dhclient
<1>2. w \in Hosts /\ w.addr = h.addr \cup {n} /\ w.route = h.route /\ w.bridges = h.bridges
      /\ w.in = h.in /\ w.alias = h.alias
  BY AddressIs DEF w
<1> HIDE DEF w
<1> QED BY <1>1, <1>2 DEF Hosts

LEMMA RemovedIs ==
  ASSUME NEW h \in Hosts, NEW b \in Ifaces
  PROVE  /\ Removed(h, b) \in Hosts
         /\ Removed(h, b).addr = h.addr \ {b}
         /\ h.route = b => Removed(h, b).route = NoIface
         /\ h.route # b => Removed(h, b).route = h.route
         /\ Removed(h, b).bridges = h.bridges \ {b} /\ Removed(h, b).alias = h.alias
         /\ \A p \in Ports : Removed(h, b).in[p] = IF h.in[p] = b THEN NoIface ELSE h.in[p]
<1> DEFINE f == Flushed(h, b)
<1>1. Removed(h, b) = [f EXCEPT !.bridges = @ \ {b},
                        !.in = [p \in Ports |-> IF @[p] = b THEN NoIface ELSE @[p]]]
  BY DEF Removed
<1>2. f \in Hosts /\ f.addr = h.addr \ {b} /\ (h.route = b => f.route = NoIface)
      /\ (h.route # b => f.route = h.route)
      /\ f.bridges = h.bridges /\ f.in = h.in /\ f.alias = h.alias
  BY FlushedIs DEF f
<1> DEFINE into == [p \in Ports |-> IF f.in[p] = b THEN NoIface ELSE f.in[p]]
<1>3. into \in [Ports -> Bridges \cup {NoIface}]
  BY <1>2 DEF Hosts
<1>4. Removed(h, b) = [f EXCEPT !.bridges = f.bridges \ {b}, !.in = into]
  BY <1>1
<1>5. into = [p \in Ports |-> IF h.in[p] = b THEN NoIface ELSE h.in[p]]
  BY <1>2
<1> HIDE DEF f, into
<1>6. /\ Removed(h, b) \in Hosts /\ Removed(h, b).in = into /\ Removed(h, b).bridges = f.bridges \ {b}
      /\ Removed(h, b).addr = f.addr /\ Removed(h, b).route = f.route /\ Removed(h, b).alias = f.alias
  BY <1>2, <1>3, <1>4 DEF Hosts
<1> QED BY <1>2, <1>5, <1>6

LEMMA FileTypes ==
  ASSUME HostTypeOK
  PROVE  /\ \A m \in Ifaces : conf[m] \in Confs /\ bkp[m] \in Confs
         /\ \A m \in Ifaces : MainFile(m) \in Confs /\ BackedUp(m) \in [Ifaces -> Confs]
         /\ NoConf \in Confs
<1> USE DEF HostTypeOK
<1>1. NoConf \in Confs
  BY DEF NoConf, Confs
<1>2. \A m \in Ifaces : conf[m] \in Confs /\ bkp[m] \in Confs
  OBVIOUS
<1>3. ASSUME NEW m \in Ifaces PROVE MainFile(m) \in Confs /\ BackedUp(m) \in [Ifaces -> Confs]
  BY <1>2, <1>3 DEF MainFile, BackedUp, NoConf, Confs
<1> QED BY <1>1, <1>2, <1>3

LEMMA IdleDriverType == IdleDriver \in Drivers
BY DEF IdleDriver, Drivers

\* What every step of the driver keeps.
HostFine == HostTypeOK /\ InHand /\ AsksForBridge

LEMMA AnsweredTyped ==
  ASSUME HostFine, domQ # <<>>, NEW a \in {"ok", "err"}, Answered(a)
  PROVE  /\ reply' \in {"none", "ok", "err", "timeout"}
         /\ domQ' \in Seq(Requests) /\ dom' = IdleDriver /\ dom' \in Drivers /\ dom'.pc = "idle"
         /\ InHand' /\ AsksForBridge'
<1>1. /\ reply' \in {"none", "ok", "err", "timeout"}
      /\ domQ' \in Seq(Requests) /\ dom' = IdleDriver /\ dom' \in Drivers
  BY QueueType, IdleDriverType DEF HostFine, HostTypeOK, Answered
<1>2. dom'.pc = "idle"
  BY <1>1 DEF IdleDriver
<1>3. InHand'
  BY <1>2 DEF InHand
<1>4. AsksForBridge'
  <2> SUFFICES ASSUME NEW i \in DOMAIN domQ', domQ'[i].op = "create" PROVE domQ'[i].name \in Bridges
    BY DEF AsksForBridge
  <2>1. i \in DOMAIN Tail(domQ) /\ domQ' = Tail(domQ) /\ domQ \in Seq(Requests)
    BY DEF HostFine, HostTypeOK, Answered
  <2>2. i + 1 \in DOMAIN domQ /\ domQ'[i] = domQ[i + 1]
    BY <2>1
  <2> QED BY <2>2 DEF HostFine, AsksForBridge
<1> QED BY <1>1, <1>2, <1>3, <1>4

\* The driver goes on in its request.
LEMMA GoesOn ==
  ASSUME HostFine, dom.pc # "idle", dom' \in Drivers, domQ' = domQ, manager' = manager,
         \/ dom.pc \in OvsCreation /\ dom'.pc \in OvsCreation
         \/ dom.pc \in OvsDeletion /\ dom'.pc \in OvsDeletion
         \/ dom.pc \in {"files", "file"} /\ dom'.pc \in {"file", "apply"}
         \/ dom.pc = "unfile" /\ dom'.pc = "apply"
  PROVE  InHand' /\ AsksForBridge'
<1>1. AsksForBridge'
  BY DEF HostFine, AsksForBridge
<1>2. InHand'
  BY DEF HostFine, InHand, OvsCreation, OvsDeletion, Request
<1> QED BY <1>1, <1>2

LEMMA ProceedTyped ==
  ASSUME HostFine, NEW h \in Hosts, NEW pc, Proceed(h, pc),
         (dom.pc \in OvsCreation /\ pc \in OvsCreation) \/ (dom.pc \in OvsDeletion /\ pc \in OvsDeletion)
  PROVE  HostFine' /\ dom'.pc = pc
<1>1. [dom EXCEPT !.pc = pc] \in Drivers /\ [dom EXCEPT !.pc = pc].pc = pc
  BY DEF HostFine, HostTypeOK, Drivers, OvsCreation, OvsDeletion
<1>2. dom.pc # "idle"
  BY DEF OvsCreation, OvsDeletion
<1>3. dom' = [dom EXCEPT !.pc = pc] /\ host' = h /\ domQ' = domQ /\ manager' = manager
  BY DEF Proceed
<1>4. InHand' /\ AsksForBridge'
  BY <1>1, <1>2, <1>3, GoesOn
<1>5. HostTypeOK'
  BY <1>1, <1>3 DEF HostFine, HostTypeOK, Proceed
<1> QED BY <1>1, <1>3, <1>4, <1>5 DEF HostFine

LEMMA RaisedTyped ==
  ASSUME HostFine, domQ # <<>>, Raised, fails' \in 0..MaxFaults
  PROVE  HostFine'
<1>1. Answered("err")
  BY DEF Raised
<1>2. HostTypeOK'
  BY <1>1, AnsweredTyped DEF HostFine, HostTypeOK, Raised, hostVars
<1> QED BY <1>1, <1>2, AnsweredTyped DEF HostFine

LEMMA ToRollbackTyped ==
  ASSUME HostFine, ToRollback, dom.pc \in OvsCreation, fails' \in 0..MaxFaults
  PROVE  HostFine'
<1>1. [dom EXCEPT !.pc = "rollback"] \in Drivers /\ [dom EXCEPT !.pc = "rollback"].pc = "rollback"
  BY DEF HostFine, HostTypeOK, Drivers
<1>2. dom' = [dom EXCEPT !.pc = "rollback"] /\ domQ' = domQ /\ manager' = manager
  BY DEF ToRollback, hostVars
<1>3. InHand' /\ AsksForBridge'
  BY <1>1, <1>2, GoesOn DEF OvsCreation
<1>4. HostTypeOK'
  BY <1>1, <1>2 DEF HostFine, HostTypeOK, ToRollback, hostVars
<1> QED BY <1>3, <1>4 DEF HostFine

LEMMA FailingCounts ==
  ASSUME HostTypeOK, Failing
  PROVE  fails' \in 0..MaxFaults /\ fails' = fails + 1
BY NetworkAssumption DEF HostTypeOK, Failing, MayFail

\* A request is in hand when the driver is in one.
LEMMA Busy ==
  ASSUME HostFine, dom.pc # "idle"
  PROVE  /\ domQ # <<>> /\ Request \in Requests /\ Name \in Ifaces
         /\ dom.todo \subseteq Ifaces /\ dom.main \in Ifaces \cup {NoIface} /\ dom.cur \in Ifaces \cup {NoIface}
         /\ Request.op = "create" => Name \in Bridges
<1>1. domQ # <<>> /\ Request \in Requests
  BY QueueType DEF HostFine, InHand
<1>2. Request.op = "create" => Name \in Bridges
  <2>1. 1 \in DOMAIN domQ /\ Head(domQ) = domQ[1]
    BY <1>1 DEF HostFine, HostTypeOK
  <2> QED BY <2>1 DEF HostFine, AsksForBridge, Request, Name
<1>3. Name \in Ifaces
  BY <1>1 DEF Name, Requests
<1> QED BY <1>1, <1>2, <1>3 DEF HostFine, HostTypeOK, Drivers

LEMMA TakeTyped ==
  ASSUME HostFine, TakeRequest
  PROVE  HostFine'
<1> USE DEF HostFine, HostTypeOK
<1>1. domQ # <<>> /\ Request \in Requests
  BY QueueType DEF TakeRequest
<1>2. reused' \in BOOLEAN /\ shared' \in BOOLEAN /\ stale' \in BOOLEAN
  BY DEF TakeRequest
<1>3. CASE ~HasRoute
  <2>1. Answered("err")
    BY <1>3 DEF TakeRequest
  <2>2. InHand' /\ AsksForBridge' /\ domQ' \in Seq(Requests) /\ dom' \in Drivers
        /\ reply' \in {"none", "ok", "err", "timeout"}
    BY <1>1, <2>1, AnsweredTyped
  <2> QED BY <1>2, <2>2 DEF TakeRequest, hostVars
<1>4. CASE HasRoute
  <2> DEFINE pc == IF manager = "ovs"
                   THEN IF Request.op = "create" THEN "add" ELSE "list"
                   ELSE IF Request.op = "create" THEN "files" ELSE "unfile"
  <2>1. /\ dom' = [IdleDriver EXCEPT !.main = host.route, !.todo = Request.ifaces, !.pc = pc]
        /\ domQ' = domQ /\ reply' = reply /\ manager' = manager
    BY <1>4 DEF TakeRequest, hostVars
  <2>2. host.route \in Ifaces \cup {NoIface} /\ Request.ifaces \subseteq Ifaces
    BY <1>1 DEF Hosts, Requests
  <2>3. pc \in {"add", "list", "files", "unfile"}
    OBVIOUS
  <2>4. dom' \in Drivers /\ dom'.pc = pc
    BY <2>1, <2>2, <2>3 DEF IdleDriver, Drivers
  <2>5. AsksForBridge'
    BY <2>1 DEF AsksForBridge
  <2>6. Request.op \in {"create", "delete"}
    BY DEF TakeRequest
  <2>7. InHand'
    <3>1. manager \in {"ovs", "netplan"} /\ Request' = Request
      BY <2>1, NetworkAssumption DEF Request
    <3>2. pc \in OvsCreation \cup OvsDeletion <=> manager = "ovs"
      BY <3>1 DEF OvsCreation, OvsDeletion
    <3>3. (pc \in OvsCreation \cup {"files", "file"} => Request.op = "create")
          /\ (pc \in OvsDeletion \cup {"unfile"} => Request.op = "delete")
      BY <2>6, <3>1 DEF OvsCreation, OvsDeletion
    <3> QED BY <1>1, <2>1, <2>4, <3>1, <3>2, <3>3 DEF InHand
  <2> QED BY <1>2, <2>1, <2>4, <2>5, <2>7 DEF TakeRequest, hostVars
<1> QED BY <1>3, <1>4

LEMMA SwitchTyped ==
  ASSUME HostFine, SwitchIface
  PROVE  HostFine'
<1>1. domQ # <<>> /\ Answered("ok")
  BY DEF SwitchIface
<1>2. host' \in Hosts
  BY DEF SwitchIface, Switched, HostFine, HostTypeOK, Hosts
<1>3. InHand' /\ AsksForBridge' /\ domQ' \in Seq(Requests) /\ dom' \in Drivers
      /\ reply' \in {"none", "ok", "err", "timeout"}
  BY <1>1, AnsweredTyped
<1> QED BY <1>2, <1>3 DEF SwitchIface, HostFine, HostTypeOK, history

LEMMA CrashTyped ==
  ASSUME HostFine, DomainCrash
  PROVE  HostFine'
<1>1. dom' = IdleDriver /\ dom' \in Drivers /\ dom'.pc = "idle" /\ domQ' = domQ
  BY IdleDriverType DEF DomainCrash, IdleDriver
<1>2. crashes' \in 0..MaxFaults
  BY NetworkAssumption DEF HostFine, HostTypeOK, DomainCrash, MayFail
<1>3. InHand' /\ AsksForBridge'
  BY <1>1 DEF HostFine, InHand, AsksForBridge
<1> QED BY <1>1, <1>2, <1>3 DEF HostFine, HostTypeOK, DomainCrash, hostVars

\* The commands of Open vSwitch; a command of its own for each step.
LEMMA OvsTyped ==
  ASSUME HostFine, OnHost,
         \/ OvsAdd \/ OvsUp \/ OvsPorts \/ OvsFlush \/ OvsSetIp \/ OvsSetRoute \/ OvsAddPort \/ OvsRollback
         \/ OvsList \/ OvsRestore \/ OvsUnflush \/ OvsUnroute \/ OvsDelBr
  PROVE  HostFine'
<1>1. dom.pc # "idle" /\ dom.pc \in OvsCreation \cup OvsDeletion
  BY DEF OvsAdd, OvsUp, OvsPorts, OvsFlush, OvsSetIp, OvsSetRoute, OvsAddPort, OvsRollback,
         OvsList, OvsRestore, OvsUnflush, OvsUnroute, OvsDelBr, OvsCreation, OvsDeletion
<1>2. /\ domQ # <<>> /\ Name \in Ifaces /\ host \in Hosts /\ dom \in Drivers
      /\ dom.todo \subseteq Ifaces /\ dom.main \in Ifaces \cup {NoIface} /\ dom.cur \in Ifaces \cup {NoIface}
      /\ dom.pc \in OvsCreation => Name \in Bridges
  BY <1>1, Busy DEF HostFine, HostTypeOK, InHand
<1>3. ASSUME Raised, Failing \/ UNCHANGED fails PROVE HostFine'
  BY <1>2, <1>3, RaisedTyped, FailingCounts DEF HostFine, HostTypeOK
<1>4. ASSUME ToRollback, Failing \/ UNCHANGED fails, dom.pc \in OvsCreation PROVE HostFine'
  BY <1>2, <1>4, ToRollbackTyped, FailingCounts DEF HostFine, HostTypeOK
<1>5. ASSUME Answered("ok") \/ Answered("err"), host' \in Hosts, fails' \in 0..MaxFaults,
             UNCHANGED <<manager, conf, bkp, crashes, reused, shared, stale>>
      PROVE  HostFine'
  <2>1. InHand' /\ AsksForBridge' /\ domQ' \in Seq(Requests) /\ dom' \in Drivers
        /\ reply' \in {"none", "ok", "err", "timeout"}
    BY <1>2, <1>5, AnsweredTyped
  <2> QED BY <1>5, <2>1 DEF HostFine, HostTypeOK
<1>6. ASSUME dom' \in Drivers, UNCHANGED <<hostVars, domQ, reply, history>>,
             \/ dom.pc \in OvsCreation /\ dom'.pc \in OvsCreation
             \/ (dom.pc \in OvsDeletion /\ dom'.pc \in OvsDeletion)
      PROVE  HostFine'
  <2>1. InHand' /\ AsksForBridge'
    BY <1>1, <1>6, GoesOn DEF hostVars
  <2> QED BY <1>6, <2>1 DEF HostFine, HostTypeOK, hostVars, history
<1>7. CASE OvsAdd
  <2>1. [host EXCEPT !.bridges = @ \cup {Name}] \in Hosts
    BY <1>2, <1>7 DEF OvsAdd, Hosts, OvsCreation
  <2>2. dom.pc \in OvsCreation /\ "up" \in OvsCreation
    BY <1>7 DEF OvsAdd, OvsCreation
  <2> QED BY <1>4, <1>7, <2>1, <2>2, ProceedTyped DEF OvsAdd
<1>8. CASE OvsUp
  <2>1. dom.pc \in OvsCreation /\ "ports" \in OvsCreation
    BY <1>8 DEF OvsUp, OvsCreation
  <2> QED BY <1>2, <1>3, <1>8, <2>1, ProceedTyped DEF OvsUp
<1>9. CASE OvsPorts
  <2>1. CASE dom.todo = {} /\ Answered("ok") /\ UNCHANGED <<hostVars, history>>
    BY <1>2, <1>5, <2>1 DEF HostFine, HostTypeOK, hostVars, history
  <2>2. ASSUME NEW i \in dom.todo,
               dom' = [dom EXCEPT !.todo = @ \ {i}, !.cur = i,
                       !.pc = IF i = dom.main /\ i \notin host.bridges THEN "flush" ELSE "addport"],
               UNCHANGED <<hostVars, domQ, reply, history>>
        PROVE  HostFine'
    <3>1. i \in Ifaces
      BY <1>2
    <3>2. dom' \in Drivers /\ dom'.pc \in {"flush", "addport"}
      BY <1>2, <2>2, <3>1 DEF Drivers
    <3>3. dom.pc \in OvsCreation /\ dom'.pc \in OvsCreation
      BY <1>9, <3>2 DEF OvsPorts, OvsCreation
    <3> QED BY <1>6, <2>2, <3>2, <3>3
  <2> QED BY <1>9, <2>1, <2>2 DEF OvsPorts
<1>10. CASE OvsFlush
  <2>1. dom.pc \in OvsCreation /\ "ip" \in OvsCreation
    BY <1>10 DEF OvsFlush, OvsCreation
  <2>2. Flushed(host, dom.main) \in Hosts
    BY <1>2 DEF Flushed, Hosts
  <2> QED BY <1>4, <1>10, <2>1, <2>2, ProceedTyped DEF OvsFlush
<1>11. CASE OvsSetIp
  <2>1. dom.pc \in OvsCreation /\ "route" \in OvsCreation
    BY <1>11 DEF OvsSetIp, OvsCreation
  <2>2. WithAddress(host, Name) \in Hosts
    BY <1>2, AddressIs
  <2> QED BY <1>4, <1>11, <2>1, <2>2, ProceedTyped DEF OvsSetIp
<1>12. CASE OvsSetRoute
  <2>1. dom.pc \in OvsCreation /\ "addport" \in OvsCreation
    BY <1>12 DEF OvsSetRoute, OvsCreation
  <2>2. dom.main \in Ports
    BY <1>12 DEF OvsSetRoute, OnHost
  <2>3. [host EXCEPT !.route = Name, !.alias = @ \cup {dom.main}] \in Hosts
    BY <1>2, <2>2 DEF Hosts
  <2> QED BY <1>4, <1>12, <2>1, <2>3, ProceedTyped DEF OvsSetRoute
<1>13. CASE OvsAddPort
  <2>1. dom.pc \in OvsCreation /\ "ports" \in OvsCreation
    BY <1>13 DEF OvsAddPort, OvsCreation
  <2>2. ASSUME CanAddPort(dom.cur) PROVE AddedPort(host, dom.cur, Name) \in Hosts
    BY <1>2, <2>1, <2>2 DEF CanAddPort, AddedPort, Hosts
  <2> QED BY <1>4, <1>13, <2>1, <2>2, ProceedTyped DEF OvsAddPort
<1>14. CASE OvsRollback
  <2>1. Recovered(Removed(host, Name)) \in Hosts
    <3>1. Removed(host, Name) \in Hosts
      BY <1>2, RemovedIs
    <3>2. Present(Removed(host, Name)) \subseteq Ifaces
      BY <3>1, Constants0 DEF Present, Hosts
    <3> QED BY <3>1, <3>2, DhclientIs DEF Recovered
  <2>2. host' \in Hosts /\ fails' \in 0..MaxFaults
    BY <1>2, <1>14, <2>1, FailingCounts DEF OvsRollback, HostFine, HostTypeOK
  <2> QED BY <1>5, <1>14, <2>2 DEF OvsRollback
<1>15. CASE OvsList
  <2>1. CASE Raised /\ (Failing \/ UNCHANGED fails)
    BY <1>3, <2>1
  <2>2. ASSUME \/ dom' = [dom EXCEPT !.pc = "delbr"]
               \/ \E p \in Lenders : dom' = [dom EXCEPT !.pc = "restore", !.cur = p],
               UNCHANGED <<hostVars, domQ, reply, history>>
        PROVE  HostFine'
    <3>1. Lenders \subseteq Ifaces
      BY <1>2, Constants0 DEF Lenders, Hosts
    <3>2. dom' \in Drivers /\ dom'.pc \in {"delbr", "restore"}
      BY <1>2, <2>2, <3>1 DEF Drivers
    <3>3. dom.pc \in OvsDeletion /\ dom'.pc \in OvsDeletion
      BY <1>15, <3>2 DEF OvsList, OvsDeletion
    <3> QED BY <1>6, <2>2, <3>2, <3>3
  <2> QED BY <1>15, <2>1, <2>2 DEF OvsList
<1>16. CASE OvsRestore
  <2>1. dom.pc \in OvsDeletion /\ "unflush" \in OvsDeletion
    BY <1>16 DEF OvsRestore, OvsDeletion
  <2>2. dom.cur \in Ifaces /\ dom.main \in Ifaces
    BY <1>1, <1>2, <1>16, Constants0 DEF OvsRestore, OnHost, Present, Hosts
  <2>3. (IF Name \in host.addr THEN WithAddress(host, dom.cur) ELSE Dhclient(host, dom.main)) \in Hosts
    BY <1>2, <2>2, AddressIs, DhclientIs
  <2> QED BY <1>3, <1>16, <2>1, <2>3, ProceedTyped DEF OvsRestore
<1>17. CASE OvsUnflush
  <2>1. dom.pc \in OvsDeletion /\ "unroute" \in OvsDeletion
    BY <1>17 DEF OvsUnflush, OvsDeletion
  <2>2. Flushed(host, Name) \in Hosts
    BY <1>2, FlushedIs
  <2> QED BY <1>3, <1>17, <2>1, <2>2, ProceedTyped DEF OvsUnflush
<1>18. CASE OvsUnroute
  <2>1. dom.pc \in OvsDeletion /\ "delbr" \in OvsDeletion
    BY <1>18 DEF OvsUnroute, OvsDeletion
  <2>2. \A n \in host.addr : [host EXCEPT !.route = n] \in Hosts
    BY <1>2 DEF Hosts
  <2> QED BY <1>3, <1>18, <2>1, <2>2, ProceedTyped DEF OvsUnroute
<1>19. CASE OvsDelBr
  <2>1. Removed(host, Name) \in Hosts
    BY <1>2, RemovedIs
  <2>2. CASE host' = Removed(host, Name) /\ Answered("ok") /\ UNCHANGED <<manager, conf, bkp, history>>
    BY <1>5, <2>1, <2>2 DEF HostFine, HostTypeOK, history
  <2> QED BY <1>3, <1>19, <2>2 DEF OvsDelBr
<1> QED BY <1>7, <1>8, <1>9, <1>10, <1>11, <1>12, <1>13, <1>14, <1>15, <1>16, <1>17, <1>18, <1>19

\* What netplan makes of its files.
LEMMA ConfiguredType ==
  ASSUME HostTypeOK, NEW r \in Ifaces \cup {NoIface}
  PROVE  /\ Configured(r) \in Hosts /\ Addressed \subseteq Ifaces
         /\ Configured(r).bridges = {b \in Bridges : conf[b].there}
         /\ Configured(r).addr = Addressed /\ Configured(r).route = r
         /\ Configured(r).alias = host.alias
<1> DEFINE into == [p \in Ports |-> IF \E b \in Bridges : p \in conf[b].ports
                                    THEN CHOOSE b \in Bridges : p \in conf[b].ports ELSE NoIface]
           made == {b \in Bridges : conf[b].there}
<1>1. into \in [Ports -> Bridges \cup {NoIface}]
  <2>1. ASSUME NEW p \in Ports, \E b \in Bridges : p \in conf[b].ports
        PROVE  (CHOOSE b \in Bridges : p \in conf[b].ports) \in Bridges
    BY <2>1
  <2> QED BY <2>1
<1>2. Addressed \subseteq Ifaces
  BY Constants0 DEF Addressed
<1>3. Configured(r) = [host EXCEPT !.bridges = made, !.in = into, !.addr = Addressed, !.route = r]
  BY DEF Configured
<1>4. made \subseteq Bridges /\ host \in Hosts
  BY DEF HostTypeOK
<1> HIDE DEF into, made
<1>5. /\ Configured(r) \in Hosts
      /\ Configured(r).bridges = made
      /\ Configured(r).addr = Addressed /\ Configured(r).route = r
      /\ Configured(r).alias = host.alias
  BY <1>1, <1>2, <1>3, <1>4 DEF Hosts
<1> QED BY <1>2, <1>5 DEF made

\* The file of an interface that is put into a bridge.
LEMMA PortFileIs ==
  ASSUME NEW c \in [Ifaces -> Confs], NEW n \in Ifaces
  PROVE  /\ PortFile(c, n) \in Confs /\ PortFile(c, n).there
         /\ PortFile(c, n).addr <=> n # dom.main /\ (IF c[n].there THEN c[n].addr ELSE n \in host.addr)
         /\ PortFile(c, n).main <=> c[n].there /\ c[n].main
<1> DEFINE file == IF c[n].there THEN c[n] ELSE [NoConf EXCEPT !.there = TRUE, !.addr = (n \in host.addr)]
<1>1. /\ file \in Confs /\ file.there
      /\ file.addr <=> IF c[n].there THEN c[n].addr ELSE n \in host.addr
      /\ file.main <=> c[n].there /\ c[n].main
  <2>1. CASE c[n].there
    BY <2>1
  <2>2. CASE ~c[n].there
    <3>1. file = [there |-> TRUE, addr |-> n \in host.addr, main |-> FALSE, ports |-> {}]
      BY <2>2 DEF NoConf
    <3> HIDE DEF file
    <3>2. file \in Confs
      BY <3>1 DEF Confs
    <3> QED BY <2>2, <3>1, <3>2, Zenon
  <2> QED BY <2>1, <2>2
<1>2. PortFile(c, n) = IF n = dom.main THEN [file EXCEPT !.addr = FALSE] ELSE file
  BY DEF PortFile
<1> HIDE DEF file
<1>3. CASE n = dom.main
  <2>1. PortFile(c, n) = [file EXCEPT !.addr = FALSE]
    BY <1>2, <1>3
  <2>2. [file EXCEPT !.addr = FALSE] \in Confs /\ [file EXCEPT !.addr = FALSE].there = file.there
        /\ [file EXCEPT !.addr = FALSE].main = file.main /\ [file EXCEPT !.addr = FALSE].addr = FALSE
    BY <1>1 DEF Confs
  <2> QED BY <1>1, <1>3, <2>1, <2>2
<1>4. CASE n # dom.main
  BY <1>1, <1>2, <1>4
<1> QED BY <1>3, <1>4

LEMMA NpTyped ==
  ASSUME HostFine, NpFiles \/ NpBridgeFile \/ NpUnfile \/ NpApply
  PROVE  HostFine'
<1>1. dom.pc # "idle" /\ dom.pc \in {"files", "file", "unfile", "apply"}
  BY DEF NpFiles, NpBridgeFile, NpUnfile, NpApply
<1>2. /\ domQ # <<>> /\ Name \in Ifaces /\ host \in Hosts /\ dom \in Drivers
      /\ dom.todo \subseteq Ifaces /\ dom.main \in Ifaces \cup {NoIface} /\ dom.cur \in Ifaces \cup {NoIface}
      /\ dom.pc \in {"files", "file"} => Name \in Bridges
  BY <1>1, Busy DEF HostFine, HostTypeOK, InHand
<1>3. ASSUME Raised, Failing \/ UNCHANGED fails PROVE HostFine'
  BY <1>2, <1>3, RaisedTyped, FailingCounts DEF HostFine, HostTypeOK
<1>4. ASSUME conf' \in [Ifaces -> Confs], bkp' \in [Ifaces -> Confs], UNCHANGED <<manager, host, history>>,
             \/ Answered("err")
             \/ /\ UNCHANGED <<domQ, reply>>
                /\ \E pc : /\ dom' = [dom EXCEPT !.pc = pc]
                           /\ \/ dom.pc = "files" /\ pc = "file"
                              \/ dom.pc = "file" /\ pc = "apply"
                              \/ dom.pc = "unfile" /\ pc = "apply"
      PROVE  HostFine'
  <2>1. CASE Answered("err")
    <3>1. InHand' /\ AsksForBridge' /\ domQ' \in Seq(Requests) /\ dom' \in Drivers
          /\ reply' \in {"none", "ok", "err", "timeout"}
      BY <1>2, <2>1, AnsweredTyped
    <3> QED BY <1>4, <3>1 DEF HostFine, HostTypeOK, history
  <2>2. CASE ~Answered("err")
    <3>1. PICK pc : /\ dom' = [dom EXCEPT !.pc = pc]
                    /\ \/ dom.pc = "files" /\ pc = "file"
                       \/ dom.pc = "file" /\ pc = "apply"
                       \/ dom.pc = "unfile" /\ pc = "apply"
      BY <1>4, <2>2
    <3>2. dom' \in Drivers /\ dom'.pc = pc
      BY <1>2, <3>1 DEF Drivers
    <3>3. domQ' = domQ /\ reply' = reply /\ manager' = manager
      BY <1>4, <2>2
    <3>4. InHand' /\ AsksForBridge'
      BY <1>1, <3>1, <3>2, <3>3, GoesOn
    <3> QED BY <1>4, <3>2, <3>3, <3>4 DEF HostFine, HostTypeOK, history
  <2> QED BY <2>1, <2>2
<1>5. CASE NpFiles
  <2> DEFINE c == [conf EXCEPT ![dom.main] = MainFile(dom.main)]
  <2>1. c \in [Ifaces -> Confs]
    <3>1. CASE dom.main \in Ifaces
      BY <3>1, FileTypes DEF HostFine, HostTypeOK
    <3>2. CASE dom.main \notin Ifaces
      BY <3>2 DEF HostFine, HostTypeOK
    <3> QED BY <3>1, <3>2
  <2>2. ASSUME NEW n \in Ifaces PROVE PortFile(c, n) \in Confs
    BY ONLY <2>1, <2>2, PortFileIs
  <2>3. conf' \in [Ifaces -> Confs]
    <3> HIDE DEF c
    <3>1. PICK done \in SUBSET (dom.todo \cap Ports) :
            conf' = [n \in Ifaces |-> IF n \in done THEN PortFile(c, n) ELSE c[n]]
      BY <1>5 DEF NpFiles, c
    <3> QED BY <2>1, <2>2, <3>1
  <2>4. bkp' \in [Ifaces -> Confs]
    BY <1>5, FileTypes DEF NpFiles, BackedUp, HostFine, HostTypeOK
  <2>5. Answered("err") \/ (dom' = [dom EXCEPT !.pc = "file"] /\ UNCHANGED <<domQ, reply>>)
    BY <1>5 DEF NpFiles
  <2> QED BY <1>4, <1>5, <2>3, <2>4, <2>5 DEF NpFiles
<1>6. CASE NpBridgeFile
  <2>1. BridgeFile \in Confs
    BY <1>2 DEF BridgeFile, Confs
  <2>2. conf' \in [Ifaces -> Confs]
    BY <1>2, <1>6, <2>1 DEF NpBridgeFile, HostFine, HostTypeOK
  <2> QED BY <1>4, <1>6, <2>2 DEF NpBridgeFile, HostFine, HostTypeOK
<1>7. CASE NpUnfile
  <2>1. CASE Raised /\ UNCHANGED fails
    BY <1>3, <2>1
  <2>2. CASE Name \in Bridges /\ conf[Name].there
    <3> DEFINE all == \A p \in conf[Name].ports : conf[p].there
    <3>1. PICK done \in SUBSET {p \in conf[Name].ports : conf[p].there} :
             /\ conf' = [n \in Ifaces |-> CASE n \in done -> Restored(n)
                                             [] n = Name /\ all -> NoConf
                                             [] OTHER -> conf[n]]
             /\ bkp' = [n \in Ifaces |-> IF n \in done THEN NoConf ELSE bkp[n]]
      BY <1>7, <2>2 DEF NpUnfile
    <3>2. ASSUME NEW n \in Ifaces PROVE Restored(n) \in Confs
      <4>1. conf[n] \in Confs /\ bkp[n] \in Confs /\ conf[Name] \in Confs /\ NoConf \in Confs
        BY <1>2, FileTypes DEF HostFine
      <4>2. [conf[n] EXCEPT !.addr = conf[Name].addr] \in Confs
        BY <4>1 DEF Confs
      <4> QED BY <4>1, <4>2 DEF Restored
    <3>3. conf' \in [Ifaces -> Confs]
      <4> HIDE DEF all
      <4>1. \A n \in Ifaces : conf[n] \in Confs /\ NoConf \in Confs
        BY FileTypes DEF HostFine
      <4> QED BY <3>1, <3>2, <4>1
    <3>4. bkp' \in [Ifaces -> Confs]
      BY <3>1, FileTypes DEF HostFine
    <3>5. Answered("err") \/ (dom' = [dom EXCEPT !.pc = "apply"] /\ UNCHANGED <<domQ, reply>>)
      BY <1>7, <2>2 DEF NpUnfile
    <3>6. UNCHANGED <<manager, host, history>> /\ dom.pc = "unfile"
      BY <1>7, <2>2 DEF NpUnfile
    <3> QED BY <1>4, <3>3, <3>4, <3>5, <3>6
  <2> QED BY <1>7, <2>1, <2>2 DEF NpUnfile
<1>8. CASE NpApply
  <2>1. ASSUME NEW r \in Addressed \cup {NoIface}, host' = Configured(r), Answered("ok"),
               UNCHANGED <<manager, conf, bkp, history>>
        PROVE  HostFine'
    <3>1. host' \in Hosts
      BY <2>1, ConfiguredType DEF HostFine
    <3>2. InHand' /\ AsksForBridge' /\ domQ' \in Seq(Requests) /\ dom' \in Drivers
          /\ reply' \in {"none", "ok", "err", "timeout"}
      BY <1>2, <2>1, AnsweredTyped
    <3> QED BY <2>1, <3>1, <3>2 DEF HostFine, HostTypeOK, history
  <2> QED BY <1>3, <1>8, <2>1 DEF NpApply
<1> QED BY <1>5, <1>6, <1>7, <1>8

-----------------------------------------------------------------------------
(* Addresses and routes are on what is there *)

LEMMA OnHostStep ==
  ASSUME HostFine, OnHost, DriverStep \/ DomainCrash
  PROVE  OnHost'
<1> USE DEF OnHost
<1>1. /\ host \in Hosts /\ dom \in Drivers /\ host.bridges \subseteq Bridges /\ host.addr \subseteq Ifaces
      /\ Present(host) = Ports \cup host.bridges
  BY DEF HostFine, HostTypeOK, Present, Hosts
\* The request is over.
<1>2. ASSUME dom'.pc = "idle", host'.addr \subseteq Present(host'),
             host'.route \in Present(host') \cup {NoIface}
      PROVE  OnHost'
  BY <1>2
<1>3. ASSUME Answered("ok") \/ Answered("err")
      PROVE  dom'.pc = "idle"
  BY <1>3 DEF Answered, IdleDriver
<1>4. ASSUME Raised PROVE OnHost'
  BY <1>2, <1>3, <1>4 DEF Raised, hostVars
<1>5. ASSUME ToRollback, dom.pc # "idle" PROVE OnHost'
  BY <1>1, <1>5 DEF ToRollback, hostVars, Drivers
<1>6. ASSUME NEW h \in Hosts, NEW pc, Proceed(h, pc)
      PROVE  host' = h /\ domQ' = domQ /\ dom'.pc = pc /\ dom'.main = dom.main /\ dom'.cur = dom.cur
             /\ Name' = Name
  BY <1>1, <1>6 DEF Proceed, Drivers, Name, Request
<1>7. CASE TakeRequest
  <2>1. CASE Answered("err")
    BY <1>2, <1>3, <1>7, <2>1 DEF TakeRequest, hostVars
  <2>2. ASSUME HasRoute, NEW pc \in {"add", "list", "files", "unfile"},
               dom' = [IdleDriver EXCEPT !.main = host.route, !.todo = Request.ifaces, !.pc = pc]
        PROVE  OnHost'
    <3>1. dom'.pc = pc /\ dom'.main = host.route
      BY <2>2 DEF IdleDriver
    <3> QED BY <1>7, <2>2, <3>1 DEF TakeRequest, hostVars, HasRoute
  <2> QED BY <1>7, <2>1, <2>2 DEF TakeRequest
<1>8. CASE SwitchIface
  <2>1. dom'.pc = "idle"
    BY <1>3, <1>8 DEF SwitchIface
  <2>2. host'.addr = host.addr /\ host'.bridges = host.bridges /\ host'.route \in {host.route, NoIface}
    BY <1>1, <1>8 DEF SwitchIface, Switched, Hosts
  <2> QED BY <1>2, <2>1, <2>2 DEF Present
<1>9. CASE DomainCrash
  BY <1>2, <1>9 DEF DomainCrash, IdleDriver, hostVars
<1>10. dom.pc # "idle" => Name \in Ifaces /\ (dom.pc \in OvsCreation => Name \in Bridges)
  <2>1. dom.pc \in OvsCreation /\ dom.pc # "idle" => Request.op = "create"
    BY DEF HostFine, InHand
  <2> QED BY <2>1, Busy
<1>11. CASE OvsAdd
  <2>1. CASE Name \notin host.bridges /\ Proceed([host EXCEPT !.bridges = @ \cup {Name}], "up")
    <3>1. Name \in Bridges
      BY <1>10, <1>11 DEF OvsAdd, OvsCreation
    <3> DEFINE h == [host EXCEPT !.bridges = @ \cup {Name}]
    <3>2. h \in Hosts /\ h.bridges = host.bridges \cup {Name} /\ h.addr = host.addr /\ h.route = host.route
      BY <1>1, <3>1 DEF Hosts
    <3> HIDE DEF h
    <3>3. host' = h /\ dom'.pc = "up" /\ dom'.main = dom.main /\ Name' = Name
      BY <1>6, <2>1, <3>2 DEF h
    <3> QED BY <1>11, <3>2, <3>3 DEF Present, OvsAdd
  <2> QED BY <1>5, <1>11, <2>1 DEF OvsAdd
<1>12. CASE OvsUp
  <2>1. CASE Proceed(host, "ports")
    BY <1>1, <1>6, <1>12, <2>1 DEF OvsUp
  <2> QED BY <1>4, <1>12, <2>1 DEF OvsUp
<1>13. CASE OvsPorts
  <2>1. CASE Answered("ok") /\ UNCHANGED hostVars
    BY <1>2, <1>3, <2>1 DEF hostVars
  <2>2. ASSUME NEW i \in dom.todo,
               dom' = [dom EXCEPT !.todo = @ \ {i}, !.cur = i,
                       !.pc = IF i = dom.main /\ i \notin host.bridges THEN "flush" ELSE "addport"],
               UNCHANGED <<hostVars, domQ, reply, history>>
        PROVE  OnHost'
    <3>1. /\ dom'.pc = (IF i = dom.main /\ i \notin host.bridges THEN "flush" ELSE "addport")
          /\ dom'.main = dom.main /\ Name' = Name /\ host' = host
      BY <1>1, <2>2 DEF Drivers, Name, Request, hostVars
    <3> QED BY <1>1, <1>13, <3>1 DEF OvsPorts
  <2> QED BY <1>13, <2>1, <2>2 DEF OvsPorts
<1>14. CASE OvsFlush
  <2>1. CASE Proceed(Flushed(host, dom.main), "ip")
    <3>1. dom.main \in Ifaces
      BY <1>1, <1>14, Constants0 DEF OvsFlush
    <3> QED BY <1>1, <1>6, <1>14, <2>1, <3>1, FlushedIs DEF OvsFlush, Present
  <2> QED BY <1>5, <1>14, <2>1 DEF OvsFlush
<1>15. CASE OvsSetIp
  <2>1. CASE Proceed(WithAddress(host, Name), "route")
    BY <1>1, <1>6, <1>10, <1>15, <2>1, AddressIs DEF OvsSetIp, Present
  <2> QED BY <1>5, <1>15, <2>1 DEF OvsSetIp
<1>16. CASE OvsSetRoute
  <2>1. CASE Proceed([host EXCEPT !.route = Name, !.alias = @ \cup {dom.main}], "addport")
    <3> DEFINE h == [host EXCEPT !.route = Name, !.alias = @ \cup {dom.main}]
    <3>1. h \in Hosts /\ h.bridges = host.bridges /\ h.addr = host.addr /\ h.route = Name
      BY <1>1, <1>10, <1>16 DEF Hosts, OvsSetRoute
    <3> HIDE DEF h
    <3>2. host' = h /\ dom'.pc = "addport" /\ dom'.main = dom.main /\ Name' = Name
      BY <1>6, <2>1, <3>1 DEF h
    <3> QED BY <1>16, <3>1, <3>2 DEF OvsSetRoute, Present
  <2> QED BY <1>5, <1>16, <2>1 DEF OvsSetRoute
<1>17. CASE OvsAddPort
  <2>1. CASE CanAddPort(dom.cur) /\ Proceed(AddedPort(host, dom.cur, Name), "ports")
    <3>1. dom.cur \in Ports /\ Name \in Bridges
      BY <1>10, <1>17, <2>1 DEF CanAddPort, OvsAddPort, OvsCreation
    <3> DEFINE h == AddedPort(host, dom.cur, Name)
    <3>2. h \in Hosts /\ h.bridges = host.bridges /\ h.addr = host.addr /\ h.route = host.route
      BY <1>1, <3>1 DEF Hosts, AddedPort
    <3> HIDE DEF h
    <3>3. host' = h /\ dom'.pc = "ports" /\ dom'.main = dom.main /\ Name' = Name
      BY <1>6, <2>1, <3>2 DEF h
    <3> QED BY <1>17, <3>2, <3>3 DEF OvsAddPort, Present
  <2> QED BY <1>5, <1>17, <2>1 DEF OvsAddPort
<1>18. CASE OvsRollback
  <2>1. dom'.pc = "idle"
    BY <1>3, <1>18 DEF OvsRollback
  <2> DEFINE r == Removed(host, Name)
  <2>2. /\ r \in Hosts /\ r.addr = host.addr \ {Name} /\ r.bridges = host.bridges \ {Name}
        /\ r.route \in {host.route, NoIface} /\ (host.route = Name => r.route = NoIface)
    <3>1. Name \in Ifaces
      BY <1>10, <1>18 DEF OvsRollback
    <3> QED BY ONLY <1>1, <3>1, RemovedIs DEF r
  <2> HIDE DEF r
  <2>3. dom.main \in Present(r) => dom.main \in Ifaces
    BY <2>2, Constants0 DEF Present, Hosts
  <2>4. /\ Recovered(r).addr \subseteq Present(Recovered(r))
        /\ Recovered(r).route \in Present(Recovered(r)) \cup {NoIface}
    <3>1. CASE dom.main \in Present(r) /\ dom.main \notin r.addr
      <4>1. Recovered(r) = Dhclient(r, dom.main)
        BY <3>1 DEF Recovered
      <4>2. Recovered(r).addr = r.addr \cup {dom.main} /\ Recovered(r).bridges = r.bridges
            /\ Recovered(r).route \in {r.route, dom.main}
        BY <2>2, <2>3, <3>1, <4>1, DhclientIs
      <4> QED BY <1>1, <2>2, <3>1, <4>2, Constants0 DEF Present
    <3>2. CASE ~(dom.main \in Present(r) /\ dom.main \notin r.addr)
      BY <1>1, <2>2, <3>2, Constants0 DEF Present, Recovered
    <3> QED BY <3>1, <3>2
  <2> QED BY <1>2, <1>18, <2>1, <2>4 DEF OvsRollback, r
<1>19. CASE OvsList
  <2>1. ASSUME \/ dom' = [dom EXCEPT !.pc = "delbr"]
               \/ \E p \in Lenders : dom' = [dom EXCEPT !.pc = "restore", !.cur = p],
               UNCHANGED <<hostVars, domQ, reply, history>>
        PROVE  OnHost'
    <3>1. Lenders \subseteq Ports
      BY <1>1 DEF Lenders, Hosts
    <3>2. /\ dom'.pc \in {"delbr", "restore"} /\ dom'.main = dom.main /\ host' = host
          /\ dom'.pc = "restore" => dom'.cur \in Ports
      BY <1>1, <2>1, <3>1 DEF Drivers, hostVars
    <3> QED BY <1>19, <3>2 DEF OvsList
  <2> QED BY <1>4, <1>19, <2>1 DEF OvsList
<1>20. CASE OvsRestore
  <2>1. dom.cur \in Ifaces /\ dom.main \in Ifaces
    BY <1>1, <1>20, Constants0 DEF OvsRestore, Hosts
  <2> DEFINE h == IF Name \in host.addr THEN WithAddress(host, dom.cur) ELSE Dhclient(host, dom.main)
  <2>2. CASE Proceed(h, "unflush")
    <3>1. h \in Hosts /\ h.bridges = host.bridges
          /\ h.addr \subseteq host.addr \cup {dom.cur, dom.main} /\ h.route \in {host.route, dom.main}
      <4>1. h = WithAddress(host, dom.cur) \/ h = Dhclient(host, dom.main)
        OBVIOUS
      <4> HIDE DEF h
      <4>2. CASE h = WithAddress(host, dom.cur)
        <5>1. h \in Hosts /\ h.bridges = host.bridges /\ h.addr = host.addr \cup {dom.cur}
             /\ h.route = host.route
          BY <1>1, <2>1, <4>2, AddressIs
        <5> QED BY <5>1
      <4>3. CASE h = Dhclient(host, dom.main)
        <5>1. h \in Hosts /\ h.bridges = host.bridges /\ h.addr = host.addr \cup {dom.main}
              /\ h.route \in {host.route, dom.main}
          BY <1>1, <2>1, <4>3, DhclientIs
        <5> QED BY <5>1
      <4> QED BY <4>1, <4>2, <4>3
    <3> HIDE DEF h
    <3>2. host' = h /\ dom'.pc = "unflush" /\ dom'.main = dom.main
      BY <1>6, <2>2, <3>1
    <3> QED BY <1>1, <1>20, <3>1, <3>2 DEF OvsRestore, Present
  <2> QED BY <1>4, <1>20, <2>2 DEF OvsRestore
<1>21. CASE OvsUnflush
  <2>1. CASE Proceed(Flushed(host, Name), "unroute")
    BY <1>1, <1>6, <1>10, <1>21, <2>1, FlushedIs DEF OvsUnflush, Present
  <2> QED BY <1>4, <1>21, <2>1 DEF OvsUnflush
<1>22. CASE OvsUnroute
  <2>1. ASSUME NEW n \in host.addr, Proceed([host EXCEPT !.route = n], "delbr") PROVE OnHost'
    <3> DEFINE h == [host EXCEPT !.route = n]
    <3>1. h \in Hosts /\ h.bridges = host.bridges /\ h.addr = host.addr /\ h.route = n
      BY <1>1 DEF Hosts
    <3> HIDE DEF h
    <3>2. host' = h /\ dom'.pc = "delbr" /\ dom'.main = dom.main
      BY <1>6, <2>1, <3>1 DEF h
    <3> QED BY <1>22, <3>1, <3>2 DEF OvsUnroute, Present
  <2> QED BY <1>4, <1>22, <2>1 DEF OvsUnroute
<1>23. CASE OvsDelBr
  <2>1. CASE host' = Removed(host, Name) /\ Answered("ok")
    <3>1. dom'.pc = "idle"
      BY <1>3, <2>1
    <3>2. Name \in Ifaces
      BY <1>10, <1>23 DEF OvsDelBr
    <3>3. host'.addr = host.addr \ {Name} /\ host'.bridges = host.bridges \ {Name}
          /\ host'.route \in {host.route, NoIface} \ {Name}
      <4>1. host.route = Name => NoIface # Name
        BY <3>2, Constants0
      <4> QED BY <1>1, <2>1, <3>2, <4>1, Constants0, RemovedIs
    <3> QED BY <1>1, <1>2, <3>1, <3>3 DEF Present
  <2> QED BY <1>4, <1>23, <2>1 DEF OvsDelBr
<1>24. CASE NpFiles \/ NpBridgeFile \/ NpUnfile
  <2>1. CASE Raised \/ (Answered("err") /\ host' = host)
    BY <1>2, <1>3, <1>4, <2>1
  <2>2. ASSUME NEW pc \in {"file", "apply"}, dom' = [dom EXCEPT !.pc = pc], host' = host, dom.pc # "idle"
        PROVE  OnHost'
    BY <1>1, <2>2 DEF Drivers
  <2> QED BY <1>24, <2>1, <2>2 DEF NpFiles, NpBridgeFile, NpUnfile
<1>25. CASE NpApply
  <2>1. ASSUME NEW r \in Addressed \cup {NoIface}, host' = Configured(r), Answered("ok") PROVE OnHost'
    <3>1. dom'.pc = "idle"
      BY <1>3, <2>1
    <3>2. host'.addr = Addressed /\ host'.bridges = {b \in Bridges : conf[b].there} /\ host'.route = r
      BY <2>1, ConfiguredType DEF HostFine
    <3>3. Addressed \subseteq Ports \cup {b \in Bridges : conf[b].there}
      BY Constants0 DEF Addressed
    <3> QED BY <1>2, <2>1, <3>1, <3>2, <3>3 DEF Present
  <2> QED BY <1>4, <1>25, <2>1 DEF NpApply
<1> QED BY <1>7, <1>8, <1>9, <1>11, <1>12, <1>13, <1>14, <1>15, <1>16, <1>17, <1>18, <1>19, <1>20, <1>21,
           <1>22, <1>23, <1>24, <1>25 DEF DriverStep

-----------------------------------------------------------------------------
(* Open vSwitch: the host keeps an address *)

OvsGood == OvsHost /\ OvsCreating /\ OvsDeleting /\ OvsUnfailed

LEMMA OvsCalmBefore ==
  ASSUME HostFine, DriverStep, OvsCalm'
  PROVE  OvsCalm /\ (fails' = fails \/ (fails = 0 /\ fails' = 1))
<1>1. fails \in Nat
  BY DEF HostFine, HostTypeOK
<1> DEFINE Same == manager' = manager /\ crashes' = crashes /\ (~reused' => ~reused)
           Counted == fails' = fails \/ fails' = fails + 1
<1>2. ASSUME UNCHANGED <<manager, crashes, reused>> PROVE Same
  BY <1>2
<1>3. ASSUME UNCHANGED fails \/ Failing PROVE Counted
  BY <1>3 DEF Failing
<1>4. ASSUME NEW h, NEW pc, Proceed(h, pc) PROVE Same /\ Counted
  BY <1>4 DEF Proceed
<1>5. ASSUME Raised \/ ToRollback PROVE Same
  BY <1>5 DEF Raised, ToRollback, hostVars
<1>6. ASSUME UNCHANGED <<manager, history>> PROVE Same /\ Counted
  BY <1>6 DEF history
<1>7. Same /\ Counted
  <2>1. CASE TakeRequest
    <3>1. manager' = manager /\ crashes' = crashes /\ fails' = fails
      BY <2>1 DEF TakeRequest, hostVars
    <3>2. ~reused' => ~reused
      BY <2>1 DEF TakeRequest
    <3> QED BY <3>1, <3>2
  <2>2. CASE SwitchIface
    BY <1>6, <2>2 DEF SwitchIface
  <2>3. CASE OvsAdd
    BY <1>3, <1>4, <1>5, <2>3 DEF OvsAdd
  <2>4. CASE OvsUp
    BY <1>3, <1>4, <1>5, <2>4 DEF OvsUp
  <2>5. CASE OvsPorts
    BY <1>6, <2>5 DEF OvsPorts, hostVars
  <2>6. CASE OvsFlush \/ OvsSetIp
    BY <1>3, <1>4, <1>5, <2>6 DEF OvsFlush, OvsSetIp
  <2>7. CASE OvsSetRoute \/ OvsAddPort
    BY <1>3, <1>4, <1>5, <2>7 DEF OvsSetRoute, OvsAddPort
  <2>8. CASE OvsRollback
    BY <1>2, <1>3, <2>8 DEF OvsRollback
  <2>9. CASE OvsList
    BY <1>3, <1>5, <1>6, <2>9 DEF OvsList, hostVars
  <2>10. CASE OvsRestore \/ OvsUnflush \/ OvsUnroute
    BY <1>3, <1>4, <1>5, <2>10 DEF OvsRestore, OvsUnflush, OvsUnroute
  <2>11. CASE OvsDelBr
    BY <1>3, <1>5, <1>6, <2>11 DEF OvsDelBr
  <2>12. CASE NpFiles \/ NpBridgeFile
    BY <1>6, <2>12 DEF NpFiles, NpBridgeFile
  <2>13. CASE NpUnfile
    BY <1>3, <1>5, <1>6, <2>13 DEF NpUnfile
  <2>14. CASE NpApply
    BY <1>3, <1>5, <1>6, <2>14 DEF NpApply
  <2> QED BY <2>1, <2>2, <2>3, <2>4, <2>5, <2>6, <2>7, <2>8, <2>9, <2>10, <2>11, <2>12,
            <2>13, <2>14 DEF DriverStep
<1> QED BY <1>1, <1>7 DEF OvsCalm

\* A request that is over, and one that is taken back.
LEMMA OvsEnds ==
  ASSUME dom'.pc = "idle", host'.route \in host'.addr \cup {NoIface}, host'.addr # {},
         \A b \in host'.addr \cap Bridges : \E p \in host'.alias : host'.in[p] = b,
         fails' = 0 => \E a \in host'.addr : host'.addr = {a} /\ (a \in Ports => host'.in[a] = NoIface)
  PROVE  OvsGood'
BY DEF OvsGood, OvsHost, OvsCreating, OvsDeleting, OvsUnfailed, OvsCreation, OvsDeletion, Lent, Single,
       Unmoved, Borrowing

\* An exception that nothing takes back leaves the host as it is.
LEMMA OvsRaises ==
  ASSUME OvsGood, Raised, dom.pc \notin {"idle", "ip", "rollback", "route", "addport"}, host.addr # {},
         fails' = 0 => Single
  PROVE  OvsGood'
<1>1. dom'.pc = "idle" /\ host' = host
  BY DEF Raised, Answered, IdleDriver, hostVars
<1>2. \A b \in host.addr \cap Bridges : Lent(b)
  BY DEF OvsGood, OvsHost, Borrowing
<1> QED BY <1>1, <1>2, OvsEnds DEF OvsGood, OvsHost, Lent, Single

\* The facts that every step starts from.
LEMMA OvsBusy ==
  ASSUME HostFine, OnHost, dom.pc # "idle"
  PROVE  /\ host \in Hosts /\ dom \in Drivers /\ host.bridges \subseteq Bridges /\ host.alias \subseteq Ports
         /\ host.in \in [Ports -> Bridges \cup {NoIface}] /\ host.addr \subseteq Ifaces
         /\ host.route \in Ifaces \cup {NoIface}
         /\ Name \in Ifaces /\ (dom.pc \in OvsCreation => Name \in Bridges) /\ NoIface \notin Ifaces
         /\ dom.main \in Ifaces /\ dom.main \in Present(host) /\ fails \in Nat
         /\ Present(host) = Ports \cup host.bridges /\ Ports \cap Bridges = {} /\ dom.todo \subseteq Ifaces
         /\ host.addr \subseteq Ports \cup host.bridges
<1>1. host \in Hosts /\ dom \in Drivers /\ fails \in Nat
  BY DEF HostFine, HostTypeOK
<1>2. /\ host.bridges \subseteq Bridges /\ host.alias \subseteq Ports
      /\ host.in \in [Ports -> Bridges \cup {NoIface}] /\ host.addr \subseteq Ifaces
      /\ host.route \in Ifaces \cup {NoIface}
  BY <1>1 DEF Hosts
<1>3. Present(host) = Ports \cup host.bridges /\ dom.main \in Present(host) /\ host.addr \subseteq Present(host)
  BY DEF OnHost, Present
<1>4. Name \in Ifaces /\ (dom.pc \in OvsCreation => Name \in Bridges) /\ dom.todo \subseteq Ifaces
  BY Busy DEF HostFine, InHand
<1> QED BY <1>1, <1>2, <1>3, <1>4, Constants0

\* Proceed changes nothing else of the driver.
LEMMA ProceedIs ==
  ASSUME HostFine, NEW h, NEW pc, Proceed(h, pc)
  PROVE  /\ host' = h /\ dom'.pc = pc /\ dom'.main = dom.main /\ dom'.todo = dom.todo /\ dom'.cur = dom.cur
         /\ domQ' = domQ /\ Name' = Name /\ fails' = fails
BY DEF HostFine, HostTypeOK, Drivers, Proceed, Name, Request

LEMMA RollbackIs ==
  ASSUME HostFine, ToRollback
  PROVE  /\ host' = host /\ dom'.pc = "rollback" /\ dom'.main = dom.main /\ dom'.todo = dom.todo
         /\ dom'.cur = dom.cur /\ domQ' = domQ /\ Name' = Name
BY DEF HostFine, HostTypeOK, Drivers, ToRollback, Name, Request, hostVars

LEMMA OvsTake ==
  ASSUME HostFine, OnHost, OvsCalm, OvsGood, TakeRequest, OvsCalm'
  PROVE  OvsGood'
<1> USE DEF OvsGood
<1>1. dom.pc = "idle" /\ host' = host /\ fails' = fails /\ fails \in Nat
  BY DEF TakeRequest, hostVars, HostFine, HostTypeOK
<1>2. host.addr # {} /\ host.route \in host.addr \cup {NoIface} /\ \A b \in host.addr \cap Bridges : Lent(b)
  BY <1>1 DEF OvsHost, Borrowing
<1>3. fails = 0 => Single
  BY <1>1 DEF OvsUnfailed
<1>4. CASE ~HasRoute
  <2>1. dom'.pc = "idle"
    BY <1>4 DEF TakeRequest, Answered, IdleDriver
  <2> QED BY <1>1, <1>2, <1>3, <2>1, OvsEnds DEF Single, Lent
<1>5. CASE HasRoute
  <2>1. /\ dom'.pc = (IF Request.op = "create" THEN "add" ELSE "list") /\ dom'.main = host.route
        /\ domQ' = domQ /\ Name' = Name
    BY <1>5 DEF TakeRequest, OvsCalm, IdleDriver, Name, Request
  <2>2. dom'.pc = "add" => Name \notin host.bridges /\ Name \in Ifaces
    <3>1. domQ # <<>> /\ ((Request.op = "create" /\ Name \in host.bridges) => reused')
      BY DEF TakeRequest
    <3>2. Name \in Ifaces
      BY <3>1, QueueType DEF HostFine, Requests, Name
    <3> QED BY <2>1, <3>1, <3>2 DEF OvsCalm
  <2>3. host.route \in host.addr /\ host.route # NoIface
    BY <1>2, <1>5 DEF HasRoute
  <2>4. dom'.pc \in {"add", "list"}
    BY <2>1
  <2>5. OvsHost'
    BY <1>1, <1>2, <2>1, <2>4 DEF OvsHost, Lent, Borrowing
  <2>6. dom'.pc = "add" => dom'.main # Name
    <3>1. Name \in Ports => Request.op # "create"
      <4>1. domQ # <<>> /\ 1 \in DOMAIN domQ /\ Head(domQ) = domQ[1]
        BY DEF TakeRequest, HostFine, HostTypeOK
      <4> QED BY <4>1, Constants0 DEF HostFine, AsksForBridge, Name, Request
    <3> QED BY <2>1, <2>2, <2>3, <3>1 DEF OnHost, Present
  <2>7. OvsCreating'
    BY <1>1, <2>1, <2>2, <2>3, <2>4, <2>6 DEF OvsCreating, OvsCreation, Unmoved
  <2>8. OvsDeleting'
    BY <1>1, <2>1, <2>4 DEF OvsDeleting, OvsDeletion
  <2>9. OvsUnfailed'
    BY <1>1, <1>3, <2>1, <2>3, <2>4 DEF OvsUnfailed, Single, OvsCreation
  <2> QED BY <2>5, <2>7, <2>8, <2>9
<1> QED BY <1>4, <1>5

LEMMA OvsSwitch ==
  ASSUME HostFine, OvsGood, SwitchIface
  PROVE  OvsGood'
<1> USE DEF OvsGood
<1>1. dom.pc = "idle" /\ fails' = fails /\ dom'.pc = "idle" /\ fails \in Nat
  BY DEF SwitchIface, history, HostFine, HostTypeOK, Answered, IdleDriver
<1>2. /\ host'.addr = host.addr /\ host'.in = host.in /\ host'.alias = host.alias
      /\ host'.route \in {host.route, NoIface}
  BY DEF SwitchIface, Switched, HostFine, HostTypeOK, Hosts
<1>3. host.addr # {} /\ host.route \in host.addr \cup {NoIface} /\ \A b \in host.addr \cap Bridges : Lent(b)
  BY <1>1 DEF OvsHost, Borrowing
<1>4. fails = 0 => Single
  BY <1>1 DEF OvsUnfailed
<1> QED BY <1>1, <1>2, <1>3, <1>4, OvsEnds DEF Single, Lent

\* Every step below starts here: the facts about the host and the driver, and that
\* one command at most has failed.
OvsStarts == HostFine /\ OnHost /\ OvsCalm /\ OvsGood /\ OvsCalm' /\ fails \in {0, 1}

LEMMA OvsFails ==
  ASSUME OvsStarts, Failing
  PROVE  fails = 0 /\ fails' = 1
BY DEF OvsStarts, OvsCalm, Failing

\* A creation that goes to its rollback.
LEMMA OvsToRollback ==
  ASSUME OvsStarts, ToRollback, dom.pc \in {"add", "flush", "ip", "route", "addport"},
         \/ fails' = 1 /\ (host.addr = {} => dom.pc = "ip")
         \/ /\ fails' = 0 /\ fails = 0 /\ Single
            /\ \A b \in host.addr \cap Bridges : Lent(b)
  PROVE  OvsGood'
<1> USE DEF OvsGood, OvsStarts
<1>1. host' = host /\ dom'.pc = "rollback" /\ dom'.main = dom.main /\ Name' = Name
  BY RollbackIs
<1>2. OvsHost'
  <2>1. host.addr = {} => dom.pc = "ip" /\ fails' = 1 /\ Name \in host.bridges
    BY DEF OnHost, Single
  <2> QED BY <1>1, <2>1 DEF OvsHost, Lent, Borrowing
<1>3. OvsCreating'
  BY <1>1 DEF OvsCreating, OvsCreation, Unmoved
<1>4. OvsDeleting'
  BY <1>1 DEF OvsDeleting, OvsDeletion
<1>5. OvsUnfailed'
  BY <1>1 DEF OvsUnfailed, OvsCreation, Single, Lent
<1> QED BY <1>2, <1>3, <1>4, <1>5

LEMMA OvsAddGood ==
  ASSUME OvsStarts, OvsAdd
  PROVE  OvsGood'
<1> USE DEF OvsStarts, OvsGood
<1>1. dom.pc = "add"
  BY DEF OvsAdd
<1>2. host \in Hosts /\ Name \in Bridges /\ host.bridges \subseteq Bridges
  BY <1>1, OvsBusy DEF OvsCreation
<1>3. Name \notin host.bridges
  BY <1>1 DEF OvsCreating, OvsCreation
<1>4. CASE Proceed([host EXCEPT !.bridges = @ \cup {Name}], "up")
  <2> DEFINE h == [host EXCEPT !.bridges = @ \cup {Name}]
  <2>1. h.addr = host.addr /\ h.route = host.route /\ h.in = host.in /\ h.alias = host.alias
    BY <1>2 DEF Hosts
  <2> HIDE DEF h
  <2>2. host' = h /\ dom'.pc = "up" /\ dom'.main = dom.main /\ Name' = Name /\ fails' = fails
    BY <1>4, ProceedIs DEF h
  <2>3. OvsHost'
    BY <1>1, <2>1, <2>2 DEF OvsHost, Lent, Borrowing
  <2>4. OvsCreating'
    BY <1>1, <2>1, <2>2 DEF OvsCreating, OvsCreation, Unmoved
  <2>5. OvsDeleting'
    BY <2>2 DEF OvsDeleting, OvsDeletion
  <2>6. OvsUnfailed'
    BY <1>1, <2>1, <2>2 DEF OvsUnfailed, OvsCreation, Single
  <2> QED BY <2>3, <2>4, <2>5, <2>6
<1>5. CASE Failing /\ ToRollback
  BY <1>1, <1>5, OvsFails, OvsToRollback DEF OvsHost
<1> QED BY <1>3, <1>4, <1>5 DEF OvsAdd

LEMMA OvsUpGood ==
  ASSUME OvsStarts, OvsUp
  PROVE  OvsGood'
<1> USE DEF OvsStarts, OvsGood
<1>1. dom.pc = "up" /\ host.addr # {}
  BY DEF OvsUp, OvsHost
<1>2. CASE Proceed(host, "ports")
  <2>1. host' = host /\ dom'.pc = "ports" /\ dom'.main = dom.main /\ Name' = Name /\ fails' = fails
    BY <1>2, ProceedIs
  <2>2. OvsHost'
    BY <1>1, <2>1 DEF OvsHost, Lent, Borrowing
  <2>3. OvsCreating'
    BY <1>1, <2>1 DEF OvsCreating, OvsCreation, Unmoved
  <2>4. OvsDeleting'
    BY <2>1 DEF OvsDeleting, OvsDeletion
  <2>5. OvsUnfailed'
    BY <1>1, <2>1 DEF OvsUnfailed, OvsCreation, Single
  <2> QED BY <2>2, <2>3, <2>4, <2>5
<1>3. CASE Failing /\ Raised
  BY <1>1, <1>3, OvsFails, OvsRaises
<1> QED BY <1>2, <1>3 DEF OvsUp

LEMMA OvsPortsGood ==
  ASSUME OvsStarts, OvsPorts
  PROVE  OvsGood'
<1> USE DEF OvsStarts, OvsGood
<1>1. dom.pc = "ports" /\ host.addr # {}
  BY DEF OvsPorts, OvsHost
<1>2. \A b \in host.addr \cap Bridges : Lent(b)
  BY <1>1 DEF OvsHost, Borrowing
<1>3. CASE Answered("ok") /\ UNCHANGED <<hostVars, history>>
  <2>1. dom'.pc = "idle" /\ host' = host /\ fails' = fails
    BY <1>3 DEF Answered, IdleDriver, hostVars, history
  <2> QED BY <1>1, <1>2, <2>1, OvsEnds DEF OvsHost, OvsUnfailed, Single, Lent
<1>4. ASSUME NEW i \in dom.todo,
             dom' = [dom EXCEPT !.todo = @ \ {i}, !.cur = i,
                       !.pc = IF i = dom.main /\ i \notin host.bridges THEN "flush" ELSE "addport"],
             UNCHANGED <<hostVars, domQ, reply, history>>
      PROVE  OvsGood'
  <2>1. /\ dom'.todo = dom.todo \ {i} /\ dom'.cur = i /\ dom'.main = dom.main
        /\ dom'.pc = (IF i = dom.main /\ i \notin host.bridges THEN "flush" ELSE "addport")
        /\ Name' = Name /\ host' = host /\ fails' = fails
    BY <1>4 DEF HostFine, HostTypeOK, Drivers, Name, Request, hostVars, history
  <2>2. /\ dom'.pc \in {"flush", "addport"} /\ (dom'.pc = "flush" => i = dom.main)
        /\ (dom'.pc = "addport" => i # dom.main \/ i \in host.bridges)
    BY <2>1
  <2>3. OvsHost'
    BY <1>1, <1>2, <2>1, <2>2 DEF OvsHost, Lent
  <2>4. Name \in Bridges /\ host.bridges \subseteq Bridges /\ Ports \cap Bridges = {}
    BY <1>1, OvsBusy DEF OvsCreation
  <2>5. Name \in host.addr => Lent(Name)
    BY <1>2, <2>4
  <2>6. OvsCreating'
    BY <1>1, <2>1, <2>2, <2>4, <2>5 DEF OvsCreating, OvsCreation, Unmoved, Lent
  <2>7. OvsDeleting'
    BY <2>2 DEF OvsDeleting, OvsDeletion
  <2>8. OvsUnfailed'
    BY <1>1, <2>1, <2>2, <2>5 DEF OvsUnfailed, OvsCreation, Single, Lent
  <2> QED BY <2>3, <2>6, <2>7, <2>8
<1> QED BY <1>3, <1>4 DEF OvsPorts

LEMMA OvsFlushGood ==
  ASSUME OvsStarts, OvsFlush
  PROVE  OvsGood'
<1> USE DEF OvsStarts, OvsGood
<1>1. dom.pc = "flush" /\ host.addr # {}
  BY DEF OvsFlush, OvsHost
<1>2. /\ host \in Hosts /\ dom.main \in Ifaces /\ dom.main \in Ports /\ NoIface \notin Ifaces
      /\ Ports \cap Bridges = {} /\ Name \in Bridges
  BY <1>1, OvsBusy DEF OnHost, OvsCreation
<1>3. host.route = dom.main /\ dom.main \in host.addr
  BY <1>1, <1>2 DEF OvsCreating, OvsCreation, Unmoved, OvsHost
<1>4. CASE Proceed(Flushed(host, dom.main), "ip")
  <2> DEFINE h == Flushed(host, dom.main)
  <2>1. h.addr = host.addr \ {dom.main} /\ h.route = NoIface /\ h.in = host.in /\ h.alias = host.alias
    BY <1>2, <1>3, FlushedIs
  <2> HIDE DEF h
  <2>2. host' = h /\ dom'.pc = "ip" /\ dom'.main = dom.main /\ dom'.cur = dom.cur /\ dom'.todo = dom.todo
        /\ Name' = Name /\ fails' = fails
    BY <1>4, ProceedIs DEF h
  <2>3. OvsHost'
    BY <1>1, <2>1, <2>2 DEF OvsHost, Lent, Borrowing
  <2>4. OvsCreating'
    BY <1>1, <1>2, <2>1, <2>2 DEF OvsCreating, OvsCreation, Unmoved
  <2>5. OvsDeleting'
    BY <2>2 DEF OvsDeleting, OvsDeletion
  <2>6. fails = 0 => host.addr = {dom.main} /\ host.in[dom.main] = NoIface
    BY <1>1, <1>2, <1>3 DEF OvsUnfailed, Single
  <2>7. OvsUnfailed'
    BY <1>1, <2>1, <2>2, <2>6 DEF OvsUnfailed, OvsCreation
  <2> QED BY <2>3, <2>4, <2>5, <2>7
<1>5. CASE Failing /\ ToRollback
  BY <1>1, <1>5, OvsFails, OvsToRollback
<1> QED BY <1>4, <1>5 DEF OvsFlush

LEMMA OvsSetIpGood ==
  ASSUME OvsStarts, OvsSetIp
  PROVE  OvsGood'
<1> USE DEF OvsStarts, OvsGood
<1>1. dom.pc = "ip"
  BY DEF OvsSetIp
<1>2. /\ host \in Hosts /\ Name \in Ifaces /\ Name \in Bridges /\ dom.main \in Ports /\ Ports \cap Bridges = {}
      /\ host.route = NoIface
  BY <1>1, OvsBusy DEF OnHost, OvsCreation, OvsCreating
<1>3. CASE Proceed(WithAddress(host, Name), "route")
  <2> DEFINE h == WithAddress(host, Name)
  <2>1. h.addr = host.addr \cup {Name} /\ h.route = host.route /\ h.in = host.in /\ h.alias = host.alias
    BY <1>2, AddressIs
  <2> HIDE DEF h
  <2>2. host' = h /\ dom'.pc = "route" /\ dom'.main = dom.main /\ dom'.cur = dom.cur /\ dom'.todo = dom.todo
        /\ Name' = Name /\ fails' = fails
    BY <1>3, ProceedIs DEF h
  <2>3. OvsHost'
    BY <1>1, <1>2, <2>1, <2>2 DEF OvsHost, Lent, Borrowing
  <2>4. OvsCreating'
    BY <1>1, <1>2, <2>1, <2>2 DEF OvsCreating, OvsCreation, Unmoved
  <2>5. OvsDeleting'
    BY <2>2 DEF OvsDeleting, OvsDeletion
  <2>6. OvsUnfailed'
    BY <1>1, <1>2, <2>1, <2>2 DEF OvsUnfailed, OvsCreation
  <2> QED BY <2>3, <2>4, <2>5, <2>6
<1>4. CASE Failing /\ ToRollback
  BY <1>1, <1>4, OvsFails, OvsToRollback
<1> QED BY <1>3, <1>4 DEF OvsSetIp

LEMMA OvsSetRouteGood ==
  ASSUME OvsStarts, OvsSetRoute
  PROVE  OvsGood'
<1> USE DEF OvsStarts, OvsGood
<1>1. dom.pc = "route"
  BY DEF OvsSetRoute
<1>2. /\ host \in Hosts /\ Name \in Bridges /\ dom.main \in Ports /\ Ports \cap Bridges = {}
      /\ host.route = NoIface /\ Name \in host.addr
      /\ dom.cur = dom.main /\ dom.main \notin dom.todo /\ dom.main \notin host.addr /\ dom.main # Name
  BY <1>1, OvsBusy DEF OnHost, OvsCreation, OvsCreating
<1>3. CASE Proceed([host EXCEPT !.route = Name, !.alias = @ \cup {dom.main}], "addport")
  <2> DEFINE h == [host EXCEPT !.route = Name, !.alias = @ \cup {dom.main}]
  <2>1. h.addr = host.addr /\ h.route = Name /\ h.in = host.in /\ h.alias = host.alias \cup {dom.main}
    BY <1>2 DEF Hosts
  <2> HIDE DEF h
  <2>2. host' = h /\ dom'.pc = "addport" /\ dom'.main = dom.main /\ dom'.cur = dom.cur /\ dom'.todo = dom.todo
        /\ Name' = Name /\ fails' = fails
    BY <1>3, ProceedIs DEF h
  <2>3. OvsHost'
    BY <1>1, <1>2, <2>1, <2>2 DEF OvsHost, Lent, Borrowing
  <2>4. OvsCreating'
    BY <1>1, <1>2, <2>1, <2>2 DEF OvsCreating, OvsCreation, Unmoved
  <2>5. OvsDeleting'
    BY <2>2 DEF OvsDeleting, OvsDeletion
  <2>6. OvsUnfailed'
    BY <1>1, <1>2, <2>1, <2>2 DEF OvsUnfailed, OvsCreation, Single
  <2> QED BY <2>3, <2>4, <2>5, <2>6
<1>4. CASE ~CanRoute(host)
  BY <1>2, <1>4 DEF CanRoute
<1>5. CASE Failing /\ ToRollback
  BY <1>1, <1>2, <1>5, OvsFails, OvsToRollback
<1> QED BY <1>3, <1>4, <1>5 DEF OvsSetRoute

LEMMA OvsAddPortGood ==
  ASSUME OvsStarts, OvsAddPort
  PROVE  OvsGood'
<1> USE DEF OvsStarts, OvsGood
<1>1. dom.pc = "addport" /\ host.addr # {}
  BY DEF OvsAddPort, OvsHost
<1>2. /\ host \in Hosts /\ Name \in Bridges /\ Ports \cap Bridges = {} /\ NoIface \notin Bridges
      /\ host.alias \subseteq Ports /\ dom.main # Name
      /\ host.in \in [Ports -> Bridges \cup {NoIface}]
  BY <1>1, OvsBusy, Constants0 DEF OvsCreation, OvsCreating
\* The bridge has the address and its port is still to come.
<1>3. (Name \in host.addr /\ ~Lent(Name)) =>
        dom.cur = dom.main /\ dom.main \in host.alias /\ dom.main \notin dom.todo
  BY <1>1 DEF OvsCreating, OvsCreation
<1>4. CASE CanAddPort(dom.cur) /\ Proceed(AddedPort(host, dom.cur, Name), "ports")
  <2> DEFINE h == AddedPort(host, dom.cur, Name)
  <2>1. dom.cur \in Ports /\ host.in[dom.cur] = NoIface
    BY <1>4 DEF CanAddPort
  <2>2. /\ h.addr = host.addr /\ h.route = host.route /\ h.alias = host.alias
        /\ h.in = [host.in EXCEPT ![dom.cur] = Name]
    BY <1>2 DEF AddedPort, Hosts
  <2>3. h.in[dom.cur] = Name /\ \A p \in Ports : p # dom.cur => h.in[p] = host.in[p]
    BY <1>2, <2>1, <2>2
  <2> HIDE DEF h
  <2>4. host' = h /\ dom'.pc = "ports" /\ dom'.main = dom.main /\ dom'.todo = dom.todo
        /\ Name' = Name /\ fails' = fails
    BY <1>4, ProceedIs DEF h
  <2>5. ASSUME NEW b \in Bridges, Lent(b) PROVE Lent(b)'
    <3>1. PICK p \in host.alias : host.in[p] = b
      BY <2>5 DEF Lent
    <3>2. p \in Ports /\ p # dom.cur
      BY <1>2, <2>1, <3>1
    <3> QED BY <2>2, <2>3, <2>4, <3>1, <3>2 DEF Lent
  <2>6. Name \in host.addr => Lent(Name)'
    <3>1. CASE Lent(Name)
      BY <1>2, <2>4, <2>5, <3>1
    <3>2. CASE Name \in host.addr /\ ~Lent(Name)
      BY <1>3, <2>2, <2>3, <2>4, <3>2 DEF Lent
    <3> QED BY <3>1, <3>2
  <2>7. OvsHost'
    <3>1. ASSUME NEW b \in host.addr \cap Bridges PROVE Lent(b)'
      <4>1. Lent(b) \/ b = Name
        BY DEF OvsHost
      <4> QED BY <2>4, <2>5, <2>6, <4>1
    <3>2. host'.addr = host.addr /\ host'.route = host.route
      BY <2>2, <2>4
    <3> QED BY <1>1, <3>1, <3>2 DEF OvsHost
  <2>8. OvsCreating'
    BY <1>1, <2>2, <2>4 DEF OvsCreating, OvsCreation, Unmoved
  <2>9. OvsDeleting'
    BY <2>4 DEF OvsDeleting, OvsDeletion
  <2>10. OvsUnfailed'
    <3>1. SUFFICES ASSUME fails = 0
                   PROVE  /\ Single'
                          /\ host.addr \subseteq {dom.main, Name}
                          /\ dom.main \in Ports => h.in[dom.main] \in {NoIface, Name}
      BY <2>2, <2>4 DEF OvsUnfailed, OvsCreation
    <3>2. Single /\ host.addr \subseteq {dom.main, Name}
          /\ (dom.main \in Ports => host.in[dom.main] \in {NoIface, Name})
      BY <1>1, <3>1 DEF OvsUnfailed, OvsCreation
    <3>3. PICK a \in host.addr : host.addr = {a} /\ (a \in Ports => host.in[a] = NoIface)
      BY <3>2 DEF Single
    <3>4. a \in Ports => a # dom.cur
      BY <1>1, <1>2, <3>2, <3>3 DEF OvsCreating, OvsCreation
    <3>5. Single'
      BY <2>2, <2>3, <2>4, <3>3, <3>4 DEF Single
    <3>6. dom.main \in Ports => h.in[dom.main] \in {NoIface, Name}
      BY <2>3, <3>2
    <3> QED BY <3>2, <3>5, <3>6
  <2> QED BY <2>7, <2>8, <2>9, <2>10
<1>5. CASE ~CanAddPort(dom.cur) /\ ToRollback /\ UNCHANGED fails
  <2>1. CASE fails = 0
    <3>1. Single /\ (host.addr = {Name} /\ ~Lent(Name) => host.in[dom.main] = NoIface)
      BY <1>1, <2>1 DEF OvsUnfailed
    <3>2. Name \in host.addr => Lent(Name)
      <4>1. SUFFICES ASSUME Name \in host.addr, ~Lent(Name) PROVE FALSE
        OBVIOUS
      <4>2. host.addr = {Name} /\ dom.cur = dom.main /\ dom.main \in Ports
        BY <1>2, <1>3, <3>1, <4>1 DEF Single
      <4> QED BY <1>5, <3>1, <4>1, <4>2 DEF CanAddPort
    <3>3. \A b \in host.addr \cap Bridges : Lent(b)
      BY <3>2 DEF OvsHost
    <3> QED BY <1>1, <1>5, <2>1, <3>1, <3>3, OvsToRollback
  <2>2. CASE fails = 1
    BY <1>1, <1>5, <2>2, OvsToRollback
  <2> QED BY <2>1, <2>2
<1>6. CASE Failing /\ ToRollback
  BY <1>1, <1>6, OvsFails, OvsToRollback
<1> QED BY <1>4, <1>5, <1>6 DEF OvsAddPort

LEMMA OvsRollbackGood ==
  ASSUME OvsStarts, OvsRollback
  PROVE  OvsGood'
<1> USE DEF OvsStarts, OvsGood
<1>1. dom.pc = "rollback" /\ dom'.pc = "idle"
  BY DEF OvsRollback, Answered, IdleDriver
<1>2. /\ host \in Hosts /\ Name \in Bridges /\ Name \in Ifaces
      /\ Ports \cap Bridges = {} /\ NoIface \notin Ifaces
      /\ host.alias \subseteq Ports /\ dom.main # Name /\ dom.main \in Ifaces /\ dom.main \in Present(host)
      /\ host.addr \subseteq Ports \cup host.bridges
      /\ host.in \in [Ports -> Bridges \cup {NoIface}]
  BY <1>1, OvsBusy DEF OvsCreation, OvsCreating
<1>3. fails = 0 => /\ Single /\ host.addr \subseteq {dom.main, Name}
                   /\ dom.main \in Ports => host.in[dom.main] \in {NoIface, Name}
                   /\ \A b \in host.addr \cap Bridges : Lent(b)
  BY <1>1 DEF OvsUnfailed, OvsCreation
<1>4. \A b \in host.addr \cap Bridges : b # Name => Lent(b)
  BY DEF OvsHost
<1>5. CASE Name \in host.bridges /\ host' = Recovered(Removed(host, Name)) /\ UNCHANGED fails
  <2> DEFINE r == Removed(host, Name)
  <2>1. /\ r \in Hosts /\ r.addr = host.addr \ {Name} /\ r.alias = host.alias
        /\ r.route \in {host.route, NoIface} \ {Name}
        /\ r.bridges = host.bridges \ {Name}
        /\ \A p \in Ports : host.in[p] # Name => r.in[p] = host.in[p]
        /\ \A p \in Ports : host.in[p] = Name => r.in[p] = NoIface
    BY ONLY <1>2, RemovedIs
  <2>2. dom.main \in Present(r)
    BY <1>2, <2>1 DEF Present
  <2> HIDE DEF r
  <2>3. /\ host'.addr = r.addr \cup {dom.main} /\ host'.in = r.in /\ host'.alias = r.alias
        /\ host'.route \in host'.addr \cup {NoIface}
    <3>1. r.route \in r.addr \cup {NoIface}
      BY <2>1 DEF OvsHost
    <3>2. CASE dom.main \in r.addr
      <4>1. host' = r
        BY <1>5, <3>2 DEF Recovered, r
      <4> QED BY <3>1, <3>2, <4>1
    <3>3. CASE dom.main \notin r.addr
      <4>1. host' = Dhclient(r, dom.main)
        BY <1>5, <2>2, <3>3 DEF Recovered, r
      <4> QED BY <1>2, <2>1, <3>1, <4>1, DhclientIs
    <3> QED BY <3>2, <3>3
  <2>4. \A b \in host'.addr \cap Bridges : \E p \in host'.alias : host'.in[p] = b
    <3> SUFFICES ASSUME NEW b \in host'.addr \cap Bridges PROVE \E p \in host'.alias : host'.in[p] = b
      OBVIOUS
    <3>1. b # Name /\ b \in host.addr
      BY <1>1, <1>2, <2>1, <2>3 DEF OvsCreating, OvsCreation
    <3>2. PICK p \in host.alias : host.in[p] = b
      BY <1>4, <3>1 DEF Lent
    <3> QED BY <1>2, <2>1, <2>3, <3>1, <3>2
  <2>5. fails' = 0 => \E a \in host'.addr : host'.addr = {a} /\ (a \in Ports => host'.in[a] = NoIface)
    <3>1. SUFFICES ASSUME fails = 0
                   PROVE  host'.addr = {dom.main} /\ (dom.main \in Ports => host'.in[dom.main] = NoIface)
      BY <1>5
    <3> QED BY <1>3, <2>1, <2>3, <3>1
  <2> QED BY <1>1, <2>3, <2>4, <2>5, OvsEnds
<1>6. CASE Name \notin host.bridges /\ UNCHANGED <<host, fails>>
  <2>1. Name \notin host.addr /\ host.addr # {}
    BY <1>1, <1>2, <1>6 DEF OvsHost
  <2> QED BY <1>1, <1>3, <1>4, <1>6, <2>1, OvsEnds DEF OvsHost, Lent, Single
<1>7. CASE Failing /\ UNCHANGED host
  <2>1. fails = 0 /\ fails' = 1 /\ host' = host
    BY <1>7, OvsFails
  <2>2. host.addr # {}
    BY <2>1, <1>3 DEF Single
  <2> QED BY <1>1, <1>3, <2>1, <2>2, OvsEnds DEF OvsHost, Lent
<1> QED BY <1>5, <1>6, <1>7 DEF OvsRollback

LEMMA OvsListGood ==
  ASSUME OvsStarts, OvsList
  PROVE  OvsGood'
<1> USE DEF OvsStarts, OvsGood
<1>1. dom.pc = "list" /\ host.addr # {}
  BY DEF OvsList, OvsHost
<1>2. fails = 0 => Single
  BY <1>1 DEF OvsUnfailed
<1>3. \A b \in host.addr \cap Bridges : Lent(b)
  BY <1>1 DEF OvsHost, Borrowing
<1>4. CASE Raised /\ (UNCHANGED fails \/ Failing)
  BY <1>1, <1>2, <1>4, OvsFails, OvsRaises
<1>5. CASE /\ Name \in host.bridges
           /\ IF Lenders = {} THEN dom' = [dom EXCEPT !.pc = "delbr"]
              ELSE \E p \in Lenders : dom' = [dom EXCEPT !.pc = "restore", !.cur = p]
           /\ UNCHANGED <<hostVars, domQ, reply, history>>
  <2>1. /\ host' = host /\ fails' = fails /\ Name' = Name /\ dom'.main = dom.main
        /\ \/ dom'.pc = "delbr" /\ Lenders = {}
           \/ dom'.pc = "restore" /\ dom'.cur \in Lenders
    BY <1>5 DEF HostFine, HostTypeOK, Drivers, Name, Request, hostVars, history
  <2>2. Lenders = {} => Name \notin host.addr
    <3>1. Name \in Bridges
      BY <1>1, <1>5, OvsBusy
    <3> QED BY <1>3, <3>1 DEF Lenders, Lent
  <2>3. OvsHost'
    BY <1>1, <1>3, <2>1 DEF OvsHost, Lent
  <2>4. OvsCreating'
    BY <2>1 DEF OvsCreating, OvsCreation
  <2>5. OvsDeleting'
    BY <1>1, <1>5, <2>1, <2>2 DEF OvsDeleting, OvsDeletion, Lenders
  <2>6. OvsUnfailed'
    BY <1>2, <2>1 DEF OvsUnfailed, OvsCreation, Single
  <2> QED BY <2>3, <2>4, <2>5, <2>6
<1> QED BY <1>4, <1>5 DEF OvsList

LEMMA OvsRestoreGood ==
  ASSUME OvsStarts, OvsRestore
  PROVE  OvsGood'
<1> USE DEF OvsStarts, OvsGood
<1>1. dom.pc = "restore" /\ host.addr # {}
  BY DEF OvsRestore, OvsHost
<1>2. fails = 0 => Single
  BY <1>1 DEF OvsUnfailed
<1>3. \A b \in host.addr \cap Bridges : Lent(b)
  BY <1>1 DEF OvsHost, Borrowing
<1>4. /\ host \in Hosts /\ dom.main \in Ifaces /\ NoIface \notin Ifaces /\ Name \in Bridges
      /\ Ports \cap Bridges = {} /\ dom.cur \in Ports /\ dom.cur \in Ifaces
      /\ host.route = dom.main /\ dom.main \in host.addr /\ host.in[dom.cur] = Name /\ Name \in host.bridges
  <2>1. Name \in host.bridges /\ host.route = dom.main /\ host.in[dom.cur] = Name
    BY <1>1 DEF OvsDeleting, OvsDeletion
  <2> QED BY <1>1, <2>1, OvsBusy, Constants0 DEF OnHost, OvsHost
<1>5. CASE Failing /\ Raised
  BY <1>1, <1>2, <1>5, OvsFails, OvsRaises
<1> DEFINE h == IF Name \in host.addr THEN WithAddress(host, dom.cur) ELSE Dhclient(host, dom.main)
<1>6. CASE Proceed(h, "unflush")
  <2>1. /\ h.route = host.route /\ h.in = host.in /\ h.alias = host.alias /\ h.bridges = host.bridges
        /\ Name \in host.addr => h.addr = host.addr \cup {dom.cur}
        /\ Name \notin host.addr => h.addr = host.addr
    <3>1. CASE Name \in host.addr
      BY <1>4, <3>1, AddressIs
    <3>2. CASE Name \notin host.addr
      <4>1. h = Dhclient(host, dom.main)
        BY <3>2
      <4> HIDE DEF h
      <4>2. host.addr \cup {dom.main} = host.addr /\ host.route # NoIface
        BY <1>4
      <4>3. /\ h.addr = host.addr \cup {dom.main} /\ h.route = host.route
            /\ h.bridges = host.bridges /\ h.in = host.in /\ h.alias = host.alias
        BY ONLY <1>4, <4>1, <4>2, DhclientIs
      <4> QED BY <3>2, <4>2, <4>3
    <3> QED BY <3>1, <3>2
  <2> HIDE DEF h
  <2>2. host' = h /\ dom'.pc = "unflush" /\ dom'.main = dom.main /\ Name' = Name /\ fails' = fails
    BY <1>6, ProceedIs
  <2>3. h.addr \cap Bridges = host.addr \cap Bridges /\ h.addr # {} /\ h.addr # {Name}
    BY <1>1, <1>4, <2>1
  <2>4. OvsHost'
    BY <1>3, <1>4, <2>1, <2>2, <2>3 DEF OvsHost, Lent
  <2>5. OvsCreating'
    BY <2>2 DEF OvsCreating, OvsCreation
  <2>6. OvsDeleting'
    BY <1>4, <2>1, <2>2, <2>3 DEF OvsDeleting, OvsDeletion
  <2>7. OvsUnfailed'
    <3>1. SUFFICES ASSUME fails = 0
                   PROVE  /\ \A m, n \in h.addr \ {Name} : m = n
                          /\ \A p \in h.addr \cap Ports : h.in[p] \in {NoIface, Name}
                          /\ h.route \in {Name, NoIface} \/ Single'
      BY <2>2 DEF OvsUnfailed, OvsCreation
    <3>2. PICK a \in host.addr : host.addr = {a} /\ (a \in Ports => host.in[a] = NoIface)
      BY <1>2, <3>1 DEF Single
    <3>3. CASE Name \in host.addr
      BY <1>4, <2>1, <3>2, <3>3
    <3>4. CASE Name \notin host.addr
      BY <2>1, <2>2, <3>2, <3>4 DEF Single
    <3> QED BY <3>3, <3>4
  <2> QED BY <2>4, <2>5, <2>6, <2>7
<1> QED BY <1>5, <1>6 DEF OvsRestore

LEMMA OvsUnflushGood ==
  ASSUME OvsStarts, OvsUnflush
  PROVE  OvsGood'
<1> USE DEF OvsStarts, OvsGood
<1>1. dom.pc = "unflush" /\ host.addr # {}
  BY DEF OvsUnflush, OvsHost
<1>2. \A b \in host.addr \cap Bridges : Lent(b)
  BY <1>1 DEF OvsHost, Borrowing
<1>3. /\ host \in Hosts /\ NoIface \notin Ifaces /\ Name \in Ifaces
      /\ Name \in host.bridges /\ host.addr # {Name}
  BY <1>1, OvsBusy DEF OvsDeleting, OvsDeletion
<1>4. CASE Failing /\ Raised
  BY <1>1, <1>4, OvsFails, OvsRaises
<1>5. CASE Proceed(Flushed(host, Name), "unroute")
  <2> DEFINE h == Flushed(host, Name)
  <2>1. /\ h.addr = host.addr \ {Name} /\ h.in = host.in /\ h.alias = host.alias /\ h.bridges = host.bridges
        /\ host.route = Name => h.route = NoIface
        /\ host.route # Name => h.route = host.route
    BY <1>3, FlushedIs
  <2> HIDE DEF h
  <2>2. host' = h /\ dom'.pc = "unroute" /\ dom'.main = dom.main /\ Name' = Name /\ fails' = fails
    BY <1>5, ProceedIs DEF h
  <2>3. OvsHost'
    BY <1>1, <1>2, <1>3, <2>1, <2>2 DEF OvsHost, Lent
  <2>4. OvsCreating'
    BY <2>2 DEF OvsCreating, OvsCreation
  <2>5. OvsDeleting'
    BY <1>3, <2>1, <2>2 DEF OvsDeleting, OvsDeletion
  <2>6. OvsUnfailed'
    <3>1. SUFFICES ASSUME fails = 0
                   PROVE  /\ \A m, n \in h.addr : m = n
                          /\ \A p \in h.addr \cap Ports : h.in[p] \in {NoIface, Name}
                          /\ h.route \in {Name, NoIface} \/ Single'
      BY <2>1, <2>2 DEF OvsUnfailed, OvsCreation
    <3>2. /\ \A m, n \in host.addr \ {Name} : m = n
          /\ \A p \in host.addr \cap Ports : host.in[p] \in {NoIface, Name}
          /\ host.route \in {Name, NoIface} \/ Single
      BY <1>1, <3>1 DEF OvsUnfailed
    <3>3. Single => Single' 
      BY <1>3, <2>1, <2>2 DEF Single
    <3> QED BY <2>1, <3>2, <3>3
  <2> QED BY <2>3, <2>4, <2>5, <2>6
<1> QED BY <1>4, <1>5 DEF OvsUnflush

LEMMA OvsUnrouteGood ==
  ASSUME OvsStarts, OvsUnroute
  PROVE  OvsGood'
<1> USE DEF OvsStarts, OvsGood
<1>1. dom.pc = "unroute" /\ host.addr # {}
  BY DEF OvsUnroute, OvsHost
<1>2. \A b \in host.addr \cap Bridges : Lent(b)
  BY <1>1 DEF OvsHost, Borrowing
<1>3. host \in Hosts /\ Name \in host.bridges /\ Name \notin host.addr /\ NoIface \notin Ifaces
  BY <1>1, OvsBusy DEF OvsDeleting, OvsDeletion
<1>4. CASE Raised /\ ((~CanRoute(host) /\ UNCHANGED fails) \/ Failing)
  <2>1. CASE Failing
    BY <1>1, <1>4, <2>1, OvsFails, OvsRaises
  <2>2. CASE ~CanRoute(host) /\ UNCHANGED fails
    <3>1. host.route \in host.addr
      BY <1>1, <2>2 DEF CanRoute, OvsHost
    <3>2. fails = 0 => Single
      BY <1>1, <1>3, <2>2, <3>1 DEF OvsUnfailed, CanRoute
    <3> QED BY <1>1, <1>4, <2>2, <3>2, OvsRaises
  <2> QED BY <1>4, <2>1, <2>2
<1>5. ASSUME NEW n \in host.addr, Proceed([host EXCEPT !.route = n], "delbr")
      PROVE  OvsGood'
  <2> DEFINE h == [host EXCEPT !.route = n]
  <2>1. /\ h.addr = host.addr /\ h.in = host.in /\ h.alias = host.alias /\ h.bridges = host.bridges
        /\ h.route = n
    BY <1>3 DEF Hosts
  <2> HIDE DEF h
  <2>2. host' = h /\ dom'.pc = "delbr" /\ dom'.main = dom.main /\ Name' = Name /\ fails' = fails
    BY <1>5, ProceedIs DEF h
  <2>3. OvsHost'
    BY <1>1, <1>2, <1>5, <2>1, <2>2 DEF OvsHost, Lent
  <2>4. OvsCreating'
    BY <2>2 DEF OvsCreating, OvsCreation
  <2>5. OvsDeleting'
    BY <1>3, <2>1, <2>2 DEF OvsDeleting, OvsDeletion
  <2>6. OvsUnfailed'
    BY <1>1, <2>1, <2>2 DEF OvsUnfailed, OvsCreation
  <2> QED BY <2>3, <2>4, <2>5, <2>6
<1> QED BY <1>4, <1>5 DEF OvsUnroute

LEMMA OvsDelBrGood ==
  ASSUME OvsStarts, OvsDelBr
  PROVE  OvsGood'
<1> USE DEF OvsStarts, OvsGood
<1>1. dom.pc = "delbr" /\ host.addr # {}
  BY DEF OvsDelBr, OvsHost
<1>2. \A b \in host.addr \cap Bridges : Lent(b)
  BY <1>1 DEF OvsHost, Borrowing
<1>3. /\ host \in Hosts /\ Name \notin host.addr /\ Name \in Ifaces /\ host.alias \subseteq Ports
      /\ NoIface \notin Ifaces
  BY <1>1, OvsBusy DEF OvsDeleting, OvsDeletion
<1>4. CASE Failing /\ Raised
  BY <1>1, <1>4, OvsFails, OvsRaises
<1>5. CASE host' = Removed(host, Name) /\ Answered("ok") /\ UNCHANGED history
  <2>1. dom'.pc = "idle" /\ fails' = fails
    BY <1>5 DEF Answered, IdleDriver, history
  <2>2. /\ host'.addr = host.addr /\ host'.alias = host.alias /\ host'.route \in {host.route, NoIface}
        /\ \A p \in Ports : host.in[p] # Name => host'.in[p] = host.in[p]
        /\ \A p \in Ports : host.in[p] \in {Name, NoIface} => host'.in[p] = NoIface
    <3>1. host'.addr = host.addr \ {Name}
      BY <1>3, <1>5, RemovedIs
    <3>2. \A p \in Ports : host'.in[p] = IF host.in[p] = Name THEN NoIface ELSE host.in[p]
      BY <1>3, <1>5, RemovedIs
    <3> QED BY <1>3, <1>5, <3>1, <3>2, RemovedIs
  <2>3. \A b \in host'.addr \cap Bridges : \E p \in host'.alias : host'.in[p] = b
    <3> SUFFICES ASSUME NEW b \in host.addr \cap Bridges PROVE \E p \in host.alias : host'.in[p] = b
      BY <2>2
    <3>1. PICK p \in host.alias : host.in[p] = b
      BY <1>2 DEF Lent
    <3> QED BY <1>3, <2>2, <3>1
  <2>4. fails = 0 => \E a \in host.addr : host.addr = {a} /\ (a \in Ports => host'.in[a] = NoIface)
    <3>1. SUFFICES ASSUME fails = 0
                   PROVE  \E a \in host.addr : host.addr = {a} /\ (a \in Ports => host'.in[a] = NoIface)
      OBVIOUS
    <3>2. /\ \A m, n \in host.addr \ {Name} : m = n
          /\ \A p \in host.addr \cap Ports : host.in[p] \in {NoIface, Name}
      BY <1>1, <3>1 DEF OvsUnfailed
    <3>3. PICK a \in host.addr : TRUE
      BY <1>1
    <3>4. host.addr = {a}
      BY <1>3, <3>2
    <3> QED BY <2>2, <3>2, <3>4
  <2> QED BY <1>1, <2>1, <2>2, <2>3, <2>4, OvsEnds DEF OvsHost
<1> QED BY <1>4, <1>5 DEF OvsDelBr

\* The host of Open vSwitch through every step of the driver.
LEMMA OvsStep ==
  ASSUME HostFine, OnHost, OvsInv, DriverStep
  PROVE  OvsInv'
<1> SUFFICES ASSUME OvsCalm' PROVE OvsGood'
  BY DEF OvsInv, OvsGood
<1>1. OvsCalm /\ OvsGood
  BY OvsCalmBefore DEF OvsInv, OvsGood
<1>2. OvsStarts
  BY <1>1 DEF OvsStarts, OvsCalm, HostFine, HostTypeOK
<1>3. CASE NpFiles \/ NpBridgeFile \/ NpUnfile \/ NpApply
  BY <1>1, <1>3 DEF NpFiles, NpBridgeFile, NpUnfile, NpApply, HostFine, InHand, OvsCalm,
                  OvsCreation, OvsDeletion
<1>4. CASE TakeRequest \/ SwitchIface
  BY <1>1, <1>4, OvsTake, OvsSwitch
<1>5. CASE OvsAdd \/ OvsUp \/ OvsPorts \/ OvsFlush \/ OvsSetIp \/ OvsSetRoute \/ OvsAddPort \/ OvsRollback
  BY <1>2, <1>5, OvsAddGood, OvsUpGood, OvsPortsGood, OvsFlushGood, OvsSetIpGood, OvsSetRouteGood,
     OvsAddPortGood, OvsRollbackGood
<1>6. CASE OvsList \/ OvsRestore \/ OvsUnflush \/ OvsUnroute \/ OvsDelBr
  BY <1>2, <1>6, OvsListGood, OvsRestoreGood, OvsUnflushGood, OvsUnrouteGood, OvsDelBrGood
<1> QED BY <1>3, <1>4, <1>5, <1>6 DEF DriverStep

-----------------------------------------------------------------------------
(* Netplan: the host keeps an address, and the files what they said *)

LEMMA NpCalmBefore ==
  ASSUME HostFine, DriverStep \/ DomainCrash, NpCalm'
  PROVE  NpCalm /\ (TakeRequest \/ SwitchIface \/ NpFiles \/ NpBridgeFile \/ NpUnfile \/ NpApply)
<1>1. manager \in {"ovs", "netplan"} /\ crashes \in Nat
  BY NetworkAssumption DEF HostFine, HostTypeOK
<1>2. CASE DomainCrash
  BY <1>1, <1>2 DEF DomainCrash, NpCalm
<1>3. CASE \/ OvsAdd \/ OvsUp \/ OvsPorts \/ OvsFlush \/ OvsSetIp \/ OvsSetRoute \/ OvsAddPort \/ OvsRollback
           \/ OvsList \/ OvsRestore \/ OvsUnflush \/ OvsUnroute \/ OvsDelBr
  <2>1. dom.pc \in OvsCreation \cup OvsDeletion /\ dom.pc # "idle"
    BY <1>3 DEF OvsAdd, OvsUp, OvsPorts, OvsFlush, OvsSetIp, OvsSetRoute, OvsAddPort, OvsRollback,
                OvsList, OvsRestore, OvsUnflush, OvsUnroute, OvsDelBr, OvsCreation, OvsDeletion
  <2>2. manager = "ovs"
    BY <2>1 DEF HostFine, InHand
  <2>3. ASSUME NEW h, NEW pc, Proceed(h, pc) PROVE manager' = manager
    BY <2>3 DEF Proceed
  <2>4. ASSUME Raised \/ ToRollback PROVE manager' = manager
    BY <2>4 DEF Raised, ToRollback, hostVars
  <2>5. manager' = manager
    <3>1. CASE OvsAdd \/ OvsUp \/ OvsPorts \/ OvsFlush
      BY <2>3, <2>4, <3>1 DEF OvsAdd, OvsUp, OvsPorts, OvsFlush, hostVars
    <3>2. CASE OvsSetIp \/ OvsSetRoute \/ OvsAddPort \/ OvsRollback
      BY <2>3, <2>4, <3>2 DEF OvsSetIp, OvsSetRoute, OvsAddPort, OvsRollback
    <3>3. CASE OvsList \/ OvsRestore \/ OvsUnflush
      BY <2>3, <2>4, <3>3 DEF OvsList, OvsRestore, OvsUnflush, hostVars
    <3>4. CASE OvsUnroute \/ OvsDelBr
      BY <2>3, <2>4, <3>4 DEF OvsUnroute, OvsDelBr
    <3> QED BY <1>3, <3>1, <3>2, <3>3, <3>4
  <2> QED BY <2>2, <2>5 DEF NpCalm
<1>4. CASE TakeRequest
  BY <1>4 DEF TakeRequest, NpCalm, hostVars
<1>5. CASE SwitchIface \/ NpFiles \/ NpBridgeFile
  <2>1. UNCHANGED <<manager, history>>
    BY <1>5 DEF SwitchIface, NpFiles, NpBridgeFile
  <2> QED BY <1>5, <2>1 DEF NpCalm, history
<1>6. CASE NpUnfile
  BY <1>6 DEF NpUnfile, Raised, NpCalm, hostVars, history
<1>7. CASE NpApply
  BY <1>7 DEF NpApply, Raised, NpCalm, hostVars, history
<1> QED BY <1>2, <1>3, <1>4, <1>5, <1>6, <1>7 DEF DriverStep

\* What the files said has been applied.
LEMMA AppliedIs ==
  ASSUME HostTypeOK, NpCalm, ~Unapplied
  PROVE  host.bridges = {b \in Bridges : conf[b].there} /\ host.addr = Addressed
<1>1. host.route \in Ifaces \cup {NoIface} /\ Configured(host.route) = host
  BY DEF HostTypeOK, Hosts, NpCalm, Unapplied
<1> QED BY <1>1, ConfiguredType

\* The files say the same of a host that only lost its default route.
LEMMA StillUnapplied ==
  ASSUME HostTypeOK, HostTypeOK', manager' = manager, conf' = conf, host'.bridges = host.bridges,
         host'.in = host.in, host'.addr = host.addr, host'.alias = host.alias, ~Unapplied'
  PROVE  ~Unapplied
<1> DEFINE into == [p \in Ports |-> IF \E b \in Bridges : p \in conf[b].ports
                                    THEN CHOOSE b \in Bridges : p \in conf[b].ports ELSE NoIface]
           made == {b \in Bridges : conf[b].there}
<1>1. Configured(host.route)
        = [host EXCEPT !.bridges = made, !.in = into, !.addr = Addressed, !.route = host.route]
  BY DEF Configured
<1>2. Addressed' = Addressed
  BY DEF Addressed
<1>3. Configured(host.route)'
        = [host' EXCEPT !.bridges = made, !.in = into, !.addr = Addressed, !.route = host'.route]
  BY <1>2 DEF Configured
<1>4. host \in Hosts /\ host' \in Hosts
  BY DEF HostTypeOK
<1> HIDE DEF into, made
<1>5. CASE manager = "netplan"
  <2>1. Configured(host.route)' = host'
    BY <1>5 DEF Unapplied
  <2>2. host'.bridges = made /\ host'.in = into /\ host'.addr = Addressed
    BY <1>3, <1>4, <2>1 DEF Hosts
  <2>3. Configured(host.route) = host
    <3>1. host.bridges = made /\ host.in = into /\ host.addr = Addressed
      BY <2>2
    <3>2. [host EXCEPT !.bridges = made] = host /\ [host EXCEPT !.in = into] = host
          /\ [host EXCEPT !.addr = Addressed] = host /\ [host EXCEPT !.route = host.route] = host
      BY <1>4, <3>1 DEF Hosts
    <3> QED BY <1>1, <3>2
  <2> QED BY <2>3 DEF Unapplied
<1>6. CASE manager # "netplan"
  BY <1>6 DEF Unapplied
<1> QED BY <1>5, <1>6

\* A step that leaves the files and the addresses of the host alone.
NpGood ==
  /\ NpHost /\ NpRequest /\ NpHandsOver
  /\ dom.pc # "idle" => SoundFiles
  /\ Settled => SoundFiles
  /\ Settled \/ dom.pc \in {"files", "unfile", "apply"} => AtHome

NpStarts == HostFine /\ HostFine' /\ OnHost /\ NpCalm /\ NpCalm' /\ NpGood

LEMMA SameFiles ==
  ASSUME conf' = conf, bkp' = bkp
  PROVE  (SoundFiles <=> SoundFiles') /\ (AtHome <=> AtHome')
BY DEF SoundFiles, FilesOf, Valid, PlainPort, Placed, AtHome

\* The request ends and leaves everything as it is.
LEMMA NpEnds ==
  ASSUME NpStarts, dom'.pc = "idle", conf' = conf, bkp' = bkp, host'.bridges = host.bridges,
         host'.in = host.in, host'.addr = host.addr, host'.alias = host.alias,
         host'.route \in {host.route, NoIface}, dom.pc \in {"idle", "unfile", "apply"}
  PROVE  NpGood'
<1> USE DEF NpStarts, NpGood
<1>1. NpHost'
  BY DEF NpHost
<1>2. NpRequest' /\ NpHandsOver'
  BY DEF NpRequest, NpHandsOver
<1>3. Settled' => SoundFiles' /\ AtHome'
  <2>1. CASE dom.pc = "idle"
    <3>1. ~Unapplied' => ~Unapplied
      BY StillUnapplied DEF HostFine, NpCalm
    <3> QED BY <2>1, <3>1, SameFiles DEF Settled
  <2>2. CASE dom.pc \in {"unfile", "apply"}
    BY <2>2, SameFiles
  <2> QED BY <2>1, <2>2
<1> QED BY <1>1, <1>2, <1>3

LEMMA NpTakeGood ==
  ASSUME NpStarts, TakeRequest
  PROVE  NpGood'
<1> USE DEF NpStarts, NpGood
<1>1. dom.pc = "idle" /\ host' = host /\ conf' = conf /\ bkp' = bkp /\ manager' = manager
  BY DEF TakeRequest, hostVars
<1>2. ~Unapplied
  BY DEF TakeRequest, NpCalm
<1>3. CASE ~HasRoute
  <2>1. dom'.pc = "idle"
    BY <1>3 DEF TakeRequest, Answered, IdleDriver
  <2> QED BY <1>1, <2>1, NpEnds
<1>4. CASE HasRoute
  <2>1. /\ dom'.pc = (IF Request.op = "create" THEN "files" ELSE "unfile") /\ dom'.main = host.route
        /\ dom'.todo = Request.ifaces /\ domQ' = domQ /\ Name' = Name
    BY <1>4 DEF TakeRequest, NpCalm, IdleDriver, Name, Request
  <2>2. dom'.pc \in {"files", "unfile"} /\ (dom'.pc = "files" => Request.op = "create")
    BY <2>1
  <2>3. SoundFiles /\ AtHome
    BY <1>1, <1>2 DEF Settled
  <2>4. Unapplied' = Unapplied
    BY <1>1 DEF Unapplied, Configured, Addressed
  <2>5. dom'.pc = "files" => Name \notin host.bridges /\ ~Taken(dom'.todo)
    BY <2>1, <2>2 DEF TakeRequest, NpCalm
  <2>6. NpHost'
    BY <1>1 DEF NpHost
  <2>7. NpRequest'
    BY <1>1, <1>2, <2>1, <2>2, <2>4, <2>5 DEF NpRequest, Taken
  <2>8. NpHandsOver'
    BY <2>2 DEF NpHandsOver
  <2> QED BY <1>1, <2>2, <2>3, <2>6, <2>7, <2>8, SameFiles DEF Settled
<1> QED BY <1>3, <1>4

LEMMA NpSwitchGood ==
  ASSUME NpStarts, SwitchIface
  PROVE  NpGood'
<1>1. dom.pc = "idle" /\ dom'.pc = "idle" /\ conf' = conf /\ bkp' = bkp
  BY DEF SwitchIface, Answered, IdleDriver
<1>2. /\ host'.addr = host.addr /\ host'.in = host.in /\ host'.alias = host.alias
      /\ host'.bridges = host.bridges /\ host'.route \in {host.route, NoIface}
  BY DEF SwitchIface, Switched, NpStarts, HostFine, HostTypeOK, Hosts
<1> QED BY <1>1, <1>2, NpEnds

\* The main port of a request is the one the files tell.
LEMMA MainTold ==
  ASSUME NpStarts, dom.pc = "files"
  PROVE  /\ dom.main \in Ifaces /\ dom.main \in host.addr
         /\ ~Placed => dom.main = Main
         /\ Placed => dom.main \in Bridges /\ conf[dom.main].there
<1> USE DEF NpStarts, NpGood
<1>1. ~Unapplied /\ dom.main = host.route /\ SoundFiles /\ AtHome
  BY DEF NpRequest
<1>2. host.addr = Addressed /\ host.bridges = {b \in Bridges : conf[b].there}
  BY <1>1, AppliedIs DEF HostFine
<1>3. dom.main \in Ports \cup host.bridges /\ host.bridges \subseteq Bridges
  BY DEF OnHost, Present, HostFine, HostTypeOK, Hosts
<1>4. dom.main \in Ifaces /\ dom.main # NoIface
  BY <1>3, Constants0
<1>5. dom.main \in host.addr /\ (dom.main \in Ports => dom.main = Main)
  BY <1>1, <1>4 DEF NpHost
<1>6. ASSUME Placed PROVE dom.main \in Bridges /\ conf[dom.main].there
  <2>1. conf[Main].there /\ ~conf[Main].addr
    BY <1>1, <1>6 DEF SoundFiles, FilesOf, Placed
  <2>2. dom.main # Main
    BY <1>2, <1>5, <2>1 DEF Addressed
  <2> QED BY <1>2, <1>3, <1>5, <2>2
<1>7. ASSUME ~Placed PROVE dom.main = Main
  <2>1. \A b \in Bridges : ~conf[b].addr
    BY <1>1, <1>7 DEF SoundFiles, FilesOf, Placed
  <2>2. dom.main \notin Bridges
    BY <1>2, <1>5, <2>1, Constants0 DEF Addressed
  <2> QED BY <1>3, <1>5, <2>2
<1> QED BY <1>4, <1>5, <1>6, <1>7

\* What NpFiles makes of the files: those of the bridges and of the ports it has not
\* come to stay, the main port is backed up or named.
Rewritten(done) ==
  /\ \A b \in Bridges : conf'[b] = conf[b]
  /\ \A p \in Ports : conf[p].there => conf'[p].there
  /\ \A p \in done : conf'[p].there
  /\ \A p \in Ports \ {Main} : ~conf'[p].addr /\ ~conf'[p].main /\ ~bkp'[p].there
  /\ \A p \in Ports \ ({Main} \cup done) : conf'[p] = conf[p]
  /\ Placed => conf'[Main] = conf[Main] /\ bkp'[Main] = bkp[Main]
  /\ ~Placed => /\ conf'[Main].there
                /\ conf'[Main].addr <=> Main \notin done
                /\ bkp'[Main].there \/ conf'[Main].main
                /\ bkp'[Main].there => bkp'[Main].addr

LEMMA NpFilesRewrites ==
  ASSUME NpStarts, NpFiles
  PROVE  \E done \in SUBSET (dom.todo \cap Ports) :
           Rewritten(done) /\ (dom.todo \subseteq Ports => done = dom.todo)
<1> USE DEF NpStarts, NpGood
<1>1. dom.pc = "files" /\ conf \in [Ifaces -> Confs] /\ bkp \in [Ifaces -> Confs]
  BY DEF NpFiles, HostFine, HostTypeOK
<1>2. SoundFiles /\ AtHome /\ host.addr \cap Ports \subseteq {Main}
  BY <1>1 DEF NpHost
<1>3. /\ dom.main \in Ifaces /\ (~Placed => dom.main = Main)
      /\ Placed => dom.main \in Bridges /\ conf[dom.main].there
  BY <1>1, MainTold
<1>4. Ports \subseteq Ifaces /\ Bridges \subseteq Ifaces /\ Ports \cap Bridges = {} /\ Main \in Ports
  BY Constants0
<1> DEFINE c == [conf EXCEPT ![dom.main] = MainFile(dom.main)]
<1>5. PICK done \in SUBSET (dom.todo \cap Ports) :
         /\ dom.todo \subseteq Ports => done = dom.todo
         /\ conf' = [n \in Ifaces |-> IF n \in done THEN PortFile(c, n) ELSE c[n]]
  BY DEF NpFiles
<1>6. c[dom.main] = MainFile(dom.main) /\ \A n \in Ifaces \ {dom.main} : c[n] = conf[n]
  BY <1>1, <1>3
<1>7. c \in [Ifaces -> Confs]
  BY <1>1, <1>3, FileTypes DEF HostFine
<1> HIDE DEF c
<1>8. \A n \in Ifaces : /\ n \in done => conf'[n] = PortFile(c, n)
                        /\ n \notin done => conf'[n] = c[n]
  BY <1>5
\* The main port was there, or there is a file for it now.
<1>9. /\ conf[dom.main].there => MainFile(dom.main) = conf[dom.main]
      /\ ~conf[dom.main].there =>
           /\ MainFile(dom.main).there /\ MainFile(dom.main).addr /\ MainFile(dom.main).main
  BY DEF MainFile, NoConf
<1>10. /\ conf[dom.main].there => bkp' = [bkp EXCEPT ![dom.main] = conf[dom.main]]
       /\ ~conf[dom.main].there => bkp' = bkp
  BY DEF NpFiles, BackedUp
<1>11. \A n \in Ifaces \ {dom.main} : bkp'[n] = bkp[n]
  BY <1>1, <1>10
<1>12. \A b \in Bridges : conf'[b] = conf[b]
  <2> SUFFICES ASSUME NEW b \in Bridges PROVE conf'[b] = conf[b]
    OBVIOUS
  <2>1. conf'[b] = c[b]
    BY <1>4, <1>8
  <2>2. CASE b = dom.main
    BY <1>3, <1>4, <1>6, <1>9, <2>1, <2>2
  <2>3. CASE b # dom.main
    BY <1>4, <1>6, <2>1, <2>3
  <2> QED BY <2>2, <2>3
<1>13. ASSUME NEW p \in Ports \ {Main}
       PROVE  /\ conf[p].there => conf'[p].there
              /\ p \in done => conf'[p].there
              /\ ~conf'[p].addr /\ ~conf'[p].main /\ ~bkp'[p].there
              /\ p \notin done => conf'[p] = conf[p]
  <2>1. p \in Ifaces /\ p # dom.main
    BY <1>3, <1>4
  <2>2. c[p] = conf[p] /\ bkp'[p] = bkp[p]
    BY <1>6, <1>11, <2>1
  <2>3. ~conf[p].addr /\ ~conf[p].main /\ ~bkp[p].there /\ p \notin host.addr
    BY <1>2, <1>13 DEF SoundFiles, PlainPort
  <2>4. CASE p \in done
    <3>1. conf'[p] = PortFile(c, p)
      BY <1>8, <2>1, <2>4
    <3>2. PortFile(c, p).there /\ ~PortFile(c, p).addr /\ ~PortFile(c, p).main
      BY <1>7, <2>1, <2>2, <2>3, PortFileIs
    <3> QED BY <2>2, <2>3, <2>4, <3>1, <3>2
  <2>5. CASE p \notin done
    BY <1>8, <2>1, <2>2, <2>3, <2>5
  <2> QED BY <2>4, <2>5
<1>14. ASSUME Placed
       PROVE  conf'[Main] = conf[Main] /\ bkp'[Main] = bkp[Main] /\ conf'[Main].there
  <2>1. Main # dom.main /\ Main \in Ifaces
    BY <1>3, <1>4, <1>14
  <2>2. c[Main] = conf[Main] /\ bkp'[Main] = bkp[Main]
    BY <1>6, <1>11, <2>1
  <2>3. conf[Main].there
    BY <1>2, <1>14 DEF SoundFiles, FilesOf, Placed
  <2>4. PortFile(c, Main) = c[Main]
    BY <2>1, <2>2, <2>3 DEF PortFile
  <2> QED BY <1>8, <2>1, <2>2, <2>3, <2>4
<1>15. ASSUME ~Placed
       PROVE  /\ conf'[Main].there
              /\ conf'[Main].addr <=> Main \notin done
              /\ bkp'[Main].there \/ conf'[Main].main
              /\ bkp'[Main].there => bkp'[Main].addr
  <2>1. dom.main = Main /\ Main \in Ifaces
    BY <1>3, <1>4, <1>15
  <2>2. c[Main].there /\ c[Main].addr /\ (~conf[Main].there => c[Main].main)
    BY <1>2, <1>6, <1>9, <1>15, <2>1 DEF AtHome
  <2>3. /\ conf[Main].there => bkp'[Main] = conf[Main] /\ conf[Main].addr
        /\ ~conf[Main].there => bkp'[Main] = bkp[Main]
    BY <1>1, <1>2, <1>10, <1>15, <2>1 DEF AtHome
  <2>4. bkp'[Main].there => bkp'[Main].addr
    BY <1>2, <2>3 DEF SoundFiles
  <2>5. /\ conf'[Main].there
        /\ conf'[Main].addr <=> Main \notin done
        /\ ~conf[Main].there => conf'[Main].main
    <3>1. CASE Main \in done
      <4>1. conf'[Main] = PortFile(c, Main)
        BY <1>8, <2>1, <3>1
      <4>2. /\ PortFile(c, Main).there /\ ~PortFile(c, Main).addr
            /\ PortFile(c, Main).main <=> c[Main].there /\ c[Main].main
        BY <1>7, <2>1, PortFileIs
      <4> QED BY <2>2, <3>1, <4>1, <4>2
    <3>2. CASE Main \notin done
      BY <1>8, <2>1, <2>2, <3>2
    <3> QED BY <3>1, <3>2
  <2> QED BY <2>3, <2>4, <2>5
<1>16. Rewritten(done)
  <2>1. \A p \in Ports : conf[p].there => conf'[p].there
    BY <1>13, <1>14, <1>15
  <2>2. \A p \in done : conf'[p].there
    BY <1>13, <1>14, <1>15
  <2> QED BY <1>12, <1>13, <1>14, <1>15, <2>1, <2>2 DEF Rewritten
<1> QED BY <1>5, <1>16

LEMMA NpFilesGood ==
  ASSUME NpStarts, NpFiles
  PROVE  NpGood'
<1> USE DEF NpStarts, NpGood
<1>1. dom.pc = "files" /\ host' = host /\ manager' = manager /\ dom \in Drivers
  BY DEF NpFiles, HostFine, HostTypeOK
<1>2. SoundFiles /\ AtHome /\ ~Unapplied /\ Name \notin host.bridges /\ ~Taken(dom.todo)
  BY <1>1 DEF NpRequest
<1>3. PICK done \in SUBSET (dom.todo \cap Ports) :
        Rewritten(done) /\ (dom.todo \subseteq Ports => done = dom.todo)
  BY NpFilesRewrites
<1>4. Main \in Ports /\ Ports \cap Bridges = {} /\ Ifaces = Ports \cup Bridges
  BY Constants0
<1>5. Placed' <=> Placed
  BY <1>3 DEF Placed, Rewritten
<1>6. SoundFiles'
  <2>1. \A b \in Bridges : FilesOf(b)'
    BY <1>2, <1>3 DEF Rewritten, SoundFiles, FilesOf
  <2>2. Valid'
    BY <1>2, <1>3 DEF Rewritten, SoundFiles, Valid
  <2>3. \A p \in Ports \ {Main} : PlainPort(p)'
    BY <1>3 DEF Rewritten, PlainPort
  <2>4. bkp'[Main].there => bkp'[Main].addr
    BY <1>2, <1>3 DEF Rewritten, SoundFiles
  <2>5. Placed' => ~conf'[Main].addr /\ (bkp'[Main].there \/ conf'[Main].main)
    BY <1>2, <1>3, <1>5 DEF Rewritten, SoundFiles
  <2> QED BY <2>1, <2>2, <2>3, <2>4, <2>5 DEF SoundFiles
<1>7. conf'[Main].there
  BY <1>2, <1>3 DEF Rewritten, SoundFiles, FilesOf, Placed
<1>8. NpHost'
  BY <1>1, <1>7 DEF NpHost
<1>9. CASE dom.todo \subseteq Ports
  <2>1. dom' = [dom EXCEPT !.pc = "file"] /\ domQ' = domQ
    BY <1>9 DEF NpFiles
  <2>2. dom'.pc = "file" /\ dom'.main = dom.main /\ dom'.todo = dom.todo /\ Name' = Name
    BY <1>1, <2>1 DEF Drivers, Name, Request
  <2>3. Name \in Bridges /\ ~conf[Name].there
    <3>1. Name \in Bridges
      BY <1>1, Busy DEF HostFine, InHand
    <3>2. host.bridges = {b \in Bridges : conf[b].there}
      BY <1>2, AppliedIs DEF HostFine
    <3> QED BY <1>2, <3>1, <3>2
  <2>4. NpHandsOver'
    <3>1. done = dom.todo
      BY <1>3, <1>9
    <3>2. ~conf'[Name].there
      BY <1>3, <2>3 DEF Rewritten
    <3>3. dom.todo \subseteq {p \in Ports : conf'[p].there}
      BY <1>3, <1>9, <3>1 DEF Rewritten
    <3>4. ~Taken(dom.todo)'
      BY <1>2, <1>3, <2>2 DEF Taken, Rewritten
    <3>5. Main \in dom.todo => ~Placed
      BY <1>2 DEF Taken, Placed
    <3>6. dom.main \in dom.todo <=> Main \in dom.todo
      BY <1>1, <1>4, <1>9, <3>5, MainTold
    <3>7. ~Placed => conf'[Main].there /\ (conf'[Main].addr <=> Main \notin dom.todo)
      BY <1>3, <3>1 DEF Rewritten
    <3>8. Main \in dom.todo => bkp'[Main].there \/ conf'[Main].main
      BY <1>3, <3>5 DEF Rewritten
    <3> QED BY <1>5, <2>2, <3>2, <3>3, <3>4, <3>6, <3>7, <3>8 DEF NpHandsOver, Taken
  <2>5. NpRequest'
    BY <2>2 DEF NpRequest
  <2> QED BY <1>6, <1>8, <2>2, <2>4, <2>5 DEF Settled
\* The ports before the one that raised have been rewritten.
<1>10. CASE ~(dom.todo \subseteq Ports)
  <2>1. dom'.pc = "idle"
    BY <1>10 DEF NpFiles, Answered, IdleDriver
  <2>2. NpRequest' /\ NpHandsOver'
    BY <2>1 DEF NpRequest, NpHandsOver
  <2>3. Settled' => AtHome'
    <3>1. SUFFICES ASSUME ~Placed, Main \in done, ~Unapplied' PROVE FALSE
      BY <1>3, <1>5 DEF Rewritten, AtHome, Settled
    <3>2. Main \in host.addr
      BY <1>1, <3>1, MainTold
    <3>3. host'.addr = Addressed'
      <4>1. HostTypeOK' /\ NpCalm'
        BY DEF HostFine
      <4>2. host'.route \in Ifaces \cup {NoIface} /\ (Configured(host.route) = host)'
        BY <3>1, <4>1 DEF HostTypeOK, Hosts, NpCalm, Unapplied
      <4>3. Configured(host.route)'.addr = Addressed'
        BY <4>1 DEF Configured, HostTypeOK, Hosts
      <4> QED BY <4>2, <4>3
    <3>4. Main \notin Addressed'
      BY <1>3, <1>4, <3>1 DEF Addressed, Rewritten
    <3> QED BY <1>1, <3>2, <3>3, <3>4
  <2> QED BY <1>6, <1>8, <2>1, <2>2, <2>3
<1> QED BY <1>9, <1>10

LEMMA NpBridgeFileGood ==
  ASSUME NpStarts, NpBridgeFile
  PROVE  NpGood'
<1> USE DEF NpStarts, NpGood
<1>1. /\ dom.pc = "file" /\ host' = host /\ bkp' = bkp /\ manager' = manager /\ domQ' = domQ
      /\ conf \in [Ifaces -> Confs] /\ dom'.pc = "apply"
  BY DEF NpBridgeFile, HostFine, HostTypeOK, Drivers
<1>2. Name \in Bridges /\ Name \in Ifaces /\ Ports \cap Bridges = {}
      /\ Main \in Ports /\ Ifaces = Ports \cup Bridges
  BY <1>1, Busy, Constants0 DEF HostFine, InHand
<1>3. /\ \A n \in Ifaces \ {Name} : conf'[n] = conf[n]
      /\ conf'[Name].there /\ conf'[Name].ports = dom.todo
      /\ conf'[Name].addr <=> dom.main \in dom.todo
  BY <1>1, <1>2 DEF NpBridgeFile, BridgeFile
<1>4. SoundFiles /\ NpHandsOver
  BY <1>1
<1>5. \A p \in Ports : conf'[p] = conf[p]
  BY <1>2, <1>3
<1>6. \A b \in Bridges \ {Name} : conf'[b] = conf[b]
  BY <1>2, <1>3
<1>7. conf[Name].ports = {}
  BY <1>1, <1>2, <1>4 DEF NpHandsOver, SoundFiles, FilesOf
<1>8. Placed' <=> Placed \/ Main \in dom.todo
  <2>1. Placed' => Placed \/ Main \in dom.todo
    BY <1>3, <1>6 DEF Placed
  <2>2. Placed => Placed'
    BY <1>6, <1>7 DEF Placed
  <2>3. Main \in dom.todo => Placed'
    BY <1>2, <1>3 DEF Placed
  <2> QED BY <2>1, <2>2, <2>3
<1>9. SoundFiles'
  <2>1. ASSUME NEW b \in Bridges PROVE FilesOf(b)'
    <3>1. CASE b = Name
      BY <1>1, <1>3, <1>4, <1>5, <3>1 DEF FilesOf, NpHandsOver
    <3>2. CASE b # Name
      BY <1>4, <1>5, <1>6, <3>2 DEF SoundFiles, FilesOf
    <3> QED BY <3>1, <3>2
  <2>2. Valid'
    <3>1. ~Taken(dom.todo)
      BY <1>1, <1>4 DEF NpHandsOver
    <3>2. ASSUME NEW b \in Bridges, NEW d \in Bridges, b # d PROVE conf'[b].ports \cap conf'[d].ports = {}
      <4>1. CASE b = Name
        BY <1>3, <1>6, <3>1, <3>2, <4>1 DEF Taken
      <4>2. CASE d = Name
        BY <1>3, <1>6, <3>1, <3>2, <4>2 DEF Taken
      <4>3. CASE b # Name /\ d # Name
        BY <1>4, <1>6, <3>2, <4>3 DEF SoundFiles, Valid
      <4> QED BY <4>1, <4>2, <4>3
    <3> QED BY <3>2 DEF Valid
  <2>3. \A p \in Ports \ {Main} : PlainPort(p)'
    BY <1>1, <1>4, <1>5 DEF SoundFiles, PlainPort
  <2>4. bkp'[Main].there => bkp'[Main].addr
    BY <1>1, <1>4 DEF SoundFiles
  <2>5. Placed' => ~conf'[Main].addr /\ (bkp'[Main].there \/ conf'[Main].main)
    BY <1>1, <1>2, <1>4, <1>5, <1>8 DEF SoundFiles, NpHandsOver
  <2> QED BY <2>1, <2>2, <2>3, <2>4, <2>5 DEF SoundFiles
<1>10. AtHome'
  BY <1>1, <1>2, <1>4, <1>5, <1>8 DEF AtHome, NpHandsOver
<1>11. NpHost'
  BY <1>1, <1>2, <1>5 DEF NpHost
<1>12. NpRequest' /\ NpHandsOver'
  BY <1>1 DEF NpRequest, NpHandsOver
<1> QED BY <1>9, <1>10, <1>11, <1>12

LEMMA NpUnfileGood ==
  ASSUME NpStarts, NpUnfile
  PROVE  NpGood'
<1> USE DEF NpStarts, NpGood
<1>1. /\ dom.pc = "unfile" /\ conf \in [Ifaces -> Confs] /\ bkp \in [Ifaces -> Confs] /\ dom \in Drivers
      /\ SoundFiles /\ AtHome
  BY DEF NpUnfile, HostFine, HostTypeOK
<1>2. Ports \cap Bridges = {} /\ Main \in Ports /\ Ifaces = Ports \cup Bridges
  BY Constants0
<1>3. CASE Raised
  <2>1. dom'.pc = "idle" /\ host' = host /\ conf' = conf /\ bkp' = bkp
    BY <1>3 DEF Raised, Answered, IdleDriver, hostVars
  <2> QED BY <1>1, <2>1, NpEnds
<1>4. CASE Name \in Bridges /\ conf[Name].there
  <2> DEFINE ports == conf[Name].ports
             all == \A p \in ports : conf[p].there
  <2>1. all /\ ports \subseteq Ports
    BY <1>1, <1>4 DEF SoundFiles, FilesOf
  <2>2. {p \in ports : conf[p].there} = ports
    BY <2>1
  <2>3. /\ conf' = [n \in Ifaces |-> CASE n \in ports -> Restored(n)
                                       [] n = Name /\ all -> NoConf
                                       [] OTHER -> conf[n]]
        /\ bkp' = [n \in Ifaces |-> IF n \in ports THEN NoConf ELSE bkp[n]]
        /\ dom' = [dom EXCEPT !.pc = "apply"] /\ host' = host /\ manager' = manager
    <3>1. PICK done \in SUBSET {p \in ports : conf[p].there} :
            /\ all => done = ports
            /\ conf' = [n \in Ifaces |-> CASE n \in done -> Restored(n)
                                          [] n = Name /\ all -> NoConf
                                          [] OTHER -> conf[n]]
            /\ bkp' = [n \in Ifaces |-> IF n \in done THEN NoConf ELSE bkp[n]]
      BY <1>4 DEF NpUnfile
    <3>2. done = ports
      BY <2>1, <3>1
    <3>3. dom' = [dom EXCEPT !.pc = "apply"] /\ host' = host /\ manager' = manager
      BY <1>4, <2>1 DEF NpUnfile
    <3> QED BY <3>1, <3>2, <3>3
  <2>4. dom'.pc = "apply"
    BY <1>1, <2>3 DEF Drivers
  <2>5. /\ \A p \in ports : conf'[p] = Restored(p) /\ bkp'[p] = NoConf
        /\ conf'[Name] = NoConf
        /\ \A n \in Ifaces \ ({Name} \cup ports) : conf'[n] = conf[n]
        /\ \A n \in Ifaces \ ports : bkp'[n] = bkp[n]
    <3>1. Name \notin ports /\ Name \in Ifaces /\ ports \subseteq Ifaces
      BY <1>2, <1>4, <2>1
    <3> HIDE DEF ports, all
    <3> QED BY <2>1, <2>3, <3>1
  <2>6. \A b \in Bridges \ {Name} : conf'[b] = conf[b] /\ conf[b].ports \cap ports = {}
    BY <1>1, <1>2, <1>4, <2>1, <2>5 DEF SoundFiles, Valid
  <2>7. NoConf.there = FALSE /\ NoConf.addr = FALSE /\ NoConf.main = FALSE /\ NoConf.ports = {}
    BY DEF NoConf
  <2>8. /\ Main \in ports => Placed /\ ~Placed'
        /\ Main \notin ports => (Placed' <=> Placed)
    <3>1. Main \in ports => Placed /\ ~Placed'
      BY <1>4, <2>5, <2>6, <2>7 DEF Placed
    <3>2. Main \notin ports => (Placed' <=> Placed)
      BY <1>4, <2>5, <2>6, <2>7 DEF Placed
    <3> QED BY <3>1, <3>2
  \* The parameters of the main port are back.
  <2>9. Main \in ports => conf'[Main].addr /\ conf'[Main].there /\ ~bkp'[Main].there
    <3> SUFFICES ASSUME Main \in ports PROVE conf'[Main].addr /\ conf'[Main].there /\ ~bkp'[Main].there
      OBVIOUS
    <3>1. conf'[Main] = Restored(Main) /\ ~bkp'[Main].there
      BY <2>5, <2>7
    <3>2. CASE bkp[Main].there
      BY <1>1, <3>1, <3>2 DEF Restored, SoundFiles
    <3>3. CASE ~bkp[Main].there
      <4>1. conf[Main].main /\ conf[Main].there /\ conf[Name].addr
        BY <1>1, <1>4, <2>8, <3>3 DEF SoundFiles, FilesOf
      <4>2. conf'[Main] = [conf[Main] EXCEPT !.addr = conf[Name].addr]
        BY <3>1, <3>3, <4>1 DEF Restored
      <4>3. conf[Main] \in Confs
        BY <1>1, <1>2
      <4>4. conf'[Main].addr = conf[Name].addr /\ conf'[Main].there = conf[Main].there
        BY <4>2, <4>3 DEF Confs
      <4> QED BY <3>1, <4>1, <4>4
    <3> QED BY <3>2, <3>3
  <2>10. Main \notin ports => conf'[Main] = conf[Main] /\ bkp'[Main] = bkp[Main]
    BY <1>2, <1>4, <2>5
  <2>11. ASSUME NEW p \in Ports \ {Main} PROVE PlainPort(p)'
    <3>1. PlainPort(p)
      BY <1>1 DEF SoundFiles
    <3>2. CASE p \in ports
      <4>1. Restored(p) = NoConf
        BY <3>1 DEF Restored, PlainPort
      <4> QED BY <2>5, <2>7, <3>2, <4>1 DEF PlainPort
    <3>3. CASE p \notin ports
      BY <1>2, <1>4, <2>5, <3>1, <3>3 DEF PlainPort
    <3> QED BY <3>2, <3>3
  <2>12. ASSUME NEW b \in Bridges PROVE FilesOf(b)'
    <3>1. CASE b = Name
      BY <2>5, <2>7, <3>1 DEF FilesOf
    <3>2. CASE b # Name
      <4>1. FilesOf(b) /\ conf'[b] = conf[b] /\ conf[b].ports \cap ports = {}
        BY <1>1, <2>6, <3>2 DEF SoundFiles
      <4>2. \A p \in conf[b].ports : conf'[p] = conf[p]
        BY <1>2, <1>4, <2>5, <4>1 DEF FilesOf
      <4> QED BY <4>1, <4>2 DEF FilesOf
    <3> QED BY <3>1, <3>2
  <2>13. Valid'
    BY <1>1, <2>5, <2>6, <2>7 DEF SoundFiles, Valid
  <2>14. SoundFiles'
    BY <1>1, <2>8, <2>9, <2>10, <2>11, <2>12, <2>13 DEF SoundFiles
  <2>15. AtHome'
    BY <1>1, <2>8, <2>9, <2>10 DEF AtHome
  <2>16. NpHost'
    BY <2>3, <2>9, <2>10 DEF NpHost
  <2>17. NpRequest' /\ NpHandsOver'
    BY <2>4 DEF NpRequest, NpHandsOver
  <2> QED BY <2>14, <2>15, <2>16, <2>17
<1> QED BY <1>3, <1>4 DEF NpUnfile

LEMMA NpApplyGood ==
  ASSUME NpStarts, NpApply
  PROVE  NpGood'
<1> USE DEF NpStarts, NpGood
<1>1. dom.pc = "apply" /\ SoundFiles /\ AtHome
  BY DEF NpApply
<1>2. CASE Raised
  <2>1. dom'.pc = "idle" /\ host' = host /\ conf' = conf /\ bkp' = bkp
    BY <1>2 DEF Raised, Answered, IdleDriver, hostVars
  <2> QED BY <1>1, <2>1, NpEnds
<1>3. ASSUME NEW r \in Addressed \cup {NoIface}, host' = Configured(r), Answered("ok"),
             UNCHANGED <<manager, conf, bkp, history>>
      PROVE  NpGood'
  <2>1. dom'.pc = "idle" /\ conf' = conf /\ bkp' = bkp
    BY <1>3 DEF Answered, IdleDriver
  <2>2. host'.addr = Addressed /\ host'.route = r
    <3>1. r \in Ifaces \cup {NoIface}
      BY Constants0 DEF Addressed
    <3> QED BY <1>3, <3>1, ConfiguredType DEF HostFine
  <2>3. Ports \cap Bridges = {} /\ Main \in Ports /\ Ifaces = Ports \cup Bridges
    BY Constants0
  <2>4. Addressed \cap Ports \subseteq {Main}
    BY <1>1, <2>3 DEF NpHost, Addressed, SoundFiles, PlainPort
  <2>5. ~conf[Main].there => Main \in Addressed
    BY <2>3 DEF NpHost, Addressed
  <2>6. Addressed # {}
    <3>1. CASE Placed
      BY <1>1, <2>3, <3>1 DEF Placed, SoundFiles, FilesOf, Addressed
    <3>2. CASE ~Placed
      BY <1>1, <2>3, <2>5, <3>2 DEF AtHome, Addressed
    <3> QED BY <3>1, <3>2
  <2>7. NpHost'
    BY <2>1, <2>2, <2>4, <2>5, <2>6 DEF NpHost
  <2>8. NpRequest' /\ NpHandsOver'
    BY <2>1 DEF NpRequest, NpHandsOver
  <2> QED BY <1>1, <2>1, <2>7, <2>8, SameFiles
<1> QED BY <1>2, <1>3 DEF NpApply

\* The files of netplan and the host through every step of the driver.
LEMMA NpStep ==
  ASSUME HostFine, HostFine', OnHost, NpInv, DriverStep
  PROVE  NpInv'
<1> SUFFICES ASSUME NpCalm' PROVE NpGood'
  BY DEF NpInv, NpGood
<1>1. /\ NpStarts
      /\ TakeRequest \/ SwitchIface \/ NpFiles \/ NpBridgeFile \/ NpUnfile \/ NpApply
  BY NpCalmBefore DEF NpStarts, NpInv, NpGood
<1> QED BY <1>1, NpTakeGood, NpSwitchGood, NpFilesGood, NpBridgeFileGood, NpUnfileGood, NpApplyGood

-----------------------------------------------------------------------------
(* The service layer leaves the driver and the host to the domain *)

\* What a handler or the monitoring does to the domain: a request more, or nobody
\* waiting for the answers.
Queued == \/ domQ' = domQ \/ domQ' = Disowned
          \/ \E r \in Requests : domQ' = Append(domQ, r) /\ (r.op = "create" => r.name \in Bridges)
ServiceMoves ==
  /\ UNCHANGED <<hostVars, dom, reused, shared, stale>>
  /\ Queued
  /\ reply' \in {"none", "ok", "err", "timeout"}
  /\ fails' \in {fails, fails + 1} /\ crashes' \in {crashes, crashes + 1}
  /\ fails' \in 0..MaxFaults /\ crashes' \in 0..MaxFaults

LEMMA InHandKept ==
  ASSUME HostFine, ServiceMoves
  PROVE  /\ HostFine'
         /\ host' = host /\ manager' = manager /\ conf' = conf /\ bkp' = bkp /\ dom' = dom
         /\ dom.pc # "idle" => Name' = Name
<1>1. domQ' \in Seq(Requests)
  BY QueueType DEF HostFine, HostTypeOK, ServiceMoves, Queued
<1>2. HostTypeOK'
  BY <1>1 DEF HostFine, HostTypeOK, ServiceMoves, hostVars
<1>3. dom.pc # "idle" => domQ' # <<>> /\ Request'.op = Request.op /\ Name' = Name
  BY HeadKept DEF HostFine, InHand, ServiceMoves, Queued, Name
<1>4. InHand'
  BY <1>3 DEF HostFine, InHand, ServiceMoves, hostVars
<1>5. AsksForBridge'
  <2> SUFFICES ASSUME NEW i \in DOMAIN domQ', domQ'[i].op = "create" PROVE domQ'[i].name \in Bridges
    BY DEF AsksForBridge
  <2>1. domQ \in Seq(Requests) /\ \A k \in DOMAIN domQ : domQ[k].op = "create" => domQ[k].name \in Bridges
    BY DEF HostFine, HostTypeOK, AsksForBridge
  <2>2. CASE domQ' = domQ
    BY <2>1, <2>2
  <2>3. CASE domQ' = Disowned
    <3>1. i \in DOMAIN domQ /\ domQ'[i] = [domQ[i] EXCEPT !.owner = "none"] /\ domQ[i] \in Requests
      BY <2>1, <2>3 DEF Disowned
    <3>2. domQ'[i].op = domQ[i].op /\ domQ'[i].name = domQ[i].name
      BY <3>1 DEF Requests
    <3> QED BY <2>1, <3>1, <3>2
  <2>4. ASSUME NEW r \in Requests, domQ' = Append(domQ, r), r.op = "create" => r.name \in Bridges
        PROVE  domQ'[i].name \in Bridges
    BY <2>1, <2>4
  <2> QED BY <2>2, <2>3, <2>4 DEF ServiceMoves, Queued
<1> QED BY <1>2, <1>3, <1>4, <1>5 DEF HostFine, ServiceMoves, hostVars

LEMMA ServiceKeeps ==
  ASSUME HostFine, OnHost, OvsInv, NpInv, ServiceMoves
  PROVE  OnHost' /\ OvsInv' /\ NpInv'
<1>1. /\ host' = host /\ manager' = manager /\ conf' = conf /\ bkp' = bkp /\ dom' = dom
      /\ dom.pc # "idle" => Name' = Name
      /\ reused' = reused /\ shared' = shared /\ stale' = stale
  BY InHandKept DEF ServiceMoves
<1>2. OnHost'
  BY <1>1 DEF OnHost, Present
<1>3. OvsInv'
  <2> SUFFICES ASSUME OvsCalm' PROVE OvsGood'
    BY DEF OvsInv, OvsGood
  <2>1. fails \in Nat /\ crashes \in Nat /\ fails' \in {fails, fails + 1} /\ crashes' \in {crashes, crashes + 1}
    BY DEF HostFine, HostTypeOK, ServiceMoves
  <2>2. OvsCalm /\ (fails' = 0 => fails = 0) /\ (fails = 1 => fails' = 1)
    BY <1>1, <2>1 DEF OvsCalm
  <2>3. OvsHost /\ OvsCreating /\ OvsDeleting /\ OvsUnfailed
    BY <2>2 DEF OvsInv
  <2>4. OvsCreating' /\ OvsDeleting'
    <3>1. OvsCreating'
      BY <1>1, <2>3 DEF OvsCreating, OvsCreation, Unmoved, Lent
    <3>2. OvsDeleting'
      BY <1>1, <2>3 DEF OvsDeleting, OvsDeletion
    <3> QED BY <3>1, <3>2
  <2>5. OvsUnfailed'
    BY <1>1, <2>2, <2>3 DEF OvsUnfailed, OvsCreation, Single, Lent
  <2>6. OvsHost'
    <3>1. host.addr = {} => dom.pc = "ip" \/ (dom.pc = "rollback" /\ Name \in host.bridges /\ fails' = 1)
      BY <2>2, <2>3 DEF OvsHost
    <3> QED BY <1>1, <2>3, <3>1 DEF OvsHost, Lent, Borrowing
  <2> QED BY <2>3, <2>4, <2>5, <2>6 DEF OvsGood
<1>4. NpInv'
  <2> SUFFICES ASSUME NpCalm' PROVE NpGood'
    BY DEF NpInv, NpGood
  <2>1. crashes \in Nat /\ crashes' \in {crashes, crashes + 1}
    BY DEF HostFine, HostTypeOK, ServiceMoves
  <2>2. NpCalm
    BY <1>1, <2>1 DEF NpCalm
  <2>3. NpGood
    BY <2>2 DEF NpInv, NpGood
  <2>4. Unapplied' = Unapplied
    BY <1>1 DEF Unapplied, Configured, Addressed
  <2>5. NpHost'
    BY <1>1, <2>3 DEF NpGood, NpHost
  <2>6. NpRequest'
    BY <1>1, <2>3, <2>4 DEF NpGood, NpRequest, Taken
  <2>7. NpHandsOver'
    BY <1>1, <2>3 DEF NpGood, NpHandsOver, Taken, Placed
  <2> QED BY <1>1, <2>3, <2>4, <2>5, <2>6, <2>7, SameFiles DEF NpGood, Settled
<1> QED BY <1>2, <1>3, <1>4

-----------------------------------------------------------------------------
(* Types of the service layer *)

ServiceTyped ==
  /\ rows \in [Ids -> Rows] /\ casts \in Seq(Jobs) /\ job \in Jobs /\ mon \in Monitors
  /\ RowsNamed /\ JobOK(job) /\ \A i \in DOMAIN casts : JobOK(casts[i])

LEMMA StatusSet ==
  ASSUME ServiceTyped, NEW r \in Ids, Exists(r), NEW s \in InterfaceStatus,
         rows' = [rows EXCEPT ![r].status = s]
  PROVE  rows' \in [Ids -> Rows] /\ RowsNamed'
<1> USE DEF ServiceTyped
<1>1. \A q \in Ids : rows[q] \in Rows
  OBVIOUS
<1>2. [rows[r] EXCEPT !.status = s] \in Rows /\ [rows[r] EXCEPT !.status = s].name = rows[r].name
  BY <1>1 DEF Rows
<1>3. rows'[r] = [rows[r] EXCEPT !.status = s] /\ \A q \in Ids \ {r} : rows'[q] = rows[q]
  OBVIOUS
<1>4. rows' \in [Ids -> Rows]
  BY <1>2
<1>5. RowsNamed'
  BY <1>2, <1>3 DEF RowsNamed, Exists
<1> QED BY <1>4, <1>5

LEMMA RowInserted ==
  ASSUME ServiceTyped, NEW r \in Ids, NEW n \in Ifaces, NEW s \in InterfaceStatus,
         rows' = Inserted(r, n, s)
  PROVE  rows' \in [Ids -> Rows] /\ RowsNamed'
<1> USE DEF ServiceTyped
<1>1. [status |-> s, name |-> n] \in Rows
  BY DEF Rows
<1>2. rows' = [rows EXCEPT ![r] = [status |-> s, name |-> n]]
  BY DEF Inserted
<1>3. rows' \in [Ids -> Rows]
  BY <1>1, <1>2
<1>4. rows'[r].name = n /\ \A q \in Ids \ {r} : rows'[q] = rows[q]
  BY <1>2
<1> QED BY <1>3, <1>4 DEF RowsNamed, Exists

LEMMA NoJobOK == NoJob \in Jobs /\ JobOK(NoJob) /\ NoJob.op = "none" /\ NoJob.pc = "idle"
BY DEF NoJob, Jobs, JobOK

\* The handler goes on; only the two that commit first may be at their cast.
LEMMA JobGoesOn ==
  ASSUME ServiceTyped, NEW pc \in {"check", "start", "domain", "remove", "ack"},
         job' = [job EXCEPT !.pc = pc]
  PROVE  job' \in Jobs /\ JobOK(job')
BY DEF ServiceTyped, Jobs, JobOK

LEMMA CastsType ==
  ASSUME ServiceTyped
  PROVE  /\ casts # <<>> => /\ Head(casts) \in Jobs /\ JobOK(Head(casts))
                            /\ Tail(casts) \in Seq(Jobs) /\ \A i \in DOMAIN Tail(casts) : JobOK(Tail(casts)[i])
         /\ \A j \in Jobs : JobOK(j) =>
              /\ Append(casts, j) \in Seq(Jobs) /\ \A i \in DOMAIN Append(casts, j) : JobOK(Append(casts, j)[i])
              /\ <<j>> \o casts \in Seq(Jobs) /\ \A i \in DOMAIN (<<j>> \o casts) : JobOK((<<j>> \o casts)[i])
<1> USE DEF ServiceTyped
<1>1. ASSUME casts # <<>>
      PROVE  /\ Head(casts) \in Jobs /\ JobOK(Head(casts))
             /\ Tail(casts) \in Seq(Jobs) /\ \A i \in DOMAIN Tail(casts) : JobOK(Tail(casts)[i])
  <2>1. Head(casts) = casts[1] /\ 1 \in DOMAIN casts /\ Tail(casts) \in Seq(Jobs)
    BY <1>1
  <2>2. ASSUME NEW i \in DOMAIN Tail(casts) PROVE JobOK(Tail(casts)[i])
    <3>1. i + 1 \in DOMAIN casts /\ Tail(casts)[i] = casts[i + 1]
      BY <1>1
    <3> QED BY <3>1
  <2> QED BY <2>1, <2>2
<1>2. ASSUME NEW j \in Jobs, JobOK(j)
      PROVE  Append(casts, j) \in Seq(Jobs) /\ \A i \in DOMAIN Append(casts, j) : JobOK(Append(casts, j)[i])
  <2>1. \A i \in DOMAIN Append(casts, j) :
          Append(casts, j)[i] = j \/ (i \in DOMAIN casts /\ Append(casts, j)[i] = casts[i])
    OBVIOUS
  <2>2. ASSUME NEW i \in DOMAIN Append(casts, j) PROVE JobOK(Append(casts, j)[i])
    <3>1. CASE Append(casts, j)[i] = j
      BY <1>2, <3>1
    <3>2. CASE i \in DOMAIN casts /\ Append(casts, j)[i] = casts[i]
      BY <3>2
    <3> QED BY <2>1, <3>1, <3>2
  <2>3. Append(casts, j) \in Seq(Jobs)
    OBVIOUS
  <2> QED BY <2>2, <2>3
<1>3. ASSUME NEW j \in Jobs, JobOK(j)
      PROVE  <<j>> \o casts \in Seq(Jobs) /\ \A i \in DOMAIN (<<j>> \o casts) : JobOK((<<j>> \o casts)[i])
  <2> DEFINE s == <<j>> \o casts
  <2>1. s \in Seq(Jobs)
    OBVIOUS
  <2>2. \A i \in DOMAIN s : s[i] = j \/ (i - 1 \in DOMAIN casts /\ s[i] = casts[i - 1])
    OBVIOUS
  <2> HIDE DEF s
  <2>3. ASSUME NEW i \in DOMAIN s PROVE JobOK(s[i])
    <3>1. CASE s[i] = j
      BY <1>3, <3>1
    <3>2. CASE i - 1 \in DOMAIN casts /\ s[i] = casts[i - 1]
      BY <3>2
    <3> QED BY <2>2, <3>1, <3>2
  <2> QED BY <2>1, <2>3 DEF s
<1> QED BY <1>1, <1>2, <1>3

\* What the handlers keep, and what of it reaches the domain.
Handled == ServiceTyped' /\ ServiceMoves

LEMMA HostSame ==
  ASSUME HostFine, UNCHANGED <<hostVars, driverVars, history>>, reply' \in {"none", "ok", "err", "timeout"}
  PROVE  ServiceMoves
BY DEF HostFine, HostTypeOK, ServiceMoves, Queued, driverVars, history

LEMMA CastsHandled ==
  ASSUME HostFine, ServiceTyped, TakeCast \/ AckCast \/ PublishCast
  PROVE  Handled
<1>1. ServiceMoves
  BY HostSame DEF HostFine, HostTypeOK, TakeCast, AckCast, PublishCast
<1>2. rows' = rows /\ mon' = mon
  BY DEF TakeCast, AckCast, PublishCast
<1>3. RowsNamed'
  BY <1>2 DEF ServiceTyped, RowsNamed, Exists
<1>4. job' \in Jobs /\ JobOK(job') /\ casts' \in Seq(Jobs) /\ \A i \in DOMAIN casts' : JobOK(casts'[i])
  <2>1. CASE TakeCast
    BY <2>1, CastsType DEF TakeCast
  <2>2. CASE AckCast
    BY <2>2, NoJobOK DEF AckCast, ServiceTyped
  <2>3. CASE PublishCast
    <3> DEFINE j == [job EXCEPT !.pc = "start",
                       !.op = IF @ = "create_bridge" THEN "_create_bridge" ELSE "_delete_bridge"]
    <3>1. job \in Jobs /\ JobOK(job) /\ job.pc = "cast"
      BY <2>3 DEF PublishCast, ServiceTyped
    <3>2. j.op \in {"_create_bridge", "_delete_bridge"} /\ j.id = job.id /\ j.name = job.name /\ j.pc = "start"
          /\ (j.op = "_create_bridge" => job.op = "create_bridge") /\ j \in Jobs
      BY <3>1 DEF Jobs
    <3>3. JobOK(j)
      BY <3>1, <3>2 DEF JobOK
    <3>4. casts' = Append(casts, j) /\ job' = NoJob
      BY <2>3 DEF PublishCast
    <3> QED BY <3>2, <3>3, <3>4, CastsType, NoJobOK
  <2> QED BY <2>1, <2>2, <2>3
<1> QED BY <1>1, <1>2, <1>3, <1>4 DEF Handled, ServiceTyped

\* The handler goes on and may have written a row.
LEMMA RowsHandled ==
  ASSUME ServiceTyped, ServiceMoves, rows' \in [Ids -> Rows], RowsNamed', job' \in Jobs, JobOK(job'),
         casts' = casts, mon' = mon
  PROVE  Handled
BY DEF Handled, ServiceTyped

LEMMA RowsSame ==
  ASSUME ServiceTyped, rows' = rows
  PROVE  rows' \in [Ids -> Rows] /\ RowsNamed'
BY DEF ServiceTyped, RowsNamed, Exists

LEMMA CallMoves ==
  ASSUME HostFine, UNCHANGED <<hostVars, dom, reply, history>>,
         NEW op \in {"create", "delete", "enable", "disable"}, NEW n \in Ifaces, NEW s \in SUBSET Ifaces,
         NEW owner \in {"svc", "none"}, op = "create" => n \in Bridges, Call(op, n, s, owner)
  PROVE  ServiceMoves
<1>1. [op |-> op, name |-> n, ifaces |-> s, owner |-> owner] \in Requests
  BY DEF Requests
<1>2. Queued
  BY <1>1 DEF Call, Queued
<1> QED BY <1>2 DEF ServiceMoves, HostFine, HostTypeOK, history

LEMMA CreateHandled ==
  ASSUME HostFine, ServiceTyped, ApiCreate \/ CreateInsert \/ CreateStart \/ CreateFinish
  PROVE  Handled
<1>1. job \in Jobs /\ JobOK(job)
  BY DEF ServiceTyped
<1>2. ASSUME NEW b \in Bridges, NEW ifaces \in SUBSET (Ifaces \ {b}), CreateBridge(b, ifaces)
      PROVE  Handled
  <2>1. ServiceMoves /\ rows' = rows /\ casts' = casts /\ mon' = mon
    BY <1>2, HostSame DEF HostFine, HostTypeOK, CreateBridge
  <2>2. job' = [NoJob EXCEPT !.op = "create_bridge", !.name = b, !.ifaces = ifaces, !.pc = "check"]
    BY <1>2 DEF CreateBridge
  <2>3. job'.op = "create_bridge" /\ job'.name = b /\ job'.pc = "check" /\ job' \in Jobs
    BY <2>2, Constants0 DEF NoJob, Jobs
  <2>4. JobOK(job')
    BY <2>3, Constants0 DEF JobOK
  <2> QED BY <2>1, <2>3, <2>4, RowsSame, RowsHandled
<1>3. CASE CreateInsert
  <2>1. ServiceMoves /\ casts' = casts /\ mon' = mon
    BY <1>3, HostSame DEF HostFine, HostTypeOK, CreateInsert
  <2>2. CASE job' = NoJob /\ rows' = rows
    BY <2>1, <2>2, NoJobOK, RowsSame, RowsHandled
  <2>3. ASSUME NEW r \in Ids, rows' = Inserted(r, job.name, "new"), job' = [job EXCEPT !.id = r, !.pc = "cast"]
        PROVE  Handled
    <3>1. job.op = "create_bridge" /\ job.name \in Bridges
      BY <1>1, <1>3 DEF CreateInsert, At, JobOK
    <3>2. job'.op = job.op /\ job'.name = job.name /\ job'.id = r /\ job'.pc = "cast" /\ job' \in Jobs
      BY <1>1, <2>3 DEF Jobs
    <3>3. JobOK(job')
      BY <3>1, <3>2, Constants0 DEF JobOK
    <3>4. rows' \in [Ids -> Rows] /\ RowsNamed'
      <4>1. job.name \in Ifaces /\ "new" \in InterfaceStatus
        BY <3>1, Constants0 DEF InterfaceStatus
      <4> QED BY <2>3, <4>1, RowInserted
    <3> QED BY <2>1, <3>2, <3>3, <3>4, RowsHandled
  <2> QED BY <1>3, <2>2, <2>3 DEF CreateInsert
<1>4. CASE CreateStart
  <2>1. job.op = "_create_bridge" /\ job.id \in Ids /\ job.name \in Bridges /\ job.ifaces \in SUBSET Ifaces
        /\ UNCHANGED <<hostVars, dom, reply, history>> /\ casts' = casts /\ mon' = mon
    BY <1>1, <1>4 DEF CreateStart, At, JobOK, Jobs
  <2>2. job' \in Jobs /\ JobOK(job')
    BY <1>4, JobGoesOn DEF CreateStart, Goto
  <2>3. CASE Exists(job.id)
    <3>1. ServiceMoves
      BY <1>4, <2>1, <2>3, CallMoves, Constants0 DEF CreateStart
    <3>2. rows' \in [Ids -> Rows] /\ RowsNamed'
      BY <1>4, <2>1, <2>3, StatusSet DEF CreateStart, SetStatus, InterfaceStatus
    <3> QED BY <2>1, <2>2, <3>1, <3>2, RowsHandled
  <2>4. CASE ~Exists(job.id)
    <3>1. rows' = rows /\ domQ' = domQ
      BY <1>4, <2>4 DEF CreateStart
    <3>2. ServiceMoves
      BY <2>1, <3>1, HostSame DEF HostFine, HostTypeOK, driverVars
    <3> QED BY <2>1, <2>2, <3>1, <3>2, RowsSame, RowsHandled
  <2> QED BY <2>3, <2>4
<1>5. CASE CreateFinish
  <2>1. ServiceMoves /\ casts' = casts /\ mon' = mon
    BY <1>5, HostSame DEF CreateFinish
  <2>2. job' \in Jobs /\ JobOK(job') /\ job.id \in Ids
    BY <1>1, <1>5, JobGoesOn DEF CreateFinish, Goto, At, JobOK
  <2>3. rows' \in [Ids -> Rows] /\ RowsNamed'
    <3>1. CASE Exists(job.id)
      <4>1. PICK s \in InterfaceStatus : rows' = [rows EXCEPT ![job.id].status = s]
        BY <1>5, <3>1 DEF CreateFinish, SetStatus, InterfaceStatus
      <4> QED BY <2>2, <3>1, <4>1, StatusSet
    <3>2. CASE ~Exists(job.id)
      BY <1>5, <3>2, RowsSame DEF CreateFinish
    <3> QED BY <3>1, <3>2
  <2> QED BY <2>1, <2>2, <2>3, RowsHandled
<1> QED BY <1>2, <1>3, <1>4, <1>5 DEF ApiCreate

LEMMA DeleteHandled ==
  ASSUME HostFine, ServiceTyped, ApiDelete \/ DeleteStart \/ DeleteAnswer \/ DeleteRemove \/ ApiTurn
  PROVE  Handled
<1>1. job \in Jobs /\ JobOK(job) /\ \A r \in Ids : rows[r] \in Rows
  BY DEF ServiceTyped
<1>2. ASSUME NEW r \in Ids, DeleteBridge(r) PROVE Handled
  <2>1. ServiceMoves /\ casts' = casts /\ mon' = mon /\ Exists(r)
    BY <1>2, HostSame DEF HostFine, HostTypeOK, DeleteBridge
  <2>2. rows' \in [Ids -> Rows] /\ RowsNamed'
    BY <1>2, <2>1, StatusSet DEF DeleteBridge, SetStatus, InterfaceStatus
  <2>3. rows[r].name \in Ifaces
    BY <2>1 DEF ServiceTyped, RowsNamed
  <2>4. job' = [NoJob EXCEPT !.op = "delete_bridge", !.id = r, !.name = rows[r].name, !.pc = "cast"]
    BY <1>2 DEF DeleteBridge
  <2>5. job' \in Jobs /\ job'.op = "delete_bridge" /\ job'.id = r /\ job'.name = rows[r].name
    BY <2>3, <2>4 DEF Jobs, NoJob
  <2>6. JobOK(job')
    BY <2>3, <2>5 DEF JobOK
  <2> QED BY <2>1, <2>2, <2>5, <2>6, RowsHandled
<1>3. CASE DeleteStart
  <2>1. job.op = "_delete_bridge" /\ job.id \in Ids /\ job.name \in Ifaces
        /\ UNCHANGED <<hostVars, dom, reply, history>> /\ casts' = casts /\ mon' = mon /\ rows' = rows
    BY <1>1, <1>3 DEF DeleteStart, At, JobOK, Jobs
  <2>2. job' \in Jobs /\ JobOK(job')
    BY <1>3, JobGoesOn DEF DeleteStart, Goto
  <2>3. ServiceMoves
    <3>1. CASE Call("delete", job.name, {}, "svc")
      BY <2>1, <3>1, CallMoves
    <3>2. CASE domQ' = domQ
      BY <2>1, <3>2, HostSame DEF HostFine, HostTypeOK, driverVars
    <3> QED BY <1>3, <3>1, <3>2 DEF DeleteStart
  <2> QED BY <2>1, <2>2, <2>3, RowsSame, RowsHandled
<1>4. CASE DeleteAnswer
  <2>1. ServiceMoves /\ casts' = casts /\ mon' = mon
    BY <1>4, HostSame DEF DeleteAnswer
  <2>2. job' \in Jobs /\ JobOK(job') /\ job.id \in Ids
    BY <1>1, <1>4, JobGoesOn DEF DeleteAnswer, Goto, At, JobOK
  <2>3. rows' \in [Ids -> Rows] /\ RowsNamed'
    <3>1. CASE Exists(job.id) /\ reply # "ok"
      BY <1>4, <2>2, <3>1, StatusSet DEF DeleteAnswer, SetStatus, InterfaceStatus
    <3>2. CASE ~(Exists(job.id) /\ reply # "ok")
      BY <1>4, <3>2, RowsSame DEF DeleteAnswer
    <3> QED BY <3>1, <3>2
  <2> QED BY <2>1, <2>2, <2>3, RowsHandled
<1>5. CASE DeleteRemove
  <2>1. ServiceMoves /\ casts' = casts /\ mon' = mon
    BY <1>5, HostSame DEF HostFine, HostTypeOK, DeleteRemove
  <2>2. job' \in Jobs /\ JobOK(job') /\ job.id \in Ids
    BY <1>1, <1>5, JobGoesOn DEF DeleteRemove, Goto, At, JobOK
  <2>3. NoRow \in Rows /\ NoRow.status = "none" /\ rows' = [rows EXCEPT ![job.id] = NoRow]
    BY <1>5 DEF DeleteRemove, NoRow, Rows
  <2>4. rows' \in [Ids -> Rows]
    BY <2>3 DEF ServiceTyped
  <2>5. RowsNamed'
    <3> SUFFICES ASSUME NEW q \in Ids, rows'[q].status # "none" PROVE rows'[q].name \in Ifaces
      BY DEF RowsNamed, Exists
    <3>1. q # job.id /\ rows'[q] = rows[q]
      BY <2>2, <2>3 DEF ServiceTyped
    <3> QED BY <3>1 DEF ServiceTyped, RowsNamed, Exists
  <2> QED BY <2>1, <2>2, <2>4, <2>5, RowsHandled
<1>6. ASSUME NEW n \in Ifaces, NEW op \in {"enable", "disable"}, Turn(op, n) PROVE Handled
  <2>1. ServiceMoves
    BY <1>6, CallMoves DEF Turn
  <2> QED BY <1>1, <1>6, <2>1, RowsSame, RowsHandled DEF Turn
<1> QED BY <1>2, <1>3, <1>4, <1>5, <1>6 DEF ApiDelete, ApiTurn

LEMMA FailuresHandled ==
  ASSUME HostFine, ServiceTyped, ServiceTimeout \/ ServiceCrash \/ MonitorRaises
  PROVE  Handled
<1>1. job \in Jobs /\ JobOK(job) /\ mon \in Monitors /\ casts \in Seq(Jobs)
      /\ \A i \in DOMAIN casts : JobOK(casts[i])
  BY DEF ServiceTyped
<1>2. rows' \in [Ids -> Rows] /\ RowsNamed'
  BY RowsSame DEF ServiceTimeout, ServiceCrash, MonitorRaises
<1>3. CASE ServiceTimeout
  <2>1. ServiceMoves
    BY <1>3, FailingCounts DEF ServiceTimeout, ServiceMoves, Queued, HostFine, HostTypeOK
  <2> QED BY <1>1, <1>2, <1>3, <2>1, RowsHandled DEF ServiceTimeout
<1>4. CASE MonitorRaises
  <2>1. ServiceMoves
    BY <1>4, FailingCounts DEF MonitorRaises, ServiceMoves, Queued, HostFine, HostTypeOK, driverVars
  <2>2. mon' \in Monitors /\ casts' = casts /\ job' = job
    BY <1>1, <1>4 DEF MonitorRaises, Monitors
  <2> QED BY <1>1, <1>2, <2>1, <2>2 DEF Handled, ServiceTyped
<1>5. CASE ServiceCrash
  <2>1. ServiceMoves
    BY <1>5, NetworkAssumption DEF ServiceCrash, MayFail, ServiceMoves, Queued, HostFine, HostTypeOK
  <2>2. mon' \in Monitors
    BY <1>5 DEF ServiceCrash, IdleMonitor, Monitors
  <2>3. [job EXCEPT !.pc = "start"] \in Jobs /\ JobOK([job EXCEPT !.pc = "start"])
    BY <1>1 DEF Jobs, JobOK
  <2>4. casts' \in Seq(Jobs) /\ \A i \in DOMAIN casts' : JobOK(casts'[i])
    <3>1. CASE casts' = casts
      BY <1>1, <3>1
    <3>2. CASE casts' = <<[job EXCEPT !.pc = "start"]>> \o casts
      BY <2>3, <3>2, CastsType
    <3> QED BY <1>5, <3>1, <3>2 DEF ServiceCrash
  <2>5. job' = NoJob
    BY <1>5 DEF ServiceCrash
  <2> QED BY <1>2, <2>1, <2>2, <2>4, <2>5, NoJobOK DEF Handled, ServiceTyped
<1> QED BY <1>3, <1>4, <1>5

LEMMA MonitorHandled ==
  ASSUME HostFine, ServiceTyped, MonitorStep
  PROVE  Handled
<1>1. job \in Jobs /\ JobOK(job) /\ mon \in Monitors /\ host \in Hosts
  BY DEF ServiceTyped, HostFine, HostTypeOK
<1>2. ServiceMoves /\ casts' = casts /\ job' = job
  BY HostSame DEF MonitorStep, MonitorList, MonitorNames, MonitorSync, MonitorMissing, MonitorEnd,
                  HostFine, HostTypeOK
<1>3. ASSUME NEW n \in Ifaces, NEW s \in InterfaceStatus,
             NEW r \in Named(n), rows' = [rows EXCEPT ![r].status = s]
      PROVE  rows' \in [Ids -> Rows] /\ RowsNamed'
  BY <1>3, StatusSet DEF Named
<1>4. rows' \in [Ids -> Rows] /\ RowsNamed' /\ mon' \in Monitors
  <2>1. CASE MonitorList
    <3>1. Present(host) \subseteq Ifaces
      BY <1>1, Constants0 DEF Present, Hosts
    <3> QED BY <1>1, <2>1, <3>1, RowsSame DEF MonitorList, Monitors
  <2>2. CASE MonitorNames
    BY <1>1, <2>2, RowsSame DEF MonitorNames, Monitors
  <2>3. CASE MonitorSync
    <3>1. PICK n \in mon.os : mon' = [mon EXCEPT !.os = @ \ {n}] /\ rows' \in Synchronized(n)
      BY <2>3 DEF MonitorSync
    <3>2. n \in Ifaces /\ mon' \in Monitors
      BY <1>1, <3>1 DEF Monitors
    <3>3. CASE Named(n) = {}
      <4>1. PICK r \in Ids : rows' = Inserted(r, n, "available")
        BY <3>1, <3>3 DEF Synchronized
      <4> QED BY <3>2, <4>1, RowInserted DEF InterfaceStatus
    <3>4. CASE Named(n) # {}
      <4>1. PICK r \in Named(n) : rows' = [rows EXCEPT ![r].status = "available"]
        BY <3>1, <3>4 DEF Synchronized
      <4> QED BY <1>3, <3>2, <4>1 DEF InterfaceStatus
    <3> QED BY <3>2, <3>3, <3>4
  <2>4. CASE MonitorMissing
    <3>1. PICK n \in mon.gone : /\ mon' = [mon EXCEPT !.gone = @ \ {n}]
                                /\ rows' \in IF Named(n) = {} THEN {rows}
                                             ELSE {[rows EXCEPT ![r].status = "error"] : r \in Named(n)}
      BY <2>4 DEF MonitorMissing
    <3>2. n \in Ifaces /\ mon' \in Monitors
      BY <1>1, <3>1 DEF Monitors
    <3>3. CASE Named(n) = {}
      BY <3>1, <3>2, <3>3, RowsSame
    <3>4. CASE Named(n) # {}
      <4>1. PICK r \in Named(n) : rows' = [rows EXCEPT ![r].status = "error"]
        BY <3>1, <3>4
      <4> QED BY <1>3, <3>2, <4>1 DEF InterfaceStatus
    <3> QED BY <3>3, <3>4
  <2>5. CASE MonitorEnd
    BY <2>5, RowsSame DEF MonitorEnd, IdleMonitor, Monitors
  <2> QED BY <2>1, <2>2, <2>3, <2>4, <2>5 DEF MonitorStep
<1> QED BY <1>1, <1>2, <1>4 DEF Handled, ServiceTyped

-----------------------------------------------------------------------------
(* The theorems *)

IInv == HostFine /\ ServiceTyped /\ OnHost /\ OvsInv /\ NpInv

LEMMA InitIInv == Init => IInv
<1> SUFFICES ASSUME Init PROVE IInv
  OBVIOUS
<1> USE DEF Init, HostInit
<1>1. HostTypeOK
  <2>1. host \in Hosts
    BY NetworkAssumption DEF Hosts, Ifaces
  <2>2. NoConf \in Confs /\ [NoConf EXCEPT !.there = TRUE, !.addr = TRUE] \in Confs
    BY DEF NoConf, Confs
  <2>3. conf \in [Ifaces -> Confs] /\ bkp \in [Ifaces -> Confs]
    BY <2>2
  <2>4. fails \in 0..MaxFaults /\ crashes \in 0..MaxFaults
    BY NetworkAssumption
  <2>5. domQ \in Seq(Requests) /\ dom \in Drivers /\ reply \in {"none", "ok", "err", "timeout"}
    BY IdleDriverType
  <2>6. reused \in BOOLEAN /\ shared \in BOOLEAN /\ stale \in BOOLEAN /\ manager \in Managers
    OBVIOUS
  <2> QED BY <2>1, <2>3, <2>4, <2>5, <2>6 DEF HostTypeOK
<1>2. dom.pc = "idle"
  BY DEF IdleDriver
<1>3. HostFine
  BY <1>1, <1>2 DEF HostFine, InHand, AsksForBridge
<1>4. ServiceTyped
  BY NoJobOK DEF ServiceTyped, Rows, NoRow, IdleMonitor, Monitors, RowsNamed, Exists
<1>5. OnHost
  BY <1>2, Constants0 DEF OnHost, Present
<1>6. OvsInv
  BY <1>2, Constants0 DEF OvsInv, OvsHost, OvsCreating, OvsDeleting, OvsUnfailed, OvsCreation, OvsDeletion,
                          Single, Unmoved
<1>7. NpInv
  <2> SUFFICES ASSUME NpCalm PROVE NpGood
    BY DEF NpInv, NpGood
  <2>1. NpRequest /\ NpHandsOver
    BY <1>2 DEF NpRequest, NpHandsOver
  <2>2. PICK there \in BOOLEAN :
          conf = [n \in Ifaces |-> IF n = Main /\ there /\ manager = "netplan"
                                   THEN [NoConf EXCEPT !.there = TRUE, !.addr = TRUE] ELSE NoConf]
    OBVIOUS
  <2>3. /\ \A n \in Ifaces : n # Main => conf[n] = NoConf
        /\ conf[Main].there => conf[Main].addr
        /\ \A n \in Ifaces : bkp[n] = NoConf
        /\ conf[Main].ports = {}
    BY <2>2, Constants0 DEF NoConf
  <2>4. NoConf.there = FALSE /\ NoConf.addr = FALSE /\ NoConf.main = FALSE /\ NoConf.ports = {}
    BY DEF NoConf
  <2>5. \A b \in Bridges : conf[b] = NoConf
    BY <2>3, Constants0
  <2>6. ~Placed
    BY <2>4, <2>5 DEF Placed
  <2>7. SoundFiles
    BY <2>3, <2>4, <2>5, <2>6, Constants0 DEF SoundFiles, FilesOf, Valid, PlainPort
  <2>8. NpHost
    BY Constants0 DEF NpHost
  <2>9. AtHome
    BY <2>3 DEF AtHome
  <2> QED BY <2>1, <2>7, <2>8, <2>9 DEF NpGood
<1> QED BY <1>3, <1>4, <1>5, <1>6, <1>7 DEF IInv

LEMMA NextIInv == IInv /\ [Next]_vars => IInv'
<1> SUFFICES ASSUME IInv, [Next]_vars PROVE IInv'
  OBVIOUS
<1> USE DEF IInv
<1>1. ASSUME Handled PROVE IInv'
  BY <1>1, InHandKept, ServiceKeeps DEF Handled
<1>2. ASSUME UNCHANGED <<rows, casts, job, mon>> PROVE ServiceTyped'
  BY <1>2 DEF ServiceTyped, RowsNamed, Exists
<1>3. CASE ApiRequest
  BY <1>1, <1>3, CreateHandled, DeleteHandled DEF ApiRequest
<1>4. CASE HandlerStep
  BY <1>1, <1>4, CastsHandled, CreateHandled, DeleteHandled DEF HandlerStep
<1>5. CASE MonitorStep \/ MonitorRaises \/ ServiceTimeout \/ ServiceCrash
  BY <1>1, <1>5, MonitorHandled, FailuresHandled
<1>6. CASE Driver
  <2>1. DriverStep /\ UNCHANGED <<rows, casts, job, mon>>
    BY <1>6 DEF Driver
  <2>2. HostFine'
    BY <2>1, TakeTyped, SwitchTyped, OvsTyped, NpTyped DEF DriverStep
  <2> QED BY <1>2, <2>1, <2>2, OnHostStep, OvsStep, NpStep
<1>7. CASE DriverDies
  <2>1. DomainCrash /\ UNCHANGED <<rows, casts, job, mon>>
    BY <1>7 DEF DriverDies
  <2>2. HostFine' /\ OnHost'
    BY <2>1, CrashTyped, OnHostStep
  <2>3. OvsInv' /\ NpInv'
    BY <2>1 DEF DomainCrash, HostFine, HostTypeOK, OvsInv, OvsCalm, NpInv, NpCalm
  <2> QED BY <1>2, <2>1, <2>2, <2>3
<1>8. CASE UNCHANGED vars
  <2>1. ServiceMoves
    BY <1>8 DEF vars, ServiceMoves, Queued, HostFine, HostTypeOK, hostVars
  <2>2. ServiceTyped'
    BY <1>2, <1>8 DEF vars
  <2> QED BY <1>1, <2>1, <2>2 DEF Handled
<1> QED BY <1>3, <1>4, <1>5, <1>6, <1>7, <1>8 DEF Next

\* The inductive invariant of both managers, of netplan's files and of the domain
\* queue holds in every reachable state.
THEOREM NetworkInvariant == Spec => []IInv
<1> QED BY InitIInv, NextIInv, PTL DEF Spec

\* The requests, the rows, the files and the host stay of their types: what the
\* domain configures is always on a port or a bridge that exists.
THEOREM TypeCorrect == Spec => []TypeOK
<1>1. IInv => TypeOK
  BY DEF IInv, HostFine, ServiceTyped, TypeOK
<1> QED BY <1>1, NetworkInvariant, PTL

\* The commands of create_bridge and delete_bridge (ovs.py, ovs_manager.py, and
\* netplan.py with its files) leave the host an address: after at most one failed
\* command, which the rollback makes good, unless the domain died between two
\* commands, the name of a bridge was asked for twice, two bridges share a port,
\* or a request found the files that a failed netplan apply left.
THEOREM AddressKeptHolds == Spec => []AddressKept
<1>1. IInv => AddressKept
  <2> SUFFICES ASSUME IInv, crashes = 0, fails <= 1, ~reused, ~shared, ~stale, dom.pc = "idle"
               PROVE  host.addr # {}
    BY DEF AddressKept
  <2>1. manager = "ovs" \/ manager = "netplan"
    BY NetworkAssumption DEF IInv, HostFine, HostTypeOK
  <2>2. CASE manager = "ovs"
    BY <2>2 DEF IInv, OvsInv, OvsCalm, OvsHost
  <2>3. CASE manager = "netplan"
    BY <2>3 DEF IInv, NpInv, NpCalm, NpHost
  <2> QED BY <2>1, <2>2, <2>3
<1> QED BY <1>1, NetworkInvariant, PTL

\* When every bridge that had the main port is deleted, the file of that port has
\* its parameters again, from the backup or from the flag that was set with it.
THEOREM FileComesBackHolds == Spec => []FileComesBack
<1>1. IInv => FileComesBack
  BY DEF IInv, NpInv, NpCalm, Settled, AtHome, Placed, FileComesBack
<1> QED BY <1>1, NetworkInvariant, PTL

=============================================================================
