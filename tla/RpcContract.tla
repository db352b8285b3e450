---------------------------- MODULE RpcContract ----------------------------
(***************************************************************************)
(* What a caller may rely on when it sends requests over a service queue:  *)
(* the server runs only what was published, an answer is given at most     *)
(* once and only after the handler ran, and a call that failed never turns *)
(* into an answered one.  A failed call promises nothing about the         *)
(* handler: it may have run, may run later, or never.                      *)
(***************************************************************************)
CONSTANT Ids

VARIABLES
  issued,    \* requests published
  executed,  \* requests whose handler ran at least once
  answered,  \* calls that got the handler's data or error
  failed     \* calls that ended without an answer

contractVars == <<issued, executed, answered, failed>>

ContractInit ==
  /\ issued = {} /\ executed = {} /\ answered = {} /\ failed = {}

Issue(i) ==
  /\ i \notin issued
  /\ issued' = issued \cup {i}
  /\ UNCHANGED <<executed, answered, failed>>

Execute(i) ==
  /\ i \in issued
  /\ executed' = executed \cup {i}
  /\ UNCHANGED <<issued, answered, failed>>

Answer(i) ==
  /\ i \in executed
  /\ i \notin answered \cup failed
  /\ answered' = answered \cup {i}
  /\ UNCHANGED <<issued, executed, failed>>

GiveUp(i) ==
  /\ i \in issued
  /\ i \notin answered \cup failed
  /\ failed' = failed \cup {i}
  /\ UNCHANGED <<issued, executed, answered>>

ContractNext == \E i \in Ids : Issue(i) \/ Execute(i) \/ Answer(i) \/ GiveUp(i)

ContractSpec == ContractInit /\ [][ContractNext]_contractVars
=============================================================================
