--------------------------- MODULE NodeExec_proofs ---------------------------
(***************************************************************************)
(* Proofs about NodeExec, for any nodes, connections, calls and approvals. *)
(* The registry's invariants are inductive with the types; that decisions  *)
(* are honoured needs RecordMatchesPromise, which ties the record node.    *)
(* invoke reads to the promise the agent was answered from.                *)
(***************************************************************************)
EXTENDS NodeExec, TLAPS

-----------------------------------------------------------------------------
(* Types *)

LEMMA TypeInit == Init => TypeOK
BY NodeRegistryAssumption, NodeExecAssumption
   DEF Init, RegistryInit, ApprovalsInit, Unrequested, TypeOK, RegistryTypeOK,
       ApprovalsTypeOK, Entries, Decisions

LEMMA RegistryTypeStep == RegistryTypeOK /\ [RegistryNext]_registryVars => RegistryTypeOK'
<1> SUFFICES ASSUME RegistryTypeOK, [RegistryNext]_registryVars PROVE RegistryTypeOK'
    OBVIOUS
<1> USE NodeRegistryAssumption DEF RegistryTypeOK
<1>1. ASSUME NEW c \in Conns, Register(c) PROVE RegistryTypeOK'
  <2>1. conn' \in [Conns -> {"new", "open", "lost", "closed", "ghost"}]
    BY <1>1 DEF Register, Registered
  <2> QED BY <1>1, <2>1 DEF Register
<1>2. ASSUME NEW c \in Conns, LinkBreaks(c) PROVE RegistryTypeOK'
  BY <1>2 DEF LinkBreaks
<1>3. ASSUME NEW c \in Conns, Unregister(c) PROVE RegistryTypeOK'
  <2>1. cutOff' \subseteq Nodes /\ pendingInvokes' \subseteq Calls
    BY <1>3 DEF Unregister
  <2>2. conn' \in [Conns -> {"new", "open", "lost", "closed", "ghost"}]
    BY <1>3 DEF Unregister
  <2>3. nodesById' \in [Nodes -> Conns \cup {NoConn}]
    BY <1>3 DEF Unregister
  <2>4. call' \in [Calls -> {"idle", "wake", "wake again", "nudge", "pending", "answered"}]
    BY <1>3 DEF Unregister
  <2> QED BY <2>1, <2>2, <2>3, <2>4
<1>4. ASSUME NEW i \in Calls, Answered(i) PROVE RegistryTypeOK'
  BY <1>4 DEF Answered
<1>5. CASE UNCHANGED registryVars
  BY <1>5 DEF registryVars
<1> QED BY <1>1, <1>2, <1>3, <1>4, <1>5 DEF RegistryNext, HandleInvokeResult, InvokeTimesOut

LEMMA ApprovalsTypeStep == ApprovalsTypeOK /\ [ApprovalsNext]_approvalVars => ApprovalsTypeOK'
<1> SUFFICES ASSUME ApprovalsTypeOK, [ApprovalsNext]_approvalVars PROVE ApprovalsTypeOK'
    OBVIOUS
<1> USE DEF ApprovalsTypeOK
<1>0. ASSUME NEW r \in Approvals, NEW d \in Decisions \cup {"undefined"},
             NEW a \in Decisions \cup {"null"},
             NEW by \in {"null", "approver", "no-approval-route"}, Settled(r, d, a, by)
      PROVE  /\ entry' \in [Approvals -> Entries]
             /\ promise' \in [Approvals -> Decisions \cup {"unsettled", "null"}]
  <2>1. [at |-> "resolved", decision |-> d, resolvedBy |-> by] \in Entries
    BY DEF Entries
  <2> QED BY <1>0, <2>1 DEF Settled
<1>1. ASSUME NEW r \in Approvals, ForwarderReturns(r) PROVE ApprovalsTypeOK'
  BY <1>0, <1>1 DEF ForwarderReturns
<1>2. ASSUME NEW r \in Approvals, ResolveApproval(r) PROVE ApprovalsTypeOK'
  BY <1>0, <1>2 DEF ResolveApproval
<1>3. ASSUME NEW r \in Approvals, DeadlinePasses(r) PROVE ApprovalsTypeOK'
  BY <1>3 DEF DeadlinePasses
<1>4. ASSUME NEW r \in Approvals, TimerExpires(r) PROVE ApprovalsTypeOK'
  BY <1>0, <1>4 DEF TimerExpires
<1>5. ASSUME NEW r \in Approvals, GraceEnds(r) PROVE ApprovalsTypeOK'
  BY <1>5 DEF GraceEnds, Entries
<1>6. CASE UNCHANGED approvalVars
  BY <1>6 DEF approvalVars
<1> QED BY <1>1, <1>2, <1>3, <1>4, <1>5, <1>6 DEF ApprovalsNext

(* What a step of node.invoke that sends does to the types. *)
LEMMA SendTypes ==
  ASSUME TypeOK, NEW i \in Calls, SendToNode(i)
  PROVE  TypeOK'
<1> USE NodeRegistryAssumption, NodeExecAssumption DEF SendToNode
<1>1. RegistryTypeOK'
  BY DEF TypeOK, RegistryTypeOK, Refused, Invoke
<1>2. Consumed(ApprovalOf[i]) \in [Approvals -> Entries]
  BY DEF TypeOK, ApprovalsTypeOK, Consumed, Entries
<1>3. ApprovalsTypeOK'
  BY <1>2 DEF TypeOK, ApprovalsTypeOK, Refused, approvalVars
<1> QED BY <1>1, <1>3 DEF TypeOK, Refused

LEMMA TypeStep == TypeOK /\ [Next]_vars => TypeOK'
<1> SUFFICES ASSUME TypeOK, [Next]_vars PROVE TypeOK'
    OBVIOUS
<1> USE NodeExecAssumption DEF TypeOK
<1>1. CASE RegistryNext /\ UNCHANGED <<approvalVars, execVars>>
  BY <1>1, RegistryTypeStep DEF approvalVars, execVars, ApprovalsTypeOK
<1>2. CASE ApprovalsNext /\ UNCHANGED <<registryVars, execVars>>
  BY <1>2, ApprovalsTypeStep DEF registryVars, execVars, RegistryTypeOK
<1>3. ASSUME NEW r \in Approvals, AgentStep(r) PROVE TypeOK'
  <2>1. CASE StartExec(r)
    <3>1. entry' \in [Approvals -> Entries]
      BY <2>1 DEF StartExec, RequestApproval, ApprovalsTypeOK, Entries
    <3>2. ApprovalsTypeOK'
      BY <2>1, <3>1 DEF StartExec, RequestApproval, ApprovalsTypeOK
    <3> QED BY <2>1, <3>2 DEF StartExec, AgentAt, registryVars, RegistryTypeOK
  <2>2. ASSUME NEW d, Decide(r, d) PROVE TypeOK'
    <3>1. ApprovalsTypeOK' /\ RegistryTypeOK' /\ forwarded' \subseteq Calls
      BY <2>2 DEF Decide, registryVars, approvalVars, RegistryTypeOK, ApprovalsTypeOK
    <3>2. Claim(d) \in {"denied", "nothing", "allow-once", "allow-always"}
      BY DEF Claim
    <3> QED BY <2>2, <3>1, <3>2 DEF Decide, AgentAt
  <2>3. ASSUME UNCHANGED <<registryVars, approvalVars, askFallback, wants, forwarded>>,
               NEW s \in {"registered", "waiting", "done"}, AgentAt(r, s)
        PROVE  TypeOK'
    BY <2>3 DEF AgentAt, registryVars, approvalVars, RegistryTypeOK, ApprovalsTypeOK
  <2> QED
    BY <1>3, <2>1, <2>2, <2>3
       DEF AgentStep, RequestReturns, WaitDecision, DecisionArrives, GatewayCallFails
<1>4. ASSUME NEW i \in Calls, NEW s \in {"wake", "wake again", "nudge", "answered"},
             call' = [call EXCEPT ![i] = s],
             UNCHANGED <<conn, nodesById, pendingInvokes, cutOff, approvalVars, execVars>>
      PROVE  TypeOK'
  BY <1>4 DEF approvalVars, execVars, RegistryTypeOK, ApprovalsTypeOK
<1>5. ASSUME NEW i \in Calls, CallNodeInvoke(i) \/ HandlerStep(i) PROVE TypeOK'
  <2>1. ASSUME NEW s \in AfterWake(i), call[i] \in {"wake", "wake again"}
        PROVE  s \in {"wake", "wake again", "nudge", "answered"}
    BY <2>1 DEF AfterWake
  <2> QED
    BY <1>4, <1>5, <2>1, SendTypes DEF CallNodeInvoke, HandlerStep, StartOf, WakeEnds, NudgeEnds
<1>6. CASE UNCHANGED vars
  BY <1>6 DEF vars, registryVars, approvalVars, execVars, RegistryTypeOK, ApprovalsTypeOK
<1> QED BY <1>1, <1>2, <1>3, <1>5, <1>6 DEF Next

(* Connections, calls and approvals keep their types. *)
THEOREM TypeCorrect == Spec => []TypeOK
BY TypeInit, TypeStep, PTL DEF Spec

-----------------------------------------------------------------------------
(* The registry *)

RegistrySafe == PendingHasSession /\ ConnectedIsFound

LEMMA RegistrySafeInit == Init => RegistrySafe
BY DEF Init, RegistryInit, RegistrySafe, PendingHasSession, ConnectedIsFound

LEMMA RegistrySafeStep ==
  ASSUME TypeOK, RegistrySafe, [Next]_vars
  PROVE  RegistrySafe'
<1> USE NodeRegistryAssumption, NodeExecAssumption
    DEF TypeOK, RegistryTypeOK, RegistrySafe, PendingHasSession, ConnectedIsFound, Connected
<1>1. ASSUME NEW c \in Conns, Register(c) PROVE RegistrySafe'
  <2>1. PendingHasSession'
    BY <1>1 DEF Register
  <2>2. ConnectedIsFound'
    <3> SUFFICES ASSUME NEW d \in Conns, conn'[d] = "open", NodeOf[d] \notin cutOff'
                 PROVE  nodesById'[NodeOf[d]] = d
        OBVIOUS
    <3>1. CASE d = c
      BY <1>1, <3>1 DEF Register
    <3>2. CASE d # c
      <4>1. conn[d] = "open" /\ NodeOf[d] # NodeOf[c]
        BY <1>1, <3>2 DEF Register, Registered
      <4>2. nodesById'[NodeOf[d]] = nodesById[NodeOf[d]] /\ NodeOf[d] \notin cutOff
        BY <1>1, <4>1 DEF Register
      <4> QED BY <4>1, <4>2
    <3> QED BY <3>1, <3>2
  <2> QED BY <2>1, <2>2
<1>2. ASSUME NEW c \in Conns, LinkBreaks(c) PROVE RegistrySafe'
  BY <1>2 DEF LinkBreaks
<1>3. ASSUME NEW c \in Conns, Unregister(c) PROVE RegistrySafe'
  <2>1. PendingHasSession'
    BY <1>3 DEF Unregister, Waiting
  <2>2. ConnectedIsFound'
    <3> SUFFICES ASSUME NEW d \in Conns, conn'[d] = "open", NodeOf[d] \notin cutOff'
                 PROVE  nodesById'[NodeOf[d]] = d
        OBVIOUS
    <3>1. d # c /\ conn[d] = "open" /\ NodeOf[d] \notin cutOff
      BY <1>3 DEF Unregister
    <3>2. nodesById[NodeOf[d]] = d
      BY <3>1
    <3>3. nodesById[NodeOf[c]] \notin {c, NoConn} => NodeOf[c] \in cutOff'
      BY <1>3 DEF Unregister
    <3>4. NodeOf[d] # NodeOf[c]
      BY <3>1, <3>2, <3>3
    <3>5. nodesById'[NodeOf[d]] = nodesById[NodeOf[d]]
      BY <1>3, <3>4 DEF Unregister
    <3> QED BY <3>2, <3>5
  <2> QED BY <2>1, <2>2
<1>4. ASSUME NEW i \in Calls, Answered(i) PROVE RegistrySafe'
  BY <1>4 DEF Answered
<1>5. ASSUME NEW i \in Calls, SendToNode(i) PROVE RegistrySafe'
  BY <1>5 DEF SendToNode, Refused, Invoke
<1>6. ASSUME UNCHANGED <<conn, nodesById, pendingInvokes, cutOff>> PROVE RegistrySafe'
  BY <1>6
<1>7. ASSUME NEW r \in Approvals, AgentStep(r) PROVE RegistrySafe'
  BY <1>6, <1>7 DEF AgentStep, StartExec, RequestReturns, WaitDecision, DecisionArrives,
                    GatewayCallFails, Decide, registryVars
<1>8. ASSUME NEW i \in Calls, CallNodeInvoke(i) \/ HandlerStep(i) PROVE RegistrySafe'
  BY <1>5, <1>6, <1>8 DEF CallNodeInvoke, HandlerStep, StartOf, WakeEnds, NudgeEnds
<1>9. CASE UNCHANGED vars \/ (ApprovalsNext /\ UNCHANGED <<registryVars, execVars>>)
  BY <1>6, <1>9 DEF vars, registryVars
<1> QED
  BY <1>1, <1>2, <1>3, <1>4, <1>7, <1>8, <1>9
     DEF Next, RegistryNext, HandleInvokeResult, InvokeTimesOut

(* A call waits only for a node that has a session. *)
THEOREM NoneWaitsForTheGone == Spec => []PendingHasSession
<1>1. TypeOK /\ RegistrySafe /\ [Next]_vars => (TypeOK /\ RegistrySafe)'
  BY TypeStep, RegistrySafeStep
<1> QED BY <1>1, TypeInit, RegistrySafeInit, PTL DEF Spec, RegistrySafe

(* A connected node is found through the connection over which it has      *)
(* registered last, until the close of an older one is handled late.       *)
THEOREM NodesAreFound == Spec => []ConnectedIsFound
<1>1. TypeOK /\ RegistrySafe /\ [Next]_vars => (TypeOK /\ RegistrySafe)'
  BY TypeStep, RegistrySafeStep
<1> QED BY <1>1, TypeInit, RegistrySafeInit, PTL DEF Spec, RegistrySafe

-----------------------------------------------------------------------------
(* Approvals *)

ApprovalInv == RecordMatchesPromise /\ DecisionsAreHonoured

(* An approval that was not requested yet has no entry. *)
UnrequestedHasNone == \A r \in Approvals : request[r] = "idle" => entry[r].at = "none"

LEMMA UnrequestedStep ==
  ASSUME TypeOK, UnrequestedHasNone, [Next]_vars
  PROVE  UnrequestedHasNone'
<1> USE DEF UnrequestedHasNone, TypeOK, ApprovalsTypeOK
<1>1. ASSUME UNCHANGED approvalVars PROVE UnrequestedHasNone'
  BY <1>1 DEF approvalVars
<1>2. ASSUME NEW r \in Approvals, ForwarderReturns(r) PROVE UnrequestedHasNone'
  BY <1>2 DEF ForwarderReturns, Settled
<1>3. ASSUME NEW r \in Approvals, ResolveApproval(r) \/ TimerExpires(r)
      PROVE  UnrequestedHasNone'
  BY <1>3 DEF ResolveApproval, TimerExpires, Settled
<1>4. ASSUME NEW r \in Approvals, DeadlinePasses(r) \/ GraceEnds(r)
      PROVE  UnrequestedHasNone'
  BY <1>4 DEF DeadlinePasses, GraceEnds, Entries
<1>5. ASSUME NEW r \in Approvals, StartExec(r) PROVE UnrequestedHasNone'
  BY <1>5 DEF StartExec, RequestApproval, Entries
<1>6. ASSUME NEW r \in Approvals, AgentStep(r) PROVE UnrequestedHasNone'
  BY <1>1, <1>5, <1>6 DEF AgentStep, RequestReturns, WaitDecision, DecisionArrives,
                          GatewayCallFails, Decide
<1>7. ASSUME NEW i \in Calls, SendToNode(i) PROVE UnrequestedHasNone'
  <2>1. CASE entry' = Consumed(ApprovalOf[i]) /\ request' = request
    BY <2>1, NodeExecAssumption DEF Consumed, Entries
  <2> QED BY <1>1, <1>7, <2>1 DEF SendToNode, Refused
<1>8. ASSUME NEW i \in Calls, CallNodeInvoke(i) \/ HandlerStep(i) PROVE UnrequestedHasNone'
  BY <1>1, <1>7, <1>8 DEF CallNodeInvoke, HandlerStep, StartOf, WakeEnds, NudgeEnds
<1>9. CASE UNCHANGED vars \/ (RegistryNext /\ UNCHANGED <<approvalVars, execVars>>)
  BY <1>1, <1>9 DEF vars
<1> QED BY <1>2, <1>3, <1>4, <1>6, <1>8, <1>9 DEF Next, ApprovalsNext

LEMMA ApprovalInvInit == Init => ApprovalInv
BY DEF Init, ApprovalsInit, Unrequested, ApprovalInv, RecordMatchesPromise,
       DecisionsAreHonoured, ForwardedFor, Decisions

(* A call is sent as approved only under a decision that is still whole,   *)
(* or after the timer has expired the approval.                            *)
LEMMA OnlyOnDecision ==
  ASSUME TypeOK, ApprovalInv, NEW i \in Calls, Approved(i)
  PROVE  LET r == ApprovalOf[i] IN
         /\ entry[r].resolvedBy # "no-approval-route"
         /\ \/ promise[r] \in {"null", "allow-always"} /\ entry[r].decision # "allow-once"
            \/ promise[r] = "allow-once" /\ entry[r].decision = "allow-once"
BY NodeExecAssumption
   DEF TypeOK, ApprovalsTypeOK, Entries, Decisions, ApprovalInv, RecordMatchesPromise, Approved,
       TimedOut, HasSnapshot

LEMMA SettleStep ==
  ASSUME TypeOK, ApprovalInv, NEW r \in Approvals, entry[r].at = "pending",
         NEW d \in Decisions \cup {"undefined"}, NEW by \in {"null", "approver", "no-approval-route"},
         Settled(r, d, IF d = "undefined" THEN "null" ELSE d, by),
         (by = "approver") <=> (d \in Decisions),
         forwarded' = forwarded
  PROVE  ApprovalInv'
<1> USE DEF TypeOK, ApprovalsTypeOK, ApprovalInv, Settled, Decisions, ForwardedFor
<1>1. promise[r] = "unsettled" /\ ForwardedFor(r) = {}
  BY DEF RecordMatchesPromise, DecisionsAreHonoured
<1>2. RecordMatchesPromise'
  BY <1>1 DEF RecordMatchesPromise
<1>3. DecisionsAreHonoured'
  BY <1>1 DEF DecisionsAreHonoured
<1> QED BY <1>2, <1>3

LEMMA SendStep ==
  ASSUME TypeOK, ApprovalInv, NEW i \in Calls, SendToNode(i)
  PROVE  ApprovalInv'
<1> DEFINE r == ApprovalOf[i]
<1> USE NodeExecAssumption DEF TypeOK, ApprovalsTypeOK, ApprovalInv
<1>1. CASE Claims(i) /\ Approved(i) /\ entry' = Consumed(r) /\ promise' = promise
           /\ forwarded' = forwarded \cup {i}
  <2>1. \A q \in Approvals \ {r} : entry'[q] = entry[q] /\ ForwardedFor(q)' = ForwardedFor(q)
    BY <1>1 DEF Consumed, ForwardedFor
  <2>2. /\ entry'[r].at = entry[r].at /\ entry'[r].resolvedBy = entry[r].resolvedBy
        /\ entry'[r].decision =
             IF entry[r].decision = "allow-once" THEN "undefined" ELSE entry[r].decision
    BY <1>1 DEF Consumed, Entries
  <2>3. ForwardedFor(r)' = ForwardedFor(r) \cup {i}
    BY <1>1 DEF ForwardedFor
  <2>4. /\ entry[r].resolvedBy # "no-approval-route"
        /\ \/ promise[r] \in {"null", "allow-always"} /\ entry[r].decision # "allow-once"
           \/ promise[r] = "allow-once" /\ entry[r].decision = "allow-once"
    BY <1>1, OnlyOnDecision
  <2>5. RecordMatchesPromise'
    BY <1>1, <2>1, <2>2, <2>4 DEF RecordMatchesPromise, Decisions
  <2>6. DecisionsAreHonoured'
    BY <1>1, <2>1, <2>2, <2>3, <2>4 DEF RecordMatchesPromise, DecisionsAreHonoured
  <2> QED BY <2>5, <2>6
<1>2. CASE UNCHANGED <<approvalVars, forwarded>>
  BY <1>2 DEF approvalVars, RecordMatchesPromise, DecisionsAreHonoured, ForwardedFor
<1> QED BY <1>1, <1>2 DEF SendToNode, Refused

LEMMA ApprovalInvStep ==
  ASSUME TypeOK, ApprovalInv, UnrequestedHasNone, [Next]_vars
  PROVE  ApprovalInv'
<1>1. ASSUME UNCHANGED <<entry, promise, forwarded>> PROVE ApprovalInv'
  BY <1>1 DEF ApprovalInv, RecordMatchesPromise, DecisionsAreHonoured, ForwardedFor
<1>2. CASE RegistryNext /\ UNCHANGED <<approvalVars, execVars>>
  BY <1>1, <1>2 DEF approvalVars, execVars
<1>3. CASE ApprovalsNext /\ UNCHANGED <<registryVars, execVars>>
  <2> USE <1>3 DEF execVars
  <2>1. ASSUME NEW r \in Approvals, ForwarderReturns(r) PROVE ApprovalInv'
    BY <1>1, <2>1, SettleStep DEF ForwarderReturns, Decisions
  <2>2. ASSUME NEW r \in Approvals, ResolveApproval(r) PROVE ApprovalInv'
    BY <2>2, SettleStep DEF ResolveApproval, Decisions
  <2>3. ASSUME NEW r \in Approvals, DeadlinePasses(r) PROVE ApprovalInv'
    BY <1>1, <2>3 DEF DeadlinePasses
  <2>4. ASSUME NEW r \in Approvals, TimerExpires(r) PROVE ApprovalInv'
    BY <2>4, SettleStep DEF TimerExpires, Decisions
  <2>5. ASSUME NEW r \in Approvals, GraceEnds(r) PROVE ApprovalInv'
    BY <2>5 DEF GraceEnds, TypeOK, ApprovalsTypeOK, Entries, ApprovalInv, RecordMatchesPromise,
                DecisionsAreHonoured, ForwardedFor
  <2> QED BY <2>1, <2>2, <2>3, <2>4, <2>5 DEF ApprovalsNext
<1>4. ASSUME NEW r \in Approvals, AgentStep(r) PROVE ApprovalInv'
  <2>1. CASE StartExec(r)
    BY <2>1 DEF StartExec, RequestApproval, TypeOK, ApprovalsTypeOK, Entries, ApprovalInv,
                RecordMatchesPromise, DecisionsAreHonoured, ForwardedFor, UnrequestedHasNone
  <2> QED
    BY <1>1, <1>4, <2>1 DEF AgentStep, RequestReturns, WaitDecision, DecisionArrives,
                            GatewayCallFails, Decide, approvalVars
<1>5. ASSUME NEW i \in Calls, CallNodeInvoke(i) \/ HandlerStep(i) PROVE ApprovalInv'
  BY <1>1, <1>5, SendStep
     DEF CallNodeInvoke, HandlerStep, StartOf, WakeEnds, NudgeEnds, approvalVars, execVars
<1>6. CASE UNCHANGED vars
  BY <1>1, <1>6 DEF vars, approvalVars, execVars
<1> QED BY <1>2, <1>3, <1>4, <1>5, <1>6 DEF Next

(* A one-time decision is spent on one call, and what was not allowed is   *)
(* not sent as approved.                                                   *)
THEOREM DecisionsHold == Spec => []DecisionsAreHonoured
<1> DEFINE Inv == TypeOK /\ UnrequestedHasNone /\ ApprovalInv
<1>1. Init => Inv
  BY TypeInit, ApprovalInvInit DEF Init, ApprovalsInit, UnrequestedHasNone, Unrequested
<1>2. Inv /\ [Next]_vars => Inv'
  BY TypeStep, UnrequestedStep, ApprovalInvStep
<1>3. Inv => DecisionsAreHonoured
  BY DEF ApprovalInv
<1> QED BY <1>1, <1>2, <1>3, PTL DEF Spec

=============================================================================
