------------------------------ MODULE NodeExec ------------------------------
(***************************************************************************)
(* Commands an agent runs on a node after an approval                      *)
(* (agents/bash-tools.exec-host-node.ts): it requests the approval, waits  *)
(* for the decision and calls node.invoke (gateway/server-methods/         *)
(* nodes.ts), which wakes the node if need be, checks the approval         *)
(* (gateway/node-invoke-system-run-approval.ts) and sends the request.     *)
(*                                                                         *)
(* The look at the registry, the check and the send are one synchronous    *)
(* section; each await before it is a step.  Command policy, parameters    *)
(* and the binding of an approval to a node, a client and a command are    *)
(* left out: the calls here carry what the approval was requested for.     *)
(***************************************************************************)
EXTENDS NodeRegistry, ExecApprovals

CONSTANTS
  ApprovalOf,   \* the approval id (runId) of each call
  Fallbacks     \* values of askFallback

ASSUME NodeExecAssumption ==
  /\ ApprovalOf \in [Calls -> Approvals]
  /\ Fallbacks \subseteq {"deny", "allowlist", "full"}

VARIABLES
  askFallback,   \* what the agent does without a decision
  agent,         \* where the agent is with each command
  wants,         \* the approval each call claims
  forwarded      \* calls sent to the node as approved

execVars == <<askFallback, agent, wants, forwarded>>
vars == <<registryVars, approvalVars, execVars>>

Init ==
  /\ RegistryInit /\ ApprovalsInit
  /\ askFallback \in Fallbacks
  /\ agent = [r \in Approvals |-> "idle"]
  /\ wants = [i \in Calls |-> "nothing"]
  /\ forwarded = {}

-----------------------------------------------------------------------------
(* node.invoke                                                             *)

(* The approval ran out without a decision: by its timer, not for want of  *)
(* a route, and not because a decision was consumed.                       *)
TimedOut(r) == entry[r] = [at |-> "resolved", decision |-> "undefined", resolvedBy |-> "null"]

(* sanitizeSystemRunParamsForForwarding: a claim is forwarded as approved  *)
(* if the record says so.                                                  *)
Claims(i) == wants[i] # "nothing"

Approved(i) ==
  LET r == ApprovalOf[i] IN
  /\ HasSnapshot(r) /\ ~expired[r]
  /\ \/ entry[r].decision \in {"allow-once", "allow-always"}
     \/ TimedOut(r) /\ wants[i] = "allow-once"

Refused(i) ==
  /\ call' = [call EXCEPT ![i] = "answered"]
  /\ UNCHANGED <<conn, nodesById, pendingInvokes, cutOff, approvalVars, forwarded>>

(* The synchronous section from the look at the registry to the send; the  *)
(* node may also not allow the command.                                    *)
SendToNode(i) ==
  /\ Connected(Target[i])
  /\ \/ Refused(i)
     \/ /\ Claims(i) /\ Approved(i)
        /\ entry' = Consumed(ApprovalOf[i])
        /\ Invoke(i)
        /\ forwarded' = forwarded \cup {i}
        /\ UNCHANGED <<promise, expired, request, hasClients>>
     \/ /\ ~Claims(i)
        /\ Invoke(i)
        /\ UNCHANGED <<approvalVars, forwarded>>
  /\ UNCHANGED <<askFallback, agent, wants>>

StartOf(i) ==
  \/ SendToNode(i)
  \/ /\ ~Connected(Target[i])
     /\ call' = [call EXCEPT ![i] = "wake"]
     /\ UNCHANGED <<conn, nodesById, pendingInvokes, cutOff, approvalVars, execVars>>

(* The wake-up is sent, and the node has connected or the wait is over; a  *)
(* node that can be woken gets a second wake-up, the last await is for the *)
(* nudge.                                                                  *)
AfterWake(i) ==
  CASE call[i] = "wake" -> {"wake again", "nudge"}
    [] call[i] = "wake again" -> {"nudge"}

WakeEnds(i) ==
  /\ call[i] \in {"wake", "wake again"}
  /\ \/ SendToNode(i)
     \/ /\ ~Connected(Target[i])
        /\ \E s \in AfterWake(i) : call' = [call EXCEPT ![i] = s]
        /\ UNCHANGED <<conn, nodesById, pendingInvokes, cutOff, approvalVars, execVars>>

NudgeEnds(i) ==
  /\ call[i] = "nudge"
  /\ call' = [call EXCEPT ![i] = "answered"]
  /\ UNCHANGED <<conn, nodesById, pendingInvokes, cutOff, approvalVars, execVars>>

-----------------------------------------------------------------------------
(* The agent                                                               *)

AgentAt(r, s) == agent' = [agent EXCEPT ![r] = s]

StartExec(r) ==
  /\ agent[r] = "idle"
  /\ RequestApproval(r)
  /\ AgentAt(r, "requesting")
  /\ UNCHANGED <<registryVars, askFallback, wants, forwarded>>

(* What the agent claims of node.invoke, "denied" if it does not call it. *)
Claim(d) ==
  CASE d \in {"allow-once", "allow-always"} -> d
    [] d = "null" /\ askFallback = "full" -> "allow-once"
    [] d = "null" /\ askFallback = "allowlist" -> "nothing"
    [] OTHER -> "denied"

Decide(r, d) ==
  /\ IF Claim(d) = "denied" THEN AgentAt(r, "done") /\ UNCHANGED wants
     ELSE /\ AgentAt(r, "calling")
          /\ wants' = [i \in Calls |-> IF ApprovalOf[i] = r THEN Claim(d) ELSE wants[i]]
  /\ UNCHANGED <<registryVars, approvalVars, askFallback, forwarded>>

(* The answer to the request is final without a route. *)
RequestReturns(r) ==
  /\ agent[r] = "requesting"
  /\ \/ request[r] = "unrouted" /\ Decide(r, "null")
     \/ /\ request[r] = "accepted" /\ AgentAt(r, "registered")
        /\ UNCHANGED <<registryVars, approvalVars, askFallback, wants, forwarded>>

(* exec.approval.waitDecision: an entry that is gone is no decision. *)
WaitDecision(r) ==
  /\ agent[r] = "registered"
  /\ \/ ~HasSnapshot(r) /\ Decide(r, "null")
     \/ /\ HasSnapshot(r) /\ AgentAt(r, "waiting")
        /\ UNCHANGED <<registryVars, approvalVars, askFallback, wants, forwarded>>

DecisionArrives(r) ==
  /\ agent[r] = "waiting" /\ promise[r] # "unsettled"
  /\ Decide(r, promise[r])

(* A call of the gateway fails or times out. *)
GatewayCallFails(r) ==
  /\ agent[r] \in {"requesting", "registered", "waiting"}
  /\ AgentAt(r, "done")
  /\ UNCHANGED <<registryVars, approvalVars, askFallback, wants, forwarded>>

(* The agent calls node.invoke; the call may be repeated with its runId. *)
CallNodeInvoke(i) ==
  /\ agent[ApprovalOf[i]] = "calling"
  /\ call[i] = "idle"
  /\ StartOf(i)

-----------------------------------------------------------------------------
AgentStep(r) ==
  \/ StartExec(r) \/ RequestReturns(r) \/ WaitDecision(r)
  \/ DecisionArrives(r) \/ GatewayCallFails(r)

HandlerStep(i) == WakeEnds(i) \/ NudgeEnds(i)

Next ==
  \/ RegistryNext /\ UNCHANGED <<approvalVars, execVars>>
  \/ ApprovalsNext /\ UNCHANGED <<registryVars, execVars>>
  \/ \E r \in Approvals : AgentStep(r)
  \/ \E i \in Calls : CallNodeInvoke(i) \/ HandlerStep(i)

(* Wake-ups and nudges answer or time out, and so do requests to a node.   *)
Fairness ==
  \A i \in Calls :
    /\ WF_vars(HandlerStep(i))
    /\ WF_vars(InvokeTimesOut(i) /\ UNCHANGED <<approvalVars, execVars>>)

Spec == Init /\ [][Next]_vars
FairSpec == Spec /\ Fairness

-----------------------------------------------------------------------------
(***************************************************************************)
(* Properties                                                              *)
(***************************************************************************)

(* Connections, calls and approvals have their types. *)
TypeOK ==
  /\ RegistryTypeOK /\ ApprovalsTypeOK
  /\ agent \in [Approvals -> {"idle", "requesting", "registered", "waiting", "calling", "done"}]
  /\ wants \in [Calls -> {"nothing", "allow-once", "allow-always"}]
  /\ forwarded \subseteq Calls

(* The calls of an approval that were sent as approved. *)
ForwardedFor(r) == {i \in forwarded : ApprovalOf[i] = r}

(* "One-time approvals must be consumed atomically": under a decision      *)
(* allow-once at most one call is sent to the node as approved, however    *)
(* calls of one runId, wake-ups and the grace period interleave; under a   *)
(* denial, without a route, and before there is a decision, none is.       *)
DecisionsAreHonoured ==
  \A r \in Approvals :
    /\ promise[r] = "allow-once" => \A i, j \in ForwardedFor(r) : i = j
    /\ promise[r] \in {"unsettled", "deny"} => ForwardedFor(r) = {}
    /\ entry[r].resolvedBy = "no-approval-route" => ForwardedFor(r) = {}

(* Record and promise agree: the record loses its decision only when a     *)
(* one-time decision is consumed, and before that nothing was sent.        *)
RecordMatchesPromise ==
  \A r \in Approvals :
    LET e == entry[r] IN
    /\ e.at \in {"none", "pending"} <=> promise[r] = "unsettled"
    /\ promise[r] = "unsettled" => e.decision = "undefined" /\ e.resolvedBy = "null"
    /\ promise[r] = "null" => e.decision = "undefined" /\ e.resolvedBy # "approver"
    /\ promise[r] \in Decisions => e.resolvedBy = "approver"
    /\ promise[r] \in {"allow-always", "deny"} => e.decision = promise[r]
    /\ promise[r] = "allow-once" =>
         \/ e.decision = "allow-once" /\ ForwardedFor(r) = {}
         \/ e.decision = "undefined"

(* A call waits for an answer only of a node that has a session: no close  *)
(* and no reconnect leaves one behind for its timeout.                     *)
PendingHasSession == \A i \in pendingInvokes : Connected(Target[i])

(* A connected node is found, through the connection it has registered     *)
(* last, whatever its former ones do, until the close of one of them is    *)
(* handled late.                                                           *)
ConnectedIsFound ==
  \A c \in Conns : conn[c] = "open" /\ NodeOf[c] \notin cutOff => nodesById[NodeOf[c]] = c

(* Every call of node.invoke is answered, also when the node is away, and  *)
(* when its connection is closed or replaced while the call waits.         *)
CallsAreAnswered == \A i \in Calls : (call[i] # "idle") ~> (call[i] = "answered")

=============================================================================
