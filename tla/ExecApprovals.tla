---------------------------- MODULE ExecApprovals ----------------------------
(***************************************************************************)
(* Approvals of commands (gateway/exec-approval-manager.ts) and the        *)
(* handlers exec.approval.request and exec.approval.resolve                *)
(* (gateway/server-methods/exec-approval.ts).                              *)
(*                                                                         *)
(* The manager keeps the record of an approval and the promise of its      *)
(* decision; the two differ once a one-time decision is consumed.  An      *)
(* approval id is requested once (the caller draws it at random).          *)
(***************************************************************************)

CONSTANTS Approvals   \* approval ids

Decisions == {"allow-once", "allow-always", "deny"}

VARIABLES
  entry,       \* the record, with its place in `pending`
  promise,     \* what the decision promise was resolved with
  expired,     \* now is past expiresAtMs
  request,     \* where exec.approval.request is
  hasClients   \* approvals that found an approval client at their request

approvalVars == <<entry, promise, expired, request, hasClients>>

Unrequested == [at |-> "none", decision |-> "undefined", resolvedBy |-> "null"]

ApprovalsInit ==
  /\ entry = [r \in Approvals |-> Unrequested]
  /\ promise = [r \in Approvals |-> "unsettled"]
  /\ expired = [r \in Approvals |-> FALSE]
  /\ request = [r \in Approvals |-> "idle"]
  /\ hasClients = {}

(* resolve and expire: the record and the promise get their decision, for  *)
(* expire undefined and null; an entry that has one keeps it.              *)
Settled(r, decision, answer, by) ==
  /\ entry' = [entry EXCEPT ![r] = [at |-> "resolved", decision |-> decision,
                                    resolvedBy |-> by]]
  /\ promise' = [promise EXCEPT ![r] = answer]

(* create, register and broadcast. *)
RequestApproval(r) ==
  /\ request[r] = "idle"
  /\ entry' = [entry EXCEPT ![r].at = "pending"]
  /\ request' = [request EXCEPT ![r] = "forwarding"]
  /\ \/ hasClients' = hasClients \cup {r}
     \/ UNCHANGED hasClients
  /\ UNCHANGED <<promise, expired>>

(* The forwarder has answered.  Without a route the approval expires and   *)
(* the caller is told there is no decision, which may have come meanwhile. *)
ForwarderReturns(r) ==
  /\ request[r] = "forwarding"
  /\ \/ /\ request' = [request EXCEPT ![r] = "accepted"]
        /\ UNCHANGED <<entry, promise>>
     \/ /\ r \notin hasClients
        /\ request' = [request EXCEPT ![r] = "unrouted"]
        /\ IF entry[r].at = "pending"
           THEN Settled(r, "undefined", "null", "no-approval-route")
           ELSE UNCHANGED <<entry, promise>>
  /\ UNCHANGED <<expired, hasClients>>

(* An approver decides. *)
ResolveApproval(r) ==
  /\ entry[r].at = "pending"
  /\ \E d \in Decisions : Settled(r, d, d, "approver")
  /\ UNCHANGED <<expired, request, hasClients>>

(* The clock passes expiresAtMs, and the timer of register fires; it may   *)
(* do so in the very millisecond of expiresAtMs.                           *)
DeadlinePasses(r) ==
  /\ entry[r].at # "none" /\ ~expired[r]
  /\ expired' = [expired EXCEPT ![r] = TRUE]
  /\ UNCHANGED <<entry, promise, request, hasClients>>

TimerExpires(r) ==
  /\ entry[r].at = "pending"
  /\ Settled(r, "undefined", "null", "null")
  /\ UNCHANGED <<expired, request, hasClients>>

(* The grace period of a resolved entry is over. *)
GraceEnds(r) ==
  /\ entry[r].at = "resolved"
  /\ entry' = [entry EXCEPT ![r].at = "deleted"]
  /\ UNCHANGED <<promise, expired, request, hasClients>>

(* getSnapshot finds a record. *)
HasSnapshot(r) == entry[r].at \in {"pending", "resolved"}

(* consumeAllowOnce, on the entries. *)
Consumed_Never(r) == entry   \* bug: the decision stays for the grace period
Consumed(r) ==
  IF entry[r].decision = "allow-once" THEN [entry EXCEPT ![r].decision = "undefined"]
  ELSE entry

ApprovalsNext ==
  \E r \in Approvals :
    \/ ForwarderReturns(r) \/ ResolveApproval(r)
    \/ DeadlinePasses(r) \/ TimerExpires(r) \/ GraceEnds(r)

-----------------------------------------------------------------------------
(* The types of the manager's and the handler's state. *)
Entries == [at : {"none", "pending", "resolved", "deleted"},
            decision : Decisions \cup {"undefined"},
            resolvedBy : {"null", "approver", "no-approval-route"}]

ApprovalsTypeOK ==
  /\ entry \in [Approvals -> Entries]
  /\ promise \in [Approvals -> Decisions \cup {"unsettled", "null"}]
  /\ expired \in [Approvals -> BOOLEAN]
  /\ request \in [Approvals -> {"idle", "forwarding", "accepted", "unrouted"}]
  /\ hasClients \subseteq Approvals

=============================================================================
