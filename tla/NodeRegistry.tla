---------------------------- MODULE NodeRegistry ----------------------------
(***************************************************************************)
(* The sessions of connected nodes and the requests sent to them           *)
(* (gateway/node-registry.ts), with the WebSocket connections that         *)
(* register and unregister a node (gateway/server/ws-connection.ts).       *)
(*                                                                         *)
(* A node connects again over a new connection when its link breaks or     *)
(* while the old one is still open, and the gateway may handle the close   *)
(* of the old one only after that.  The handshake has awaits and does not  *)
(* look again whether the connection is still there, so one may register   *)
(* whose close has already been handled.  The actions of this module are   *)
(* the registry's; node.invoke, which uses Invoke, is in NodeExec.         *)
(***************************************************************************)

CONSTANTS
  Nodes,    \* node ids
  Conns,    \* connections of nodes
  NodeOf,   \* the node at the other end of each connection
  NoConn,
  Calls,    \* calls of node.invoke
  Target    \* the node of each call

ASSUME NodeRegistryAssumption ==
  /\ NodeOf \in [Conns -> Nodes]
  /\ NoConn \notin Conns
  /\ Target \in [Calls -> Nodes]

VARIABLES
  conn,            \* each connection; all but "new" and "closed" ones are in
                   \* nodesByConn: "open", "lost" (broken, or the node has
                   \* registered anew), "ghost" (closed before it registered)
  nodesById,       \* the connection of the session of each node, if any
  pendingInvokes,  \* calls that wait for the node's answer
  call,            \* where each call of node.invoke is
  cutOff           \* nodes whose session the close of an older connection took

registryVars == <<conn, nodesById, pendingInvokes, call, cutOff>>

RegistryInit ==
  /\ conn = [c \in Conns |-> "new"]
  /\ nodesById = [n \in Nodes |-> NoConn]
  /\ pendingInvokes = {}
  /\ call = [i \in Calls |-> "idle"]
  /\ cutOff = {}

Connected(n) == nodesById[n] # NoConn

(* A new connection is any that its node has not used: they differ only in *)
(* their names.                                                            *)
IsNext(c) == c = CHOOSE d \in Conns : NodeOf[d] = NodeOf[c] /\ conn[d] = "new"

(* A node registers, over a connection that is there or is gone already.   *)
Registered(c, s) ==
  [d \in Conns |-> IF d = c THEN s
                   ELSE IF NodeOf[d] = NodeOf[c] /\ conn[d] = "open" THEN "lost"
                   ELSE conn[d]]

Register_KeepsSession(c) ==   \* bug: a session that is still listed is kept
  /\ conn[c] = "new" /\ IsNext(c)
  /\ \E s \in {"open", "ghost"} : conn' = Registered(c, s)
  /\ nodesById' = [nodesById EXCEPT ![NodeOf[c]] = IF @ = NoConn THEN c ELSE @]
  /\ cutOff' = cutOff \ {NodeOf[c]}
  /\ UNCHANGED <<pendingInvokes, call>>
Register(c) ==
  /\ conn[c] = "new" /\ IsNext(c)
  /\ \E s \in {"open", "ghost"} : conn' = Registered(c, s)
  /\ nodesById' = [nodesById EXCEPT ![NodeOf[c]] = c]
  /\ cutOff' = cutOff \ {NodeOf[c]}
  /\ UNCHANGED <<pendingInvokes, call>>

LinkBreaks(c) ==
  /\ conn[c] = "open"
  /\ conn' = [conn EXCEPT ![c] = "lost"]
  /\ UNCHANGED <<nodesById, pendingInvokes, call, cutOff>>

(* The calls that unregister rejects: all that wait for the node. *)
Waiting(n) == {i \in pendingInvokes : Target[i] = n}

(* The close of a connection is handled: unregister takes the node's       *)
(* session, whichever connection it belongs to.                            *)
Unregister_LeavesPending(c) ==   \* bug: pending calls are left behind
  /\ conn[c] \in {"open", "lost"}
  /\ conn' = [conn EXCEPT ![c] = "closed"]
  /\ nodesById' = [nodesById EXCEPT ![NodeOf[c]] = NoConn]
  /\ cutOff' = IF nodesById[NodeOf[c]] \in {c, NoConn} THEN cutOff
               ELSE cutOff \cup {NodeOf[c]}
  /\ UNCHANGED <<pendingInvokes, call>>
Unregister_NotRejected(c) ==   \* bug: timers are cleared, promises not rejected
  /\ conn[c] \in {"open", "lost"}
  /\ conn' = [conn EXCEPT ![c] = "closed"]
  /\ nodesById' = [nodesById EXCEPT ![NodeOf[c]] = NoConn]
  /\ cutOff' = IF nodesById[NodeOf[c]] \in {c, NoConn} THEN cutOff
               ELSE cutOff \cup {NodeOf[c]}
  /\ pendingInvokes' = pendingInvokes \ Waiting(NodeOf[c])
  /\ UNCHANGED call
Unregister(c) ==
  /\ conn[c] \in {"open", "lost"}
  /\ conn' = [conn EXCEPT ![c] = "closed"]
  /\ nodesById' = [nodesById EXCEPT ![NodeOf[c]] = NoConn]
  /\ cutOff' = IF nodesById[NodeOf[c]] \in {c, NoConn} THEN cutOff
               ELSE cutOff \cup {NodeOf[c]}
  /\ pendingInvokes' = pendingInvokes \ Waiting(NodeOf[c])
  /\ call' = [i \in Calls |-> IF i \in Waiting(NodeOf[c]) THEN "answered" ELSE call[i]]

(* invoke, for a node that has a session: the request is handed to the     *)
(* socket, or the send throws.                                             *)
Invoke(i) ==
  /\ Connected(Target[i])
  /\ \/ /\ pendingInvokes' = pendingInvokes \cup {i}
        /\ call' = [call EXCEPT ![i] = "pending"]
     \/ /\ call' = [call EXCEPT ![i] = "answered"]
        /\ UNCHANGED pendingInvokes
  /\ UNCHANGED <<conn, nodesById, cutOff>>

Answered(i) ==
  /\ i \in pendingInvokes
  /\ pendingInvokes' = pendingInvokes \ {i}
  /\ call' = [call EXCEPT ![i] = "answered"]
  /\ UNCHANGED <<conn, nodesById, cutOff>>

(* The node answers, over any of its connections, or its answer was under  *)
(* way when one broke; an answer to a call that is not pending is ignored. *)
HandleInvokeResult(i) ==
  /\ \E c \in Conns : NodeOf[c] = Target[i] /\ conn[c] \in {"open", "lost"}
  /\ Answered(i)

InvokeTimesOut(i) == Answered(i)

RegistryNext ==
  \/ \E c \in Conns : Register(c) \/ LinkBreaks(c) \/ Unregister(c)
  \/ \E i \in Calls : HandleInvokeResult(i) \/ InvokeTimesOut(i)

-----------------------------------------------------------------------------
(* The types of the registry's state. *)
RegistryTypeOK ==
  /\ conn \in [Conns -> {"new", "open", "lost", "closed", "ghost"}]
  /\ nodesById \in [Nodes -> Conns \cup {NoConn}]
  /\ pendingInvokes \subseteq Calls /\ cutOff \subseteq Nodes
  /\ call \in [Calls -> {"idle", "wake", "wake again", "nudge", "pending", "answered"}]

=============================================================================
