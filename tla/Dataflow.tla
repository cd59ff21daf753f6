------------------------------ MODULE Dataflow ------------------------------
(***************************************************************************)
(* What a workflow promises about the data on its connections: a run of a  *)
(* node consumes data that runs of the nodes before it have produced, at   *)
(* most one packet for each of its inputs, and puts one packet on each     *)
(* connection of the outputs it fills. A packet is consumed once, and is   *)
(* never made up. WorkflowExecute implements this.                         *)
(***************************************************************************)
EXTENDS Naturals

CONSTANTS Node,    \* the workflow's nodes
          Trigger  \* the packet an execution starts with

VARIABLES connections, \* [from, out, to, in]
          ending,      \* the nodes that may return nothing
          inFlight,    \* packets produced and not consumed
          runs         \* how often each node ran

flowVars == <<connections, ending, inFlight, runs>>

(* What the next run of n puts on its connections.                         *)
Produced(n, outs) ==
  {[conn |-> c, run |-> runs[n]] : c \in {d \in connections : d.from = n /\ d.out \in outs}}

(* One packet for each input at most; the trigger's packet goes alone.     *)
Consumable(n, packets) ==
  \/ packets = {Trigger}
  \/ /\ \A p \in packets : p # Trigger /\ p.conn.to = n
     /\ \A p, q \in packets : p.conn.in = q.conn.in => p = q

FlowInit == /\ inFlight = {Trigger}
            /\ runs = [n \in Node |-> 0]

(* The packets that a step takes, and those that it adds.                  *)
Taken == inFlight \ inFlight'
Added == inFlight' \ inFlight

Fire(n) ==
  /\ Taken # {} /\ Consumable(n, Taken)
  /\ \E outs \in SUBSET {c.out : c \in connections} : Added = Produced(n, outs)
  /\ runs' = [runs EXCEPT ![n] = @ + 1]

(* A node that returns null ends its branch and leaves no trace.           *)
EndBranch(n) ==
  /\ n \in ending
  /\ Consumable(n, Taken)
  /\ Added = {}
  /\ UNCHANGED runs

FlowNext == /\ UNCHANGED <<connections, ending>>
            /\ \E n \in Node : Fire(n) \/ EndBranch(n)

FlowSpec == FlowInit /\ [][FlowNext]_flowVars
=============================================================================
