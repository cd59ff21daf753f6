------------------------ MODULE MCPartialExecution ------------------------
(* Workflows for TLC.                                                      *)
EXTENDS PartialExecution, MCWorkflowExecute

Tool(f, t) == [Conn(f, 0, t, 0) EXCEPT !.type = "ai_tool"]

(* The editor's view of a workflow: any one of its nodes may be dirty.     *)
Edited(w) ==
  w @@ [triggers |-> {1}, splits |-> {}, dirty |-> {{}} \cup {{n} : n \in 1 .. 5}]

(* Both outputs of node 2 have data.                                       *)
Both == [Straight EXCEPT ![2] = {{0, 1}}]

PartialMerges == {[Edited(Workflow(c, p, Both)) EXCEPT !.dirty = {{}, {3}}] : c \in Merging(1), p \in Places}

(* The loop nodes are splitInBatches.                                      *)
PartialLoops == {[Edited(Workflow(Loop, p, Straight)) EXCEPT !.loops = {2}, !.splits = {2}] : p \in Places}

(* The cycle is entered at 2 and left from 3.                              *)
Cycle == <<Conn(1, 0, 2, 0), Conn(2, 0, 3, 0), Conn(3, 1, 2, 0), Conn(3, 0, 4, 0), Conn(4, 0, 5, 0)>>

Cycles == {[Edited(Workflow(Cycle, p, Straight)) EXCEPT !.loops = {3}, !.splits = {3}, !.pinned = q] :
             p \in Places, q \in {{}, {4}}}

(* Agents 2 and 3, one after the other, and their tools; two triggers.     *)
PartialAgents ==
  {[Edited(Workflow(<<Conn(1, 0, 2, 0), Conn(2, 0, 3, 0), Tool(4, 2), Tool(5, 3)>>, p, Straight))
      EXCEPT !.tools = [x \in {2} |-> <<4>>] @@ [x \in {3} |-> <<5, 5>>]] : p \in Places}

TwoTriggers ==
  {[Edited(Workflow(<<Conn(1, 0, 2, 0), Conn(5, 0, 3, 0), Conn(2, 0, 3, 0), Conn(3, 0, 4, 0)>>, p, Straight))
      EXCEPT !.triggers = {1, 5}, !.pinned = q] : p \in Places, q \in {{}, {2}, {3}, {5}}}

(* One of the nodes may fail.                                              *)
Line == <<Conn(1, 0, 2, 0), Conn(2, 0, 3, 0), Conn(3, 0, 4, 0), Conn(4, 0, 5, 0)>>

FailingLines == {Set(Edited(Workflow(Line, p, Straight)), "fails", n) : p \in Places, n \in 2 .. 5}

Failing ==
  LET conns    == SelectSeq(Diamond, LAMBDA c : <<c.from, c.to>> # <<2, 5>>)
      diamonds == {[Edited(Workflow(conns, p, Both)) EXCEPT !.dirty = {{}, {3}}] : p \in Places}
  IN  FailingLines \cup {Set(w, "fails", n) : w \in diamonds \cup PartialLoops \cup Cycles, n \in 2 .. 5}

AllPartial == PartialMerges \cup PartialLoops \cup Cycles \cup PartialAgents \cup TwoTriggers \cup Failing

(* The third of five nodes is disabled.                                    *)
OneDisabled ==
  {[Edited(Workflow(Line, p, Straight)) EXCEPT !.disabled = {3}] : p \in Places}
============================================================================
