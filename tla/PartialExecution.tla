-------------------------- MODULE PartialExecution --------------------------
(***************************************************************************)
(* Partial executions: after a full one the editor executes a node again,  *)
(* with only what it needs of the rest. runPartialWorkflow2 finds the nodes*)
(* that lead to the destination, those to start from, drops the run data   *)
(* after them and recreates the engine's stack; the engine does the rest.  *)
(*                                                                         *)
(* A graph has its nodes and connections in the order of the Maps that     *)
(* DirectedGraph keeps them in. Tools as destinations are left out.        *)
(***************************************************************************)
EXTENDS WorkflowExecute

VARIABLES phase,  \* "full", then "partial"
          ended,  \* how the full execution ended
          before, \* its run data
          dirty,  \* dirtyNodeNames
          kept    \* the nodes whose run data the partial execution starts with

partialVars == <<vars, phase, ended, before, dirty, kept>>

AddNew(s, x) == IF x \in ToSet(s) THEN s ELSE Append(s, x)

-----------------------------------------------------------------------------
(* DirectedGraph                                                           *)

Graph == [nodes |-> SetToSortSeq(Node, <), conns |-> wf.conns]

DirectChildConnections(g, n)  == SelectSeq(g.conns, LAMBDA c : c.from = n)
DirectParentConnections(g, n) == SelectSeq(g.conns, LAMBDA c : c.to = n)

(* getChildren and, for the connections, getParentConnections. A node is a *)
(* child of itself only in a cycle.                                        *)
Grown(S, k, grow(_)) ==
  LET grown[i \in 0 .. k] == IF i = 0 THEN S ELSE LET T == grown[i - 1] IN T \cup grow(T)
  IN  grown[k]

Children(g, n) ==
  LET after(S) == {c.to : c \in {d \in ToSet(g.conns) : d.from \in S}}
  IN  Grown(after({n}), Len(g.nodes), after)

ParentConnections(g, n) ==
  LET into(S) == {c \in ToSet(g.conns) : c.to \in {d.from : d \in S}}
  IN  Grown({c \in ToSet(g.conns) : c.to = n}, Len(g.conns), into)

(* removeNode with reconnectConnections, for main connections.             *)
RemoveNode(g, n) ==
  LET main(c) == c.type = "main"
      in      == SelectSeq(DirectParentConnections(g, n), main)
      out     == SelectSeq(DirectChildConnections(g, n), main)
      new     == FlattenSeq([i \in DOMAIN in |->
                   [j \in DOMAIN out |-> [in[i] EXCEPT !.to = out[j].to, !.in = out[j].in]]])
  IN  [nodes |-> SelectSeq(g.nodes, LAMBDA m : m # n),
       conns |-> FoldLeft(AddNew, SelectSeq(g.conns, LAMBDA c : n \notin {c.from, c.to}), new)]

FilterDisabledNodes(g) ==
  FoldLeft(RemoveNode, g, SelectSeq(g.nodes, LAMBDA n : n \in wf.disabled))

(* getStronglyConnectedComponents: t holds the numbers given so far, the   *)
(* low links, the stack and the components found.                          *)
RECURSIVE FollowNode(_, _, _)
FollowNode(g, t, n) ==
  IF n \in DOMAIN t.ids THEN t
  ELSE LET id == Cardinality(DOMAIN t.ids)
           t0 == [t EXCEPT !.ids = @ @@ (n :> id), !.low = @ @@ (n :> id), !.stack = Append(@, n)]
           follow(s, c) ==
             LET f == FollowNode(g, s, c.to)
             IN  IF c.to \in ToSet(f.stack)
                 THEN [f EXCEPT !.low[n] = Least({@, f.low[c.to]})] ELSE f
           t1 == FoldLeft(follow, t0, DirectChildConnections(g, n))
           other == {i \in DOMAIN t1.stack : t1.low[t1.stack[i]] # id}
           from  == IF other = {} THEN 0 ELSE Largest(other)
       IN  IF t1.low[n] # id THEN t1
           ELSE [t1 EXCEPT !.stack = SubSeq(@, 1, from),
                           !.sccs = IF from = Len(t1.stack) THEN @
                                    ELSE @ \cup {ToSet(SubSeq(t1.stack, from + 1, Len(t1.stack)))}]

StronglyConnectedComponents(g) ==
  FoldLeft(LAMBDA t, n : FollowNode(g, t, n),
           [ids |-> <<>>, low |-> <<>>, stack |-> <<>>, sccs |-> {}], g.nodes).sccs

(* depthFirstSearch for a node of S; Null when there is none.              *)
RECURSIVE Search(_, _, _, _)
Search(g, S, r, n) ==
  IF r.found # Null \/ n \in r.seen THEN r
  ELSE LET next == [r EXCEPT !.seen = @ \cup {n}]
       IN  IF n \in S THEN [next EXCEPT !.found = n]
           ELSE FoldLeft(LAMBDA q, c : Search(g, S, q, c.to), next, DirectChildConnections(g, n))

DepthFirstSearch(g, from, S) == Search(g, S, [seen |-> {}, found |-> Null], from).found

-----------------------------------------------------------------------------
(* findSubgraph                                                            *)

(* Mutant of KeepBranch: not from a node that is in the graph already.     *)
KeepBranchOnce(sub, branch) ==
  IF sub.nodes # <<>> /\ branch # <<>> /\ Last(branch).from \in ToSet(sub.nodes) THEN sub
  ELSE FoldLeft(LAMBDA s, c : [nodes |-> AddNew(AddNew(s.nodes, c.from), c.to), conns |-> AddNew(s.conns, c)],
                sub, branch)

KeepBranch(sub, branch) ==
  FoldLeft(LAMBDA s, c : [nodes |-> AddNew(AddNew(s.nodes, c.from), c.to), conns |-> AddNew(s.conns, c)],
           sub, branch)

RECURSIVE FindSubgraphRecursive(_, _, _, _, _, _)
FindSubgraphRecursive(g, dest, trigger, sub, at, branch) ==
  LET parents  == DirectParentConnections(g, at)
      visited  == \E c \in ToSet(branch) : c.to = at
      parent(s, c) == IF c.type # "main" THEN s
                      ELSE FindSubgraphRecursive(g, dest, trigger, s, c.from, Append(branch, c))
  IN  IF at = trigger THEN KeepBranch([sub EXCEPT !.nodes = AddNew(@, trigger)], branch)
      ELSE IF parents = <<>> \/ (visited /\ at = dest) THEN sub
      ELSE IF visited THEN KeepBranch(sub, branch)
      ELSE FoldLeft(parent, sub, parents)

(* With the sub-nodes of all nodes found and of those before them.         *)
FindSubgraph(g, dest, trigger) ==
  LET sub == FindSubgraphRecursive(g, dest, trigger, [nodes |-> <<>>, conns |-> <<>>], dest, <<>>)
      utility(n) == SelectSeq(g.conns, LAMBDA c : c \in ParentConnections(g, n) /\ c.type # "main")
  IN  FoldLeft(LAMBDA s, n : KeepBranch(s, utility(n)), sub, sub.nodes)

-----------------------------------------------------------------------------
(* findStartNodes, handleCycles, cleanRunData                              *)

IsDirty(data, n) == n \notin wf.pinned /\ data[n] = <<>>

(* getIncomingDataFromAnyRun: the first run with data on this output.      *)
RunsWithData(data, n, out) == {i \in DOMAIN data[n] : out \in data[n][i].outs}

LoopUnfinished(data, n) ==
  n \in wf.splits /\ (data[n] = <<>> \/ 0 \notin Last(data[n]).outs)

RECURSIVE FindStartNodesRecursive(_, _, _, _, _, _)
FindStartNodesRecursive(g, dest, data, starts, n, seen) ==
  LET child(s, c) ==
        IF n \notin wf.pinned /\ RunsWithData(data, n, c.out) = {} THEN s
        ELSE FindStartNodesRecursive(g, dest, data, s, c.to, seen \cup {n})
  IN  IF IsDirty(data, n) \/ n = dest \/ LoopUnfinished(data, n) THEN AddNew(starts, n)
      ELSE IF n \in seen THEN starts
      ELSE FoldLeft(child, starts, DirectChildConnections(g, n))

FindStartNodes(g, trigger, dest, data) ==
  FindStartNodesRecursive(g, dest, data, <<>>, trigger, {})

(* Mutant of HandleCycles: a start node within a cycle stays one.          *)
HandleCyclesNot(g, starts, trigger) == starts

HandleCycles(g, starts, trigger) ==
  LET cycles == SetToSeq(StronglyConnectedComponents(g))
      replace(new, n) ==
        FoldLeft(LAMBDA s, cycle :
                   IF n \notin cycle THEN s
                   ELSE AddNew(SelectSeq(s, LAMBDA m : m # n), DepthFirstSearch(g, trigger, cycle)),
                 new, cycles)
  IN  FoldLeft(replace, starts, starts)

(* Mutant of CleanRunData: only the nodes themselves lose their data.      *)
CleanRunDataOfNodes(data, g, nodes) ==
  [n \in Node |-> IF n \in nodes \/ n \notin ToSet(g.nodes) THEN <<>> ELSE data[n]]

CleanRunData(data, g, nodes) ==
  LET after == nodes \cup UNION {Children(g, n) : n \in nodes}
      subs  == {c.from : c \in {d \in UNION {ParentConnections(g, n) : n \in after} : d.type # "main"}}
  IN  [n \in Node |-> IF n \in after \cup subs \/ n \notin ToSet(g.nodes) THEN <<>> ELSE data[n]]

-----------------------------------------------------------------------------
(* getSourceDataGroups, recreateNodeExecutionStack                         *)

Available(data, c) == data[c.from] # <<>> \/ c.from \in wf.pinned

(* One connection for each input in turn, those with data first; a gap in  *)
(* the inputs that are left ends a group. This takes the next connection.  *)
RECURSIVE Group(_, _, _, _, _)
Group(data, left, group, at, groups) ==
  LET here == {i \in DOMAIN left : left[i].in = at}
      full == {i \in here : Available(data, left[i])}
      i    == Least(IF full # {} THEN full ELSE here)
  IN  IF left = <<>> THEN Append(groups, group)
      ELSE IF here # {}
      THEN Group(data, RemoveAt(left, i),
                 [conns |-> Append(group.conns, left[i]), complete |-> group.complete /\ full # {}],
                 at + 1, groups)
      ELSE Group(data, left, [conns |-> <<>>, complete |-> TRUE],
                 Least({left[j].in : j \in DOMAIN left}), Append(groups, group))

SourceDataGroups(g, n, data) ==
  LET conns == {c \in ToSet(g.conns) : c.to = n /\ (c.type = "main" \/ Available(data, c))}
      byInputThenName(c, d) == c.in < d.in \/ (c.in = d.in /\ c.from < d.from)
  IN  IF conns = {} THEN <<>>
      ELSE Group(data, SetToSortSeq(conns, byInputThenName), [conns |-> <<>>, complete |-> TRUE],
                 Least({c.in : c \in conns}), <<>>)

(* The first packet with data on a connection; runs are numbered from 0. A *)
(* packet is the data: in a group that waits the code labels its source    *)
(* with the index of the group instead of this run, and in a complete one  *)
(* it also names the sources without data. Only paired items look there.   *)
FirstPacket(data, c) ==
  [conn |-> c, run |-> IF c.from \in wf.pinned THEN 0 ELSE Least(RunsWithData(data, c.from, c.out)) - 1]

AddGroup(q, n, data, group) ==
  LET entries == EntriesOf(q.w, n)
      filled  == SelectSeq(group.conns, LAMBDA c : RunsWithData(data, c.from, c.out) # {})
      main    == FoldLeft(LAMBDA m, c : Fill(m, c.in, FirstPacket(data, c)), <<>>, filled)
      given   == SelectSeq(group.conns, LAMBDA c : \/ c.from \in wf.pinned
                                                   \/ RunsWithData(data, c.from, c.out) # {})
  IN  IF group.complete
      THEN [q EXCEPT !.s = Append(@, Item(n, [i \in DOMAIN given |-> FirstPacket(data, given[i])]))]
      ELSE IF filled = <<>> THEN q
      ELSE [q EXCEPT !.w = SetEntries(@, n, With(entries, Cardinality(DOMAIN entries), main))]

RecreateNodeExecutionStack(g, starts, data) ==
  LET add(q, n) ==
        IF SelectSeq(DirectParentConnections(g, n), LAMBDA c : c.type = "main") = <<>>
        THEN [q EXCEPT !.s = Append(@, Item(n, <<Trigger>>))]
        ELSE FoldLeft(LAMBDA p, group : AddGroup(p, n, data, group), q, SourceDataGroups(g, n, data))
  IN  FoldLeft(add, [s |-> <<>>, w |-> <<>>], starts)

-----------------------------------------------------------------------------
(* findTriggerForPartialExecution: a trigger before the destination, one   *)
(* that has run if there is any; else a node before it that has run.       *)
TriggersFor(dest, data) ==
  LET parents  == ParentNodes(dest)
      ran      == {n \in parents : data[n] # <<>>}
      triggers == (parents \cap wf.triggers) \ wf.disabled
  IN  IF dest \in wf.triggers \ wf.disabled THEN {dest}
      ELSE IF triggers \cap ran # {} THEN triggers \cap ran
      ELSE IF triggers \cap wf.pinned # {} THEN triggers \cap wf.pinned
      ELSE IF triggers # {} THEN triggers ELSE ran

(* The engine goes on from these start nodes of this graph.                *)
Execute(g, dest, starts, data) ==
  LET clean == CleanRunData(data, g, ToSet(starts))
      q     == RecreateNodeExecutionStack(g, starts, clean)
  IN  /\ runData' = clean
      /\ stack' = q.s /\ waiting' = q.w
      /\ filter' = ToSet(g.nodes) /\ destination' = dest
      /\ kept' = {n \in Node : clean[n] # <<>>}

(* Mutant of FromTrigger: the run data of dirty nodes is not dropped.      *)
FromTriggerIgnoringDirty(dest, trigger, changed) ==
  LET g == FindSubgraph(FilterDisabledNodes(Graph), dest, trigger)
  IN  Execute(g, dest, HandleCycles(g, FindStartNodes(g, trigger, dest, runData), trigger), runData)

(* runPartialWorkflow2 from the graph that leads from trigger to dest.     *)
FromTrigger(dest, trigger, changed) ==
  LET g    == FindSubgraph(FilterDisabledNodes(Graph), dest, trigger)
      data == CleanRunData(runData, g, changed \cap ToSet(g.nodes))
  IN  Execute(g, dest, HandleCycles(g, FindStartNodes(g, trigger, dest, data), trigger), data)

(* The editor starts none while the full execution runs or waits.          *)
StartPartial(dest) ==
  /\ phase = "full" /\ status \in {"success", "canceled", "error"} /\ current = Null
  /\ dest \notin wf.disabled \cup wf.triggers \cup Tools
  /\ dirty' \in wf.dirty
  /\ IF DirectParentConnections(Graph, dest) = <<>>
     THEN Execute(FindSubgraph(FilterDisabledNodes(Graph), dest, dest), dest, <<dest>>, runData)
     ELSE \E trigger \in TriggersFor(dest, runData) : FromTrigger(dest, trigger, dirty')
  /\ status' = "running" /\ phase' = "partial"
  /\ before' = runData /\ ended' = status
  /\ UNCHANGED <<wf, current, tries, restarts>>

PartialInit == Init /\ phase = "full" /\ ended = Null /\ before = <<>> /\ dirty = {} /\ kept = {}

PartialNext ==
  \/ Step /\ UNCHANGED <<phase, ended, before, dirty, kept>>
  \/ phase = "full" /\ Cancel /\ UNCHANGED <<phase, ended, before, dirty, kept>>
  \/ \E dest \in Node : StartPartial(dest)

PartialSpec == PartialInit /\ [][PartialNext]_partialVars

-----------------------------------------------------------------------------
(* The nodes on the way from the trigger to the destination: reached over  *)
(* main connections neither out of the destination nor into the trigger.   *)
Reach(edges, n) ==
  LET step(S) == {e[2] : e \in {d \in edges : d[1] \in S}} IN Grown({n}, Cardinality(Node), step)

(* A partial execution executes no node but those that lead to its         *)
(* destination, and may execute each that the trigger leads there through. *)
SubgraphLeads ==
  phase = "partial" /\ DirectParentConnections(Graph, destination) # <<>> =>
    LET edges   == {<<c.from, c.to>> : c \in Conns}
        between == {e \in edges : e[1] # destination /\ e[2] \notin wf.triggers}
    IN  /\ \A n \in filter : destination \in Reach(edges, n)
        /\ \E t \in TriggersFor(destination, before) : \A n \in Node \ wf.disabled :
             n \in Reach(between, t) /\ destination \in Reach(between, n) => n \in filter

(* No node is executed whose run data has been kept, so that its runs of   *)
(* before and those of now are never mixed.                                *)
KeptDoNotRun == phase = "partial" /\ current # Null => current.node \notin kept

(* What is kept has come from nothing that is dirty or is executed anew,   *)
(* unless it came out of the destination, which is before it in a cycle.   *)
NothingStale ==
  phase = "partial" =>
    /\ dirty \cap kept = {}
    /\ \A n \in kept : \A i \in DOMAIN runData[n] :
         \A p \in Packets(runData[n][i].main) \ {Trigger} :
           p.conn.from \in kept \cup wf.disabled \cup {destination}

(* What the inputs of a node's runs come from. A disabled node passes its  *)
(* data on.                                                                *)
RECURSIVE Source(_, _)
Source(data, x) ==
  IF x \in {Null, Hole, Empty, Trigger, Call} THEN x
  ELSE IF x.conn.from \in wf.disabled THEN Source(data, data[x.conn.from][x.run + 1].main[1])
  ELSE [from |-> x.conn.from, out |-> x.conn.out, run |-> x.run]

Inputs(data, n) ==
  {[j \in DOMAIN data[n][i].main |-> Source(data, data[n][i].main[j])] : i \in DOMAIN data[n]}

(* recreate-node-execution-stack.ts:68: a partial execution is to "only    *)
(* execute what's necessary to be able to execute the destination node     *)
(* accurately, e.g. as close as possible to what would happen in a         *)
(* production execution". One that succeeds has executed it, and on        *)
(* inputs that it had in the full execution, if that came so far: one that *)
(* failed or was cancelled may have executed it less often.                *)
ExecutedAlike ==
  phase = "partial" /\ status = "success" /\ destination \in Reach({<<c.from, c.to>> : c \in Conns}, wf.trigger) =>
    /\ runData[destination] # <<>>
    /\ before[destination] # <<>> /\ (ended = "success" \/ Len(runData[destination]) <= Len(before[destination]))
         => Inputs(runData, destination) \subseteq Inputs(before, destination)

(* The nodes whose run data is kept although a run of theirs has failed.   *)
KeptFailures == {n \in kept : \E i \in DOMAIN before[n] : before[n][i].state = "error"}

(* A partial execution that keeps no failed run executes its destination,  *)
(* and on inputs that it had in the full execution.                        *)
DestinationRunsAlike == KeptFailures = {} => ExecutedAlike

(* So does one that keeps a failed run, the code's words say. But isDirty  *)
(* does not look for errors: a node that failed in the full execution is   *)
(* not executed again, and nothing behind it is.                           *)
DestinationExecuted == KeptFailures # {} => ExecutedAlike
=============================================================================
