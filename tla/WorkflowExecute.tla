-------------------------- MODULE WorkflowExecute --------------------------
(***************************************************************************)
(* The workflow engine of packages/core: processRunExecutionData's loop    *)
(* over the stack of nodes to be executed, the nodes that wait for data on *)
(* more inputs, retries, the node that puts the execution to wait, errors, *)
(* cancellation, and the resumption of an execution that waits or failed.  *)
(* It is the execution order v1, which executes a branch before the next.  *)
(*                                                                         *)
(* Items are left out: an input holds the packet of one run of one         *)
(* connection, or nothing. Sources are the packets themselves.             *)
(***************************************************************************)
EXTENDS Integers, Sequences, FiniteSets, SequencesExt

CONSTANTS Node,
          Workflows,   \* the workflows to choose from, see wf
          Null,        \* an input that has received nothing, no node
          Hole,        \* an input that an array has no element for
          Empty,       \* an input that is to receive nothing
          Trigger,     \* the item an execution starts with
          Call,        \* the item a tool is called with
          MaxTries,    \* tries of a node with retryOnFail
          MaxCalls,    \* bound on the runs of a tool
          MaxRestarts  \* bound on the retries of an execution

(* A workflow: its connections in order; the trigger; the nodes' place on  *)
(* the canvas, from the top-left; outs, the outputs that a run of a node   *)
(* may fill; loops, the loop nodes, and batches, how often they loop;      *)
(* tools, what an agent calls in order; destinations, the nodes to execute *)
(* up to, Null for the whole workflow. The others are sets of nodes:       *)
(* disabled and pinned; those that may return null (ends), that put the    *)
(* execution to wait (waits), that may fail (fails), with retryOnFail      *)
(* (retries), with onError = continueRegularOutput (continues), whose      *)
(* requiredInputs are all their inputs (requiring).                        *)
VARIABLES wf,
          stack,     \* nodeExecutionStack
          waiting,   \* waitingExecution: nodes in insertion order, entries by run index
          runData,   \* resultData.runData
          current,   \* the executionData that is executed
          tries,     \* tryIndex
          status,    \* the execution's, as it is saved
          filter,    \* runNodeFilter
          destination, restarts

(* A connection goes from an output of a node to an input of another.      *)
Connection == [from : Node, out : Nat, to : Node, in : Nat, type : STRING]

ToolsOf(w) == UNION {ToSet(w.tools[n]) : n \in DOMAIN w.tools}

(* Tools are connected to agents by other connections than the main ones.  *)
IsWorkflow(w) ==
  /\ w.conns \in Seq(Connection) /\ w.place \in [Node -> Int] /\ w.trigger \in Node
  /\ w.outs \in [Node -> SUBSET SUBSET Nat]
  /\ DOMAIN w.tools \subseteq Node /\ \A n \in DOMAIN w.tools : w.tools[n] \in Seq(Node)
  /\ \A c \in ToSet(w.conns) : c.type = "main" => {c.from, c.to} \cap ToolsOf(w) = {}
  /\ w.destinations \subseteq Node \cup {Null}

(* What an input holds is the packet of a run, or says why there is none.  *)
Packet  == [conn : Connection, run : Nat]
Markers == {Null, Hole, Empty, Trigger, Call}
Data    == Packet \cup Markers

Task     == [node : Node, run : Nat]
Items    == [node : Node, main : Seq(Data), disabled : BOOLEAN, run : Nat \cup {Null}, calls : Seq(Task)]
TaskData == [main : Seq(Data), outs : SUBSET Nat, state : {"success", "called", "error"}]

ASSUME EngineAssumption ==
  /\ IsFiniteSet(Node) /\ Null \notin Node \cup Items \cup Nat
  /\ MaxTries \in Nat \ {0} /\ MaxCalls \in Nat /\ MaxRestarts \in Nat
  /\ \A w \in Workflows : IsWorkflow(w)
  /\ Empty \notin Packet \cup {Null, Hole, Trigger, Call}
  /\ Null \notin Packet \cup {Hole, Trigger, Call}
  /\ Packet \cap {Hole, Trigger, Call} = {} /\ Trigger # Call /\ Hole # Call /\ Hole # Trigger

vars == <<wf, stack, waiting, runData, current, tries, status, filter, destination, restarts>>

-----------------------------------------------------------------------------
(* The workflow's connections, by destination and by source.               *)
Conns == ToSet(wf.conns)

MainConns == {c \in Conns : c.type = "main"}

Largest(S) == CHOOSE x \in S : \A y \in S : y <= x
Least(S)   == CHOOSE x \in S : \A y \in S : x <= y

NumberOfInputs(n) ==
  LET ins == {c.in : c \in {d \in MainConns : d.to = n}}
  IN  IF ins = {} THEN 0 ELSE Largest(ins) + 1

(* workflow.getParentNodes: every other node that leads to n.              *)
ParentNodes(n) ==
  LET before[k \in 0 .. Cardinality(Node)] ==
        IF k = 0 THEN {n}
        ELSE LET S == before[k - 1] IN S \cup {c.from : c \in {d \in MainConns : d.to \in S}}
  IN  before[Cardinality(Node)] \ {n}

(* The executions of a node that wait for data.                            *)
WaitingNodes == {waiting[i].node : i \in DOMAIN waiting}

EntriesOf(w, n) ==
  IF \E i \in DOMAIN w : w[i].node = n
  THEN w[CHOOSE i \in DOMAIN w : w[i].node = n].entries ELSE <<>>

(* Gives n these entries: a new key goes last, no entries delete the key.  *)
SetEntries(w, n, entries) ==
  IF \A i \in DOMAIN w : w[i].node # n THEN Append(w, [node |-> n, entries |-> entries])
  ELSE LET i == CHOOSE i \in DOMAIN w : w[i].node = n
       IN  IF DOMAIN entries = {} THEN RemoveAt(w, i) ELSE [w EXCEPT ![i].entries = entries]

Without(entries, k) == [j \in DOMAIN entries \ {k} |-> entries[j]]
With(entries, k, main) ==
  [j \in DOMAIN entries \cup {k} |-> IF j = k THEN main ELSE entries[j]]

HasData(main, i) == i + 1 \in DOMAIN main /\ main[i + 1] \notin {Null, Hole}

Fill(main, i, data) ==
  [j \in 1 .. Largest({Len(main), i + 1}) |->
     IF j = i + 1 THEN data ELSE IF j \in DOMAIN main THEN main[j] ELSE Hole]

Packets(main) == {main[i] : i \in DOMAIN main} \ {Null, Hole, Empty, Call}

(* Only the calls of tools and the agent that resumes after them know their*)
(* run before they are executed.                                           *)
ItemOf(n, main, run, calls) ==
  [node |-> n, main |-> main, disabled |-> n \in wf.disabled, run |-> run, calls |-> calls]

Item(n, main) == ItemOf(n, main, Null, <<>>)

(* addNodeToBeExecuted, on the stack s and the waiting executions w. With  *)
(* more inputs than one the data goes to the first entry that has none at  *)
(* this input, or to a new one under the number of entries there are.      *)
AddNodeToBeExecuted(q, c, packet) ==
  IF NumberOfInputs(c.to) <= 1
  THEN [q EXCEPT !.s = <<Item(c.to, Fill([i \in 1 .. c.in |-> Null], c.in, packet))>> \o @]
  ELSE LET entries == EntriesOf(q.w, c.to)
           lacking == {j \in DOMAIN entries : ~HasData(entries[j], c.in)}
           k    == IF lacking # {} THEN Least(lacking) ELSE Cardinality(DOMAIN entries)
           main == Fill(IF lacking # {} THEN entries[k]
                        ELSE [i \in 1 .. NumberOfInputs(c.to) |-> Null], c.in, packet)
       IN  IF Null \in {main[i] : i \in DOMAIN main}
           THEN [q EXCEPT !.w = SetEntries(@, c.to, With(entries, k, main))]
           ELSE [s |-> <<Item(c.to, main)>> \o q.s,
                 w |-> SetEntries(q.w, c.to, Without(entries, k))]

(* The connections of the outputs with data, the node that is more to the  *)
(* top-left last, so that it comes to lie on top of the stack.             *)
ConnectionsToFollow(n, outs) ==
  LET followed == {i \in DOMAIN wf.conns :
                     /\ wf.conns[i].from = n
                     /\ wf.conns[i].type = "main"
                     /\ wf.conns[i].out \in outs}
      sooner(i, j) == \/ wf.place[wf.conns[i].to] > wf.place[wf.conns[j].to]
                      \/ wf.place[wf.conns[i].to] = wf.place[wf.conns[j].to] /\ i < j
  IN  [k \in 1 .. Cardinality(followed) |->
         CHOOSE i \in followed : Cardinality({j \in followed : sooner(j, i)}) = k - 1]

(* The stack and what waits after each of these connections in turn.       *)
AddingChildren(n, outs, run, s) ==
  LET follow == ConnectionsToFollow(n, outs)
      added[k \in 0 .. Len(follow)] ==
        IF k = 0 THEN [s |-> s, w |-> waiting]
        ELSE LET c == wf.conns[follow[k]]
             IN  AddNodeToBeExecuted(added[k - 1], c, [conn |-> c, run |-> run])
  IN  added

AddChildren(n, outs, run, s) == AddingChildren(n, outs, run, s)[Len(ConnectionsToFollow(n, outs))]

(* Mutant of Ready: executed although a node before it waits.              *)
ReadyWithParentsWaiting(w, i) == w[i].node \notin wf.requiring

(* What waits at i does not need the data it lacks, and none of the nodes  *)
(* before it waits.                                                        *)
Ready(w, i) ==
  /\ w[i].node \notin wf.requiring
  /\ ParentNodes(w[i].node) \cap {w[j].node : j \in DOMAIN w} = {}

(* Mutant of ExecuteWaiting: what waits for missing data waits for ever.   *)
ExecuteWaitingNever(q) == q

(* The stack is empty: executes the first node that is ready.              *)
ExecuteWaiting(q) ==
  LET ready == {i \in DOMAIN q.w : Ready(q.w, i)}
  IN  IF q.s # <<>> \/ ready = {} THEN q
      ELSE LET x    == q.w[Least(ready)]
               k    == Least(DOMAIN x.entries)
               data == x.entries[k]
               main == [i \in 1 .. Largest({Len(data), NumberOfInputs(x.node)}) |->
                          IF i > Len(data) \/ data[i] = Null THEN Empty ELSE data[i]]
           IN  [s |-> <<Item(x.node, main)>>,
                w |-> SetEntries(q.w, x.node, Without(x.entries, k))]

-----------------------------------------------------------------------------
(* WorkflowExecute.run from the trigger. With a destination only the nodes *)
(* that lead to it are executed.                                           *)
Init ==
  /\ wf \in Workflows
  /\ stack = <<Item(wf.trigger, <<Trigger>>)>>
  /\ waiting = <<>>
  /\ runData = [n \in Node |-> <<>>]
  /\ current = Null /\ tries = 0
  /\ status = "running"
  /\ destination \in wf.destinations
  /\ filter = IF destination = Null THEN Node ELSE ParentNodes(destination) \cup {destination}
  /\ restarts = 0

(* The head of the loop: the next item of the stack.                       *)
Shift ==
  /\ status = "running" /\ current = Null /\ stack # <<>>
  /\ stack' = Tail(stack)
  /\ IF Head(stack).node \in filter
     THEN current' = Head(stack) /\ tries' = 0
     ELSE UNCHANGED <<current, tries>>
  /\ UNCHANGED <<wf, waiting, runData, status, filter, destination, restarts>>

(* Mutant of RunIndex: the run that a tool's call has recorded is ignored. *)
RunIndexByLength == Len(runData[current.node])

(* A call of a tool brings its run along, the others take the next one.    *)
RunIndex == IF current.run = Null THEN Len(runData[current.node]) ELSE current.run

(* A call of a tool has its place in runData before it is executed.        *)
Record(outs) ==
  LET task == [main |-> current.main, outs |-> outs, state |-> "success"]
      n    == current.node
  IN  IF RunIndex < Len(runData[n]) THEN [runData EXCEPT ![n][RunIndex + 1] = task]
      ELSE [runData EXCEPT ![n] = Append(@, task)]

(* The node has run: its data is saved and its children are added. The     *)
(* destination of a manual execution has no children to be executed.       *)
Finish(outs) ==
  LET n == current.node
      q == ExecuteWaiting(AddChildren(n, outs, RunIndex, stack))
  IN  /\ runData' = Record(outs)
      /\ IF n = destination THEN UNCHANGED <<stack, waiting>>
         ELSE stack' = q.s /\ waiting' = q.w
      /\ current' = Null
      /\ UNCHANGED <<wf, tries, status, filter, destination, restarts>>

(* nodeSuccessData is null: the branch ends, without a look at what waits. *)
EndBranch ==
  /\ current' = Null
  /\ UNCHANGED <<wf, stack, waiting, runData, tries, status, filter, destination, restarts>>

(* The data of the first input is passed on.                               *)
PassThrough == IF Packets(<<current.main[1]>>) # {} THEN {0} ELSE {}

(* What runNode returns; a loop node sends its batches to output 1, then   *)
(* it is done.                                                             *)
Outputs(n) ==
  IF n \in wf.loops THEN IF Len(runData[n]) < wf.batches THEN {{1}} ELSE {{0}}
  ELSE wf.outs[n]

Executing == current # Null
Executes  == Executing /\ ~current.disabled /\ current.node \notin wf.pinned

RunPinned ==
  /\ Executing /\ ~current.disabled /\ current.node \in wf.pinned
  /\ Finish({0})

RunDisabled ==
  /\ Executing /\ current.disabled
  /\ IF current.main[1] = Null THEN EndBranch ELSE Finish(PassThrough)

RunSucceeds ==
  /\ Executes /\ current.node \notin wf.waits
  /\ \E outs \in Outputs(current.node) : Finish(outs)

RunReturnsNull ==
  /\ Executes /\ current.node \in wf.ends
  /\ EndBranch

(* handleRequest: an agent calls its tools. Each call has its run recorded *)
(* and is put on the stack, above the agent that resumes with the answers. *)
RunRequests ==
  /\ Executes /\ current.node \in DOMAIN wf.tools
  /\ LET tools  == wf.tools[current.node]
         earlier(i) == Cardinality({j \in 1 .. i - 1 : tools[j] = tools[i]})
         calls  == [i \in DOMAIN tools |->
                      [node |-> tools[i], run |-> Len(runData[tools[i]]) + earlier(i)]]
         agent  == ItemOf(current.node, <<current.main[1]>>, RunIndex, calls)
         called == [i \in DOMAIN calls |->
                      ItemOf(calls[i].node, <<Call>>, calls[i].run, <<>>)]
     IN  /\ \A i \in DOMAIN calls : calls[i].run < MaxCalls
         /\ runData' = [n \in Node |->
              runData[n] \o [i \in 1 .. Cardinality({j \in DOMAIN tools : tools[j] = n}) |->
                               [main |-> <<>>, outs |-> {}, state |-> "called"]]]
         /\ stack' = Reverse(called) \o <<agent>> \o stack
  /\ current' = Null
  /\ UNCHANGED <<wf, waiting, tries, status, filter, destination, restarts>>

(* Mutant of LastTry: one try too many.                                    *)
LastTryOffByOne == current.node \notin wf.retries \/ tries = MaxTries

LastTry == current.node \notin wf.retries \/ tries = MaxTries - 1

RunFails ==
  /\ Executes /\ current.node \in wf.fails
  /\ \/ /\ ~LastTry
        /\ tries' = tries + 1
        /\ UNCHANGED <<wf, stack, waiting, runData, current, status, filter, destination, restarts>>
     \/ /\ LastTry /\ current.node \in wf.continues
        /\ Finish(PassThrough)
     \/ /\ LastTry /\ current.node \notin wf.continues
        /\ runData' = [runData EXCEPT ![current.node] =
                         Append(@, [main |-> current.main, outs |-> {}, state |-> "error"])]
        /\ stack' = <<current>> \o stack
        /\ current' = Null
        /\ status' = IF status = "running" THEN "error" ELSE status
        /\ UNCHANGED <<wf, waiting, tries, filter, destination, restarts>>

(* The node sets waitTill: it goes back on the stack and the loop ends.    *)
(* An execution that has been cancelled meanwhile is reported as such.     *)
RunWaits ==
  /\ Executes /\ current.node \in wf.waits
  /\ runData' = Record(PassThrough)
  /\ stack' = <<current>> \o stack
  /\ current' = Null
  /\ status' = IF status = "running" THEN "waiting" ELSE status
  /\ UNCHANGED <<wf, waiting, tries, filter, destination, restarts>>

Complete ==
  /\ status = "running" /\ current = Null /\ stack = <<>>
  /\ status' = "success"
  /\ UNCHANGED <<wf, stack, waiting, runData, current, tries, filter, destination, restarts>>

Cancel ==
  /\ status = "running" /\ Executing
  /\ status' = "canceled"
  /\ UNCHANGED <<wf, stack, waiting, runData, current, tries, filter, destination, restarts>>

(* Mutant of Resume: the node that waited is executed, and waits, again.   *)
ResumeStillEnabled ==
  /\ status = "waiting"
  /\ runData' = [runData EXCEPT ![Head(stack).node] = Front(@)]
  /\ status' = "running"
  /\ UNCHANGED <<wf, stack, waiting, current, tries, filter, destination, restarts>>

(* Mutant of Resume: the run in which the node began to wait is kept.      *)
ResumeKeepingRun ==
  /\ status = "waiting"
  /\ stack' = [i \in DOMAIN stack |->
                 IF stack[i].node = Head(stack).node THEN [stack[i] EXCEPT !.disabled = TRUE]
                 ELSE stack[i]]
  /\ status' = "running"
  /\ UNCHANGED <<wf, runData, waiting, current, tries, filter, destination, restarts>>

(* handleWaitingState: the node that waited is disabled, in every item of  *)
(* the stack that refers to it, and its last run is removed.               *)
Resume ==
  /\ status = "waiting"
  /\ LET n == Head(stack).node
     IN  /\ runData' = [runData EXCEPT ![n] = Front(@)]
         /\ stack' = [i \in DOMAIN stack |->
                        IF stack[i].node = n THEN [stack[i] EXCEPT !.disabled = TRUE] ELSE stack[i]]
  /\ status' = "running"
  /\ UNCHANGED <<wf, waiting, current, tries, filter, destination, restarts>>

(* ExecutionService.retry: the run that failed is removed.                 *)
Retry ==
  /\ status = "error" /\ restarts < MaxRestarts
  /\ restarts' = restarts + 1
  /\ status' = "running"
  /\ LET n == Head(stack).node
     IN  runData' = IF Last(runData[n]).state = "error" THEN [runData EXCEPT ![n] = Front(@)] ELSE runData
  /\ UNCHANGED <<wf, stack, waiting, current, tries, filter, destination>>

Step == \/ Shift \/ RunPinned \/ RunDisabled \/ RunSucceeds \/ RunReturnsNull
        \/ RunRequests \/ RunFails \/ RunWaits \/ Complete

Next == Step \/ Cancel \/ Resume \/ Retry

Spec == Init /\ [][Next]_vars

(* The loop goes on as long as nodes return, and what waits is resumed.    *)
(* Goes is when Step is enabled: the first conjunct is WF_vars(Step), with *)
(* no need to compute every step in order to know that there is one.       *)
Goes == status = "running" \/ current # Null

FairSpec == Spec /\ ([]<>~Goes \/ []<><<Step>>_vars) /\ WF_vars(Resume)

-----------------------------------------------------------------------------
(* Every item has its inputs; what waits holds the data of one input at    *)
(* least and lacks that of another.                                        *)
TypeOK ==
  /\ status \in {"running", "waiting", "error", "canceled", "success"}
  /\ stack \in Seq(Items) /\ \A i \in DOMAIN stack : stack[i].main # <<>>
  /\ current \in Items \cup {Null}
  /\ runData \in [Node -> Seq(TaskData)]
  /\ tries \in 0 .. MaxTries - 1 /\ restarts \in 0 .. MaxRestarts
  /\ filter \subseteq Node /\ destination \in Node \cup {Null}
  /\ \A i \in DOMAIN waiting :
       /\ waiting[i].node \in Node
       /\ \A k \in DOMAIN waiting[i].entries :
            /\ Packets(waiting[i].entries[k]) # {}
            /\ \E j \in 1 .. NumberOfInputs(waiting[i].node) : ~HasData(waiting[i].entries[k], j - 1)

(* The items that are executed or still to be executed.                    *)
Outstanding == ToSet(stack) \cup ({current} \ {Null})

(* The head of the stack has a run that is not over: its node waits, or it *)
(* failed and may be retried.                                              *)
Redone(n) == /\ stack # <<>> /\ Head(stack).node = n
             /\ runData[n] # <<>> /\ Last(runData[n]).main = Head(stack).main

InFlight ==
  (UNION {Packets(x.main) : x \in Outstanding})
  \cup (UNION {UNION {Packets(waiting[i].entries[k]) : k \in DOMAIN waiting[i].entries} :
                i \in DOMAIN waiting})

Tools == ToolsOf(wf)

Runs == [n \in Node |-> IF n \in Tools THEN 0
                        ELSE IF Redone(n) THEN Len(runData[n]) - 1 ELSE Len(runData[n])]

Flow == INSTANCE Dataflow WITH connections <- MainConns, ending <- wf.ends \cup (Node \ filter),
                               inFlight <- InFlight, runs <- Runs

(* Whatever waits, is retried, is resumed or is executed with part of its  *)
(* inputs, data reaches the one run it is for, and never two, and none is  *)
(* dropped. What a tool does is a step of the agent that calls it.         *)
ImplementsDataflow == Flow!FlowSpec

(* A node that is executed although an input has received nothing comes    *)
(* after every node before it: nothing can arrive that it went without.    *)
MergesRunLast ==
  \A x \in Outstanding :
    Empty \in ToSet(x.main) =>
      \A y \in Outstanding \cup {waiting[i] : i \in DOMAIN waiting} :
        y.node \notin ParentNodes(x.node)

(* No node is left with data when the execution has succeeded, except those*)
(* that require all inputs and those behind one that does.                 *)
NothingStranded ==
  status = "success" /\ destination = Null =>
    \A n \in WaitingNodes : (ParentNodes(n) \cup {n}) \cap wf.requiring # {}

(* An agent that resumes finds an answer to each of its calls.             *)
AnswersAreThere ==
  current # Null =>
    \A i \in DOMAIN current.calls :
      LET call == current.calls[i]
      IN  call.node \notin wf.ends => runData[call.node][call.run + 1].state = "success"

(* An execution ends, whatever its nodes return and however they fail.     *)
ExecutionEnds == <>(status \in {"success", "error", "canceled"})
=============================================================================
