----------------------- MODULE WorkflowExecuteProofs ------------------------
(***************************************************************************)
(* The engine is correct for any workflow: its types; that a node which    *)
(* goes without the data of an input comes after every node before it;     *)
(* that nothing is stranded in a workflow whose connections go forwards;   *)
(* and that an agent which resumes finds its answers. First what the       *)
(* parts of a step do to stack and waiting, then one lemma per kind of     *)
(* step.                                                                   *)
(***************************************************************************)
EXTENDS WorkflowExecute, ListLemmas, SequenceTheorems

-----------------------------------------------------------------------------
(* What waits, and the connections it waits for                            *)

(* What waits at node n under one key: one input holds data, another has   *)
(* received nothing, and none is marked as given up.                       *)
Partial(n, main) ==
  /\ main \in Seq(Data) /\ Len(main) = NumberOfInputs(n)
  /\ Packets(main) # {} /\ Null \in ToSet(main) /\ Empty \notin ToSet(main)

(* Entries by their key, the run index                                     *)
Entries == UNION {[D -> Seq(Data)] : D \in SUBSET Nat}

Waits == {x \in [node : Node, entries : Entries] :
            /\ IsFiniteSet(DOMAIN x.entries) /\ DOMAIN x.entries # {}
            /\ \A k \in DOMAIN x.entries : Partial(x.node, x.entries[k])}

(* What a node that has run puts on the stack                              *)
Fresh == {x \in Items : /\ x.main # <<>> /\ {Null, Empty} \cap ToSet(x.main) = {}
                        /\ x.run = Null /\ x.calls = <<>>}

(* Some items have come to lie on the stack s.                             *)
Grown(s) == {q \in [s : Seq(Items), w : Seq(Waits)] : \E added \in Seq(Fresh) : q.s = added \o s}

(* What holds of every workflow to choose from                             *)
LEMMA TheWorkflow ==
  ASSUME wf \in Workflows
  PROVE  IsWorkflow(wf)
BY EngineAssumption DEF EngineAssumption

(* The connections are finitely many.                                      *)
LEMMA Connections ==
  ASSUME wf \in Workflows
  PROVE  /\ Conns \in SUBSET Connection /\ IsFiniteSet(Conns)
         /\ MainConns \in SUBSET Connection /\ IsFiniteSet(MainConns)
         /\ \A i \in DOMAIN wf.conns : wf.conns[i] \in Conns
<1>1. wf.conns \in Seq(Connection)
  BY TheWorkflow DEF IsWorkflow
<1>2. Conns = {wf.conns[i] : i \in 1..Len(wf.conns)} /\ Conns \subseteq Connection
  BY <1>1, SetOf DEF Conns
<1>3. IsFiniteSet(1..Len(wf.conns))
  BY <1>1, FS_Interval
<1>4. IsFiniteSet(Conns)
  BY <1>2, <1>3, FiniteValues
<1>5. MainConns \in SUBSET Conns
  BY DEF MainConns
<1>6. IsFiniteSet(MainConns)
  BY <1>4, <1>5, FS_Subset
<1>7. DOMAIN wf.conns = 1..Len(wf.conns)
  BY <1>1
<1> QED
  BY <1>2, <1>4, <1>5, <1>6, <1>7

(* A node has more inputs than the number of any that a connection leads   *)
(* to.                                                                     *)
LEMMA InputsBound ==
  ASSUME wf \in Workflows, NEW n
  PROVE  NumberOfInputs(n) \in Nat /\ \A c \in MainConns : c.to = n => c.in < NumberOfInputs(n)
<1> DEFINE into == {d \in MainConns : d.to = n}
           ins == {c.in : c \in into}
<1>1. into \in SUBSET MainConns /\ MainConns \in SUBSET Connection /\ IsFiniteSet(into)
  <2>1. into \in SUBSET MainConns
    OBVIOUS
  <2> QED
    BY <2>1, Connections, FS_Subset
<1>2. ins \in SUBSET Nat
  BY <1>1 DEF Connection
<1>3. IsFiniteSet(ins)
  <2> DEFINE f == [c \in into |-> c.in]
  <2>1. ins = {f[c] : c \in into}
    OBVIOUS
  <2> HIDE DEF f, into, ins
  <2> QED
    BY <2>1, <1>1, FiniteValues
<1>4. NumberOfInputs(n) = IF ins = {} THEN 0 ELSE Largest(ins) + 1
  BY DEF NumberOfInputs
<1>5. CASE ins = {}
  BY <1>4, <1>5
<1>6. CASE ins # {}
  <2> HIDE DEF ins
  <2>1. \E m \in ins : \A k \in ins : k <= m
    BY <1>2, <1>3, <1>6, LargestNatural
  <2>2. Largest(ins) \in ins /\ \A k \in ins : k <= Largest(ins)
    BY <2>1 DEF Largest
  <2>3. \A c \in into : c.in \in ins
    BY DEF ins
  <2>4. NumberOfInputs(n) = Largest(ins) + 1 /\ Largest(ins) \in Nat
    BY <1>2, <1>4, <1>6, <2>2
  <2>5. ASSUME NEW c \in into
        PROVE  c.in < NumberOfInputs(n)
    <3>1. c.in \in ins /\ c.in \in Nat /\ c.in <= Largest(ins)
      BY <1>2, <2>2, <2>3
    <3> HIDE DEF into
    <3> QED
      BY <3>1, <2>4
  <2> QED
    BY <2>4, <2>5
<1> QED
  BY <1>5, <1>6

(* The larger of two numbers                                               *)
LEMMA LargestOfTwo ==
  ASSUME NEW a \in Nat, NEW b \in Nat
  PROVE  Largest({a, b}) = IF a <= b THEN b ELSE a
BY DEF Largest

(* f is main with the data at input i.                                     *)
Filled(f, main, i, data) ==
  /\ f \in Seq(Data) /\ Len(f) = (IF Len(main) <= i THEN i + 1 ELSE Len(main))
  /\ i + 1 \in 1..Len(f) /\ f[i + 1] = data
  /\ \A j \in 1..Len(f) : j # i + 1 => f[j] \in {Hole} \cup ToSet(main)

(* Fill puts data at its input and leaves Hole or what was there           *)
(* elsewhere.                                                              *)
LEMMA FillDoes ==
  ASSUME NEW main \in Seq(Data), NEW i \in Nat, NEW data \in Data
  PROVE  Filled(Fill(main, i, data), main, i, data)
<1> DEFINE f == Fill(main, i, data)
<1> DEFINE top == Largest({Len(main), i + 1})
<1>1. Len(main) \in Nat /\ DOMAIN main = 1..Len(main) /\ \A j \in 1..Len(main) : main[j] \in Data
  OBVIOUS
<1>2. top = (IF Len(main) <= i THEN i + 1 ELSE Len(main)) /\ top \in Nat /\ i + 1 \in 1..top
  BY <1>1, LargestOfTwo
<1>3. f = [j \in 1..top |-> IF j = i + 1 THEN data ELSE IF j \in DOMAIN main THEN main[j] ELSE Hole]
  BY DEF Fill
<1>4. Hole \in Data
  BY DEF Data, Markers
<1> HIDE DEF top, f
<1>5. f \in Seq(Data) /\ Len(f) = top
  <2>1. f \in [1..top -> Data]
    BY <1>1, <1>3, <1>4
  <2> QED
    BY <2>1, <1>2
<1>6. \A j \in 1..top : j # i + 1 => f[j] \in {Hole} \cup ToSet(main)
  BY <1>1, <1>3 DEF ToSet
<1> QED
  BY <1>2, <1>3, <1>5, <1>6 DEF f, Filled

(* A packet that arrives at one of more inputs waits, or completes what    *)
(* waits, or begins to wait; else it goes on the stack.                    *)
LEMMA PacketsOf ==
  ASSUME NEW main \in Seq(Data)
  PROVE  Packets(main) = ToSet(main) \ {Null, Hole, Empty, Call}
BY DEF Packets, ToSet

(* What waits is still partial when data arrives, or nothing is missing.   *)
LEMMA FillPartial ==
  ASSUME wf \in Workflows, NEW c \in MainConns, NEW packet \in Packet, NEW main \in Seq(Data),
         Len(main) = NumberOfInputs(c.to), Empty \notin ToSet(main),
         NEW filled, filled = Fill(main, c.in, packet)
  PROVE  /\ filled \in Seq(Data) /\ Len(filled) = NumberOfInputs(c.to) /\ filled # <<>>
         /\ Empty \notin ToSet(filled)
         /\ Null \in ToSet(filled) => Partial(c.to, filled)
<1>1. c \in Connection /\ c.in \in Nat /\ c.in < NumberOfInputs(c.to) /\ NumberOfInputs(c.to) \in Nat
  BY Connections, InputsBound DEF Connection
<1>2. packet \in Data
  BY DEF Data
<1>3. /\ filled \in Seq(Data)
      /\ Len(filled) = (IF Len(main) <= c.in THEN c.in + 1 ELSE Len(main))
      /\ c.in + 1 \in 1..Len(filled) /\ filled[c.in + 1] = packet
      /\ \A j \in 1..Len(filled) : j # c.in + 1 => filled[j] \in {Hole} \cup ToSet(main)
  <2>1. PICK i \in Nat : i = c.in
    BY <1>1
  <2>2. filled = Fill(main, i, packet)
    BY <2>1
  <2>3. Filled(filled, main, i, packet)
    BY <1>2, <2>2, FillDoes
  <2> QED
    BY <2>1, <2>3 DEF Filled
<1>4. Len(filled) = NumberOfInputs(c.to) /\ filled # <<>>
  BY <1>1, <1>3
<1>5. ToSet(filled) = {filled[j] : j \in 1..Len(filled)}
  BY <1>3, SetOf
<1>6. Empty # packet /\ Empty # Hole
  BY EngineAssumption DEF EngineAssumption
<1>7. Empty \notin ToSet(filled)
  BY <1>3, <1>5, <1>6
<1>8. packet \in Packets(filled)
  <2>1. packet \notin {Null, Hole, Empty, Call}
    BY EngineAssumption DEF EngineAssumption
  <2>2. packet \in ToSet(filled)
    BY <1>3, <1>5
  <2> QED
    BY <2>1, <2>2, <1>3, PacketsOf
<1> QED
  BY <1>3, <1>4, <1>7, <1>8 DEF Partial

(* The entries of a node, as waitingExecution has them                     *)
LEMMA EntriesKnown ==
  ASSUME NEW w \in Seq(Waits), NEW n
  PROVE  /\ EntriesOf(w, n) \in Entries /\ IsFiniteSet(DOMAIN EntriesOf(w, n))
         /\ DOMAIN EntriesOf(w, n) \in SUBSET Nat
         /\ \A k \in DOMAIN EntriesOf(w, n) :
              EntriesOf(w, n)[k] \in Seq(Data) /\ Partial(n, EntriesOf(w, n)[k])
<1>1. DOMAIN w = 1..Len(w) /\ \A i \in DOMAIN w : w[i] \in Waits
  OBVIOUS
<1>2. CASE \E i \in DOMAIN w : w[i].node = n
  <2>1. PICK i \in DOMAIN w : w[i].node = n /\ EntriesOf(w, n) = w[i].entries
    BY <1>2 DEF EntriesOf
  <2>2. w[i] \in Waits
    BY <1>1
  <2> QED
    BY <2>1, <2>2 DEF Waits, Entries, Partial
<1>3. CASE ~\E i \in DOMAIN w : w[i].node = n
  <2>1. EntriesOf(w, n) = <<>>
    BY <1>3 DEF EntriesOf
  <2>2. DOMAIN <<>> = {} /\ <<>> \in [{} -> Seq(Data)]
    OBVIOUS
  <2> QED
    BY <2>1, <2>2, FS_EmptySet DEF Entries
<1> QED
  BY <1>2, <1>3

(* An entry is added.                                                      *)
LEMMA WithPartial ==
  ASSUME NEW n, NEW e \in Entries, IsFiniteSet(DOMAIN e), \A j \in DOMAIN e : Partial(n, e[j]),
         NEW k \in Nat, NEW main, Partial(n, main), NEW more, more = With(e, k, main)
  PROVE  /\ more \in Entries /\ IsFiniteSet(DOMAIN more) /\ DOMAIN more # {}
         /\ \A j \in DOMAIN more : Partial(n, more[j])
<1>1. more = [j \in DOMAIN e \cup {k} |-> IF j = k THEN main ELSE e[j]]
  BY DEF With
<1>2. PICK D \in SUBSET Nat : e \in [D -> Seq(Data)]
  BY DEF Entries
<1>3. main \in Seq(Data)
  BY DEF Partial
<1>4. more \in [D \cup {k} -> Seq(Data)]
  BY <1>1, <1>2, <1>3
<1>5. IsFiniteSet(D \cup {k})
  BY <1>2, FS_AddElement
<1>6. \A j \in DOMAIN more : Partial(n, more[j])
  BY <1>1
<1>7. DOMAIN more = D \cup {k} /\ D \cup {k} \in SUBSET Nat
  BY <1>4
<1> QED
  BY <1>4, <1>5, <1>6, <1>7 DEF Entries

(* An entry is taken away.                                                 *)
LEMMA WithoutPartial ==
  ASSUME NEW n, NEW e \in Entries, IsFiniteSet(DOMAIN e), \A j \in DOMAIN e : Partial(n, e[j]),
         NEW k, NEW less, less = Without(e, k)
  PROVE  /\ less \in Entries /\ IsFiniteSet(DOMAIN less)
         /\ \A j \in DOMAIN less : Partial(n, less[j])
<1>1. less = [j \in DOMAIN e \ {k} |-> e[j]]
  BY DEF Without
<1>2. PICK D \in SUBSET Nat : e \in [D -> Seq(Data)]
  BY DEF Entries
<1>3. less \in [D \ {k} -> Seq(Data)] /\ D \ {k} \in SUBSET Nat /\ DOMAIN less = D \ {k}
  BY <1>1, <1>2
<1>4. IsFiniteSet(D \ {k})
  BY <1>2, FS_RemoveElement
<1> QED
  BY <1>1, <1>2, <1>3, <1>4 DEF Entries

(* The nodes that wait in w                                                *)
NodesOf(w) == {w[i].node : i \in DOMAIN w}

(* A node gets new entries, or none.                                       *)
LEMMA SetEntriesDoes ==
  ASSUME NEW w \in Seq(Waits), NEW n \in Node, NEW e \in Entries, IsFiniteSet(DOMAIN e),
         \A j \in DOMAIN e : Partial(n, e[j]),
         DOMAIN e = {} => \E i \in DOMAIN w : w[i].node = n,
         NEW v, v = SetEntries(w, n, e)
  PROVE  /\ v \in Seq(Waits)
         /\ NodesOf(v) \subseteq NodesOf(w) \cup {n}
<1>1. DOMAIN w = 1..Len(w) /\ Len(w) \in Nat /\ \A i \in DOMAIN w : w[i] \in Waits
  OBVIOUS
<1>2. CASE \A i \in DOMAIN w : w[i].node # n
  <2> DEFINE x == [node |-> n, entries |-> e]
  <2>1. x \in Waits
    BY <1>2 DEF Waits
  <2>2. v = Append(w, x)
    BY <1>2 DEF SetEntries
  <2>3. x.node = n
    OBVIOUS
  <2> HIDE DEF x
  <2>4. v \in Seq(Waits) /\ \A i \in DOMAIN v : (i \in DOMAIN w /\ v[i] = w[i]) \/ v[i] = x
    BY <2>1, <2>2, <1>1
  <2> QED
    BY <2>3, <2>4 DEF NodesOf
<1>3. CASE ~\A i \in DOMAIN w : w[i].node # n
  <2>1. PICK i \in DOMAIN w : /\ w[i].node = n
                             /\ v = IF DOMAIN e = {} THEN RemoveAt(w, i) ELSE [w EXCEPT ![i].entries = e]
    BY <1>3 DEF SetEntries
  <2>2. CASE DOMAIN e = {}
    <3>1. v = SubSeq(w, 1, i - 1) \o SubSeq(w, i + 1, Len(w))
      BY <2>1, <2>2 DEF RemoveAt
    <3> DEFINE a == SubSeq(w, 1, i - 1)
               b == SubSeq(w, i + 1, Len(w))
    <3>2. a \in Seq(Waits) /\ Len(a) = i - 1 /\ \A j \in 1..(i - 1) : a[j] = w[j]
      BY <1>1
    <3>3. b \in Seq(Waits) /\ \A j \in 1..Len(b) : i + j \in DOMAIN w /\ b[j] = w[i + j]
      BY <1>1, LastPart
    <3> HIDE DEF a, b
    <3>4. v \in Seq(Waits)
      BY <3>1, <3>2, <3>3 DEF a, b
    <3>5. ASSUME NEW j \in DOMAIN v
          PROVE  \E k \in DOMAIN w : v[j] = w[k]
      <4>1. v = a \o b
        BY <3>1 DEF a, b
      <4>2. \/ j \in 1..Len(a) /\ v[j] = a[j]
            \/ j - Len(a) \in 1..Len(b) /\ v[j] = b[j - Len(a)]
        BY <3>2, <3>3, <4>1
      <4> QED
        BY <4>2, <3>2, <3>3, <1>1
    <3> QED
      BY <3>4, <3>5 DEF NodesOf
  <2>3. CASE DOMAIN e # {}
    <3>1. v = [w EXCEPT ![i] = [w[i] EXCEPT !.entries = e]]
      BY <2>1, <2>3
    <3> DEFINE x == [w[i] EXCEPT !.entries = e]
    <3>2. x \in Waits /\ x.node = n
      BY <1>1, <2>1, <2>3 DEF Waits
    <3> HIDE DEF x
    <3>3. v \in Seq(Waits) /\ DOMAIN v = DOMAIN w /\ \A j \in DOMAIN w : v[j] = IF j = i THEN x ELSE w[j]
      BY <3>1, <3>2, <1>1 DEF x
    <3> QED
      BY <3>2, <3>3 DEF NodesOf
  <2> QED
    BY <2>2, <2>3
<1> QED
  BY <1>2, <1>3

-----------------------------------------------------------------------------
(* addNodeToBeExecuted                                                     *)

(* One more item on top                                                    *)
LEMMA GrownByOne ==
  ASSUME NEW s \in Seq(Items), NEW q \in Grown(s), NEW x \in Fresh, NEW w \in Seq(Waits),
         NEW r, r = [s |-> <<x>> \o q.s, w |-> w]
  PROVE  r \in Grown(s)
<1>1. q.s \in Seq(Items) /\ x \in Items
  BY DEF Grown, Fresh
<1>2. PICK added \in Seq(Fresh) : q.s = added \o s
  BY DEF Grown
<1>3. Fresh \subseteq Items
  BY DEF Fresh
<1>4. added \in Seq(Items) /\ <<x>> \in Seq(Items) /\ <<x>> \in Seq(Fresh)
  BY <1>1, <1>3, SeqMonotonic
<1>5. <<x>> \o q.s = (<<x>> \o added) \o s
  BY <1>2, <1>4, ConcatAssociative
<1>6. <<x>> \o added \in Seq(Fresh) /\ <<x>> \o q.s \in Seq(Items)
  BY <1>1, <1>4
<1>7. r \in [s : Seq(Items), w : Seq(Waits)] /\ r.s = <<x>> \o q.s
  BY <1>6
<1> QED
  BY <1>5, <1>6, <1>7 DEF Grown

(* The two fields of what the loop goes on with                            *)
LEMMA StackAndWaiting ==
  ASSUME NEW S, NEW W, NEW q \in [s : S, w : W], NEW x
  PROVE  /\ [q EXCEPT !.s = x] = [s |-> x, w |-> q.w]
         /\ [q EXCEPT !.w = x] = [s |-> q.s, w |-> x]
OBVIOUS

(* An item that has arrived                                                *)
LEMMA FreshItem ==
  ASSUME NEW n \in Node, NEW main \in Seq(Data), main # <<>>, {Null, Empty} \cap ToSet(main) = {}
  PROVE  Item(n, main) \in Fresh
<1>1. <<>> \in Seq(Task)
  OBVIOUS
<1> QED
  BY <1>1 DEF Item, ItemOf, Fresh, Items

(* addNodeToBeExecuted puts one item on the stack or leaves the data       *)
(* waiting, in both cases with what waits well formed.                     *)
LEMMA AddNodeGrows ==
  ASSUME wf \in Workflows, NEW s \in Seq(Items), NEW q \in Grown(s), NEW c \in MainConns,
         NEW packet \in Packet
  PROVE  AddNodeToBeExecuted(q, c, packet) \in Grown(s)
<1>1. c \in Connection /\ c.to \in Node /\ c.in \in Nat /\ c.in < NumberOfInputs(c.to) /\ NumberOfInputs(c.to) \in Nat
  BY Connections, InputsBound DEF Connection
<1>2. q \in [s : Seq(Items), w : Seq(Waits)] /\ q = [s |-> q.s, w |-> q.w]
  BY DEF Grown
<1>3. CASE NumberOfInputs(c.to) <= 1
  <2> DEFINE none == [i \in 1 .. c.in |-> Null]
             main == Fill(none, c.in, packet)
  <2>1. c.in = 0
    BY <1>1, <1>3
  <2>2. none = <<>>
    BY <2>1
  <2>3. none \in Seq(Data) /\ ToSet(none) = {}
    BY <2>2, EmptyList
  <2>4. packet \in Data /\ packet # Empty /\ packet # Null
    BY EngineAssumption DEF EngineAssumption, Data
  <2>5. /\ main \in Seq(Data) /\ Len(main) = 1 /\ main[1] = packet
    <3>1. main = Fill(none, 0, packet) /\ Len(none) = 0
      BY <2>1, <2>2
    <3> HIDE DEF main, none
    <3>2. PICK z \in Nat : z = 0
      OBVIOUS
    <3>3. main = Fill(none, z, packet) /\ Len(none) = z
      BY <3>1, <3>2
    <3>4. Filled(main, none, z, packet)
      BY <3>3, <2>3, <2>4, FillDoes
    <3> QED
      BY <3>2, <3>3, <3>4 DEF Filled
  <2>6. AddNodeToBeExecuted(q, c, packet) = [q EXCEPT !.s = <<Item(c.to, main)>> \o @]
    BY <1>3 DEF AddNodeToBeExecuted
  <2> HIDE DEF main, none
  <2>7. main # <<>> /\ {Null, Empty} \cap ToSet(main) = {}
    <3>1. ToSet(main) = {main[i] : i \in 1..Len(main)}
      BY <2>5, SetOf
    <3>2. ToSet(main) = {packet}
      BY <2>5, <3>1
    <3>3. main # <<>>
      BY <3>2, EmptyList
    <3> QED
      BY <2>4, <3>2, <3>3
  <2>8. Item(c.to, main) \in Fresh
    BY <1>1, <2>5, <2>7, FreshItem
  <2> QED
    <3>1. PICK more : more = <<Item(c.to, main)>> \o q.s
      OBVIOUS
    <3>2. [q EXCEPT !.s = more] = [s |-> more, w |-> q.w]
      BY <1>2, StackAndWaiting
    <3> QED
      BY <3>1, <3>2, <2>6, <2>8, <1>2, GrownByOne
<1>4. CASE ~(NumberOfInputs(c.to) <= 1)
  <2> DEFINE entries == EntriesOf(q.w, c.to)
             lacking == {j \in DOMAIN entries : ~HasData(entries[j], c.in)}
             k    == IF lacking # {} THEN Least(lacking) ELSE Cardinality(DOMAIN entries)
             none == [i \in 1 .. NumberOfInputs(c.to) |-> Null]
             old  == IF lacking # {} THEN entries[k] ELSE none
             main == Fill(old, c.in, packet)
  <2>1. AddNodeToBeExecuted(q, c, packet) =
           IF Null \in {main[i] : i \in DOMAIN main}
           THEN [q EXCEPT !.w = SetEntries(@, c.to, With(entries, k, main))]
           ELSE [s |-> <<Item(c.to, main)>> \o q.s,
                 w |-> SetEntries(q.w, c.to, Without(entries, k))]
    BY <1>4 DEF AddNodeToBeExecuted
  <2>2. /\ entries \in Entries /\ IsFiniteSet(DOMAIN entries) /\ DOMAIN entries \in SUBSET Nat
        /\ \A j \in DOMAIN entries : entries[j] \in Seq(Data) /\ Partial(c.to, entries[j])
    <3> HIDE DEF entries
    <3>1. q.w \in Seq(Waits)
      BY <1>2
    <3> QED
      BY <3>1, EntriesKnown DEF entries
  <2> HIDE DEF entries
  <2>3. k \in Nat /\ (lacking # {} => k \in DOMAIN entries)
    <3>1. CASE lacking = {}
      BY <2>2, <3>1, FS_CardinalityType
    <3>2. CASE lacking # {}
      <4>1. lacking \in SUBSET Nat
        BY <2>2
      <4> HIDE DEF lacking
      <4>2. Least(lacking) \in lacking
        BY <3>2, <4>1, LeastNatural DEF Least
      <4> QED
        BY <3>2, <4>2, <2>2 DEF lacking
    <3> QED
      BY <3>1, <3>2
  <2>4. /\ old \in Seq(Data) /\ Len(old) = NumberOfInputs(c.to) /\ Empty \notin ToSet(old)
    <3>1. CASE lacking # {}
      <4>1. old = entries[k] /\ k \in DOMAIN entries
        BY <3>1, <2>3
      <4> HIDE DEF old, k, lacking
      <4> QED
        BY <4>1, <2>2 DEF Partial
    <3>2. CASE lacking = {}
      <4>1. old = none
        BY <3>2
      <4>2. Null \in Data /\ Null # Empty
        BY EngineAssumption DEF EngineAssumption, Data, Markers
      <4>3. none \in Seq(Data) /\ Len(none) = NumberOfInputs(c.to) /\ Empty \notin ToSet(none)
        BY <1>1, <4>2 DEF ToSet
      <4> QED
        BY <4>1, <4>3
    <3> QED
      BY <3>1, <3>2
  <2> HIDE DEF old, k
  <2>5. /\ main \in Seq(Data) /\ Len(main) = NumberOfInputs(c.to) /\ main # <<>>
        /\ Empty \notin ToSet(main)
        /\ Null \in ToSet(main) => Partial(c.to, main)
    BY <2>4, FillPartial
  <2> HIDE DEF main
  <2>6. {main[i] : i \in DOMAIN main} = ToSet(main)
    BY <2>5 DEF ToSet
  <2>7. CASE Null \in ToSet(main)
    <3> DEFINE more == With(entries, k, main)
               v == SetEntries(q.w, c.to, more)
    <3>1. /\ more \in Entries /\ IsFiniteSet(DOMAIN more) /\ DOMAIN more # {}
          /\ \A j \in DOMAIN more : Partial(c.to, more[j])
      BY <2>2, <2>3, <2>5, <2>7, WithPartial
    <3> HIDE DEF more
    <3>2. v \in Seq(Waits)
      BY <3>1, <1>1, <1>2, SetEntriesDoes
    <3>3. AddNodeToBeExecuted(q, c, packet) = [s |-> q.s, w |-> v]
      BY <2>1, <2>6, <2>7, <1>2, StackAndWaiting DEF more
    <3> HIDE DEF v
    <3> DEFINE r == [s |-> q.s, w |-> v]
    <3>4. r \in [s : Seq(Items), w : Seq(Waits)] /\ r.s = q.s
      BY <1>2, <3>2
    <3>5. \E added \in Seq(Fresh) : r.s = added \o s
      BY <3>4 DEF Grown
    <3> HIDE DEF r
    <3>6. r \in Grown(s)
      BY <3>4, <3>5 DEF Grown
    <3> QED
      BY <3>3, <3>6 DEF r
  <2>8. CASE Null \notin ToSet(main)
    <3> DEFINE less == Without(entries, k)
               v == SetEntries(q.w, c.to, less)
    <3>1. /\ less \in Entries /\ IsFiniteSet(DOMAIN less)
          /\ \A j \in DOMAIN less : Partial(c.to, less[j])
      BY <2>2, WithoutPartial
    <3>2. \E i \in DOMAIN q.w : q.w[i].node = c.to
      <4>1. lacking # {}
        <5> SUFFICES ASSUME lacking = {} PROVE FALSE
          OBVIOUS
        <5>1. old = none
          BY DEF old
        <5>2. main = Fill(none, c.in, packet)
          BY <5>1 DEF main
        <5>3. Fill(none, c.in, packet) = [j \in 1 .. Largest({Len(none), c.in + 1}) |->
                IF j = c.in + 1 THEN packet ELSE IF j \in DOMAIN none THEN none[j] ELSE Hole]
          BY DEF Fill
        <5>4. Len(none) = NumberOfInputs(c.to) /\ NumberOfInputs(c.to) > 1 /\ DOMAIN none = 1..NumberOfInputs(c.to)
          BY <1>1, <1>4
        <5>5. PICK j \in 1..NumberOfInputs(c.to) : j # c.in + 1
          <6>1. 1 \in 1..NumberOfInputs(c.to) /\ 2 \in 1..NumberOfInputs(c.to)
            BY <1>1, <5>4
          <6>2. 1 # c.in + 1 \/ 2 # c.in + 1
            BY <1>1
          <6> QED
            BY <6>1, <6>2
        <5>6. j \in 1..Len(main) /\ DOMAIN main = 1..Len(main)
          BY <2>5
        <5>7. main[j] = Null
          BY <5>2, <5>3, <5>4, <5>5, <5>6
        <5> QED
          BY <5>6, <5>7, <2>6, <2>8
      <4>2. DOMAIN entries # {}
        BY <4>1
      <4>3. entries # <<>>
        BY <4>2
      <4> QED
        BY <4>3 DEF entries, EntriesOf
    <3> HIDE DEF less
    <3>3. v \in Seq(Waits)
      <4>1. q.w \in Seq(Waits) /\ c.to \in Node
        BY <1>1, <1>2
      <4> QED
        BY <3>1, <3>2, <4>1, SetEntriesDoes
    <3>4. AddNodeToBeExecuted(q, c, packet) = [s |-> <<Item(c.to, main)>> \o q.s, w |-> v]
      BY <2>1, <2>6, <2>8 DEF less
    <3> HIDE DEF v
    <3>5. Item(c.to, main) \in Fresh
      BY <1>1, <2>5, <2>8, FreshItem
    <3> QED
      BY <3>3, <3>4, <3>5, GrownByOne
  <2> QED
    BY <2>7, <2>8
<1> QED
  BY <1>3, <1>4

-----------------------------------------------------------------------------
(* The children of a node that has run                                     *)

(* The connections to follow are those of the outputs with data, each once.*)
LEMMA FollowsConnections ==
  ASSUME wf \in Workflows, NEW n, NEW outs, NEW f, f = ConnectionsToFollow(n, outs)
  PROVE  /\ f \in Seq(DOMAIN wf.conns) /\ Distinct(f)
         /\ \A k \in 1..Len(f) : /\ wf.conns[f[k]] \in MainConns
                                 /\ wf.conns[f[k]].from = n /\ wf.conns[f[k]].out \in outs
         /\ \A c \in MainConns :
              c.from = n /\ c.out \in outs => \E k \in 1..Len(f) : wf.conns[f[k]] = c
<1> DEFINE followed == {i \in DOMAIN wf.conns :
                          /\ wf.conns[i].from = n
                          /\ wf.conns[i].type = "main"
                          /\ wf.conns[i].out \in outs}
           sooner(i, j) == \/ wf.place[wf.conns[i].to] > wf.place[wf.conns[j].to]
                           \/ wf.place[wf.conns[i].to] = wf.place[wf.conns[j].to] /\ i < j
           R == {pair \in followed \X followed : sooner(pair[1], pair[2])}
           N == Cardinality(followed)
<1>1. /\ wf.conns \in Seq(Connection) /\ DOMAIN wf.conns = 1..Len(wf.conns) /\ Len(wf.conns) \in Nat
      /\ wf.place \in [Node -> Int]
  BY TheWorkflow DEF IsWorkflow
<1>2. /\ followed \in SUBSET DOMAIN wf.conns /\ IsFiniteSet(followed) /\ N \in Nat
      /\ \A i \in followed : i \in Int /\ wf.place[wf.conns[i].to] \in Int
  <2>1. followed \in SUBSET DOMAIN wf.conns /\ IsFiniteSet(DOMAIN wf.conns)
    BY <1>1, FS_Interval
  <2>2. IsFiniteSet(followed)
    BY <2>1, FS_Subset
  <2>3. ASSUME NEW i \in followed
        PROVE  i \in Int /\ wf.place[wf.conns[i].to] \in Int
    <3>1. i \in 1..Len(wf.conns)
      BY <1>1
    <3>2. wf.conns[i] \in Connection
      BY <1>1, <3>1
    <3>3. wf.conns[i].to \in Node
      BY <3>2 DEF Connection
    <3> QED
      BY <1>1, <3>1, <3>3
  <2> QED
    BY <2>1, <2>2, <2>3, FS_CardinalityType
<1>3. \A i, j \in followed : <<i, j>> \in R <=> sooner(i, j)
  OBVIOUS
<1>4. \A k \in 1..N : \E i \in followed : Cardinality({j \in followed : <<j, i>> \in R}) = k - 1
  <2> HIDE DEF followed, R
  <2>1. \A x \in followed : <<x, x>> \notin R
    BY <1>2, <1>3
  <2>2. \A x, y, z \in followed : <<x, y>> \in R /\ <<y, z>> \in R => <<x, z>> \in R
    BY <1>2, <1>3
  <2>3. ASSUME NEW x \in followed, NEW y \in followed
        PROVE  x = y \/ <<x, y>> \in R \/ <<y, x>> \in R
    <3>1. x = y \/ sooner(x, y) \/ sooner(y, x)
      <4>1. PICK a \in Int : a = wf.place[wf.conns[x].to]
        BY <1>2
      <4>2. PICK b \in Int : b = wf.place[wf.conns[y].to]
        BY <1>2
      <4>3. x \in Int /\ y \in Int
        BY <1>2
      <4>4. (a > b \/ b > a \/ a = b) /\ (x < y \/ y < x \/ x = y)
        BY <4>1, <4>2, <4>3
      <4> QED
        BY <4>1, <4>2, <4>4
    <3> QED
      BY <3>1, <1>3
  <2> QED
    BY <1>2, <2>1, <2>2, <2>3, Ranks
<1>5. \A i \in followed : {j \in followed : <<j, i>> \in R} = {j \in followed : sooner(j, i)}
  <2> HIDE DEF followed, R, sooner
  <2> QED
    BY <1>3
<1>6. f = [k \in 1..N |-> CHOOSE i \in followed : Cardinality({j \in followed : sooner(j, i)}) = k - 1]
  BY DEF ConnectionsToFollow
<1>7. ASSUME NEW k \in 1..N
      PROVE  f[k] \in followed /\ Cardinality({j \in followed : sooner(j, f[k])}) = k - 1
  <2> HIDE DEF followed, R, sooner, N
  <2>1. \E i \in followed : Cardinality({j \in followed : sooner(j, i)}) = k - 1
    BY <1>4, <1>5
  <2>2. f[k] = CHOOSE i \in followed : Cardinality({j \in followed : sooner(j, i)}) = k - 1
    BY <1>6
  <2> QED
    BY <2>1, <2>2
<1>8. f \in Seq(followed) /\ Len(f) = N
  <2> HIDE DEF followed, R, sooner, N
  <2>1. f = [k \in 1..N |-> f[k]]
    BY <1>6
  <2>2. f \in [1..N -> followed]
    BY <1>7, <2>1
  <2> QED
    BY <2>2, <1>2
<1>9. \A i \in followed : /\ i \in DOMAIN wf.conns /\ wf.conns[i] \in MainConns
                         /\ wf.conns[i].from = n /\ wf.conns[i].out \in outs
  BY Connections DEF MainConns
<1>10. f \in Seq(DOMAIN wf.conns)
  BY <1>2, <1>8, SeqMonotonic
<1>11. Distinct(f)
  <2> DEFINE rank(i) == Cardinality({j \in followed : sooner(j, i)})
  <2>1. \A k \in 1..Len(f) : rank(f[k]) = k - 1
    <3> SUFFICES ASSUME NEW k \in 1..Len(f) PROVE rank(f[k]) = k - 1
      OBVIOUS
    <3>1. k \in 1..N
      BY <1>8
    <3> HIDE DEF followed, R, sooner, N
    <3> QED
      BY <1>7, <3>1
  <2> HIDE DEF rank, followed, N
  <2>2. ASSUME NEW i \in 1..Len(f), NEW j \in 1..Len(f), f[i] = f[j]
        PROVE  i = j
    <3>1. i - 1 = j - 1
      BY <2>1, <2>2
    <3>2. i \in Int /\ j \in Int
      BY <1>2, <1>8
    <3> QED
      BY <3>1, <3>2
  <2> QED
    BY <2>2 DEF Distinct
<1>12. \A i \in followed : \E k \in 1..Len(f) : f[k] = i
  <2> HIDE DEF followed, R, sooner, N
  <2>1. f \in Injection(1..N, followed)
    BY <1>6, <1>7, <1>8, <1>11 DEF Injection, IsInjective, Distinct
  <2>2. Cardinality(1..N) = N
    BY <1>2, FS_Interval
  <2>3. f \in Surjection(1..N, followed)
    BY <1>2, <2>1, <2>2, FS_Injection DEF N
  <2> QED
    BY <1>8, <2>3 DEF Surjection
<1>13. \A c \in MainConns : c.from = n /\ c.out \in outs => \E i \in followed : wf.conns[i] = c
  BY <1>1 DEF MainConns, Conns, ToSet
<1> QED
  <2> HIDE DEF followed, N
  <2> QED
    BY <1>7, <1>8, <1>9, <1>10, <1>11, <1>12, <1>13

(* Nothing follows a node without connections.                             *)
LEMMA NothingFollows ==
  ASSUME wf \in Workflows, NEW n, NEW outs, \A c \in MainConns : c.from # n,
         NEW f, f = ConnectionsToFollow(n, outs)
  PROVE  Len(f) = 0
<1>1. f \in Seq(DOMAIN wf.conns) /\ \A k \in 1..Len(f) : wf.conns[f[k]] \in MainConns /\ wf.conns[f[k]].from = n
  BY FollowsConnections
<1>2. Len(f) \in Nat
  BY <1>1
<1> QED
  BY <1>1, <1>2

(* What there is after each connection in turn: the items of the children  *)
(* come to lie on the stack, or what they receive waits.                   *)
LEMMA AddingUnfolds ==
  ASSUME wf \in Workflows, waiting \in Seq(Waits), NEW s \in Seq(Items), NEW n, NEW outs, NEW run \in Nat,
         NEW follow, follow = ConnectionsToFollow(n, outs), NEW g, g = AddingChildren(n, outs, run, s)
  PROVE  /\ Len(follow) \in Nat
         /\ g[0] = [s |-> s, w |-> waiting]
         /\ \A k \in 1..Len(follow) :
              g[k] = AddNodeToBeExecuted(g[k - 1], wf.conns[follow[k]],
                                         [conn |-> wf.conns[follow[k]], run |-> run])
         /\ \A k \in 0..Len(follow) : g[k] \in Grown(s)
<1> DEFINE N == Len(follow)
           conn(k) == wf.conns[follow[k]]
           packet(k) == [conn |-> conn(k), run |-> run]
           base == [s |-> s, w |-> waiting]
           Q == Grown(s)
           step == [k \in 1..N |-> [q \in Q |-> AddNodeToBeExecuted(q, conn(k), packet(k))]]
           Body(f) == [k \in 0..N |-> IF k = 0 THEN base ELSE AddNodeToBeExecuted(f[k - 1], conn(k), packet(k))]
<1>2. N \in Nat /\ \A k \in 1..N : conn(k) \in MainConns
  BY FollowsConnections
<1>3. \A k \in 1..N : packet(k) \in Packet
  BY <1>2, Connections DEF Packet
<1>4. base \in Q
  <2>1. <<>> \in Seq(Fresh) /\ s = <<>> \o s
    BY EmptyList, ConcatEmptySeq
  <2>2. base \in [s : Seq(Items), w : Seq(Waits)] /\ base.s = s
    OBVIOUS
  <2> HIDE DEF base
  <2> QED
    BY <2>1, <2>2 DEF Grown
<1>5. \A k \in 1..N : \A q \in Q : AddNodeToBeExecuted(q, conn(k), packet(k)) \in Q
  <2> SUFFICES ASSUME NEW k \in 1..N, NEW q \in Q
               PROVE  AddNodeToBeExecuted(q, conn(k), packet(k)) \in Q
    OBVIOUS
  <2>1. conn(k) \in MainConns /\ packet(k) \in Packet
    BY <1>2, <1>3
  <2> HIDE DEF conn, packet
  <2> QED
    BY <2>1, AddNodeGrows
<1>6. g = CHOOSE f : f = Body(f)
  BY DEF AddingChildren
<1> HIDE DEF N, conn, packet, base, Q
<1>7. step \in [1..N -> [Q -> Q]]
  BY <1>5
<1>8. PICK f : Folds(f, N, Q, base, step)
  <2> HIDE DEF step
  <2> QED
    BY <1>2, <1>4, <1>7, FoldDefined
<1>9. f \in [0..N -> Q] /\ f[0] = base /\ \A k \in 1..N : f[k] = step[k][f[k - 1]]
  BY <1>8 DEF Folds
<1>10. ASSUME NEW k \in 1..N
       PROVE  f[k] = AddNodeToBeExecuted(f[k - 1], conn(k), packet(k))
  <2>1. f[k - 1] \in Q
    BY <1>2, <1>9
  <2> QED
    BY <2>1, <1>9
<1>11. f = Body(f)
  <2>1. \A k \in 0..N : f[k] = Body(f)[k]
    <3> TAKE k \in 0..N
    <3>1. CASE k = 0
      BY <3>1, <1>9
    <3>2. CASE k # 0
      <4>1. k \in 1..N
        BY <3>2, <1>2
      <4> QED
        BY <4>1, <3>2, <1>10
    <3> QED
      BY <3>1, <3>2
  <2> QED
    BY <2>1, <1>9
<1>12. g = Body(g)
  <2> HIDE DEF Body
  <2> QED
    BY <1>6, <1>11
<1>14. /\ g[0] = base
       /\ \A k \in 1..N : g[k] = AddNodeToBeExecuted(g[k - 1], conn(k), packet(k))
  <2>1. 0 \in 0..N /\ \A k \in 1..N : k \in 0..N /\ k # 0
    BY <1>2
  <2> QED
    BY <1>12, <2>1
<1>15. \A k \in 0..N : g[k] \in Q
  <2> DEFINE Good == {k \in 0..N : g[k] \in Q}
  <2>1. 0 \in Good
    BY <1>2, <1>4, <1>14
  <2>2. ASSUME NEW k \in 1..N, k - 1 \in Good
        PROVE  k \in Good
    BY <2>2, <1>2, <1>5, <1>14
  <2> HIDE DEF Good
  <2>3. 0..N \subseteq Good
    BY <1>2, <2>1, <2>2, UpTo
  <2> QED
    BY <2>3 DEF Good
<1> QED
  BY <1>2, <1>14, <1>15 DEF N, conn, packet, base, Q

(* The items of the children come to lie on the stack.                     *)
LEMMA AddChildrenGrows ==
  ASSUME wf \in Workflows, waiting \in Seq(Waits), NEW s \in Seq(Items), NEW n, NEW outs, NEW run \in Nat
  PROVE  /\ AddChildren(n, outs, run, s) \in Grown(s)
         /\ (\A c \in MainConns : c.from # n) => AddChildren(n, outs, run, s) = [s |-> s, w |-> waiting]
<1>1. PICK follow : follow = ConnectionsToFollow(n, outs)
  OBVIOUS
<1>2. PICK g : g = AddingChildren(n, outs, run, s)
  OBVIOUS
<1>3. AddChildren(n, outs, run, s) = g[Len(follow)]
  BY <1>1, <1>2 DEF AddChildren
<1>4. /\ Len(follow) \in Nat /\ g[0] = [s |-> s, w |-> waiting]
      /\ \A k \in 0..Len(follow) : g[k] \in Grown(s)
  BY <1>1, <1>2, AddingUnfolds
<1>5. (\A c \in MainConns : c.from # n) => Len(follow) = 0
  BY <1>1, NothingFollows
<1> QED
  BY <1>3, <1>4, <1>5

-----------------------------------------------------------------------------
(* The look at what waits                                                  *)

(* With an empty stack the first node that is ready is executed, when no   *)
(* node before it waits; else nothing changes.                             *)
Released(q, r) ==
  \E x \in Items :
    /\ q.s = <<>> /\ r.s = <<x>> /\ r.w \in Seq(Waits) /\ r = [s |-> r.s, w |-> r.w]
    /\ x.main # <<>> /\ Null \notin ToSet(x.main) /\ x.run = Null /\ x.calls = <<>>
    /\ NodesOf(r.w) \cap ParentNodes(x.node) = {}

(* ExecuteWaiting leaves everything as it is, with no node ready if the    *)
(* stack is empty, or releases one node that waits.                        *)
LEMMA ExecuteWaitingDoes ==
  ASSUME wf \in Workflows, NEW q \in [s : Seq(Items), w : Seq(Waits)], NEW r, r = ExecuteWaiting(q)
  PROVE  \/ r = q /\ (q.s = <<>> => \A i \in DOMAIN q.w : ~Ready(q.w, i))
         \/ Released(q, r)
<1> DEFINE ready == {i \in DOMAIN q.w : Ready(q.w, i)}
           x    == q.w[Least(ready)]
           k    == Least(DOMAIN x.entries)
           data == x.entries[k]
           main == [i \in 1 .. Largest({Len(data), NumberOfInputs(x.node)}) |->
                      IF i > Len(data) \/ data[i] = Null THEN Empty ELSE data[i]]
           less == Without(x.entries, k)
           v    == SetEntries(q.w, x.node, less)
<1>1. r = IF q.s # <<>> \/ ready = {} THEN q ELSE [s |-> <<Item(x.node, main)>>, w |-> v]
  BY DEF ExecuteWaiting
<1>2. CASE q.s # <<>> \/ ready = {}
  BY <1>1, <1>2
<1>3. CASE q.s = <<>> /\ ready # {}
  <2>1. q.w \in Seq(Waits) /\ DOMAIN q.w \in SUBSET Nat
    <3>1. q.w \in Seq(Waits)
      OBVIOUS
    <3>2. DOMAIN q.w = 1..Len(q.w) /\ Len(q.w) \in Nat
      BY <3>1, HowLong
    <3> QED
      BY <3>1, <3>2
  <2>2. Least(ready) \in ready
    <3>1. ready \in SUBSET Nat /\ ready # {}
      BY <2>1, <1>3
    <3> HIDE DEF ready
    <3> QED
      BY <3>1, LeastNatural DEF Least
  <2>3. Least(ready) \in DOMAIN q.w /\ Ready(q.w, Least(ready))
    BY <2>2
  <2>4. x \in Waits /\ ParentNodes(x.node) \cap NodesOf(q.w) = {} /\ x.node \in NodesOf(q.w)
    <3>1. x \in Waits
      BY <2>1, <2>3
    <3>2. ParentNodes(x.node) \cap {q.w[j].node : j \in DOMAIN q.w} = {}
      BY <2>3 DEF Ready
    <3> QED
      BY <3>1, <3>2, <2>3 DEF NodesOf
  <2> HIDE DEF ready, x
  <2>5. /\ x.node \in Node /\ x.entries \in Entries /\ IsFiniteSet(DOMAIN x.entries)
        /\ DOMAIN x.entries # {} /\ DOMAIN x.entries \in SUBSET Nat
        /\ \A j \in DOMAIN x.entries : Partial(x.node, x.entries[j])
    BY <2>4 DEF Waits, Entries
  <2>6. k \in DOMAIN x.entries
    BY <2>5, LeastNatural DEF Least
  <2> HIDE DEF k
  <2>7. data \in Seq(Data) /\ Len(data) = NumberOfInputs(x.node) /\ Null \in ToSet(data)
    BY <2>5, <2>6 DEF Partial
  <2> HIDE DEF data
  <2>8. Len(data) \in Nat /\ Len(data) >= 1 /\ NumberOfInputs(x.node) = Len(data)
    <3>1. data # <<>>
      BY <2>7, EmptyList
    <3> QED
      BY <3>1, <2>7, HowLong
  <2>9. main \in Seq(Data) /\ main # <<>> /\ Null \notin ToSet(main)
    <3>1. Largest({Len(data), NumberOfInputs(x.node)}) = Len(data)
      BY <2>8, LargestOfTwo
    <3>2. Empty \in Data
      BY DEF Data, Markers
    <3>3. \A i \in 1..Len(data) : data[i] \in Data
      BY <2>7, HowLong
    <3>4. main \in [1..Len(data) -> Data]
      BY <3>1, <3>2, <3>3
    <3>6. Empty # Null
      BY EngineAssumption DEF EngineAssumption
    <3>7. \A i \in 1..Len(data) : main[i] # Null
      BY <3>1, <3>6
    <3> HIDE DEF main
    <3>5. main \in Seq(Data) /\ Len(main) = Len(data)
      BY <3>4, <2>8
    <3>8. Null \notin ToSet(main)
      BY <3>5, <3>7, SetOf
    <3> QED
      BY <3>5, <3>8, <2>8, HowLong
  <2> HIDE DEF main
  <2>10. /\ Item(x.node, main) \in Items /\ Item(x.node, main).main = main
         /\ Item(x.node, main).run = Null /\ Item(x.node, main).calls = <<>>
         /\ Item(x.node, main).node = x.node
    <3>1. <<>> \in Seq(Task)
      BY EmptyList
    <3> QED
      BY <3>1, <2>5, <2>9 DEF Item, ItemOf, Items
  <2>11. /\ less \in Entries /\ IsFiniteSet(DOMAIN less)
         /\ \A j \in DOMAIN less : Partial(x.node, less[j])
    BY <2>5, WithoutPartial
  <2> HIDE DEF less
  <2>12. \E i \in DOMAIN q.w : q.w[i].node = x.node
    BY <2>4 DEF NodesOf
  <2>13. v \in Seq(Waits) /\ NodesOf(v) \subseteq NodesOf(q.w) \cup {x.node}
    <3>1. PICK n \in Node : n = x.node
      BY <2>5
    <3>2. PICK w \in Seq(Waits) : w = q.w
      BY <2>1
    <3>3. v = SetEntries(w, n, less) /\ \E i \in DOMAIN w : w[i].node = n
      BY <3>1, <3>2, <2>12 DEF v
    <3>4. \A j \in DOMAIN less : Partial(n, less[j])
      BY <3>1, <2>11
    <3>5. v \in Seq(Waits) /\ NodesOf(v) \subseteq NodesOf(w) \cup {n}
      BY <2>11, <3>3, <3>4, SetEntriesDoes
    <3> QED
      BY <3>1, <3>2, <3>5
  <2>14. NodesOf(v) \cap ParentNodes(x.node) = {}
    BY <2>4, <2>13
  <2> HIDE DEF v
  <2>15. r = [s |-> <<Item(x.node, main)>>, w |-> v]
    BY <1>1, <1>3
  <2> QED
    BY <2>9, <2>10, <2>13, <2>14, <2>15, <1>3 DEF Released
<1> QED
  BY <1>2, <1>3

-----------------------------------------------------------------------------
(* The types, and what a node that has run leaves                          *)

(* The statuses of an execution                                            *)
Statuses == {"running", "waiting", "error", "canceled", "success"}

(* The types, with what waits in full                                      *)
Typed ==
  /\ wf \in Workflows
  /\ stack \in Seq(Items) /\ \A i \in DOMAIN stack : stack[i].main # <<>>
  /\ waiting \in Seq(Waits)
  /\ current \in Items \cup {Null} /\ (current # Null => current.main # <<>>)
  /\ runData \in [Node -> Seq(TaskData)]
  /\ status \in Statuses /\ tries \in 0 .. MaxTries - 1 /\ restarts \in 0 .. MaxRestarts
  /\ filter \subseteq Node /\ destination \in Node \cup {Null}

(* A loop that has ended has no current node, and what can go on has a node*)
(* to go on with.                                                          *)
Stops ==
  /\ status \in {"waiting", "error"} => stack # <<>>
  /\ status \in {"waiting", "error", "success"} => current = Null

(* What a node that has run leaves: its children on the stack and waiting, *)
(* and if there are none, perhaps a node that waited. Tools have none.     *)
Leaves ==
  \/ /\ current.node = destination
     /\ UNCHANGED <<stack, waiting>>
  \/ \E q \in Grown(stack) :
       /\ current.node \in Tools => q = [s |-> stack, w |-> waiting]
       /\ \/ /\ stack' = q.s /\ waiting' = q.w
             /\ stack' = <<>> => \A i \in DOMAIN waiting' : ~Ready(waiting', i)
          \/ Released(q, [s |-> stack', w |-> waiting'])

(* A node's run is its next one, or the one that its call has recorded.    *)
LEMMA RunIndexIs ==
  ASSUME Typed, current # Null
  PROVE  /\ current.node \in Node /\ Len(runData[current.node]) \in Nat /\ RunIndex \in Nat
         /\ current.main \in Seq(Data) /\ current.main[1] \in Data
<1>1. current \in Items /\ current.main # <<>>
  BY DEF Typed
<1>2. current.main \in Seq(Data) /\ current.node \in Node /\ current.run \in Nat \cup {Null}
  BY <1>1 DEF Items
<1>3. Len(current.main) >= 1
  BY <1>1, <1>2, HowLong
<1>4. runData[current.node] \in Seq(TaskData)
  BY <1>2 DEF Typed
<1> QED
  BY <1>2, <1>3, <1>4, HowLong DEF RunIndex

(* The run is recorded at its place, and nothing else changes.             *)
LEMMA RecordDoes ==
  ASSUME Typed, current # Null, NEW outs \in SUBSET Nat, NEW data, data = Record(outs)
  PROVE  /\ data \in [Node -> Seq(TaskData)]
         /\ \A n \in Node : Len(data[n]) >= Len(runData[n])
         /\ \A n \in Node : \A i \in 1..Len(runData[n]) :
              data[n][i] = runData[n][i] \/ data[n][i].state = "success"
         /\ data[current.node] # <<>>
         /\ RunIndex < Len(runData[current.node]) => data[current.node][RunIndex + 1].state = "success"
<1> DEFINE task == [main |-> current.main, outs |-> outs, state |-> "success"]
<1>1. PICK n : n = current.node
  OBVIOUS
<1>2. PICK k : k = RunIndex
  OBVIOUS
<1>3. PICK runs : runs = runData[n]
  OBVIOUS
<1>4. n \in Node /\ k \in Nat /\ runs \in Seq(TaskData) /\ Len(runs) \in Nat /\ DOMAIN runs = 1..Len(runs)
  BY <1>1, <1>2, <1>3, RunIndexIs, HowLong DEF Typed
<1>5. task \in TaskData /\ task.state = "success"
  BY RunIndexIs DEF TaskData
<1> HIDE DEF task
<1>6. runData \in [Node -> Seq(TaskData)]
  BY DEF Typed
<1>7. PICK more : more = IF k < Len(runs) THEN [runs EXCEPT ![k + 1] = task] ELSE Append(runs, task)
  OBVIOUS
<1>8. data = [runData EXCEPT ![n] = more]
  BY <1>1, <1>2, <1>3, <1>7 DEF Record, task
<1>9. /\ more \in Seq(TaskData) /\ Len(more) >= Len(runs) /\ more # <<>>
      /\ \A i \in 1..Len(runs) : more[i] = runs[i] \/ more[i] = task
      /\ k < Len(runs) => more[k + 1] = task
  <2>1. CASE k < Len(runs)
    <3>1. k + 1 \in 1..Len(runs) /\ more = [runs EXCEPT ![k + 1] = task]
      BY <2>1, <1>4, <1>7
    <3>2. more \in Seq(TaskData) /\ Len(more) = Len(runs)
      BY <3>1, <1>4, <1>5
    <3>3. \A i \in 1..Len(runs) : more[i] = IF i = k + 1 THEN task ELSE runs[i]
      BY <3>1, <1>4
    <3>4. more # <<>>
      BY <3>1, <3>2, EmptySeq
    <3> QED
      BY <3>1, <3>2, <3>3, <3>4, <1>4
  <2>2. CASE ~(k < Len(runs))
    <3>1. more = Append(runs, task)
      BY <2>2, <1>7
    <3>2. more \in Seq(TaskData) /\ Len(more) = Len(runs) + 1 /\ \A i \in 1..Len(runs) : more[i] = runs[i]
      BY <3>1, <1>4, <1>5
    <3>3. more # <<>>
      BY <3>2, <1>4, EmptySeq
    <3> QED
      BY <2>2, <3>2, <3>3, <1>4
  <2> QED
    BY <2>1, <2>2
<1>10. /\ data \in [Node -> Seq(TaskData)] /\ data[n] = more
       /\ \A m \in Node : m # n => data[m] = runData[m]
  BY <1>4, <1>6, <1>8, <1>9
<1>11. \A m \in Node : Len(runData[m]) \in Nat
  BY <1>6, HowLong
<1>12. \A m \in Node : Len(data[m]) >= Len(runData[m])
  <2> TAKE m \in Node
  <2>1. CASE m # n
    BY <1>10, <1>11, <2>1
  <2>2. CASE m = n
    BY <1>3, <1>4, <1>9, <1>10, <2>2
  <2> QED
    BY <2>1, <2>2
<1>13. \A m \in Node : \A i \in 1..Len(runData[m]) :
         data[m][i] = runData[m][i] \/ data[m][i].state = "success"
  BY <1>3, <1>5, <1>9, <1>10
<1> QED
  BY <1>1, <1>2, <1>3, <1>5, <1>9, <1>10, <1>12, <1>13

(* The stack still holds items after some were added.                      *)
LEMMA GrownTyped ==
  ASSUME NEW s \in Seq(Items), \A i \in DOMAIN s : s[i].main # <<>>, NEW q \in Grown(s)
  PROVE  /\ q.s \in Seq(Items) /\ q.w \in Seq(Waits) /\ q \in [s : Seq(Items), w : Seq(Waits)]
         /\ \A i \in DOMAIN q.s : q.s[i].main # <<>>
<1>1. q \in [s : Seq(Items), w : Seq(Waits)]
  BY DEF Grown
<1>2. PICK added \in Seq(Fresh) : q.s = added \o s
  BY DEF Grown
<1>3. Fresh \subseteq Items
  BY DEF Fresh
<1>4. \A i \in DOMAIN q.s : q.s[i] \in Fresh \/ \E j \in DOMAIN s : q.s[i] = s[j]
  <2>1. added \in Seq(Items) /\ DOMAIN s = 1..Len(s)
    BY <1>3, SeqMonotonic
  <2>2. TAKE i \in DOMAIN q.s
  <2>3. \/ i \in 1..Len(added) /\ q.s[i] = added[i]
        \/ i - Len(added) \in 1..Len(s) /\ q.s[i] = s[i - Len(added)]
    BY <2>1, <1>2
  <2>4. \A j \in 1..Len(added) : added[j] \in Fresh
    BY HowLong
  <2> QED
    BY <2>1, <2>3, <2>4
<1> QED
  BY <1>1, <1>4 DEF Fresh

(* No main connection leads from a tool.                                   *)
LEMMA ToolsHaveNoConnections ==
  ASSUME Typed, NEW n \in Tools
  PROVE  \A c \in MainConns : c.from # n
BY TheWorkflow DEF Typed, Tools, IsWorkflow, MainConns, Conns

(* What depends on the workflow only does not change with the state.       *)
LEMMA SameWorkflow ==
  ASSUME wf' = wf
  PROVE  /\ Waits' = Waits /\ MainConns' = MainConns /\ Tools' = Tools
         /\ \A n : ParentNodes(n)' = ParentNodes(n) /\ NumberOfInputs(n)' = NumberOfInputs(n)
         /\ \A w, i : Ready(w, i)' = Ready(w, i)
<1>1. MainConns' = MainConns
  BY DEF MainConns, Conns
<1>2. \A n : NumberOfInputs(n)' = NumberOfInputs(n)
  BY <1>1 DEF NumberOfInputs
<1>3. \A n, main : Partial(n, main)' = Partial(n, main)
  BY <1>2 DEF Partial
<1>4. Waits' = Waits
  BY <1>3 DEF Waits
<1>5. \A n : ParentNodes(n)' = ParentNodes(n)
  BY <1>1 DEF ParentNodes
<1>6. \A w, i : Ready(w, i)' = Ready(w, i)
  BY <1>5 DEF Ready
<1>7. Tools' = Tools
  BY DEF Tools
<1> QED
  BY <1>1, <1>2, <1>4, <1>5, <1>6, <1>7

(* A node that has run is recorded, and leaves its children.               *)
LEMMA FinishDoes ==
  ASSUME Typed, current # Null, NEW outs \in SUBSET Nat, Finish(outs)
  PROVE  /\ Typed' /\ Leaves
         /\ current' = Null /\ runData' = Record(outs)
         /\ UNCHANGED <<wf, tries, status, filter, destination, restarts>>
<1> DEFINE n == current.node
           a == AddChildren(n, outs, RunIndex, stack)
           q == ExecuteWaiting(a)
<1>1. /\ runData' = Record(outs) /\ current' = Null
      /\ UNCHANGED <<wf, tries, status, filter, destination, restarts>>
      /\ \/ n = destination /\ UNCHANGED <<stack, waiting>>
         \/ n # destination /\ stack' = q.s /\ waiting' = q.w
  BY DEF Finish
<1>2. stack \in Seq(Items) /\ waiting \in Seq(Waits) /\ wf \in Workflows /\ RunIndex \in Nat
      /\ \A i \in DOMAIN stack : stack[i].main # <<>>
  BY RunIndexIs DEF Typed
<1>3. a \in Grown(stack) /\ (n \in Tools => a = [s |-> stack, w |-> waiting])
  <2> HIDE DEF n
  <2> QED
    BY <1>2, AddChildrenGrows, ToolsHaveNoConnections
<1> HIDE DEF a
<1>4. /\ a.s \in Seq(Items) /\ a.w \in Seq(Waits) /\ a \in [s : Seq(Items), w : Seq(Waits)]
      /\ \A i \in DOMAIN a.s : a.s[i].main # <<>>
  BY <1>2, <1>3, GrownTyped
<1>5. \/ q = a /\ (a.s = <<>> => \A i \in DOMAIN a.w : ~Ready(a.w, i))
      \/ Released(a, q)
  BY <1>2, <1>4, ExecuteWaitingDoes
<1> HIDE DEF q
<1>6. /\ q.s \in Seq(Items) /\ q.w \in Seq(Waits)
      /\ \A i \in DOMAIN q.s : q.s[i].main # <<>>
  <2>1. CASE q = a
    BY <2>1, <1>4
  <2>2. CASE Released(a, q)
    <3>1. PICK x \in Items : q.s = <<x>> /\ q.w \in Seq(Waits) /\ x.main # <<>>
      BY <2>2 DEF Released
    <3>2. <<x>> \in Seq(Items) /\ \A i \in DOMAIN <<x>> : <<x>>[i] = x
      OBVIOUS
    <3> QED
      BY <3>1, <3>2
  <2> QED
    BY <2>1, <2>2, <1>5
<1>7. Leaves
  <2>1. CASE n = destination /\ UNCHANGED <<stack, waiting>>
    BY <2>1 DEF Leaves
  <2>2. CASE stack' = q.s /\ waiting' = q.w
    <3>1. CASE q = a /\ (a.s = <<>> => \A i \in DOMAIN a.w : ~Ready(a.w, i))
      <4>1. stack' = a.s /\ waiting' = a.w /\ (stack' = <<>> => \A i \in DOMAIN waiting' : ~Ready(waiting', i))
        BY <2>2, <3>1
      <4> QED
        BY <4>1, <1>3 DEF Leaves
    <3>2. CASE Released(a, q)
      <4>1. q = [s |-> q.s, w |-> q.w]
        BY <3>2 DEF Released
      <4>2. q = [s |-> stack', w |-> waiting']
        BY <4>1, <2>2
      <4> QED
        BY <4>2, <3>2, <1>3 DEF Leaves
    <3> QED
      BY <3>1, <3>2, <1>5
  <2> QED
    BY <2>1, <2>2, <1>1
<1>8. /\ stack' \in Seq(Items) /\ waiting' \in Seq(Waits)
      /\ \A i \in DOMAIN stack' : stack'[i].main # <<>>
  BY <1>1, <1>2, <1>6
<1>9. runData' \in [Node -> Seq(TaskData)]
  BY <1>1, RecordDoes
<1> HIDE DEF n
<1>10. Typed'
  <2>1. UNCHANGED <<wf, tries, status, filter, destination, restarts>> /\ current' = Null
    BY <1>1
  <2>2. wf' \in Workflows /\ status' \in Statuses /\ tries' \in 0 .. MaxTries - 1
        /\ restarts' \in 0 .. MaxRestarts /\ filter' \subseteq Node /\ destination' \in Node \cup {Null}
    BY <2>1 DEF Typed
  <2>3. current' \in Items \cup {Null} /\ (current' # Null => current'.main # <<>>)
    BY <2>1
  <2>4. waiting' \in Seq(Waits)'
    BY <1>8, <2>1, SameWorkflow
  <2> QED
    BY <1>8, <1>9, <2>2, <2>3, <2>4 DEF Typed, Statuses
<1>11. /\ runData' = Record(outs) /\ current' = Null
       /\ UNCHANGED <<wf, tries, status, filter, destination, restarts>>
  BY <1>1
<1> QED
  BY <1>7, <1>10, <1>11

-----------------------------------------------------------------------------
(* The kinds of steps, and Shift                                           *)

(* The ways in which an executed node is left behind, whichever action     *)
(* leaves it: it returned data, its branch ended, it is tried again, or it *)
(* failed for good.                                                        *)
Returns == Executing /\ \E outs \in SUBSET Nat : Finish(outs)

EndsBranch ==
  /\ Executing /\ EndBranch
  /\ ~current.disabled => current.node \in wf.ends
  /\ current.disabled => current.main[1] = Null

TriesAgain ==
  /\ Executes /\ current.node \in wf.fails /\ ~LastTry
  /\ tries' = tries + 1
  /\ UNCHANGED <<wf, stack, waiting, runData, current, status, filter, destination, restarts>>

FailsForGood ==
  /\ Executes
  /\ runData' = [runData EXCEPT ![current.node] =
                   Append(@, [main |-> current.main, outs |-> {}, state |-> "error"])]
  /\ stack' = <<current>> \o stack
  /\ current' = Null
  /\ status' = IF status = "running" THEN "error" ELSE status
  /\ UNCHANGED <<wf, waiting, tries, filter, destination, restarts>>

(* PassThrough gives outputs.                                              *)
LEMMA PassesOn == PassThrough \in SUBSET Nat
BY DEF PassThrough

(* Every step is of one of these kinds.                                    *)
LEMMA StepKinds ==
  ASSUME Typed, Next
  PROVE  \/ Shift \/ Returns \/ EndsBranch \/ RunRequests \/ TriesAgain \/ FailsForGood \/ RunWaits
         \/ Complete \/ Cancel \/ Resume \/ Retry
<1>1. CASE RunPinned
  <2>1. {0} \in SUBSET Nat
    OBVIOUS
  <2> QED
    BY <1>1, <2>1 DEF RunPinned, Returns
<1>2. CASE RunDisabled
  <2>1. CASE current.main[1] = Null
    BY <1>2, <2>1 DEF RunDisabled, EndsBranch
  <2>2. CASE current.main[1] # Null
    BY <1>2, <2>2, PassesOn DEF RunDisabled, Returns
  <2> QED
    BY <2>1, <2>2
<1>3. CASE RunSucceeds
  <2>1. current \in Items /\ wf.outs \in [Node -> SUBSET SUBSET Nat]
    BY <1>3, TheWorkflow DEF RunSucceeds, Executes, Executing, Typed, IsWorkflow
  <2>2. current.node \in Node /\ {0} \in SUBSET Nat /\ {1} \in SUBSET Nat
    BY <2>1 DEF Items
  <2>3. PICK outs \in Outputs(current.node) : Finish(outs)
    BY <1>3 DEF RunSucceeds
  <2>4. outs \in SUBSET Nat
    BY <2>1, <2>2, <2>3 DEF Outputs
  <2> QED
    BY <1>3, <2>3, <2>4 DEF RunSucceeds, Returns, Executes
<1>4. CASE RunReturnsNull
  BY <1>4 DEF RunReturnsNull, Executes, EndsBranch
<1>5. CASE RunFails
  <2>1. Executes /\ Executing /\ current.node \in wf.fails
    BY <1>5 DEF RunFails, Executes
  <2>2. \/ /\ ~LastTry
           /\ tries' = tries + 1
           /\ UNCHANGED <<wf, stack, waiting, runData, current, status, filter, destination, restarts>>
        \/ Finish(PassThrough)
        \/ FailsForGood
    BY <1>5, <2>1 DEF RunFails, FailsForGood
  <2> QED
    BY <2>1, <2>2, PassesOn DEF TriesAgain, Returns
<1> QED
  BY <1>1, <1>2, <1>3, <1>4, <1>5 DEF Next, Step

(* Null is neither an item nor a node.                                     *)
LEMMA NoNode == Null \notin Items /\ Null \notin Node
BY EngineAssumption DEF EngineAssumption

(* What is left of the types when neither the workflow nor what waits      *)
(* changes                                                                 *)
LEMMA TypedStays ==
  ASSUME Typed, UNCHANGED <<wf, waiting, filter, destination>>,
         stack' \in Seq(Items), \A i \in DOMAIN stack' : stack'[i].main # <<>>,
         current' \in Items \cup {Null}, current' # Null => current'.main # <<>>,
         runData' \in [Node -> Seq(TaskData)],
         status' \in Statuses, tries' \in 0 .. MaxTries - 1, restarts' \in 0 .. MaxRestarts
  PROVE  Typed'
<1>1. waiting' \in Seq(Waits)'
  BY SameWorkflow DEF Typed
<1>2. wf' \in Workflows /\ filter' \subseteq Node /\ destination' \in Node \cup {Null}
  BY DEF Typed
<1> QED
  BY <1>1, <1>2 DEF Typed, Statuses

(* The executed item may lie on the stack.                                 *)
LEMMA PutBack ==
  ASSUME Typed, current # Null
  PROVE  /\ current \in Items /\ current.main # <<>>
         /\ <<current>> \o stack \in Seq(Items) /\ <<current>> \o stack # <<>>
         /\ \A i \in DOMAIN (<<current>> \o stack) : (<<current>> \o stack)[i].main # <<>>
         /\ Head(<<current>> \o stack) = current
<1>1. current \in Items /\ current.main # <<>> /\ stack \in Seq(Items)
      /\ \A i \in DOMAIN stack : stack[i].main # <<>>
  BY DEF Typed
<1>2. PICK s : s = <<current>> \o stack
  OBVIOUS
<1>3. s \in Seq(Items) /\ Len(s) = Len(stack) + 1 /\ s[1] = current /\ DOMAIN s = 1..Len(s)
      /\ \A i \in 2..Len(s) : s[i] = stack[i - 1]
  BY <1>1, <1>2
<1>4. \A i \in DOMAIN s : s[i].main # <<>>
  <2> TAKE i \in DOMAIN s
  <2>1. CASE i = 1
    BY <2>1, <1>1, <1>3
  <2>2. CASE i # 1
    <3>1. i \in 2..Len(s) /\ i - 1 \in DOMAIN stack
      BY <2>2, <1>1, <1>3
    <3> QED
      BY <3>1, <1>1, <1>3
  <2> QED
    BY <2>1, <2>2
<1>5. s # <<>> /\ Head(s) = s[1]
  BY <1>1, <1>3, EmptySeq
<1> QED
  BY <1>1, <1>2, <1>3, <1>4, <1>5

(* The head of the stack is executed, or is dropped if the filter does     *)
(* not have its node.                                                      *)
LEMMA ShiftDoes ==
  ASSUME Typed, Shift
  PROVE  /\ Typed' /\ status = "running" /\ current = Null
         /\ Head(stack) \in Items /\ Head(stack).main # <<>> /\ stack' = Tail(stack) /\ Len(stack) = Len(stack') + 1
         /\ stack[1] = Head(stack) /\ Len(stack') \in Nat
         /\ \A i \in DOMAIN stack' : i + 1 \in DOMAIN stack /\ stack'[i] = stack[i + 1]
         /\ \/ Head(stack).node \in filter /\ current' = Head(stack)
            \/ Head(stack).node \notin filter /\ current' = Null
         /\ UNCHANGED <<wf, waiting, runData, status, filter, destination, restarts>>
<1>1. stack \in Seq(Items) /\ \A i \in DOMAIN stack : stack[i].main # <<>>
  BY DEF Typed
<1>2. /\ stack # <<>> /\ stack' = Tail(stack) /\ status = "running" /\ current = Null
      /\ UNCHANGED <<wf, waiting, runData, status, filter, destination, restarts>>
      /\ \/ Head(stack).node \in filter /\ current' = Head(stack) /\ tries' = 0
         \/ Head(stack).node \notin filter /\ UNCHANGED <<current, tries>>
  BY DEF Shift
<1>3. /\ Head(stack) \in Items /\ Head(stack) = stack[1] /\ 1 \in DOMAIN stack /\ Len(stack) \in Nat
      /\ stack' \in Seq(Items) /\ Len(stack') = Len(stack) - 1 /\ Len(stack) >= 1
      /\ \A i \in DOMAIN stack' : i + 1 \in DOMAIN stack /\ stack'[i] = stack[i + 1]
  BY <1>1, <1>2, HeadTailProperties, EmptySeq
<1>4. \A i \in DOMAIN stack' : stack'[i].main # <<>>
  BY <1>1, <1>3
<1>5. 0 \in 0 .. MaxTries - 1 /\ tries \in 0 .. MaxTries - 1
  BY EngineAssumption DEF EngineAssumption, Typed
<1>6. Typed'
  <2>1. current' \in Items \cup {Null} /\ (current' # Null => current'.main # <<>>)
    BY <1>1, <1>2, <1>3
  <2>2. tries' \in 0 .. MaxTries - 1
    BY <1>2, <1>5
  <2>3. runData' \in [Node -> Seq(TaskData)] /\ status' \in Statuses /\ restarts' \in 0 .. MaxRestarts
    BY <1>2 DEF Typed
  <2> QED
    BY <1>2, <1>3, <1>4, <2>1, <2>2, <2>3, TypedStays
<1>7. Head(stack).main # <<>> /\ Len(stack) = Len(stack') + 1 /\ Len(stack') \in Nat
  BY <1>1, <1>3
<1> QED
  BY <1>2, <1>3, <1>6, <1>7

-----------------------------------------------------------------------------
(* The other steps that move an item                                       *)

(* A node that fails for good goes back on the stack, and its run is       *)
(* added.                                                                  *)
LEMMA FailsDoes ==
  ASSUME Typed, FailsForGood
  PROVE  /\ Typed' /\ current \in Items /\ stack' = <<current>> \o stack /\ stack' # <<>> /\ current' = Null
         /\ \A n \in Node : Len(runData'[n]) >= Len(runData[n])
         /\ \A n \in Node : \A i \in 1..Len(runData[n]) : runData'[n][i] = runData[n][i]
         /\ status' = (IF status = "running" THEN "error" ELSE status)
         /\ UNCHANGED <<wf, waiting, filter, destination>>
<1>1. current # Null /\ stack' = <<current>> \o stack /\ current' = Null
      /\ UNCHANGED <<wf, waiting, tries, filter, destination, restarts>>
      /\ status' = (IF status = "running" THEN "error" ELSE status)
  BY DEF FailsForGood, Executes, Executing
<1> DEFINE task == [main |-> current.main, outs |-> {}, state |-> "error"]
<1>2. current.node \in Node /\ task \in TaskData
  BY <1>1, RunIndexIs DEF TaskData
<1>3. PICK n \in Node : n = current.node
  BY <1>2
<1>4. PICK t \in TaskData : t = task
  BY <1>2
<1> HIDE DEF task
<1>5. runData' = [runData EXCEPT ![n] = Append(runData[n], t)]
  BY <1>3, <1>4 DEF FailsForGood, task
<1>6. runData \in [Node -> Seq(TaskData)]
  BY DEF Typed
<1>7. runData' \in [Node -> Seq(TaskData)] /\ runData'[n] = Append(runData[n], t)
      /\ \A m \in Node : m # n => runData'[m] = runData[m]
  BY <1>5, <1>6
<1>8. \A m \in Node : /\ Len(runData'[m]) >= Len(runData[m])
                       /\ \A i \in 1..Len(runData[m]) : runData'[m][i] = runData[m][i]
  <2>1. \A m \in Node : runData[m] \in Seq(TaskData) /\ Len(runData[m]) \in Nat
    BY <1>6, HowLong
  <2>2. /\ Len(runData'[n]) >= Len(runData[n])
        /\ \A i \in 1..Len(runData[n]) : runData'[n][i] = runData[n][i]
    BY <1>7, <2>1
  <2> TAKE m \in Node
  <2>3. CASE m # n
    BY <1>7, <2>1, <2>3
  <2> QED
    BY <2>2, <2>3
<1>9. Typed'
  <2>1. tries' \in 0 .. MaxTries - 1 /\ restarts' \in 0 .. MaxRestarts /\ status' \in Statuses
    BY <1>1 DEF Typed, Statuses
  <2>2. stack' \in Seq(Items) /\ \A i \in DOMAIN stack' : stack'[i].main # <<>>
    BY <1>1, PutBack
  <2> QED
    BY <1>1, <1>7, <2>1, <2>2, TypedStays
<1> QED
  BY <1>1, <1>8, <1>9, PutBack

(* A node that waits goes back on the stack, and its run is recorded.      *)
LEMMA WaitsDoes ==
  ASSUME Typed, RunWaits
  PROVE  /\ Typed' /\ current \in Items /\ stack' = <<current>> \o stack /\ stack' # <<>> /\ current' = Null
         /\ runData' = Record(PassThrough)
         /\ status' = (IF status = "running" THEN "waiting" ELSE status)
         /\ UNCHANGED <<wf, waiting, filter, destination>>
<1>1. current # Null /\ stack' = <<current>> \o stack /\ current' = Null /\ runData' = Record(PassThrough)
      /\ UNCHANGED <<wf, waiting, tries, filter, destination, restarts>>
      /\ status' = (IF status = "running" THEN "waiting" ELSE status)
  BY DEF RunWaits, Executes, Executing
<1>2. Typed'
  <2>1. tries' \in 0 .. MaxTries - 1 /\ restarts' \in 0 .. MaxRestarts /\ status' \in Statuses
    BY <1>1 DEF Typed, Statuses
  <2>2. stack' \in Seq(Items) /\ \A i \in DOMAIN stack' : stack'[i].main # <<>>
    BY <1>1, PutBack
  <2>3. runData' \in [Node -> Seq(TaskData)]
    BY <1>1, RecordDoes, PassesOn
  <2> QED
    BY <1>1, <2>1, <2>2, <2>3, TypedStays
<1> QED
  BY <1>1, <1>2, PutBack

(* The steps that leave stack, waiting and runData alone                   *)
LEMMA QuietDoes ==
  ASSUME Typed, EndsBranch \/ TriesAgain \/ Complete \/ Cancel
  PROVE  /\ Typed' /\ UNCHANGED <<wf, stack, waiting, runData, filter, destination>>
         /\ current' = current \/ current' = Null
<1>1. /\ UNCHANGED <<wf, stack, waiting, runData, filter, destination, restarts>>
      /\ current' = current \/ current' = Null
  BY DEF EndsBranch, EndBranch, TriesAgain, Complete, Cancel
<1>2. status' \in Statuses
  BY DEF EndsBranch, EndBranch, TriesAgain, Complete, Cancel, Typed, Statuses
<1>3. tries' \in 0 .. MaxTries - 1
  <2>1. tries \in 0 .. MaxTries - 1 /\ MaxTries \in Nat \ {0}
    BY EngineAssumption DEF EngineAssumption, Typed
  <2>2. CASE TriesAgain
    BY <2>1, <2>2 DEF TriesAgain, LastTry
  <2>3. CASE EndsBranch \/ Complete \/ Cancel
    BY <2>1, <2>3 DEF EndsBranch, EndBranch, Complete, Cancel
  <2> QED
    BY <2>2, <2>3
<1>4. /\ stack' \in Seq(Items) /\ \A i \in DOMAIN stack' : stack'[i].main # <<>>
      /\ current' \in Items \cup {Null} /\ (current' # Null => current'.main # <<>>)
      /\ runData' \in [Node -> Seq(TaskData)] /\ restarts' \in 0 .. MaxRestarts
  BY <1>1 DEF Typed
<1> QED
  BY <1>1, <1>2, <1>3, <1>4, TypedStays

(* The items keep their place, node, data and calls when the execution     *)
(* resumes; one node loses its last run.                                   *)
LEMMA ResumeDoes ==
  ASSUME Typed, Resume
  PROVE  /\ Typed' /\ status = "waiting" /\ status' = "running"
         /\ Len(stack') = Len(stack) /\ DOMAIN stack' = DOMAIN stack
         /\ \A i \in DOMAIN stack :
              /\ stack'[i].node = stack[i].node /\ stack'[i].main = stack[i].main
              /\ stack'[i].run = stack[i].run /\ stack'[i].calls = stack[i].calls
              /\ stack[i].node = Head(stack).node => stack'[i].disabled = TRUE
              /\ stack[i].node # Head(stack).node => stack'[i] = stack[i]
         /\ runData' = [runData EXCEPT ![Head(stack).node] = Front(@)]
         /\ UNCHANGED <<wf, waiting, current, filter, destination>>
<1>1. PICK n : n = Head(stack).node
  OBVIOUS
<1>2. /\ runData' = [runData EXCEPT ![n] = Front(@)]
      /\ stack' = [i \in DOMAIN stack |->
                     IF stack[i].node = n THEN [stack[i] EXCEPT !.disabled = TRUE] ELSE stack[i]]
      /\ status = "waiting" /\ status' = "running"
      /\ UNCHANGED <<wf, waiting, current, tries, filter, destination, restarts>>
  BY <1>1 DEF Resume
<1>3. stack \in Seq(Items) /\ DOMAIN stack = 1..Len(stack) /\ Len(stack) \in Nat
      /\ \A i \in DOMAIN stack : stack[i] \in Items /\ stack[i].main # <<>>
  BY HowLong DEF Typed
<1>4. \A i \in DOMAIN stack :
        LET x == IF stack[i].node = n THEN [stack[i] EXCEPT !.disabled = TRUE] ELSE stack[i]
        IN  /\ x \in Items /\ x.main = stack[i].main /\ x.node = stack[i].node
            /\ x.run = stack[i].run /\ x.calls = stack[i].calls
            /\ stack[i].node = n => x.disabled = TRUE
            /\ stack[i].node # n => x = stack[i]
  BY <1>3 DEF Items
<1>5. /\ stack' \in Seq(Items) /\ DOMAIN stack' = DOMAIN stack /\ Len(stack') = Len(stack)
      /\ \A i \in DOMAIN stack :
              /\ stack'[i].node = stack[i].node /\ stack'[i].main = stack[i].main
              /\ stack'[i].run = stack[i].run /\ stack'[i].calls = stack[i].calls
              /\ stack[i].node = n => stack'[i].disabled = TRUE
              /\ stack[i].node # n => stack'[i] = stack[i]
  BY <1>2, <1>3, <1>4
<1>6. runData' \in [Node -> Seq(TaskData)]
  <2>1. runData \in [Node -> Seq(TaskData)]
    BY DEF Typed
  <2>2. \A m \in Node : Front(runData[m]) \in Seq(TaskData)
    BY <2>1, OneLess
  <2> QED
    BY <2>1, <2>2, <1>2
<1>7. Typed'
  <2>1. current' \in Items \cup {Null} /\ (current' # Null => current'.main # <<>>)
        /\ tries' \in 0 .. MaxTries - 1 /\ restarts' \in 0 .. MaxRestarts
    BY <1>2 DEF Typed
  <2>2. status' \in Statuses /\ \A i \in DOMAIN stack' : stack'[i].main # <<>>
    BY <1>2, <1>3, <1>5 DEF Statuses
  <2> QED
    BY <1>2, <1>5, <1>6, <2>1, <2>2, TypedStays
<1> QED
  BY <1>1, <1>2, <1>5, <1>7

(* The stack stays when the execution is retried; one node may lose its    *)
(* last run.                                                               *)
LEMMA RetryDoes ==
  ASSUME Typed, Retry
  PROVE  /\ Typed' /\ status = "error" /\ status' = "running"
         /\ runData' = IF Last(runData[Head(stack).node]).state = "error"
                       THEN [runData EXCEPT ![Head(stack).node] = Front(@)] ELSE runData
         /\ UNCHANGED <<wf, stack, waiting, current, filter, destination>>
<1>1. PICK n : n = Head(stack).node
  OBVIOUS
<1>2. /\ status = "error" /\ restarts < MaxRestarts /\ restarts' = restarts + 1 /\ status' = "running"
      /\ runData' = IF Last(runData[n]).state = "error" THEN [runData EXCEPT ![n] = Front(@)] ELSE runData
      /\ UNCHANGED <<wf, stack, waiting, current, tries, filter, destination>>
  BY <1>1 DEF Retry
<1>3. runData \in [Node -> Seq(TaskData)]
  BY DEF Typed
<1>4. \A m \in Node : Front(runData[m]) \in Seq(TaskData)
  BY <1>3, OneLess
<1>5. runData' \in [Node -> Seq(TaskData)]
  BY <1>2, <1>3, <1>4
<1>6. restarts' \in 0 .. MaxRestarts /\ tries' \in 0 .. MaxTries - 1 /\ status' \in Statuses
  BY <1>2, EngineAssumption DEF Typed, EngineAssumption, Statuses
<1>7. /\ stack' \in Seq(Items) /\ \A i \in DOMAIN stack' : stack'[i].main # <<>>
      /\ current' \in Items \cup {Null} /\ (current' # Null => current'.main # <<>>)
  BY <1>2 DEF Typed
<1>8. Typed'
  BY <1>2, <1>5, <1>6, <1>7, TypedStays
<1> QED
  BY <1>1, <1>2, <1>8

-----------------------------------------------------------------------------
(* The calls of tools                                                      *)

(* What lies on the stack t after calls on the stack s: the calls, the last*)
(* one on top, then the agent x that has made them, then s.                *)
Called(t, s, x, calls) ==
  /\ calls \in Seq(Task) /\ x.calls = calls /\ x \in Items
  /\ t \in Seq(Items) /\ Len(t) = Len(calls) + 1 + Len(s)
  /\ \A i \in 1..Len(calls) :
       /\ t[i].node = calls[Len(calls) + 1 - i].node /\ t[i].run = calls[Len(calls) + 1 - i].run
       /\ t[i].main = <<Call>> /\ t[i].calls = <<>>
  /\ t[Len(calls) + 1] = x
  /\ \A i \in 1..Len(s) : t[Len(calls) + 1 + i] = s[i]

(* The stack after calls                                                   *)
LEMMA CalledStack ==
  ASSUME NEW s \in Seq(Items), NEW x \in Items, NEW calls \in Seq(Task), x.calls = calls,
         NEW called \in Seq(Items), Len(called) = Len(calls),
         \A i \in 1..Len(calls) : /\ called[i].node = calls[i].node /\ called[i].run = calls[i].run
                                  /\ called[i].main = <<Call>> /\ called[i].calls = <<>>,
         NEW t, t = Reverse(called) \o <<x>> \o s
  PROVE  Called(t, s, x, calls)
<1> DEFINE m == Len(calls)
           r == Reverse(called)
<1>1. m \in Nat /\ Len(s) \in Nat /\ DOMAIN called = 1..m
  BY HowLong
<1>2. r = [i \in 1..m |-> called[(m - i) + 1]]
  BY DEF Reverse
<1>3. r \in Seq(Items) /\ Len(r) = m
  <2>1. \A i \in 1..m : (m - i) + 1 \in 1..m
    BY <1>1
  <2> QED
    BY <1>1, <1>2, <2>1
<1>4. \A i \in 1..m : m + 1 - i \in 1..m /\ r[i] = called[m + 1 - i]
  <2>1. TAKE i \in 1..m
  <2>2. (m - i) + 1 = m + 1 - i /\ m + 1 - i \in 1..m
    BY <1>1
  <2> QED
    BY <1>2, <2>2
<1> HIDE DEF r
<1>5. <<x>> \in Seq(Items) /\ Len(<<x>>) = 1 /\ <<x>>[1] = x
  OBVIOUS
<1>6. PICK u : u = r \o <<x>>
  OBVIOUS
<1>7. u \in Seq(Items) /\ Len(u) = m + 1 /\ u[m + 1] = x /\ \A i \in 1..m : u[i] = r[i]
  BY <1>1, <1>3, <1>5, <1>6
<1>8. t = u \o s
  BY <1>6 DEF r
<1>9. /\ t \in Seq(Items) /\ Len(t) = m + 1 + Len(s)
      /\ \A i \in 1..m + 1 : t[i] = u[i]
      /\ \A i \in 1..Len(s) : t[m + 1 + i] = s[i]
  <2>1. t \in Seq(Items) /\ Len(t) = m + 1 + Len(s)
    <3>1. u \o s \in Seq(Items) /\ Len(u \o s) = Len(u) + Len(s)
      BY <1>7, ConcatProperties
    <3> QED
      BY <1>7, <1>8, <3>1
  <2>2. \A i \in 1..m + 1 : t[i] = u[i]
    BY <1>1, <1>7, <1>8
  <2>3. \A i \in 1..Len(s) : t[m + 1 + i] = s[i]
    BY <1>1, <1>7, <1>8
  <2> QED
    BY <2>1, <2>2, <2>3
<1>10. \A i \in 1..m : t[i] = called[m + 1 - i] /\ m + 1 - i \in 1..m
  <2> TAKE i \in 1..m
  <2>1. i \in 1..m + 1
    BY <1>1
  <2>2. t[i] = u[i] /\ u[i] = r[i]
    BY <1>7, <1>9, <2>1
  <2>3. r[i] = called[m + 1 - i] /\ m + 1 - i \in 1..m
    BY <1>4
  <2> QED
    BY <2>2, <2>3
<1>11. m + 1 \in 1..m + 1
  BY <1>1
<1>12. \A i \in 1..m : /\ t[i].node = calls[m + 1 - i].node /\ t[i].run = calls[m + 1 - i].run
                      /\ t[i].main = <<Call>> /\ t[i].calls = <<>>
  <2> TAKE i \in 1..m
  <2>1. PICK j \in 1..Len(calls) : j = m + 1 - i
    BY <1>10
  <2>2. t[i] = called[j]
    BY <1>10, <2>1
  <2> QED
    BY <2>1, <2>2
<1>13. t[m + 1] = x
  BY <1>7, <1>9, <1>11
<1> QED
  BY <1>9, <1>12, <1>13 DEF Called

(* Calls have their place in runData.                                      *)
LEMMA RequestsDoes ==
  ASSUME Typed, RunRequests
  PROVE  /\ Typed' /\ current # Null /\ current' = Null
         /\ \E x \in Items, calls \in Seq(Task) :
              /\ Called(stack', stack, x, calls)
              /\ x.node = current.node /\ x.run = RunIndex /\ x.main = <<current.main[1]>>
              /\ \A i \in 1..Len(calls) :
                   /\ calls[i].node \in Tools
                   /\ calls[i].run < Len(runData'[calls[i].node])
                   /\ Len(runData[calls[i].node]) <= calls[i].run
         /\ \A n \in Node : Len(runData'[n]) >= Len(runData[n])
         /\ \A n \in Node : \A i \in 1..Len(runData[n]) : runData'[n][i] = runData[n][i]
         /\ \A n \in Node : \A i \in 1..Len(runData'[n]) :
              i > Len(runData[n]) => runData'[n][i].state = "called"
         /\ UNCHANGED <<wf, waiting, tries, status, filter, destination, restarts>>
<1> DEFINE tools  == wf.tools[current.node]
           earlier(i) == Cardinality({j \in 1 .. i - 1 : tools[j] = tools[i]})
           calls  == [i \in DOMAIN tools |->
                      [node |-> tools[i], run |-> Len(runData[tools[i]]) + earlier(i)]]
           agent  == ItemOf(current.node, <<current.main[1]>>, RunIndex, calls)
           called == [i \in DOMAIN calls |->
                      ItemOf(calls[i].node, <<Call>>, calls[i].run, <<>>)]
           times(n) == Cardinality({j \in DOMAIN tools : tools[j] = n})
           task == [main |-> <<>>, outs |-> {}, state |-> "called"]
           slots(n) == [i \in 1 .. times(n) |-> task]
<1>1. /\ current # Null /\ current.node \in DOMAIN wf.tools
      /\ runData' = [n \in Node |-> runData[n] \o slots(n)]
      /\ stack' = Reverse(called) \o <<agent>> \o stack
      /\ current' = Null
      /\ UNCHANGED <<wf, waiting, tries, status, filter, destination, restarts>>
  BY DEF RunRequests, Executes, Executing
<1>2. wf.tools[current.node] \in Seq(Node) /\ \A i \in DOMAIN wf.tools[current.node] : wf.tools[current.node][i] \in Tools
  <2>1. PICK a \in DOMAIN wf.tools : a = current.node
    BY <1>1
  <2>2. wf.tools[a] \in Seq(Node)
    BY <2>1, TheWorkflow DEF IsWorkflow, Typed
  <2>3. \A i \in DOMAIN wf.tools[a] : wf.tools[a][i] \in ToSet(wf.tools[a])
    BY DEF ToSet
  <2>4. ToSet(wf.tools[a]) \subseteq Tools
    BY <2>1 DEF Tools, ToolsOf
  <2> QED
    BY <2>1, <2>2, <2>3, <2>4
<1>3. tools \in Seq(Node) /\ Len(tools) \in Nat /\ DOMAIN tools = 1..Len(tools) /\ \A i \in DOMAIN tools : tools[i] \in Tools
  BY <1>2, HowLong
<1>4. /\ current.node \in Node /\ RunIndex \in Nat
      /\ current.main \in Seq(Data) /\ current.main[1] \in Data
  BY <1>1, RunIndexIs
<1>5. runData \in [Node -> Seq(TaskData)] /\ \A n \in Node : Len(runData[n]) \in Nat
  BY HowLong DEF Typed
<1> HIDE DEF tools
<1>6. \A i \in DOMAIN tools : earlier(i) \in Nat /\ earlier(i) < times(tools[i]) /\ times(tools[i]) \in Nat
  <2> TAKE i \in DOMAIN tools
  <2> DEFINE A == {j \in 1 .. i - 1 : tools[j] = tools[i]}
             B == {j \in DOMAIN tools : tools[j] = tools[i]}
  <2>1. A \subseteq B /\ i \in B /\ i \notin A
    BY <1>3
  <2>2. IsFiniteSet(B)
    <3>1. IsFiniteSet(1..Len(tools)) /\ B \subseteq 1..Len(tools)
      BY <1>3, FS_Interval
    <3> QED
      BY <3>1, FS_Subset
  <2>3. Cardinality(A) \in Nat /\ Cardinality(B) \in Nat /\ Cardinality(A) <= Cardinality(B)
        /\ (Cardinality(A) = Cardinality(B) => A = B)
    BY <2>1, <2>2, FS_Subset, FS_CardinalityType
  <2>4. earlier(i) = Cardinality(A) /\ times(tools[i]) = Cardinality(B)
    OBVIOUS
  <2> HIDE DEF A, B, earlier, times
  <2>5. A # B
    BY <2>1
  <2> QED
    BY <2>3, <2>4, <2>5
<1>7. \A n \in Node : times(n) \in Nat
  <2> TAKE n \in Node
  <2>1. IsFiniteSet(1..Len(tools)) /\ {j \in DOMAIN tools : tools[j] = n} \subseteq 1..Len(tools)
    BY <1>3, FS_Interval
  <2> QED
    BY <2>1, FS_Subset, FS_CardinalityType
<1> HIDE DEF earlier, times
<1>8. /\ calls \in Seq(Task) /\ Len(calls) = Len(tools) /\ DOMAIN calls = DOMAIN tools
      /\ \A i \in DOMAIN tools : /\ calls[i].node = tools[i] /\ calls[i].run \in Nat
                                 /\ calls[i].run = Len(runData[tools[i]]) + earlier(i)
  <2>1. \A i \in DOMAIN tools :
          /\ tools[i] \in Node /\ Len(runData[tools[i]]) + earlier(i) \in Nat
          /\ [node |-> tools[i], run |-> Len(runData[tools[i]]) + earlier(i)] \in Task
    BY <1>3, <1>5, <1>6 DEF Task
  <2> QED
    BY <2>1, <1>3
<1> HIDE DEF calls
<1>9. agent \in Items /\ agent.calls = calls /\ agent.node = current.node /\ agent.run = RunIndex
      /\ agent.main = <<current.main[1]>> /\ agent.main # <<>>
  <2>1. <<current.main[1]>> \in Seq(Data) /\ <<current.main[1]>> # <<>>
    BY <1>4
  <2> QED
    BY <1>4, <1>8, <2>1 DEF ItemOf, Items
<1> HIDE DEF agent
<1>10. /\ called \in Seq(Items) /\ Len(called) = Len(calls)
       /\ \A i \in 1..Len(calls) : /\ called[i].node = calls[i].node /\ called[i].run = calls[i].run
                                  /\ called[i].main = <<Call>> /\ called[i].calls = <<>>
  <2>1. <<Call>> \in Seq(Data) /\ <<>> \in Seq(Task)
    BY EmptyList DEF Data, Markers
  <2>2. \A i \in 1..Len(calls) :
          LET y == ItemOf(calls[i].node, <<Call>>, calls[i].run, <<>>)
          IN  /\ y \in Items /\ y.node = calls[i].node /\ y.run = calls[i].run
              /\ y.main = <<Call>> /\ y.calls = <<>>
    BY <1>3, <1>8, <2>1 DEF ItemOf, Items, Task
  <2>3. DOMAIN calls = 1..Len(calls) /\ Len(calls) \in Nat
    BY <1>8, HowLong
  <2> DEFINE y(i) == ItemOf(calls[i].node, <<Call>>, calls[i].run, <<>>)
  <2>4. called = [i \in 1..Len(calls) |-> y(i)]
    BY <2>3
  <2>5. \A i \in 1..Len(calls) : /\ y(i) \in Items /\ y(i).node = calls[i].node /\ y(i).run = calls[i].run
                                 /\ y(i).main = <<Call>> /\ y(i).calls = <<>>
    BY <2>2
  <2> HIDE DEF y, called
  <2>6. called \in Seq(Items) /\ Len(called) = Len(calls)
    BY <2>3, <2>4, <2>5
  <2> QED
    BY <2>4, <2>5, <2>6
<1> HIDE DEF called
<1>11. Called(stack', stack, agent, calls)
  <2>1. stack \in Seq(Items)
    BY DEF Typed
  <2> QED
    BY <1>1, <1>8, <1>9, <1>10, <2>1, CalledStack
<1>12. \A n \in Node : /\ runData'[n] \in Seq(TaskData) /\ Len(runData'[n]) = Len(runData[n]) + times(n)
                       /\ \A i \in 1..Len(runData[n]) : runData'[n][i] = runData[n][i]
                       /\ \A i \in 1..Len(runData'[n]) : i > Len(runData[n]) => runData'[n][i].state = "called"
  <2>1. task \in TaskData /\ task.state = "called"
    BY EmptyList DEF TaskData
  <2> HIDE DEF task
  <2> TAKE n \in Node
  <2>2. PICK t \in Nat : t = times(n)
    BY <1>7
  <2> DEFINE a == [i \in 1..t |-> task]
  <2>3. a \in Seq(TaskData) /\ a = slots(n) /\ Len(a) = t /\ \A i \in 1..t : a[i] = task
    <3>1. a = slots(n)
      BY <2>2
    <3>2. a \in Seq(TaskData) /\ Len(a) = t
      BY <2>1, <2>2
    <3> QED
      BY <3>1, <3>2
  <2> HIDE DEF a, slots
  <2>4. PICK b \in Seq(TaskData) : b = runData[n] /\ Len(b) \in Nat
    BY <1>5
  <2>5. PICK d : d = b \o a
    OBVIOUS
  <2>6. runData'[n] = d
    BY <1>1, <2>3, <2>4, <2>5
  <2>7. d \in Seq(TaskData) /\ Len(d) = Len(b) + t
    BY <2>3, <2>4, <2>5, ConcatProperties
  <2>8. \A i \in 1..Len(b) : d[i] = b[i]
    BY <2>3, <2>4, <2>5
  <2>9. \A i \in 1..Len(d) : i > Len(b) => d[i] = task
    <3> TAKE i \in 1..Len(d)
    <3> HAVE i > Len(b)
    <3>1. PICK j \in 1..t : j = i - Len(b)
      <4>1. i \in Nat /\ i <= Len(b) + t /\ Len(b) \in Nat /\ i > Len(b) /\ t \in Nat
        BY <2>2, <2>4, <2>7
      <4>2. i - Len(b) \in 1..t
        BY <4>1
      <4> QED
        BY <4>2
    <3>2. d[i] = a[j]
      BY <3>1, <2>3, <2>4, <2>5, <2>7, ConcatProperties
    <3> QED
      BY <3>1, <3>2, <2>3
  <2> QED
    BY <2>1, <2>2, <2>4, <2>6, <2>7, <2>8, <2>9
<1>13. \A i \in 1..Len(calls) :
         /\ calls[i].node \in Tools
         /\ calls[i].run < Len(runData'[calls[i].node])
         /\ Len(runData[calls[i].node]) <= calls[i].run
  <2> TAKE i \in 1..Len(calls)
  <2>1. i \in DOMAIN tools /\ tools[i] \in Node /\ tools[i] \in Tools
    BY <1>3, <1>8
  <2>2. PICK n \in Node : n = tools[i]
    BY <2>1
  <2>3. calls[i].run = Len(runData[n]) + earlier(i) /\ earlier(i) \in Nat /\ earlier(i) < times(n) /\ times(n) \in Nat
        /\ calls[i].node = n
    BY <1>6, <1>8, <2>1, <2>2
  <2>4. Len(runData'[n]) = Len(runData[n]) + times(n) /\ Len(runData[n]) \in Nat
    BY <1>5, <1>12
  <2> QED
    BY <2>1, <2>2, <2>3, <2>4
<1>14. Typed'
  <2>1. stack' \in Seq(Items) /\ Len(stack') = Len(calls) + 1 + Len(stack)
    BY <1>11 DEF Called
  <2>2. \A i \in DOMAIN stack' : stack'[i].main # <<>>
    <3>1. DOMAIN stack' = 1..Len(stack') /\ Len(calls) \in Nat /\ Len(stack) \in Nat
          /\ DOMAIN stack = 1..Len(stack)
      BY <1>8, <2>1, HowLong DEF Typed
    <3> TAKE i \in DOMAIN stack'
    <3>2. CASE i \in 1..Len(calls)
      <4>1. stack'[i].main = <<Call>>
        BY <3>2, <1>11 DEF Called
      <4> QED
        BY <4>1
    <3>3. CASE i = Len(calls) + 1
      BY <3>3, <1>9, <1>11 DEF Called
    <3>4. CASE i > Len(calls) + 1
      <4>1. PICK j \in 1..Len(stack) : j = i - (Len(calls) + 1)
        BY <3>1, <3>4, <2>1
      <4>2. i = Len(calls) + 1 + j
        BY <4>1, <3>1
      <4>3. stack'[i] = stack[j]
        BY <4>2, <1>11 DEF Called
      <4> QED
        BY <4>3, <3>1 DEF Typed
    <3> QED
      BY <3>1, <3>2, <3>3, <3>4
  <2>3. runData' \in [Node -> Seq(TaskData)]
    BY <1>1, <1>12
  <2>4. status' \in Statuses /\ tries' \in 0 .. MaxTries - 1 /\ restarts' \in 0 .. MaxRestarts
    BY <1>1 DEF Typed
  <2> QED
    BY <1>1, <2>1, <2>2, <2>3, <2>4, TypedStays
<1>15. \A n \in Node : Len(runData'[n]) >= Len(runData[n])
  BY <1>5, <1>7, <1>12
<1>16. \E x \in Items, c \in Seq(Task) :
              /\ Called(stack', stack, x, c)
              /\ x.node = current.node /\ x.run = RunIndex /\ x.main = <<current.main[1]>>
              /\ \A i \in 1..Len(c) :
                   /\ c[i].node \in Tools
                   /\ c[i].run < Len(runData'[c[i].node])
                   /\ Len(runData[c[i].node]) <= c[i].run
  BY <1>8, <1>9, <1>11, <1>13
<1> QED
  BY <1>1, <1>12, <1>14, <1>15, <1>16

-----------------------------------------------------------------------------
(* The nodes before a node                                                 *)

(* The nodes of S and those with a connection into it                      *)
Back(S) == S \cup {c.from : c \in {d \in MainConns : d.to \in S}}

(* With a node S has every node that leads to it.                          *)
Closed(S) == \A c \in MainConns : c.to \in S => c.from \in S

(* b holds the nodes that lead to n, by the number of connections.         *)
LeadBack(b, n) ==
  /\ b \in [0 .. Cardinality(Node) -> SUBSET Node] /\ b[0] = {n}
  /\ \A k \in 1 .. Cardinality(Node) : b[k] = Back(b[k - 1])

(* Connections lead from nodes.                                            *)
LEMMA BackInNodes ==
  ASSUME wf \in Workflows, NEW S \in SUBSET Node
  PROVE  Back(S) \in SUBSET Node
BY Connections DEF Back, Connection

(* The recursive function that ParentNodes is defined with exists and      *)
(* satisfies its equations.                                                *)
LEMMA ParentsUnfold ==
  ASSUME wf \in Workflows, NEW n \in Node
  PROVE  \E b : LeadBack(b, n) /\ ParentNodes(n) = b[Cardinality(Node)] \ {n}
<1> DEFINE N == Cardinality(Node)
           Q == SUBSET Node
           step == [k \in 1..N |-> [S \in Q |-> Back(S)]]
           Body(f) == [k \in 0..N |->
                         IF k = 0 THEN {n}
                         ELSE LET S == f[k - 1] IN S \cup {c.from : c \in {d \in MainConns : d.to \in S}}]
           g == CHOOSE f : f = Body(f)
<1>1. N \in Nat /\ {n} \in Q
  BY EngineAssumption, FS_CardinalityType DEF EngineAssumption
<1>2. ParentNodes(n) = g[N] \ {n}
  BY DEF ParentNodes
<1> HIDE DEF g, N, Q
<1>3. step \in [1..N -> [Q -> Q]]
  BY BackInNodes DEF Q
<1>4. PICK f : Folds(f, N, Q, {n}, step)
  <2> HIDE DEF step
  <2> QED
    BY <1>1, <1>3, FoldDefined
<1>5. f \in [0..N -> Q] /\ f[0] = {n} /\ \A k \in 1..N : f[k] = step[k][f[k - 1]]
  BY <1>4 DEF Folds
<1>6. ASSUME NEW k \in 1..N
      PROVE  f[k] = Back(f[k - 1])
  <2>1. f[k - 1] \in Q
    BY <1>1, <1>5
  <2> QED
    BY <2>1, <1>5
<1>7. f = Body(f)
  <2>1. \A k \in 0..N : f[k] = Body(f)[k]
    <3> TAKE k \in 0..N
    <3>1. CASE k = 0
      BY <3>1, <1>5
    <3>2. CASE k # 0
      <4>1. k \in 1..N
        BY <3>2, <1>1
      <4> QED
        BY <4>1, <3>2, <1>6 DEF Back
    <3> QED
      BY <3>1, <3>2
  <2> QED
    BY <2>1, <1>5
<1>8. g = Body(g)
  <2> HIDE DEF Body
  <2> QED
    BY <1>7 DEF g
<1>9. g[0] = {n} /\ \A k \in 1..N : g[k] = Back(g[k - 1])
  <2>1. 0 \in 0..N /\ \A k \in 1..N : k \in 0..N /\ k # 0
    BY <1>1
  <2> QED
    BY <1>8, <2>1 DEF Back
<1>10. DOMAIN g = 0..N
  BY <1>8
<1>11. \A k \in 0..N : g[k] \in Q
  <2> DEFINE Good == {k \in 0..N : g[k] \in Q}
  <2>1. 0 \in Good
    BY <1>1, <1>9
  <2>2. ASSUME NEW k \in 1..N, k - 1 \in Good
        PROVE  k \in Good
    BY <2>2, <1>1, <1>9, BackInNodes DEF Q
  <2> HIDE DEF Good
  <2>3. 0..N \subseteq Good
    BY <1>1, <2>1, <2>2, UpTo
  <2> QED
    BY <2>3 DEF Good
<1>12. g = [k \in 0..N |-> g[k]]
  BY <1>8
<1>13. g \in [0..N -> Q]
  BY <1>11, <1>12
<1>14. LeadBack(g, n)
  BY <1>9, <1>13 DEF LeadBack, N, Q
<1> QED
  BY <1>2, <1>14 DEF N

(* The nodes before n and n are the least set with n that is closed: that  *)
(* many connections as there are nodes are enough to reach them all.       *)
LEMMA ParentsAreClosure ==
  ASSUME wf \in Workflows, NEW n \in Node
  PROVE  /\ ParentNodes(n) \cup {n} \subseteq Node /\ Closed(ParentNodes(n) \cup {n})
         /\ \A S : n \in S /\ Closed(S) => ParentNodes(n) \subseteq S
<1> DEFINE N == Cardinality(Node)
<1>1. PICK b : LeadBack(b, n) /\ ParentNodes(n) = b[N] \ {n}
  BY ParentsUnfold
<1>2. N \in Nat /\ IsFiniteSet(Node)
  BY EngineAssumption, FS_CardinalityType DEF EngineAssumption
<1>3. b \in [0..N -> SUBSET Node] /\ b[0] = {n} /\ \A k \in 1..N : b[k] = Back(b[k - 1])
  BY <1>1 DEF LeadBack
<1> HIDE DEF N
<1>4. \A k \in 1..N : b[k - 1] \in SUBSET Node /\ b[k] \in SUBSET Node /\ b[k - 1] \subseteq b[k]
  BY <1>2, <1>3 DEF Back
<1>5. \A k \in 0..N : n \in b[k]
  <2> DEFINE Good == {k \in 0..N : n \in b[k]}
  <2>1. 0 \in Good
    BY <1>2, <1>3
  <2>2. ASSUME NEW k \in 1..N, k - 1 \in Good
        PROVE  k \in Good
    BY <2>2, <1>2, <1>4
  <2> HIDE DEF Good
  <2>3. 0..N \subseteq Good
    BY <1>2, <2>1, <2>2, UpTo
  <2> QED
    BY <2>3 DEF Good
<1>6. ParentNodes(n) \cup {n} = b[N]
  BY <1>1, <1>2, <1>5
<1>7. \A S : n \in S /\ Closed(S) => b[N] \subseteq S
  <2> TAKE S
  <2> HAVE n \in S /\ Closed(S)
  <2> DEFINE Good == {k \in 0..N : b[k] \subseteq S}
  <2>1. 0 \in Good
    BY <1>2, <1>3
  <2>2. ASSUME NEW k \in 1..N, k - 1 \in Good
        PROVE  k \in Good
    BY <2>2, <1>2, <1>3 DEF Back, Closed
  <2> HIDE DEF Good
  <2>3. 0..N \subseteq Good
    BY <1>2, <2>1, <2>2, UpTo
  <2> QED
    BY <2>3, <1>2 DEF Good
<1>8. \A k \in 0..N : Closed(b[k]) \/ Cardinality(b[k]) > k
  <2> DEFINE Good == {k \in 0..N : Closed(b[k]) \/ Cardinality(b[k]) > k}
  <2>1. 0 \in Good
    <3>1. Cardinality({n}) = 1
      BY FS_Singleton
    <3>2. Cardinality(b[0]) = 1 /\ 0 \in 0..N
      BY <1>2, <1>3, <3>1
    <3>3. Cardinality(b[0]) > 0
      BY <3>2
    <3> QED
      BY <3>2, <3>3
  <2>2. ASSUME NEW k \in 1..N, k - 1 \in Good
        PROVE  k \in Good
    <3>1. k \in 0..N /\ k - 1 \in Nat /\ b[k] = Back(b[k - 1]) /\ IsFiniteSet(b[k]) /\ b[k - 1] \in SUBSET b[k]
      BY <1>2, <1>3, <1>4, FS_Subset
    <3>2. CASE b[k] = b[k - 1]
      BY <3>1, <3>2 DEF Closed, Back
    <3>3. CASE b[k] # b[k - 1]
      <4>1. ~Closed(b[k - 1])
        BY <3>1, <3>3 DEF Closed, Back
      <4>2. Cardinality(b[k - 1]) > k - 1
        BY <2>2, <4>1
      <4>3. /\ IsFiniteSet(b[k - 1]) /\ Cardinality(b[k - 1]) <= Cardinality(b[k])
            /\ Cardinality(b[k - 1]) # Cardinality(b[k])
        BY <3>1, <3>3, FS_Subset
      <4>4. Cardinality(b[k - 1]) \in Nat /\ Cardinality(b[k]) \in Nat
        BY <3>1, <4>3, FS_CardinalityType
      <4>5. Cardinality(b[k]) > k
        BY <3>1, <4>2, <4>3, <4>4
      <4> QED
        BY <3>1, <4>5
    <3> QED
      BY <3>2, <3>3
  <2> HIDE DEF Good
  <2>3. 0..N \subseteq Good
    BY <1>2, <2>1, <2>2, UpTo
  <2> QED
    BY <2>3 DEF Good
<1>9. Closed(b[N])
  <2>1. b[N] \in SUBSET Node
    BY <1>2, <1>3
  <2>2. Cardinality(b[N]) <= N /\ Cardinality(b[N]) \in Nat
    BY <2>1, <1>2, FS_Subset, FS_CardinalityType DEF N
  <2> QED
    BY <2>2, <1>2, <1>8
<1>10. b[N] \subseteq Node
  BY <1>2, <1>3
<1> QED
  BY <1>6, <1>7, <1>9, <1>10

-----------------------------------------------------------------------------
(* The types hold                                                          *)

(* The types hold initially.                                               *)
LEMMA InitTyped ==
  ASSUME Init
  PROVE  Typed /\ Stops
<1>1. /\ wf \in Workflows /\ stack = <<Item(wf.trigger, <<Trigger>>)>> /\ waiting = <<>>
      /\ runData = [n \in Node |-> <<>>] /\ current = Null /\ tries = 0 /\ status = "running"
      /\ destination \in wf.destinations /\ restarts = 0
      /\ filter = IF destination = Null THEN Node ELSE ParentNodes(destination) \cup {destination}
  BY DEF Init
<1>2. IsWorkflow(wf)
  BY <1>1, TheWorkflow
<1>3. destination \in Node \cup {Null}
  BY <1>1, <1>2 DEF IsWorkflow
<1>4. filter \subseteq Node
  BY <1>1, <1>3, ParentsAreClosure
<1>5. Item(wf.trigger, <<Trigger>>) \in Items /\ Item(wf.trigger, <<Trigger>>).main = <<Trigger>>
  <2>1. <<Trigger>> \in Seq(Data) /\ <<>> \in Seq(Task)
    BY EmptyList DEF Data, Markers
  <2>2. wf.trigger \in Node
    BY <1>2 DEF IsWorkflow
  <2> QED
    BY <2>1, <2>2 DEF Item, ItemOf, Items
<1>6. stack \in Seq(Items) /\ \A i \in DOMAIN stack : stack[i].main # <<>>
  <2>1. PICK x \in Items : x = Item(wf.trigger, <<Trigger>>)
    BY <1>5
  <2>2. stack = <<x>> /\ x.main = <<Trigger>>
    BY <1>1, <1>5, <2>1
  <2>3. stack \in Seq(Items) /\ DOMAIN stack = 1..1 /\ stack[1].main = <<Trigger>>
    BY <2>2
  <2> QED
    BY <2>3
<1>7. waiting \in Seq(Waits) /\ runData \in [Node -> Seq(TaskData)]
  <2>1. <<>> \in Seq(Waits) /\ <<>> \in Seq(TaskData)
    BY EmptyList
  <2> QED
    BY <1>1, <2>1
<1>8. 0 \in 0 .. MaxTries - 1 /\ 0 \in 0 .. MaxRestarts
  BY EngineAssumption DEF EngineAssumption
<1>9. Typed
  BY <1>1, <1>3, <1>4, <1>6, <1>7, <1>8 DEF Typed, Statuses
<1> QED
  BY <1>1, <1>9 DEF Stops

(* Every step keeps the types.                                             *)
LEMMA StepTyped ==
  ASSUME Typed, Stops, [Next]_vars
  PROVE  Typed' /\ Stops'
<1>1. CASE UNCHANGED vars
  <2>1. /\ UNCHANGED <<wf, waiting, filter, destination>> /\ stack' = stack /\ current' = current
        /\ runData' = runData /\ status' = status /\ tries' = tries /\ restarts' = restarts
    BY <1>1 DEF vars
  <2>2. /\ stack' \in Seq(Items) /\ (\A i \in DOMAIN stack' : stack'[i].main # <<>>)
        /\ current' \in Items \cup {Null} /\ (current' # Null => current'.main # <<>>)
        /\ runData' \in [Node -> Seq(TaskData)]
        /\ status' \in Statuses /\ tries' \in 0 .. MaxTries - 1 /\ restarts' \in 0 .. MaxRestarts
    BY <2>1 DEF Typed
  <2>3. Typed'
    BY <2>1, <2>2, TypedStays
  <2> QED
    BY <2>1, <2>3 DEF Stops
<1>2. CASE Shift
  BY <1>2, ShiftDoes DEF Stops
<1>3. CASE Returns
  <2>1. current # Null
    BY <1>3 DEF Returns, Executing
  <2>2. PICK outs \in SUBSET Nat : Finish(outs)
    BY <1>3 DEF Returns
  <2>3. Typed' /\ current' = Null /\ status' = status
    BY <2>1, <2>2, FinishDoes
  <2> QED
    BY <2>1, <2>3 DEF Stops
<1>4. CASE EndsBranch \/ TriesAgain \/ Complete \/ Cancel
  <2>1. Typed' /\ stack' = stack
    BY <1>4, QuietDoes
  <2>2. Stops'
    BY <1>4, <2>1 DEF Stops, EndsBranch, EndBranch, TriesAgain, Executes, Executing, Complete, Cancel
  <2> QED
    BY <2>1, <2>2
<1>5. CASE RunRequests
  <2>1. Typed' /\ current # Null /\ current' = Null /\ status' = status
    BY <1>5, RequestsDoes
  <2> QED
    BY <2>1 DEF Stops
<1>6. CASE FailsForGood
  <2>1. Typed' /\ stack' # <<>> /\ current' = Null
    BY <1>6, FailsDoes
  <2> QED
    BY <2>1 DEF Stops
<1>7. CASE RunWaits
  <2>1. Typed' /\ stack' # <<>> /\ current' = Null
    BY <1>7, WaitsDoes
  <2> QED
    BY <2>1 DEF Stops
<1>8. CASE Resume
  <2>1. Typed' /\ status' = "running"
    BY <1>8, ResumeDoes
  <2> QED
    BY <2>1 DEF Stops
<1>9. CASE Retry
  <2>1. Typed' /\ status' = "running"
    BY <1>9, RetryDoes
  <2> QED
    BY <2>1 DEF Stops
<1> QED
  BY <1>1, <1>2, <1>3, <1>4, <1>5, <1>6, <1>7, <1>8, <1>9, StepKinds

(* An entry that waits holds a packet, and Null where it lacks one.        *)
LEMMA TypedIsTypeOK ==
  ASSUME Typed
  PROVE  TypeOK
<1>1. ASSUME NEW i \in DOMAIN waiting
      PROVE  /\ waiting[i].node \in Node
             /\ \A k \in DOMAIN waiting[i].entries :
                  /\ Packets(waiting[i].entries[k]) # {}
                  /\ \E j \in 1 .. NumberOfInputs(waiting[i].node) : ~HasData(waiting[i].entries[k], j - 1)
  <2>1. PICK x \in Waits : x = waiting[i]
    BY <1>1 DEF Typed
  <2>2. x.node \in Node
    BY <2>1 DEF Waits
  <2>3. ASSUME NEW k \in DOMAIN x.entries
        PROVE  /\ Packets(x.entries[k]) # {}
               /\ \E j \in 1 .. NumberOfInputs(x.node) : ~HasData(x.entries[k], j - 1)
    <3>1. Partial(x.node, x.entries[k])
      BY <2>3 DEF Waits
    <3>2. PICK main \in Seq(Data) : main = x.entries[k]
      BY <3>1 DEF Partial
    <3>3. Len(main) = NumberOfInputs(x.node) /\ Packets(main) # {} /\ Null \in ToSet(main)
      BY <3>1, <3>2 DEF Partial
    <3>4. PICK j \in 1 .. Len(main) : main[j] = Null
      BY <3>3, SetOf
    <3>5. (j - 1) + 1 = j
      OBVIOUS
    <3>6. ~HasData(main, j - 1)
      BY <3>4, <3>5 DEF HasData
    <3> QED
      BY <3>2, <3>3, <3>4, <3>6
  <2> QED
    BY <2>1, <2>2, <2>3
<1> QED
  BY <1>1 DEF TypeOK, Typed, Statuses

(* TypeOK holds in every state: every item has its inputs, what waits      *)
(* holds the data of one input and lacks that of another, and runs are     *)
(* recorded under their nodes.                                             *)
THEOREM TypeCorrect == Spec => []TypeOK
<1>1. Init => Typed /\ Stops
  BY InitTyped
<1>2. Typed /\ Stops /\ [Next]_vars => (Typed /\ Stops)'
  BY StepTyped
<1>3. Typed /\ Stops => TypeOK
  BY TypedIsTypeOK
<1> QED
  BY <1>1, <1>2, <1>3, PTL DEF Spec

-----------------------------------------------------------------------------
(* What goes without data comes last                                       *)

(* An item that is executed without data on some input                     *)
GoesWithout(x) == Empty \in ToSet(x.main)

(* What goes without data, of the stack s, the executed item c and what    *)
(* waits, w: nothing is executed before it but the tools it calls, and none*)
(* of the nodes before it waits.                                           *)
Alone(s, c, w) ==
  /\ c # Null /\ GoesWithout(c) => s = <<>> /\ NodesOf(w) \cap ParentNodes(c.node) = {}
  /\ \A i \in 1..Len(s) :
       GoesWithout(s[i]) =>
         /\ i = Len(s)
         /\ \A j \in 1..Len(s) : j < i => s[j].node \in Tools
         /\ c # Null => c.node \in Tools
         /\ NodesOf(w) \cap ParentNodes(s[i].node) = {}

(* Nothing goes without data that could still arrive.                      *)
MergesAlone == Alone(stack, current, waiting)

(* Alone is about the workflow and these three variables only.             *)
LEMMA AloneStays ==
  ASSUME UNCHANGED wf, Alone(stack', current', waiting')
  PROVE  MergesAlone'
<1>1. Tools' = Tools /\ \A n : ParentNodes(n)' = ParentNodes(n)
  BY SameWorkflow
<1> QED
  BY <1>1 DEF MergesAlone, Alone, GoesWithout, NodesOf

(* The stack's items, by their index                                       *)
LEMMA StackKnown ==
  ASSUME Typed
  PROVE  /\ stack \in Seq(Items) /\ DOMAIN stack = 1..Len(stack) /\ Len(stack) \in Nat
         /\ \A i \in 1..Len(stack) : stack[i] \in Items /\ stack[i].main \in Seq(Data)
<1>1. stack \in Seq(Items)
  BY DEF Typed
<1>2. DOMAIN stack = 1..Len(stack) /\ Len(stack) \in Nat /\ \A i \in 1..Len(stack) : stack[i] \in Items
  BY <1>1, HowLong
<1>3. \A x \in Items : x.main \in Seq(Data)
  BY DEF Items
<1> QED
  BY <1>1, <1>2, <1>3

(* An item that goes without data is executed when nothing else is left    *)
(* on the stack.                                                           *)
LEMMA ShiftAlone ==
  ASSUME Typed, MergesAlone, Shift
  PROVE  MergesAlone'
<1>1. /\ Head(stack) \in Items /\ Len(stack) = Len(stack') + 1
      /\ stack[1] = Head(stack) /\ Len(stack') \in Nat
      /\ \A i \in DOMAIN stack' : i + 1 \in DOMAIN stack /\ stack'[i] = stack[i + 1]
      /\ current' = Head(stack) \/ current' = Null
      /\ UNCHANGED <<wf, waiting>> /\ Typed'
  BY ShiftDoes
<1>2. PICK s \in Seq(Items) : s = stack' /\ DOMAIN s = 1..Len(s)
  BY <1>1, HowLong DEF Typed
<1>3. \A i \in 1..Len(s) : i + 1 \in 1..Len(stack) /\ s[i] = stack[i + 1]
  BY <1>1, <1>2, StackKnown
<1>4. \A i \in 1..Len(stack) : GoesWithout(stack[i]) =>
         /\ i = Len(stack)
         /\ \A j \in 1..Len(stack) : j < i => stack[j].node \in Tools
         /\ NodesOf(waiting) \cap ParentNodes(stack[i].node) = {}
  BY DEF MergesAlone, Alone
<1>5. ASSUME current' # Null, GoesWithout(current')
      PROVE  s = <<>> /\ NodesOf(waiting) \cap ParentNodes(current'.node) = {}
  <2>1. 1 \in 1..Len(stack) /\ GoesWithout(stack[1]) /\ current' = stack[1]
    BY <1>1, <1>5
  <2>2. 1 = Len(stack)
    BY <2>1, <1>4
  <2>3. Len(s) = 0
    BY <2>2, <1>1, <1>2
  <2> QED
    BY <2>1, <2>3, <1>2, <1>4, HowLong
<1>6. ASSUME NEW i \in 1..Len(s), GoesWithout(s[i])
      PROVE  /\ i = Len(s)
             /\ \A j \in 1..Len(s) : j < i => s[j].node \in Tools
             /\ current' # Null => current'.node \in Tools
             /\ NodesOf(waiting) \cap ParentNodes(s[i].node) = {}
  <2>1. PICK k \in 1..Len(stack) : k = i + 1 /\ s[i] = stack[k]
    BY <1>3, <1>6
  <2>2. /\ k = Len(stack)
        /\ \A j \in 1..Len(stack) : j < k => stack[j].node \in Tools
        /\ NodesOf(waiting) \cap ParentNodes(stack[k].node) = {}
    BY <2>1, <1>4, <1>6
  <2>3. i = Len(s)
    <3>1. Len(stack) = Len(s) + 1 /\ Len(s) \in Nat
      BY <1>1, <1>2
    <3> QED
      BY <3>1, <2>1, <2>2
  <2>4. \A j \in 1..Len(s) : j < i => s[j].node \in Tools
    <3> SUFFICES ASSUME NEW j \in 1..Len(s), j < i PROVE s[j].node \in Tools
      OBVIOUS
    <3>1. j + 1 \in 1..Len(stack) /\ s[j] = stack[j + 1] /\ j + 1 < k
      BY <1>3, <2>1
    <3> QED
      BY <3>1, <2>2
  <2>5. current' # Null => current'.node \in Tools
    <3>1. 1 \in 1..Len(stack) /\ 1 < k
      BY <2>1
    <3> QED
      BY <3>1, <2>2, <1>1
  <2> QED
    BY <2>1, <2>2, <2>3, <2>4, <2>5
<1>7. Alone(s, current', waiting)
  BY <1>5, <1>6 DEF Alone
<1> QED
  BY <1>1, <1>2, <1>7, AloneStays

(* With an item that goes without data on the stack only tools return,     *)
(* and they leave nothing; else what is added has all its data, or is      *)
(* released with nothing before it waiting.                                *)
LEMMA ReturnsAlone ==
  ASSUME Typed, MergesAlone, Returns
  PROVE  MergesAlone'
<1>1. current # Null
  BY DEF Returns, Executing
<1>2. PICK outs \in SUBSET Nat : Finish(outs)
  BY DEF Returns
<1>3. Leaves /\ current' = Null /\ UNCHANGED wf
  BY <1>1, <1>2, FinishDoes
<1>4. CASE UNCHANGED <<stack, waiting>>
  <2>1. Alone(stack, Null, waiting)
    BY DEF MergesAlone, Alone
  <2> QED
    BY <1>3, <1>4, <2>1, AloneStays
<1>5. ASSUME NEW q \in Grown(stack), current.node \in Tools => q = [s |-> stack, w |-> waiting],
             stack' = q.s, waiting' = q.w
      PROVE  MergesAlone'
  <2>1. CASE \E i \in 1..Len(stack) : GoesWithout(stack[i])
    <3>1. current.node \in Tools
      BY <2>1, <1>1 DEF MergesAlone, Alone
    <3>2. UNCHANGED <<stack, waiting>>
      BY <3>1, <1>5
    <3> QED
      BY <3>2, <1>4
  <2>2. CASE ~\E i \in 1..Len(stack) : GoesWithout(stack[i])
    <3>1. PICK added \in Seq(Fresh) : q.s = added \o stack
      BY DEF Grown
    <3>2. Fresh \subseteq Items
      BY DEF Fresh
    <3>3. added \in Seq(Items) /\ Len(added) \in Nat /\ \A i \in 1..Len(added) : added[i] \in Fresh
      BY <3>2, SeqMonotonic, HowLong
    <3>4. ASSUME NEW i \in 1..Len(q.s)
          PROVE  ~GoesWithout(q.s[i])
      <4>1. Len(q.s) = Len(added) + Len(stack) /\ q.s[i] = IF i <= Len(added) THEN added[i] ELSE stack[i - Len(added)]
        BY <3>1, <3>3, StackKnown, ConcatProperties
      <4>2. CASE i <= Len(added)
        <5>1. i \in 1..Len(added) /\ q.s[i] = added[i]
          BY <4>1, <4>2, <3>3
        <5>2. q.s[i] \in Fresh
          BY <5>1, <3>3
        <5> QED
          BY <5>2 DEF Fresh, GoesWithout
      <4>3. CASE ~(i <= Len(added))
        <5>1. PICK j \in 1..Len(stack) : j = i - Len(added)
          BY <4>1, <4>3, <3>3, StackKnown
        <5> QED
          BY <5>1, <4>1, <4>3, <2>2
      <4> QED
        BY <4>2, <4>3
    <3>5. Alone(q.s, Null, q.w)
      BY <3>4 DEF Alone
    <3> QED
      BY <3>5, <1>3, <1>5, AloneStays
  <2> QED
    BY <2>1, <2>2
<1>6. ASSUME NEW q, Released(q, [s |-> stack', w |-> waiting'])
      PROVE  MergesAlone'
  <2>1. PICK x \in Items : stack' = <<x>> /\ NodesOf(waiting') \cap ParentNodes(x.node) = {}
    BY <1>6 DEF Released
  <2>2. PICK w : w = waiting'
    OBVIOUS
  <2>3. Alone(<<x>>, Null, w)
    <3>1. Len(<<x>>) = 1 /\ <<x>>[1] = x
      OBVIOUS
    <3> QED
      BY <3>1, <2>1, <2>2 DEF Alone
  <2> QED
    BY <2>1, <2>2, <2>3, <1>3, AloneStays
<1> QED
  BY <1>3, <1>4, <1>5, <1>6 DEF Leaves

(* The calls lie above the agent, which may have gone without data.        *)
LEMMA RequestsAlone ==
  ASSUME Typed, MergesAlone, RunRequests
  PROVE  MergesAlone'
<1>1. PICK x \in Items, calls \in Seq(Task) :
              /\ Called(stack', stack, x, calls)
              /\ x.node = current.node /\ x.main = <<current.main[1]>>
              /\ \A i \in 1..Len(calls) : calls[i].node \in Tools
  BY RequestsDoes
<1>2. current # Null /\ current' = Null /\ UNCHANGED <<wf, waiting>>
  BY RequestsDoes
<1>3. PICK s : s = stack'
  OBVIOUS
<1>4. PICK m \in Nat : m = Len(calls)
  BY HowLong
<1>5. /\ s \in Seq(Items) /\ Len(s) = m + 1 + Len(stack)
      /\ \A i \in 1..m : s[i].node = calls[m + 1 - i].node /\ s[i].main = <<Call>>
      /\ s[m + 1] = x /\ \A i \in 1..Len(stack) : s[m + 1 + i] = stack[i]
  BY <1>1, <1>3, <1>4 DEF Called
<1>6. \A i \in 1..m : s[i].node \in Tools /\ ~GoesWithout(s[i])
  <2> TAKE i \in 1..m
  <2>1. m + 1 - i \in 1..Len(calls)
    BY <1>4
  <2>2. s[i].node \in Tools /\ s[i].main = <<Call>>
    BY <2>1, <1>1, <1>5
  <2>3. ToSet(<<Call>>) = {Call} /\ Call # Empty
    BY EngineAssumption DEF ToSet, EngineAssumption
  <2> QED
    BY <2>2, <2>3 DEF GoesWithout
<1>7. Len(stack) \in Nat
  BY StackKnown
<1>8. ASSUME GoesWithout(x)
      PROVE  Len(stack) = 0 /\ NodesOf(waiting) \cap ParentNodes(x.node) = {}
  <2>1. current.main \in Seq(Data) /\ 1 \in 1..Len(current.main)
    <3>1. current \in Items /\ current.main # <<>>
      BY <1>2 DEF Typed
    <3>2. current.main \in Seq(Data)
      BY <3>1 DEF Items
    <3> QED
      BY <3>1, <3>2, HowLong
  <2>2. current.main[1] \in ToSet(current.main)
    BY <2>1, SetOf
  <2>3. ToSet(<<current.main[1]>>) = {current.main[1]}
    BY DEF ToSet
  <2>4. GoesWithout(current)
    BY <1>1, <1>8, <2>2, <2>3 DEF GoesWithout
  <2> QED
    BY <2>4, <1>1, <1>2, HowLong DEF MergesAlone, Alone
<1>9. ASSUME NEW i \in 1..Len(s), GoesWithout(s[i])
      PROVE  /\ i = Len(s)
             /\ \A j \in 1..Len(s) : j < i => s[j].node \in Tools
             /\ NodesOf(waiting) \cap ParentNodes(s[i].node) = {}
  <2>1. CASE i <= m
    BY <2>1, <1>6, <1>9
  <2>2. CASE i = m + 1
    <3>1. Len(stack) = 0 /\ NodesOf(waiting) \cap ParentNodes(x.node) = {} /\ s[i] = x
      BY <2>2, <1>5, <1>8, <1>9
    <3> QED
      BY <3>1, <2>2, <1>5, <1>6
  <2>3. CASE i > m + 1
    <3>1. PICK k \in 1..Len(stack) : k = i - (m + 1)
      BY <2>3, <1>5, <1>7
    <3>2. i = m + 1 + k /\ s[i] = stack[k]
      BY <3>1, <1>5
    <3>3. /\ k = Len(stack) /\ current.node \in Tools
          /\ \A j \in 1..Len(stack) : j < k => stack[j].node \in Tools
          /\ NodesOf(waiting) \cap ParentNodes(stack[k].node) = {}
      BY <3>2, <1>2, <1>9 DEF MergesAlone, Alone
    <3>4. ASSUME NEW j \in 1..Len(s), j < i
          PROVE  s[j].node \in Tools
      <4>1. CASE j <= m
        BY <4>1, <1>6
      <4>2. CASE j = m + 1
        BY <4>2, <1>1, <1>5, <3>3
      <4>3. CASE j > m + 1
        <5>1. PICK l \in 1..Len(stack) : l = j - (m + 1)
          BY <4>3, <1>5, <1>7
        <5>2. j = m + 1 + l /\ s[j] = stack[l] /\ l < k
          BY <5>1, <3>2, <3>4, <1>5
        <5> QED
          BY <5>2, <3>3
      <4> QED
        BY <4>1, <4>2, <4>3
    <3> QED
      BY <3>2, <3>3, <3>4, <1>5
  <2> QED
    BY <2>1, <2>2, <2>3
<1>10. Alone(s, Null, waiting)
  BY <1>9 DEF Alone
<1> QED
  BY <1>2, <1>3, <1>10, AloneStays

(* The executed item goes back on the stack.                               *)
LEMMA PutBackAlone ==
  ASSUME Typed, MergesAlone, current # Null, stack' = <<current>> \o stack, current' = Null,
         UNCHANGED <<wf, waiting>>
  PROVE  MergesAlone'
<1>1. PICK s : s = <<current>> \o stack
  OBVIOUS
<1>2. current \in Items /\ stack \in Seq(Items) /\ Len(stack) \in Nat
  BY StackKnown, PutBack
<1>3. Len(s) = Len(stack) + 1 /\ s[1] = current /\ \A i \in 1..Len(stack) : s[i + 1] = stack[i]
  BY <1>1, <1>2
<1>4. ASSUME NEW i \in 1..Len(s), GoesWithout(s[i])
      PROVE  /\ i = Len(s)
             /\ \A j \in 1..Len(s) : j < i => s[j].node \in Tools
             /\ NodesOf(waiting) \cap ParentNodes(s[i].node) = {}
  <2>1. CASE i = 1
    <3>1. stack = <<>> /\ NodesOf(waiting) \cap ParentNodes(current.node) = {}
      BY <2>1, <1>3, <1>4 DEF MergesAlone, Alone
    <3>2. Len(stack) = 0
      BY <3>1
    <3> QED
      BY <3>1, <3>2, <2>1, <1>2, <1>3
  <2>2. CASE i # 1
    <3>1. PICK k \in 1..Len(stack) : i = k + 1 /\ s[i] = stack[k]
      <4>1. i - 1 \in 1..Len(stack) /\ i = (i - 1) + 1
        BY <2>2, <1>2, <1>3
      <4> QED
        BY <4>1, <1>3
    <3>2. /\ k = Len(stack) /\ current.node \in Tools
          /\ \A j \in 1..Len(stack) : j < k => stack[j].node \in Tools
          /\ NodesOf(waiting) \cap ParentNodes(stack[k].node) = {}
      BY <3>1, <1>4 DEF MergesAlone, Alone
    <3>3. ASSUME NEW j \in 1..Len(s), j < i
          PROVE  s[j].node \in Tools
      <4>1. CASE j = 1
        BY <4>1, <1>3, <3>2
      <4>2. CASE j # 1
        <5>1. j - 1 \in 1..Len(stack) /\ j = (j - 1) + 1 /\ j - 1 < k
          BY <4>2, <3>1, <3>3, <1>2, <1>3
        <5> QED
          BY <5>1, <3>2, <1>3
      <4> QED
        BY <4>1, <4>2
    <3> QED
      BY <3>1, <3>2, <3>3, <1>3
  <2> QED
    BY <2>1, <2>2
<1>5. Alone(s, Null, waiting)
  BY <1>4 DEF Alone
<1> QED
  BY <1>1, <1>5, AloneStays

(* The items keep their data.                                              *)
LEMMA ResumeAlone ==
  ASSUME Typed, MergesAlone, Resume
  PROVE  MergesAlone'
<1>1. /\ Len(stack') = Len(stack) /\ UNCHANGED <<wf, waiting, current>>
      /\ \A i \in DOMAIN stack : stack'[i].node = stack[i].node /\ stack'[i].main = stack[i].main
      /\ Typed'
  BY ResumeDoes
<1>2. PICK s : s = stack'
  OBVIOUS
<1>3. Len(s) = Len(stack) /\ \A i \in 1..Len(s) : s[i].node = stack[i].node /\ s[i].main = stack[i].main
  BY <1>1, <1>2, StackKnown
<1>4. \A i \in 1..Len(s) : GoesWithout(s[i]) => GoesWithout(stack[i])
  BY <1>3 DEF GoesWithout
<1>5. stack = <<>> => s = <<>>
  <2>1. s \in Seq(Items)
    BY <1>1, <1>2 DEF Typed
  <2> QED
    BY <2>1, <1>3, StackKnown, HowLong
<1>6. Alone(s, current, waiting)
  BY <1>3, <1>4, <1>5 DEF MergesAlone, Alone
<1> QED
  BY <1>1, <1>2, <1>6, AloneStays

(* Every step keeps MergesAlone.                                           *)
LEMMA StepAlone ==
  ASSUME Typed, MergesAlone, [Next]_vars
  PROVE  MergesAlone'
<1>1. CASE UNCHANGED vars \/ Retry
  <2>1. UNCHANGED <<wf, stack, waiting, current>>
    BY <1>1, RetryDoes DEF vars
  <2> QED
    BY <2>1, AloneStays DEF MergesAlone
<1>2. CASE EndsBranch \/ TriesAgain \/ Complete \/ Cancel
  <2>1. UNCHANGED <<wf, stack, waiting>> /\ (current' = current \/ current' = Null)
    BY <1>2, QuietDoes
  <2>2. Alone(stack, current', waiting)
    BY <2>1 DEF MergesAlone, Alone
  <2> QED
    BY <2>1, <2>2, AloneStays
<1>3. CASE FailsForGood
  <2>1. current # Null /\ stack' = <<current>> \o stack /\ current' = Null /\ UNCHANGED <<wf, waiting>>
    BY <1>3, FailsDoes DEF FailsForGood, Executes, Executing
  <2> QED
    BY <2>1, PutBackAlone
<1>4. CASE RunWaits
  <2>1. current # Null /\ stack' = <<current>> \o stack /\ current' = Null /\ UNCHANGED <<wf, waiting>>
    BY <1>4, WaitsDoes DEF RunWaits, Executes, Executing
  <2> QED
    BY <2>1, PutBackAlone
<1> QED
  BY <1>1, <1>2, <1>3, <1>4, StepKinds, ShiftAlone, ReturnsAlone, RequestsAlone, ResumeAlone

(* A tool leads to no node.                                                *)
LEMMA ToolsAreNoParents ==
  ASSUME wf \in Workflows, NEW n \in Node
  PROVE  ParentNodes(n) \cap Tools = {}
<1> DEFINE S == {n} \cup {c.from : c \in MainConns}
<1>1. n \in S /\ Closed(S)
  BY DEF Closed
<1>2. ParentNodes(n) \subseteq S
  BY <1>1, ParentsAreClosure
<1>3. \A c \in MainConns : c.from \notin Tools
  BY TheWorkflow DEF Tools, IsWorkflow, MainConns, Conns
<1>4. n \notin ParentNodes(n)
  BY DEF ParentNodes
<1> QED
  BY <1>2, <1>3, <1>4

(* MergesAlone is enough: what lies above the item, or is executed, is a   *)
(* tool.                                                                   *)
LEMMA AloneRunsLast ==
  ASSUME Typed, MergesAlone
  PROVE  MergesRunLast
<1> SUFFICES ASSUME NEW x \in Outstanding, Empty \in ToSet(x.main),
                    NEW y \in Outstanding \cup {waiting[i] : i \in DOMAIN waiting}
             PROVE  y.node \notin ParentNodes(x.node)
  BY DEF MergesRunLast
<1>1. ToSet(stack) = {stack[i] : i \in 1..Len(stack)}
  BY StackKnown, SetOf
<1>2. x.node \in Node /\ wf \in Workflows
  <2>1. x \in Items
    BY <1>1, StackKnown DEF Outstanding, Typed
  <2> QED
    BY <2>1 DEF Items, Typed
<1>3. y \in {waiting[i] : i \in DOMAIN waiting} => y.node \in NodesOf(waiting)
  BY DEF NodesOf
<1>4. CASE x = current /\ current # Null
  <2>1. stack = <<>> /\ NodesOf(waiting) \cap ParentNodes(x.node) = {}
    BY <1>4 DEF MergesAlone, Alone, GoesWithout
  <2>2. ToSet(stack) = {}
    BY <2>1, EmptyList
  <2>3. x.node \notin ParentNodes(x.node)
    BY DEF ParentNodes
  <2> QED
    BY <2>1, <2>2, <2>3, <1>3, <1>4 DEF Outstanding
<1>5. ASSUME NEW i \in 1..Len(stack), x = stack[i]
      PROVE  y.node \notin ParentNodes(x.node)
  <2>1. /\ i = Len(stack)
        /\ \A j \in 1..Len(stack) : j < i => stack[j].node \in Tools
        /\ current # Null => current.node \in Tools
        /\ NodesOf(waiting) \cap ParentNodes(x.node) = {}
    BY <1>5 DEF MergesAlone, Alone, GoesWithout
  <2>2. ParentNodes(x.node) \cap Tools = {} /\ x.node \notin ParentNodes(x.node)
    BY <1>2, ToolsAreNoParents DEF ParentNodes
  <2>3. y \in ToSet(stack) => y.node \notin ParentNodes(x.node)
    <3> SUFFICES ASSUME NEW j \in 1..Len(stack), y = stack[j] PROVE y.node \notin ParentNodes(x.node)
      BY <1>1
    <3>1. j < i \/ j = i
      BY <2>1, StackKnown
    <3> QED
      BY <3>1, <2>1, <2>2, <1>5
  <2> QED
    BY <2>1, <2>2, <2>3, <1>3 DEF Outstanding
<1> QED
  BY <1>1, <1>4, <1>5 DEF Outstanding

(* Initially there is the trigger, which has its data.                     *)
LEMMA InitAlone ==
  ASSUME Init
  PROVE  MergesAlone
<1>1. /\ stack = <<Item(wf.trigger, <<Trigger>>)>> /\ current = Null
  BY DEF Init
<1>2. ToSet(<<Trigger>>) = {Trigger} /\ Trigger # Empty
  BY EngineAssumption DEF ToSet, EngineAssumption
<1>3. Item(wf.trigger, <<Trigger>>).main = <<Trigger>>
  BY DEF Item, ItemOf
<1>4. PICK x : x = Item(wf.trigger, <<Trigger>>)
  OBVIOUS
<1>5. stack = <<x>> /\ ~GoesWithout(x)
  BY <1>1, <1>2, <1>3, <1>4 DEF GoesWithout
<1>6. Len(stack) = 1 /\ stack[1] = x
  BY <1>5
<1> QED
  BY <1>1, <1>5, <1>6 DEF MergesAlone, Alone

(* MergesRunLast holds in every state: no node that is executed although   *)
(* an input has received nothing (the fallback at the end of               *)
(* processRunExecutionData's loop) is executed, or put on the stack,       *)
(* while a node before it is outstanding or waits.                         *)
THEOREM MergesComeLast == Spec => []MergesRunLast
<1>1. Init => Typed /\ Stops /\ MergesAlone
  BY InitTyped, InitAlone
<1>2. Typed /\ Stops /\ MergesAlone /\ [Next]_vars => (Typed /\ Stops /\ MergesAlone)'
  BY StepTyped, StepAlone
<1>3. Typed /\ Stops /\ MergesAlone => MergesRunLast
  BY AloneRunsLast
<1> QED
  BY <1>1, <1>2, <1>3, PTL DEF Spec

-----------------------------------------------------------------------------
(* What waits is looked at                                                 *)

(* No input of what is executed has received nothing: what waits gives up  *)
(* such inputs before it is executed.                                      *)
Given(s, c) ==
  /\ c # Null => Null \notin ToSet(c.main)
  /\ \A i \in 1..Len(s) : Null \notin ToSet(s[i].main)

(* An item's first input is one of its inputs.                             *)
LEMMA FirstGiven ==
  ASSUME NEW x \in Items, x.main # <<>>, Null \notin ToSet(x.main)
  PROVE  x.main[1] # Null /\ Null \notin ToSet(<<x.main[1]>>)
<1>1. x.main \in Seq(Data)
  BY DEF Items
<1>2. 1 \in 1..Len(x.main)
  BY <1>1, HowLong
<1>3. x.main[1] \in ToSet(x.main)
  BY <1>1, <1>2, SetOf
<1>4. ToSet(<<x.main[1]>>) = {x.main[1]}
  BY DEF ToSet
<1> QED
  BY <1>3, <1>4

(* Items with data are added.                                              *)
LEMMA MoreGiven ==
  ASSUME Typed, Given(stack, current), NEW added \in Seq(Items),
         \A i \in 1..Len(added) : Null \notin ToSet(added[i].main)
  PROVE  Given(added \o stack, Null)
<1>1. PICK s : s = added \o stack
  OBVIOUS
<1>2. \A i \in 1..Len(s) : \/ \E j \in 1..Len(added) : s[i] = added[j]
                           \/ \E j \in 1..Len(stack) : s[i] = stack[j]
  <2> TAKE i \in 1..Len(s)
  <2>1. /\ Len(s) = Len(added) + Len(stack) /\ Len(added) \in Nat /\ Len(stack) \in Nat
        /\ s[i] = IF i <= Len(added) THEN added[i] ELSE stack[i - Len(added)]
    BY <1>1, StackKnown, ConcatProperties, HowLong
  <2>2. CASE i <= Len(added)
    BY <2>1, <2>2
  <2>3. CASE ~(i <= Len(added))
    <3>1. PICK j \in 1..Len(stack) : j = i - Len(added)
      BY <2>1, <2>3
    <3> QED
      BY <3>1, <2>1, <2>3
  <2> QED
    BY <2>2, <2>3
<1>3. \A j \in 1..Len(stack) : Null \notin ToSet(stack[j].main)
  BY DEF Given
<1> QED
  BY <1>1, <1>2, <1>3 DEF Given

(* Every step keeps it.                                                    *)
LEMMA StepGiven ==
  ASSUME Typed, Given(stack, current), [Next]_vars
  PROVE  Given(stack', current')
<1>1. CASE UNCHANGED vars \/ Retry
  <2>1. stack' = stack /\ current' = current
    BY <1>1, RetryDoes DEF vars
  <2> QED
    BY <2>1
<1>2. CASE EndsBranch \/ TriesAgain \/ Complete \/ Cancel
  <2>1. stack' = stack /\ (current' = current \/ current' = Null)
    BY <1>2, QuietDoes
  <2> QED
    BY <2>1 DEF Given
<1>3. CASE FailsForGood \/ RunWaits
  <2>1. current # Null /\ stack' = <<current>> \o stack /\ current' = Null /\ current \in Items
    BY <1>3, FailsDoes, WaitsDoes DEF FailsForGood, RunWaits, Executes, Executing
  <2>2. <<current>> \in Seq(Items) /\ \A i \in 1..Len(<<current>>) : Null \notin ToSet(<<current>>[i].main)
    <3>1. PICK x \in Items : x = current /\ Null \notin ToSet(x.main)
      BY <2>1 DEF Given
    <3>2. <<x>> \in Seq(Items) /\ Len(<<x>>) = 1 /\ <<x>>[1] = x
      OBVIOUS
    <3> QED
      BY <3>1, <3>2
  <2> QED
    BY <2>1, <2>2, MoreGiven
<1>4. CASE Shift
  <2>1. /\ Len(stack) = Len(stack') + 1 /\ Len(stack') \in Nat /\ stack[1] = Head(stack)
        /\ \A i \in DOMAIN stack' : stack'[i] = stack[i + 1]
        /\ current' = Head(stack) \/ current' = Null
        /\ Typed'
    BY <1>4, ShiftDoes
  <2>2. PICK s \in Seq(Items) : s = stack' /\ DOMAIN s = 1..Len(s)
    BY <2>1, HowLong DEF Typed
  <2>3. \A i \in 1..Len(s) : i + 1 \in 1..Len(stack) /\ s[i] = stack[i + 1]
    BY <2>1, <2>2
  <2>4. 1 \in 1..Len(stack)
    BY <2>1
  <2>5. \A i \in 1..Len(stack) : Null \notin ToSet(stack[i].main)
    BY DEF Given
  <2> QED
    BY <2>1, <2>2, <2>3, <2>4, <2>5 DEF Given
<1>5. CASE Returns
  <2>1. PICK outs \in SUBSET Nat : Finish(outs)
    BY <1>5 DEF Returns
  <2>2. Leaves /\ current' = Null
    BY <1>5, <2>1, FinishDoes DEF Returns, Executing
  <2>3. CASE UNCHANGED <<stack, waiting>>
    BY <2>2, <2>3 DEF Given
  <2>4. ASSUME NEW q \in Grown(stack), stack' = q.s
        PROVE  Given(stack', current')
    <3>1. PICK added \in Seq(Fresh) : q.s = added \o stack
      BY DEF Grown
    <3>2. Fresh \subseteq Items /\ \A x \in Fresh : Null \notin ToSet(x.main)
      BY DEF Fresh
    <3>3. added \in Seq(Items) /\ \A i \in 1..Len(added) : added[i] \in Fresh
      BY <3>2, SeqMonotonic, HowLong
    <3> QED
      BY <2>2, <2>4, <3>1, <3>2, <3>3, MoreGiven
  <2>5. ASSUME NEW q, Released(q, [s |-> stack', w |-> waiting'])
        PROVE  Given(stack', current')
    <3>1. PICK x \in Items : stack' = <<x>> /\ Null \notin ToSet(x.main)
      BY <2>5 DEF Released
    <3>2. Len(<<x>>) = 1 /\ <<x>>[1] = x
      OBVIOUS
    <3> QED
      BY <2>2, <3>1, <3>2 DEF Given
  <2> QED
    BY <2>2, <2>3, <2>4, <2>5 DEF Leaves
<1>6. CASE RunRequests
  <2>1. PICK x \in Items, calls \in Seq(Task) :
                Called(stack', stack, x, calls) /\ x.main = <<current.main[1]>>
    BY <1>6, RequestsDoes
  <2>2. current # Null /\ current' = Null
    BY <1>6, RequestsDoes
  <2>3. Null \notin ToSet(x.main)
    <3>1. PICK y \in Items : y = current /\ y.main # <<>> /\ Null \notin ToSet(y.main)
      BY <2>2 DEF Typed, Given
    <3> QED
      BY <2>1, <3>1, FirstGiven
  <2>4. PICK s : s = stack'
    OBVIOUS
  <2>5. PICK m \in Nat : m = Len(calls)
    BY HowLong
  <2>6. /\ Len(s) = m + 1 + Len(stack) /\ Len(stack) \in Nat
        /\ \A i \in 1..m : s[i].main = <<Call>>
        /\ s[m + 1] = x /\ \A i \in 1..Len(stack) : s[m + 1 + i] = stack[i]
    BY <2>1, <2>4, <2>5, StackKnown DEF Called
  <2>7. ASSUME NEW i \in 1..Len(s)
        PROVE  Null \notin ToSet(s[i].main)
    <3>1. CASE i <= m
      <4>1. s[i].main = <<Call>>
        BY <3>1, <2>6
      <4>2. ToSet(<<Call>>) = {Call} /\ Call # Null
        BY EngineAssumption DEF ToSet, EngineAssumption
      <4> QED
        BY <4>1, <4>2
    <3>2. CASE i = m + 1
      BY <3>2, <2>3, <2>6
    <3>3. CASE i > m + 1
      <4>1. PICK k \in 1..Len(stack) : k = i - (m + 1)
        BY <3>3, <2>6
      <4>2. s[i] = stack[k]
        <5>1. i = m + 1 + k
          BY <4>1
        <5> QED
          BY <5>1, <2>6
      <4> QED
        BY <4>2 DEF Given
    <3> QED
      BY <3>1, <3>2, <3>3
  <2> QED
    BY <2>2, <2>4, <2>7 DEF Given
<1>7. CASE Resume
  <2>1. /\ Len(stack') = Len(stack) /\ current' = current
        /\ \A i \in DOMAIN stack : stack'[i].main = stack[i].main
    BY <1>7, ResumeDoes
  <2> QED
    BY <2>1, StackKnown DEF Given
<1> QED
  BY <1>1, <1>2, <1>3, <1>4, <1>5, <1>6, <1>7, StepKinds

(* The trigger has its data.                                               *)
LEMMA InitGiven ==
  ASSUME Init
  PROVE  Given(stack, current)
<1>1. /\ stack = <<Item(wf.trigger, <<Trigger>>)>> /\ current = Null
  BY DEF Init
<1>2. ToSet(<<Trigger>>) = {Trigger} /\ Trigger # Null
  BY EngineAssumption DEF ToSet, EngineAssumption
<1>5. Item(wf.trigger, <<Trigger>>).main = <<Trigger>>
  BY DEF Item, ItemOf
<1>3. PICK x : x = Item(wf.trigger, <<Trigger>>) /\ x.main = <<Trigger>>
  BY <1>5
<1>4. Len(stack) = 1 /\ stack[1] = x
  BY <1>1, <1>3
<1> QED
  BY <1>1, <1>2, <1>3, <1>4 DEF Given

-----------------------------------------------------------------------------
(* The connections go forwards, and every branch looks at what waits.      *)
Forward ==
  /\ wf.ends = {}
  /\ \E depth \in [Node -> Nat] : \A c \in MainConns : depth[c.from] < depth[c.to]

(* When nothing is left to execute nothing that waits is ready.            *)
Looked ==
  /\ destination = Null => filter = Node
  /\ status = "success" => current = Null /\ stack = <<>>
  /\ wf.ends = {} /\ destination = Null /\ current = Null /\ stack = <<>> =>
       \A i \in DOMAIN waiting : ~Ready(waiting, i)

(* Every step keeps Looked: a branch that leaves the stack empty has       *)
(* looked at what waits, if no node returns null.                          *)
LEMMA StepLooked ==
  ASSUME Typed, Stops, Given(stack, current), Looked, [Next]_vars
  PROVE  Looked'
<1>1. CASE UNCHANGED vars \/ Retry
  <2>1. UNCHANGED <<wf, stack, waiting, current, filter, destination>>
        /\ (status' = status \/ status' = "running")
    BY <1>1, RetryDoes DEF vars
  <2> QED
    BY <2>1, SameWorkflow DEF Looked
<1>2. CASE TriesAgain \/ Complete \/ Cancel
  <2>1. UNCHANGED <<wf, stack, waiting, current, filter, destination>>
    BY <1>2, QuietDoes DEF TriesAgain, Complete, Cancel
  <2>2. status' = "success" => current = Null /\ stack = <<>>
    BY <1>2 DEF TriesAgain, Complete, Cancel, Looked
  <2> QED
    BY <2>1, <2>2, SameWorkflow DEF Looked
<1>3. CASE EndsBranch
  <2>1. UNCHANGED <<wf, stack, waiting, filter, destination, status>> /\ current # Null
    BY <1>3 DEF EndsBranch, EndBranch, Executing
  <2>2. current.main[1] # Null
    BY <2>1, FirstGiven DEF Typed, Given
  <2>3. wf.ends # {}
    BY <1>3, <2>2 DEF EndsBranch
  <2>4. status # "success"
    BY <2>1 DEF Stops
  <2> QED
    BY <2>1, <2>3, <2>4 DEF Looked
<1>4. CASE FailsForGood \/ RunWaits
  <2>1. stack' # <<>> /\ UNCHANGED <<wf, waiting, filter, destination>>
        /\ status' \in {status, "error", "waiting"}
    BY <1>4, FailsDoes, WaitsDoes
  <2>2. status # "success"
    BY <1>4 DEF Stops, FailsForGood, RunWaits, Executes, Executing
  <2> QED
    BY <2>1, <2>2 DEF Looked
<1>5. CASE Shift
  <2>1. /\ status = "running" /\ Head(stack) \in Items /\ UNCHANGED <<wf, waiting, status, filter, destination>>
        /\ \/ Head(stack).node \in filter /\ current' = Head(stack)
           \/ Head(stack).node \notin filter /\ current' = Null
    BY <1>5, ShiftDoes
  <2>2. Head(stack).node \in Node /\ Head(stack) # Null
    BY <2>1, NoNode DEF Items
  <2>3. destination = Null => current' # Null
    BY <2>1, <2>2 DEF Looked
  <2> QED
    BY <2>1, <2>3 DEF Looked
<1>6. CASE Returns
  <2>1. current # Null
    BY <1>6 DEF Returns, Executing
  <2>2. PICK outs \in SUBSET Nat : Finish(outs)
    BY <1>6 DEF Returns
  <2>3. Leaves /\ UNCHANGED <<wf, status, filter, destination>>
    BY <2>1, <2>2, FinishDoes
  <2>4. status # "success"
    BY <2>1 DEF Stops
  <2>5. destination = Null => current.node # destination
    BY <2>1, RunIndexIs, NoNode
  <2>6. ASSUME destination = Null, stack' = <<>>, NEW i \in DOMAIN waiting'
        PROVE  ~Ready(waiting', i)
    <3>1. ASSUME NEW q, Released(q, [s |-> stack', w |-> waiting'])
          PROVE  FALSE
      BY <3>1, <2>6 DEF Released
    <3> QED
      BY <3>1, <2>3, <2>5, <2>6 DEF Leaves
  <2>7. \A w, i : Ready(w, i)' = Ready(w, i)
    BY <2>3, SameWorkflow
  <2> QED
    BY <2>3, <2>4, <2>6, <2>7 DEF Looked
<1>7. CASE RunRequests
  <2>1. PICK x \in Items, calls \in Seq(Task) : Called(stack', stack, x, calls)
    BY <1>7, RequestsDoes
  <2>2. current # Null /\ UNCHANGED <<wf, status, filter, destination>>
    BY <1>7, RequestsDoes
  <2>3. stack' # <<>>
    <3>1. Len(stack') = Len(calls) + 1 + Len(stack) /\ Len(calls) \in Nat /\ Len(stack) \in Nat
      BY <2>1, StackKnown, HowLong DEF Called
    <3>2. Len(stack') # 0
      BY <3>1
    <3> QED
      BY <3>2
  <2>4. status # "success"
    BY <2>2 DEF Stops
  <2> QED
    BY <2>2, <2>3, <2>4 DEF Looked
<1>8. CASE Resume
  <2>1. /\ status = "waiting" /\ status' = "running" /\ Len(stack') = Len(stack)
        /\ UNCHANGED <<wf, waiting, current, filter, destination>>
    BY <1>8, ResumeDoes
  <2>2. stack' # <<>>
    <3>1. Len(stack) # 0
      BY <2>1, StackKnown, HowLong DEF Stops
    <3> QED
      BY <3>1, <2>1
  <2> QED
    BY <2>1, <2>2 DEF Looked
<1> QED
  BY <1>1, <1>2, <1>3, <1>4, <1>5, <1>6, <1>7, <1>8, StepKinds

(* There is something to execute initially.                                *)
LEMMA InitLooked ==
  ASSUME Init
  PROVE  Looked
<1>1. /\ stack = <<Item(wf.trigger, <<Trigger>>)>> /\ status = "running"
      /\ filter = IF destination = Null THEN Node ELSE ParentNodes(destination) \cup {destination}
  BY DEF Init
<1>2. stack # <<>>
  <2>1. PICK x : x = Item(wf.trigger, <<Trigger>>)
    OBVIOUS
  <2> QED
    BY <1>1, <2>1
<1> QED
  BY <1>1, <1>2 DEF Looked

(* What is before a node that is before n is before n.                     *)
LEMMA ParentsOfParents ==
  ASSUME wf \in Workflows, NEW n \in Node, NEW m \in ParentNodes(n) \cup {n}
  PROVE  m \in Node /\ ParentNodes(m) \subseteq ParentNodes(n) \cup {n}
<1> DEFINE S == ParentNodes(n) \cup {n}
<1>1. S \subseteq Node /\ Closed(S)
  BY ParentsAreClosure
<1> HIDE DEF S
<1>2. m \in S /\ m \in Node
  BY <1>1 DEF S
<1> QED
  BY <1>1, <1>2, ParentsAreClosure DEF S

(* The nodes before a node have a smaller depth.                           *)
LEMMA ParentsAreBefore ==
  ASSUME wf \in Workflows, NEW n \in Node, NEW depth \in [Node -> Nat],
         \A c \in MainConns : depth[c.from] < depth[c.to]
  PROVE  \A m \in ParentNodes(n) : depth[m] < depth[n]
<1> DEFINE S == {m \in Node : m = n \/ depth[m] < depth[n]}
<1>1. Closed(S)
  <2> SUFFICES ASSUME NEW c \in MainConns, c.to \in S PROVE c.from \in S
    BY DEF Closed
  <2>1. c.from \in Node /\ c.to \in Node
    BY Connections DEF Connection
  <2>2. depth[c.from] \in Nat /\ depth[c.to] \in Nat /\ depth[n] \in Nat /\ depth[c.from] < depth[c.to]
    BY <2>1
  <2>3. c.to = n \/ depth[c.to] < depth[n]
    OBVIOUS
  <2>4. depth[c.from] < depth[n]
    BY <2>2, <2>3
  <2> QED
    BY <2>1, <2>4
<1>2. n \in S
  OBVIOUS
<1> HIDE DEF S
<1>3. ParentNodes(n) \subseteq S
  BY <1>1, <1>2, ParentsAreClosure
<1> QED
  BY <1>3 DEF ParentNodes, S

(* Of the nodes that wait, among those before n and n itself, the one      *)
(* with the least depth would be ready.                                    *)
LEMMA LookedStrandsNothing ==
  ASSUME Typed, Looked
  PROVE  Forward => NothingStranded
<1> SUFFICES ASSUME Forward, status = "success", destination = Null, NEW n \in WaitingNodes,
                    (ParentNodes(n) \cup {n}) \cap wf.requiring = {}
             PROVE  FALSE
  BY DEF NothingStranded
<1>1. PICK depth \in [Node -> Nat] : \A c \in MainConns : depth[c.from] < depth[c.to]
  BY DEF Forward
<1>2. \A i \in DOMAIN waiting : ~Ready(waiting, i)
  BY DEF Looked, Forward
<1>3. wf \in Workflows /\ WaitingNodes \subseteq Node /\ n \in Node
  BY DEF Typed, WaitingNodes, Waits
<1> DEFINE S == {m \in WaitingNodes : m \in ParentNodes(n) \cup {n}}
<1>4. S \subseteq Node /\ n \in S
  BY <1>3
<1>5. PICK m \in S : \A k \in S : depth[m] <= depth[k]
  <2> DEFINE D == {depth[k] : k \in S}
  <2>1. D \in SUBSET Nat /\ D # {}
    BY <1>4
  <2> HIDE DEF D, S
  <2>2. PICK d \in D : \A k \in D : d <= k
    BY <2>1, LeastNatural
  <2> QED
    BY <2>2 DEF D
<1>6. PICK i \in DOMAIN waiting : waiting[i].node = m
  BY DEF WaitingNodes
<1>7. m \notin wf.requiring
  OBVIOUS
<1>8. PICK k \in ParentNodes(m) : k \in WaitingNodes
  BY <1>2, <1>6, <1>7 DEF Ready, WaitingNodes
<1>9. m \in Node /\ ParentNodes(m) \subseteq ParentNodes(n) \cup {n}
  BY <1>3, ParentsOfParents
<1>10. k \in S
  BY <1>8, <1>9
<1>11. depth[k] < depth[m]
  BY <1>1, <1>3, <1>8, <1>9, ParentsAreBefore
<1>12. depth[k] \in Nat /\ depth[m] \in Nat
  BY <1>4, <1>10
<1> QED
  BY <1>5, <1>10, <1>11, <1>12

(* NothingStranded holds in every state if the connections go forwards     *)
(* and no node returns null: no execution succeeds with data left          *)
(* waiting, except where a node requires all its inputs. In a cycle two    *)
(* nodes that wait can wait for each other, and a branch that ends with    *)
(* null is left without a look at what waits.                              *)
THEOREM ForwardStrandsNothing == Spec => [](Forward => NothingStranded)
<1> DEFINE I == Typed /\ Stops /\ Given(stack, current) /\ Looked
<1>1. Init => I
  BY InitTyped, InitGiven, InitLooked
<1>2. I /\ [Next]_vars => I'
  <2> SUFFICES ASSUME Typed, Stops, Given(stack, current), Looked, [Next]_vars
               PROVE  I'
    OBVIOUS
  <2>1. Given(stack, current)'
    BY StepGiven DEF Given
  <2> QED
    BY <2>1, StepTyped, StepLooked
<1>3. I => (Forward => NothingStranded)
  BY LookedStrandsNothing
<1> HIDE DEF I
<1> QED
  BY <1>1, <1>2, <1>3, PTL DEF Spec

-----------------------------------------------------------------------------
(* The calls of an item are answered                                       *)

(* The run that a call t is to have is recorded in data, and has not failed*)
Place(t, data) ==
  /\ t \in Task /\ t.node \in Tools /\ t.run < Len(data[t.node])
  /\ data[t.node][t.run + 1].state # "error"

Answered(t, data) == t.node \in wf.ends \/ data[t.node][t.run + 1].state = "success"

(* The item of the call t                                                  *)
For(x, t) == x.node = t.node /\ x.run = t.run

(* Every call of the executed item c is answered, every call of an item of *)
(* the stack s too or its item is executed or above on the stack.          *)
Answers(s, c, data) ==
  /\ c # Null => \A j \in 1..Len(c.calls) : Place(c.calls[j], data) /\ Answered(c.calls[j], data)
  /\ \A i \in 1..Len(s) : \A j \in 1..Len(s[i].calls) :
       /\ Place(s[i].calls[j], data)
       /\ \/ Answered(s[i].calls[j], data)
          \/ \E k \in 1..Len(s) : k < i /\ For(s[k], s[i].calls[j])
          \/ c # Null /\ For(c, s[i].calls[j])

(* Tools do not put the execution to wait, and are not left out.           *)
ToolsReturn == destination = Null /\ wf.waits \cap Tools = {}

(* The node that put the execution to wait is the next one.                *)
WaiterOnTop == status = "waiting" => Head(stack).node \in wf.waits

(* The calls keep their place in runData, and their answers.               *)
Keeps(old, new) ==
  \A t \in Task : Place(t, old) => Place(t, new) /\ (Answered(t, old) => Answered(t, new))

(* Answers is about the workflow and these three variables only.           *)
LEMMA AnswersStays ==
  ASSUME UNCHANGED wf, Answers(stack', current', runData')
  PROVE  Answers(stack, current, runData)'
<1>1. Tools' = Tools /\ wf'.ends = wf.ends
  BY SameWorkflow
<1>2. \A t, data : /\ Place(t, data)' = Place(t, data)
                   /\ Answered(t, data)' = Answered(t, data)
  BY <1>1 DEF Place, Answered
<1> QED
  BY <1>2 DEF Answers, For

(* Tools are nodes of the workflow.                                        *)
LEMMA ToolsAreNodes ==
  ASSUME wf \in Workflows
  PROVE  Tools \subseteq Node
<1>1. \A n \in DOMAIN wf.tools : wf.tools[n] \in Seq(Node)
  BY TheWorkflow DEF IsWorkflow
<1>2. \A n \in DOMAIN wf.tools : ToSet(wf.tools[n]) \subseteq Node
  BY <1>1, SetOf
<1> QED
  BY <1>2 DEF Tools, ToolsOf

(* Runs that are added or succeed leave the calls their place.             *)
LEMMA LongerKeeps ==
  ASSUME Typed, NEW data, data \in [Node -> Seq(TaskData)],
         \A n \in Node : Len(data[n]) >= Len(runData[n]),
         \A n \in Node : \A i \in 1..Len(runData[n]) :
           data[n][i] = runData[n][i] \/ data[n][i].state = "success"
  PROVE  Keeps(runData, data)
<1> SUFFICES ASSUME NEW t \in Task, Place(t, runData)
             PROVE  Place(t, data) /\ (Answered(t, runData) => Answered(t, data))
  BY DEF Keeps
<1>1. PICK n \in Node : n = t.node /\ n \in Tools
  BY ToolsAreNodes DEF Place, Typed
<1>2. PICK r \in Nat : r = t.run
  BY DEF Task
<1>3. r < Len(runData[n]) /\ runData[n][r + 1].state # "error"
  BY <1>1, <1>2 DEF Place
<1>4. Len(runData[n]) \in Nat /\ Len(data[n]) \in Nat /\ Len(data[n]) >= Len(runData[n])
  BY HowLong DEF Typed
<1>5. r + 1 \in 1..Len(runData[n]) /\ r < Len(data[n])
  BY <1>2, <1>3, <1>4
<1>6. data[n][r + 1] = runData[n][r + 1] \/ data[n][r + 1].state = "success"
  BY <1>5
<1> QED
  BY <1>1, <1>2, <1>3, <1>5, <1>6 DEF Place, Answered

(* Without a node's last run the calls keep theirs, if it is no tool or the*)
(* run has failed.                                                         *)
LEMMA ShorterKeeps ==
  ASSUME Typed, NEW n \in Node,
         n \notin Tools \/ Last(runData[n]).state = "error",
         NEW data, data = [runData EXCEPT ![n] = Front(@)]
  PROVE  Keeps(runData, data)
<1> SUFFICES ASSUME NEW t \in Task, Place(t, runData)
             PROVE  Place(t, data) /\ (Answered(t, runData) => Answered(t, data))
  BY DEF Keeps
<1>1. PICK m \in Node : m = t.node /\ m \in Tools
  BY ToolsAreNodes DEF Place, Typed
<1>2. PICK r \in Nat : r = t.run
  BY DEF Task
<1>3. runData \in [Node -> Seq(TaskData)]
  BY DEF Typed
<1>4. CASE m # n
  <2>1. data[m] = runData[m]
    BY <1>3, <1>4
  <2> QED
    BY <1>1, <2>1 DEF Place, Answered
<1>5. CASE m = n
  <2>1. PICK runs \in Seq(TaskData) : runs = runData[n] /\ Len(runs) \in Nat
    BY <1>3, HowLong
  <2>2. data[m] = Front(runs)
    BY <1>3, <1>5, <2>1
  <2>3. r < Len(runs) /\ runs[r + 1].state # "error"
    BY <1>1, <1>2, <1>5, <2>1 DEF Place
  <2>4. Last(runs) = runs[Len(runs)] /\ Last(runs).state = "error"
    BY <1>1, <1>5, <2>1 DEF Last
  <2>5. r + 1 # Len(runs)
    BY <2>3, <2>4
  <2>6. runs # <<>>
    BY <2>3, HowLong
  <2>7. Len(Front(runs)) = Len(runs) - 1
    BY <2>6, OneLess
  <2>8. r < Len(Front(runs)) /\ r + 1 \in 1..Len(Front(runs))
    BY <2>1, <2>3, <2>5, <2>7
  <2>9. Front(runs)[r + 1] = runs[r + 1]
    BY <2>8, OneLess
  <2> QED
    BY <1>1, <1>2, <1>5, <2>1, <2>2, <2>3, <2>8, <2>9 DEF Place, Answered
<1> QED
  BY <1>4, <1>5

(* The calls of an item, by their index                                    *)
LEMMA CallsKnown ==
  ASSUME NEW x \in Items
  PROVE  Len(x.calls) \in Nat /\ DOMAIN x.calls = 1..Len(x.calls) /\ \A j \in 1..Len(x.calls) : x.calls[j] \in Task
<1>1. x.calls \in Seq(Task)
  BY DEF Items
<1> QED
  BY <1>1, HowLong

(* The calls that are answered stay answered, and every other still has    *)
(* its item above.                                                         *)
LEMMA ShiftAnswers ==
  ASSUME Typed, Looked, destination = Null, Answers(stack, current, runData), Shift
  PROVE  Answers(stack, current, runData)'
<1>1. /\ Head(stack) \in Items /\ Len(stack) = Len(stack') + 1 /\ Len(stack') \in Nat
      /\ stack[1] = Head(stack) /\ current = Null
      /\ \A i \in DOMAIN stack' : i + 1 \in DOMAIN stack /\ stack'[i] = stack[i + 1]
      /\ \/ Head(stack).node \in filter /\ current' = Head(stack)
         \/ Head(stack).node \notin filter /\ current' = Null
      /\ UNCHANGED <<wf, runData>> /\ Typed'
  BY ShiftDoes
<1>2. current' = stack[1]
  BY <1>1 DEF Looked, Items
<1>3. PICK s \in Seq(Items) : s = stack' /\ DOMAIN s = 1..Len(s) /\ Len(stack) = Len(s) + 1 /\ Len(s) \in Nat
  BY <1>1, HowLong DEF Typed
<1>4. \A i \in 1..Len(s) : i + 1 \in 1..Len(stack) /\ s[i] = stack[i + 1]
  BY <1>1, <1>3
<1>5. \A i \in 1..Len(stack) : \A j \in 1..Len(stack[i].calls) :
       /\ Place(stack[i].calls[j], runData)
       /\ \/ Answered(stack[i].calls[j], runData)
          \/ \E k \in 1..Len(stack) : k < i /\ For(stack[k], stack[i].calls[j])
  BY <1>1 DEF Answers
<1>6. PICK c : c = stack[1] /\ c \in Items /\ c # Null
  BY <1>1, NoNode
<1>7. \A j \in 1..Len(c.calls) : Place(c.calls[j], runData) /\ Answered(c.calls[j], runData)
  <2>1. 1 \in 1..Len(stack) /\ \A k \in 1..Len(stack) : ~(k < 1)
    BY <1>3
  <2> QED
    BY <2>1, <1>5, <1>6
<1>8. ASSUME NEW i \in 1..Len(s), NEW j \in 1..Len(s[i].calls)
      PROVE  /\ Place(s[i].calls[j], runData)
             /\ \/ Answered(s[i].calls[j], runData)
                \/ \E k \in 1..Len(s) : k < i /\ For(s[k], s[i].calls[j])
                \/ For(c, s[i].calls[j])
  <2>1. PICK p \in 1..Len(stack) : p = i + 1 /\ s[i] = stack[p]
    BY <1>4
  <2>2. PICK t : t = s[i].calls[j]
    OBVIOUS
  <2>3. /\ Place(t, runData)
        /\ Answered(t, runData) \/ \E k \in 1..Len(stack) : k < p /\ For(stack[k], t)
    BY <1>5, <2>1, <2>2
  <2>4. ASSUME NEW k \in 1..Len(stack), k < p, For(stack[k], t)
        PROVE  (\E l \in 1..Len(s) : l < i /\ For(s[l], t)) \/ For(c, t)
    <3>1. CASE k = 1
      BY <3>1, <2>4, <1>6
    <3>2. CASE k # 1
      <4>1. k - 1 \in 1..Len(s) /\ k - 1 < i /\ (k - 1) + 1 = k
        BY <3>2, <2>1, <2>4, <1>3
      <4>2. s[k - 1] = stack[k]
        BY <4>1, <1>4
      <4> QED
        BY <4>1, <4>2, <2>4
    <3> QED
      BY <3>1, <3>2
  <2> QED
    BY <2>2, <2>3, <2>4
<1>9. Answers(s, c, runData)
  BY <1>6, <1>7, <1>8 DEF Answers
<1> QED
  BY <1>1, <1>2, <1>3, <1>6, <1>9, AnswersStays

(* Some items without calls have come to lie on the stack, and the call of *)
(* the executed item, if it is one, is answered.                           *)
LEMMA DoneAnswers ==
  ASSUME Typed, Answers(stack, current, runData), NEW data, Keeps(runData, data),
         current # Null => \A t \in Task : Place(t, runData) /\ For(current, t) => Answered(t, data),
         NEW added \in Seq(Items), \A i \in 1..Len(added) : added[i].calls = <<>>
  PROVE  Answers(added \o stack, Null, data)
<1>1. PICK s : s = added \o stack
  OBVIOUS
<1>2. PICK m \in Nat : m = Len(added)
  BY HowLong
<1>3. /\ Len(s) = m + Len(stack) /\ Len(stack) \in Nat
      /\ \A i \in 1..Len(s) : s[i] = IF i <= m THEN added[i] ELSE stack[i - m]
  BY <1>1, <1>2, StackKnown, ConcatProperties
<1>4. ASSUME NEW i \in 1..Len(s), NEW j \in 1..Len(s[i].calls)
      PROVE  /\ Place(s[i].calls[j], data)
             /\ \/ Answered(s[i].calls[j], data)
                \/ \E k \in 1..Len(s) : k < i /\ For(s[k], s[i].calls[j])
  <2>1. CASE i <= m
    <3>1. i \in 1..Len(added) /\ s[i] = added[i]
      BY <2>1, <1>2, <1>3
    <3>2. s[i].calls = <<>>
      BY <3>1
    <3> QED
      BY <3>2, <1>4
  <2>2. CASE ~(i <= m)
    <3>1. PICK p \in 1..Len(stack) : p = i - m /\ s[i] = stack[p]
      <4>1. i - m \in 1..Len(stack)
        BY <2>2, <1>3
      <4> QED
        BY <4>1, <2>2, <1>3
    <3>2. PICK t \in Task : t = s[i].calls[j]
      BY <3>1, StackKnown, CallsKnown
    <3>3. /\ Place(t, runData)
          /\ \/ Answered(t, runData)
             \/ \E k \in 1..Len(stack) : k < p /\ For(stack[k], t)
             \/ current # Null /\ For(current, t)
      BY <3>1, <3>2 DEF Answers
    <3>4. Place(t, data) /\ (Answered(t, runData) => Answered(t, data))
      BY <3>3 DEF Keeps
    <3>5. ASSUME NEW k \in 1..Len(stack), k < p, For(stack[k], t)
          PROVE  \E l \in 1..Len(s) : l < i /\ For(s[l], t)
      <4>1. m + k \in 1..Len(s) /\ m + k < i /\ ~(m + k <= m) /\ (m + k) - m = k
        BY <3>1, <3>5, <1>3
      <4>2. s[m + k] = stack[k]
        BY <4>1, <1>3
      <4> QED
        BY <4>1, <4>2, <3>5
    <3> QED
      BY <3>2, <3>3, <3>4, <3>5
  <2> QED
    BY <2>1, <2>2
<1> QED
  BY <1>1, <1>4 DEF Answers

(* The executed item is put back on the stack.                             *)
LEMMA PutBackAnswers ==
  ASSUME Typed, Answers(stack, current, runData), current # Null, NEW data, Keeps(runData, data)
  PROVE  Answers(<<current>> \o stack, Null, data)
<1>1. PICK s : s = <<current>> \o stack
  OBVIOUS
<1>2. current \in Items /\ stack \in Seq(Items) /\ Len(stack) \in Nat
  BY StackKnown, PutBack
<1>3. Len(s) = Len(stack) + 1 /\ s[1] = current /\ \A i \in 1..Len(stack) : s[i + 1] = stack[i]
  BY <1>1, <1>2
<1>4. ASSUME NEW i \in 1..Len(s), NEW j \in 1..Len(s[i].calls)
      PROVE  /\ Place(s[i].calls[j], data)
             /\ \/ Answered(s[i].calls[j], data)
                \/ \E k \in 1..Len(s) : k < i /\ For(s[k], s[i].calls[j])
  <2>1. CASE i = 1
    <3>1. PICK t \in Task : t = s[i].calls[j]
      BY <2>1, <1>2, <1>3, CallsKnown
    <3>2. Place(t, runData) /\ Answered(t, runData)
      BY <2>1, <3>1, <1>3 DEF Answers
    <3> QED
      BY <3>1, <3>2 DEF Keeps
  <2>2. CASE i # 1
    <3>1. PICK p \in 1..Len(stack) : i = p + 1 /\ s[i] = stack[p]
      <4>1. i - 1 \in 1..Len(stack) /\ i = (i - 1) + 1
        BY <2>2, <1>2, <1>3
      <4> QED
        BY <4>1, <1>3
    <3>2. PICK t \in Task : t = s[i].calls[j]
      BY <3>1, StackKnown, CallsKnown
    <3>3. /\ Place(t, runData)
          /\ \/ Answered(t, runData)
             \/ \E k \in 1..Len(stack) : k < p /\ For(stack[k], t)
             \/ For(current, t)
      BY <3>1, <3>2 DEF Answers
    <3>4. Place(t, data) /\ (Answered(t, runData) => Answered(t, data))
      BY <3>3 DEF Keeps
    <3>5. ASSUME NEW k \in 1..Len(stack), k < p, For(stack[k], t)
          PROVE  \E l \in 1..Len(s) : l < i /\ For(s[l], t)
      <4>1. k + 1 \in 1..Len(s) /\ k + 1 < i /\ s[k + 1] = stack[k]
        BY <3>1, <3>5, <1>2, <1>3
      <4> QED
        BY <4>1, <3>5
    <3>6. For(current, t) => \E l \in 1..Len(s) : l < i /\ For(s[l], t)
      <4>1. 1 \in 1..Len(s) /\ 1 < i /\ s[1] = current
        BY <3>1, <1>2, <1>3
      <4> QED
        BY <4>1
    <3> QED
      BY <3>2, <3>3, <3>4, <3>5, <3>6
  <2> QED
    BY <2>1, <2>2
<1> QED
  BY <1>1, <1>4 DEF Answers

(* The executed item returns: if it is a call it is answered.              *)
LEMMA ReturnsAnswers ==
  ASSUME Typed, Answers(stack, current, runData), Returns
  PROVE  Answers(stack, current, runData)'
<1>1. PICK outs \in SUBSET Nat : Finish(outs)
  BY DEF Returns
<1>2. current # Null
  BY DEF Returns, Executing
<1>3. Leaves /\ current' = Null /\ runData' = Record(outs) /\ UNCHANGED wf
  BY <1>1, <1>2, FinishDoes
<1>4. PICK data : data = runData'
  OBVIOUS
<1>5. /\ data \in [Node -> Seq(TaskData)]
      /\ \A n \in Node : Len(data[n]) >= Len(runData[n])
      /\ \A n \in Node : \A i \in 1..Len(runData[n]) :
           data[n][i] = runData[n][i] \/ data[n][i].state = "success"
      /\ RunIndex < Len(runData[current.node]) => data[current.node][RunIndex + 1].state = "success"
  BY <1>2, <1>3, <1>4, RecordDoes
<1>6. Keeps(runData, data)
  BY <1>5, LongerKeeps
<1>7. \A t \in Task : Place(t, runData) /\ For(current, t) => Answered(t, data)
  <2> SUFFICES ASSUME NEW t \in Task, Place(t, runData), For(current, t) PROVE Answered(t, data)
    OBVIOUS
  <2>1. t.run \in Nat /\ t.run # Null
    BY EngineAssumption DEF EngineAssumption, Task
  <2>2. RunIndex = t.run /\ t.node = current.node
    BY <2>1 DEF For, RunIndex
  <2> QED
    BY <2>2, <1>5 DEF Place, Answered
<1>8. ASSUME NEW added \in Seq(Items), \A i \in 1..Len(added) : added[i].calls = <<>>,
             stack' = added \o stack
      PROVE  Answers(stack, current, runData)'
  <2>1. Answers(added \o stack, Null, data)
    BY <1>6, <1>7, <1>8, DoneAnswers
  <2> QED
    BY <2>1, <1>3, <1>4, <1>8, AnswersStays
<1>9. CASE UNCHANGED <<stack, waiting>>
  <2>1. <<>> \in Seq(Items) /\ stack' = <<>> \o stack /\ Len(<<>>) = 0
    BY <1>9, StackKnown, EmptyList, ConcatEmptySeq
  <2>2. \A i \in 1..Len(<<>>) : <<>>[i].calls = <<>>
    BY <2>1
  <2> QED
    BY <2>1, <2>2, <1>8
<1>10. ASSUME NEW q \in Grown(stack), stack' = q.s
       PROVE  Answers(stack, current, runData)'
  <2>1. PICK added \in Seq(Fresh) : q.s = added \o stack
    BY DEF Grown
  <2>2. Fresh \subseteq Items /\ \A x \in Fresh : x.calls = <<>>
    BY DEF Fresh
  <2>3. added \in Seq(Items) /\ \A i \in 1..Len(added) : added[i] \in Fresh
    BY <2>2, SeqMonotonic, HowLong
  <2> QED
    BY <1>10, <2>1, <2>2, <2>3, <1>8
<1>11. ASSUME NEW q, Released(q, [s |-> stack', w |-> waiting'])
       PROVE  Answers(stack, current, runData)'
  <2>1. PICK x \in Items : stack' = <<x>> /\ x.calls = <<>>
    BY <1>11 DEF Released
  <2>2. Len(<<x>>) = 1 /\ <<x>>[1] = x /\ Len(<<>>) = 0
    OBVIOUS
  <2>3. Answers(<<x>>, Null, data)
    BY <2>1, <2>2 DEF Answers
  <2> QED
    BY <2>1, <2>3, <1>3, <1>4, AnswersStays
<1> QED
  BY <1>3, <1>9, <1>10, <1>11 DEF Leaves

(* New calls have their items above the agent; if the agent is itself      *)
(* the item of a call, its new item is.                                    *)
LEMMA RequestsAnswers ==
  ASSUME Typed, Answers(stack, current, runData), RunRequests
  PROVE  Answers(stack, current, runData)'
<1>1. PICK x \in Items, calls \in Seq(Task) :
              /\ Called(stack', stack, x, calls)
              /\ x.node = current.node /\ x.run = RunIndex
              /\ \A i \in 1..Len(calls) :
                   /\ calls[i].node \in Tools
                   /\ calls[i].run < Len(runData'[calls[i].node])
                   /\ Len(runData[calls[i].node]) <= calls[i].run
  BY RequestsDoes
<1>2. current # Null /\ current' = Null /\ UNCHANGED wf
  BY RequestsDoes
<1>3. PICK s : s = stack'
  OBVIOUS
<1>4. PICK m \in Nat : m = Len(calls)
  BY HowLong
<1>5. /\ Len(s) = m + 1 + Len(stack) /\ x.calls = calls /\ Len(stack) \in Nat
      /\ \A i \in 1..m : /\ s[i].node = calls[m + 1 - i].node /\ s[i].run = calls[m + 1 - i].run
                         /\ s[i].calls = <<>>
      /\ s[m + 1] = x /\ \A i \in 1..Len(stack) : s[m + 1 + i] = stack[i]
  BY <1>1, <1>3, <1>4, StackKnown DEF Called
<1>6. PICK data : data = runData'
  OBVIOUS
<1>7. /\ data \in [Node -> Seq(TaskData)]
      /\ \A n \in Node : Len(data[n]) >= Len(runData[n])
      /\ \A n \in Node : \A i \in 1..Len(runData[n]) : data[n][i] = runData[n][i]
      /\ \A n \in Node : \A i \in 1..Len(data[n]) :
           i > Len(runData[n]) => data[n][i].state = "called"
  BY <1>6, RequestsDoes DEF Typed
<1>8. Keeps(runData, data)
  BY <1>7, LongerKeeps
<1>9. \A j \in 1..m : Place(calls[j], data)
  <2> TAKE j \in 1..m
  <2>1. PICK t \in Task : t = calls[j]
    BY <1>4
  <2>2. t.node \in Tools /\ t.run < Len(data[t.node]) /\ Len(runData[t.node]) <= t.run
    BY <2>1, <1>1, <1>4, <1>6
  <2>3. PICK n \in Node : n = t.node
    BY DEF Task
  <2>4. PICK r \in Nat : r = t.run
    BY DEF Task
  <2>5. Len(data[n]) \in Nat /\ Len(runData[n]) \in Nat
    BY <1>7, HowLong DEF Typed
  <2>6. r + 1 \in 1..Len(data[n]) /\ r + 1 > Len(runData[n])
    BY <2>2, <2>3, <2>4, <2>5
  <2>7. data[n][r + 1].state = "called"
    BY <2>6, <1>7
  <2> QED
    BY <2>1, <2>2, <2>3, <2>4, <2>7 DEF Place
<1>10. ASSUME NEW i \in 1..Len(s), NEW j \in 1..Len(s[i].calls)
       PROVE  /\ Place(s[i].calls[j], data)
              /\ \/ Answered(s[i].calls[j], data)
                 \/ \E k \in 1..Len(s) : k < i /\ For(s[k], s[i].calls[j])
  <2>1. CASE i <= m
    <3>1. s[i].calls = <<>>
      BY <2>1, <1>5
    <3> QED
      BY <3>1, <1>10
  <2>2. CASE i = m + 1
    <3>1. s[i].calls = calls /\ j \in 1..m
      BY <2>2, <1>4, <1>5, <1>10
    <3>2. PICK k \in 1..m : k = m + 1 - j
      <4>1. m + 1 - j \in 1..m
        BY <3>1
      <4> QED
        BY <4>1
    <3>3. m + 1 - k = j /\ k \in 1..Len(s) /\ k < i
      BY <3>1, <3>2, <2>2, <1>5
    <3>4. s[k].node = calls[j].node /\ s[k].run = calls[j].run
      BY <3>2, <3>3, <1>5
    <3> QED
      BY <3>1, <3>3, <3>4, <1>9 DEF For
  <2>3. CASE i > m + 1
    <3>1. PICK p \in 1..Len(stack) : p = i - (m + 1)
      BY <2>3, <1>5
    <3>2. i = m + 1 + p /\ s[i] = stack[p]
      BY <3>1, <1>5
    <3>3. PICK t \in Task : t = s[i].calls[j]
      BY <3>2, StackKnown, CallsKnown
    <3>4. /\ Place(t, runData)
          /\ \/ Answered(t, runData)
             \/ \E k \in 1..Len(stack) : k < p /\ For(stack[k], t)
             \/ For(current, t)
      BY <3>2, <3>3 DEF Answers
    <3>5. Place(t, data) /\ (Answered(t, runData) => Answered(t, data))
      BY <3>4, <1>8 DEF Keeps
    <3>6. ASSUME NEW k \in 1..Len(stack), k < p, For(stack[k], t)
          PROVE  \E l \in 1..Len(s) : l < i /\ For(s[l], t)
      <4>1. m + 1 + k \in 1..Len(s) /\ m + 1 + k < i /\ s[m + 1 + k] = stack[k]
        BY <3>2, <3>6, <1>5
      <4> QED
        BY <4>1, <3>6
    <3>7. ASSUME For(current, t)
          PROVE  \E l \in 1..Len(s) : l < i /\ For(s[l], t)
      <4>1. t.run # Null
        BY EngineAssumption DEF EngineAssumption, Task
      <4>2. RunIndex = t.run /\ t.node = current.node
        BY <4>1, <3>7 DEF For, RunIndex
      <4>3. m + 1 \in 1..Len(s) /\ m + 1 < i /\ s[m + 1] = x
        BY <2>3, <1>5
      <4> QED
        BY <4>2, <4>3, <1>1 DEF For
    <3> QED
      BY <3>3, <3>4, <3>5, <3>6, <3>7
  <2> QED
    BY <2>1, <2>2, <2>3
<1>11. Answers(s, Null, data)
  BY <1>10 DEF Answers
<1> QED
  BY <1>2, <1>3, <1>6, <1>11, AnswersStays

(* The run that is removed is that of a node which waited, no tool's.      *)
LEMMA ResumeAnswers ==
  ASSUME Typed, Stops, WaiterOnTop, ToolsReturn, Answers(stack, current, runData), Resume
  PROVE  Answers(stack, current, runData)'
<1>1. /\ Len(stack') = Len(stack) /\ UNCHANGED <<wf, current>> /\ status = "waiting"
      /\ \A i \in DOMAIN stack : /\ stack'[i].node = stack[i].node /\ stack'[i].run = stack[i].run
                                 /\ stack'[i].calls = stack[i].calls
      /\ runData' = [runData EXCEPT ![Head(stack).node] = Front(@)]
  BY ResumeDoes
<1>2. PICK s : s = stack'
  OBVIOUS
<1>3. PICK data : data = runData'
  OBVIOUS
<1>4. /\ Len(s) = Len(stack)
      /\ \A i \in 1..Len(s) : s[i].node = stack[i].node /\ s[i].run = stack[i].run /\ s[i].calls = stack[i].calls
  BY <1>1, <1>2, StackKnown
<1>5. PICK n \in Node : n = Head(stack).node /\ n \notin Tools
  <2>1. stack # <<>>
    BY <1>1 DEF Stops
  <2>2. Head(stack) \in Items
    BY <2>1, StackKnown, HeadTailProperties
  <2>3. Head(stack).node \notin Tools
    BY <1>1 DEF WaiterOnTop, ToolsReturn
  <2> QED
    BY <2>2, <2>3 DEF Items
<1>6. Keeps(runData, data)
  BY <1>1, <1>3, <1>5, ShorterKeeps
<1>7. ASSUME current # Null
      PROVE  \A j \in 1..Len(current.calls) : Place(current.calls[j], data) /\ Answered(current.calls[j], data)
  <2>1. current \in Items
    BY <1>7 DEF Typed
  <2>2. \A j \in 1..Len(current.calls) : current.calls[j] \in Task
    BY <2>1, CallsKnown
  <2> QED
    BY <2>2, <1>6, <1>7 DEF Answers, Keeps
<1>8. ASSUME NEW i \in 1..Len(s), NEW j \in 1..Len(s[i].calls)
      PROVE  /\ Place(s[i].calls[j], data)
             /\ \/ Answered(s[i].calls[j], data)
                \/ \E k \in 1..Len(s) : k < i /\ For(s[k], s[i].calls[j])
                \/ current # Null /\ For(current, s[i].calls[j])
  <2>1. i \in 1..Len(stack) /\ s[i].calls = stack[i].calls /\ stack[i] \in Items
    BY <1>4, StackKnown
  <2>2. PICK t \in Task : t = s[i].calls[j] /\ t = stack[i].calls[j]
    BY <2>1, CallsKnown
  <2>3. /\ Place(t, runData)
        /\ \/ Answered(t, runData)
           \/ \E k \in 1..Len(stack) : k < i /\ For(stack[k], t)
           \/ current # Null /\ For(current, t)
    BY <2>1, <2>2 DEF Answers
  <2>4. \A k \in 1..Len(stack) : k \in 1..Len(s) /\ (For(stack[k], t) => For(s[k], t))
    BY <1>4 DEF For
  <2> QED
    BY <2>2, <2>3, <2>4, <1>6 DEF Keeps
<1>9. Answers(s, current, data)
  BY <1>7, <1>8 DEF Answers
<1> QED
  BY <1>1, <1>2, <1>3, <1>9, AnswersStays

(* The run that is removed has failed, no call has it as its place.        *)
LEMMA RetryAnswers ==
  ASSUME Typed, Stops, Answers(stack, current, runData), Retry
  PROVE  Answers(stack, current, runData)'
<1>1. /\ UNCHANGED <<wf, stack, current>> /\ status = "error"
      /\ runData' = IF Last(runData[Head(stack).node]).state = "error"
                    THEN [runData EXCEPT ![Head(stack).node] = Front(@)] ELSE runData
  BY RetryDoes
<1>2. CASE runData' = runData
  BY <1>1, <1>2, AnswersStays
<1>3. CASE runData' # runData
  <2>1. PICK data : data = runData'
    OBVIOUS
  <2>2. PICK n \in Node : n = Head(stack).node
    <3>1. stack # <<>>
      BY <1>1 DEF Stops
    <3>2. Head(stack) \in Items
      BY <3>1, StackKnown, HeadTailProperties
    <3> QED
      BY <3>2 DEF Items
  <2>3. Keeps(runData, data)
    BY <1>1, <1>3, <2>1, <2>2, ShorterKeeps
  <2>4. current = Null
    BY <1>1 DEF Stops
  <2>5. /\ <<>> \in Seq(Items) /\ <<>> \o stack = stack /\ \A i \in 1..Len(<<>>) : <<>>[i].calls = <<>>
    BY StackKnown, EmptyList, ConcatEmptySeq
  <2>6. Answers(<<>> \o stack, Null, data)
    BY <2>3, <2>4, <2>5, DoneAnswers
  <2> QED
    BY <1>1, <2>1, <2>4, <2>5, <2>6, AnswersStays
<1> QED
  BY <1>2, <1>3

(* A branch ends at a node that may return null: no answer is expected     *)
(* of it.                                                                  *)
LEMMA EndsAnswers ==
  ASSUME Typed, Given(stack, current), Answers(stack, current, runData), EndsBranch
  PROVE  Answers(stack, current, runData)'
<1>1. UNCHANGED <<wf, stack, runData>> /\ current # Null /\ current' = Null
  BY DEF EndsBranch, EndBranch, Executing
<1>2. current.main[1] # Null
  BY <1>1, FirstGiven DEF Typed, Given
<1>3. current.node \in wf.ends
  BY <1>2 DEF EndsBranch
<1>4. \A t \in Task : Place(t, runData) /\ For(current, t) => Answered(t, runData)
  BY <1>3 DEF For, Answered
<1>5. Keeps(runData, runData)
  BY DEF Keeps
<1>6. /\ <<>> \in Seq(Items) /\ <<>> \o stack = stack /\ \A i \in 1..Len(<<>>) : <<>>[i].calls = <<>>
  BY StackKnown, EmptyList, ConcatEmptySeq
<1>7. Answers(<<>> \o stack, Null, runData)
  BY <1>4, <1>5, <1>6, DoneAnswers
<1> QED
  BY <1>1, <1>6, <1>7, AnswersStays

(* Every step keeps Answers, if tools return.                              *)
LEMMA StepAnswers ==
  ASSUME Typed, Stops, Given(stack, current), Looked, WaiterOnTop, ToolsReturn,
         Answers(stack, current, runData), [Next]_vars
  PROVE  Answers(stack, current, runData)'
<1>1. CASE UNCHANGED vars \/ TriesAgain \/ Complete \/ Cancel
  <2>1. UNCHANGED <<wf, stack, current, runData>>
    BY <1>1 DEF vars, TriesAgain, Complete, Cancel
  <2> QED
    BY <2>1, AnswersStays
<1>2. CASE FailsForGood
  <2>1. /\ Typed' /\ stack' = <<current>> \o stack /\ current' = Null /\ UNCHANGED wf
        /\ \A n \in Node : Len(runData'[n]) >= Len(runData[n])
        /\ \A n \in Node : \A i \in 1..Len(runData[n]) : runData'[n][i] = runData[n][i]
    BY <1>2, FailsDoes
  <2>2. current # Null
    BY <1>2 DEF FailsForGood, Executes, Executing
  <2>3. PICK data \in [Node -> Seq(TaskData)] : data = runData'
    BY <2>1 DEF Typed
  <2>4. Keeps(runData, data)
    BY <2>1, <2>3, LongerKeeps
  <2>5. Answers(<<current>> \o stack, Null, data)
    BY <2>2, <2>4, PutBackAnswers
  <2> QED
    BY <2>1, <2>3, <2>5, AnswersStays
<1>3. CASE RunWaits
  <2>1. /\ stack' = <<current>> \o stack /\ current' = Null /\ UNCHANGED wf /\ runData' = Record(PassThrough)
    BY <1>3, WaitsDoes
  <2>2. current # Null
    BY <1>3 DEF RunWaits, Executes, Executing
  <2>3. PICK data : data = runData'
    OBVIOUS
  <2>4. /\ data \in [Node -> Seq(TaskData)]
        /\ \A n \in Node : Len(data[n]) >= Len(runData[n])
        /\ \A n \in Node : \A i \in 1..Len(runData[n]) :
             data[n][i] = runData[n][i] \/ data[n][i].state = "success"
    BY <2>1, <2>2, <2>3, RecordDoes, PassesOn
  <2>5. Keeps(runData, data)
    BY <2>4, LongerKeeps
  <2>6. Answers(<<current>> \o stack, Null, data)
    BY <2>2, <2>5, PutBackAnswers
  <2> QED
    BY <2>1, <2>3, <2>6, AnswersStays
<1>4. destination = Null
  BY DEF ToolsReturn
<1> QED
  BY <1>1, <1>2, <1>3, <1>4, StepKinds, ShiftAnswers, ReturnsAnswers, RequestsAnswers, ResumeAnswers,
     RetryAnswers, EndsAnswers

(* The workflow and the destination are chosen once.                       *)
LEMMA StepKeepsWorkflow ==
  ASSUME Typed, [Next]_vars
  PROVE  UNCHANGED <<wf, destination>>
<1>1. CASE Returns
  <2>1. PICK outs \in SUBSET Nat : Finish(outs)
    BY <1>1 DEF Returns
  <2> QED
    BY <2>1 DEF Finish
<1>2. CASE UNCHANGED vars
  BY <1>2 DEF vars
<1> QED
  BY <1>1, <1>2, StepKinds, ShiftDoes, QuietDoes, RequestsDoes, FailsDoes, WaitsDoes, ResumeDoes, RetryDoes

(* What waits lies on top of the stack.                                    *)
LEMMA StepWaiterOnTop ==
  ASSUME Typed, Stops, WaiterOnTop, [Next]_vars
  PROVE  WaiterOnTop'
<1>1. CASE RunWaits
  <2>1. /\ stack' = <<current>> \o stack /\ UNCHANGED wf /\ current # Null /\ current.node \in wf.waits
    BY <1>1, WaitsDoes DEF RunWaits, Executes, Executing
  <2> QED
    BY <2>1, PutBack DEF WaiterOnTop
<1>2. CASE EndsBranch \/ TriesAgain \/ Complete \/ Cancel
  BY <1>2 DEF EndsBranch, EndBranch, TriesAgain, Complete, Cancel, WaiterOnTop
<1>3. CASE UNCHANGED vars
  BY <1>3 DEF vars, WaiterOnTop
<1>4. CASE Shift
  BY <1>4, ShiftDoes DEF WaiterOnTop
<1>5. CASE FailsForGood \/ Returns \/ RunRequests
  <2>1. current # Null
    BY <1>5 DEF FailsForGood, Returns, Executes, Executing, RunRequests
  <2>2. status # "waiting"
    BY <2>1 DEF Stops
  <2>3. CASE FailsForGood
    BY <2>2, <2>3, FailsDoes DEF WaiterOnTop
  <2>4. CASE Returns
    <3>1. PICK outs \in SUBSET Nat : Finish(outs)
      BY <2>4 DEF Returns
    <3>2. status' = status
      BY <2>1, <3>1, FinishDoes
    <3> QED
      BY <2>2, <3>2 DEF WaiterOnTop
  <2>5. CASE RunRequests
    BY <2>2, <2>5, RequestsDoes DEF WaiterOnTop
  <2> QED
    BY <1>5, <2>3, <2>4, <2>5
<1>6. CASE Resume \/ Retry
  <2>1. status' = "running"
    BY <1>6, ResumeDoes, RetryDoes
  <2> QED
    BY <2>1 DEF WaiterOnTop
<1> QED
  BY <1>1, <1>2, <1>3, <1>4, <1>5, <1>6, StepKinds

(* Initially nothing is called.                                            *)
LEMMA InitAnswers ==
  ASSUME Init
  PROVE  WaiterOnTop /\ Answers(stack, current, runData)
<1>1. /\ stack = <<Item(wf.trigger, <<Trigger>>)>> /\ current = Null /\ status = "running"
  BY DEF Init
<1>2. Item(wf.trigger, <<Trigger>>).calls = <<>>
  BY DEF Item, ItemOf
<1>3. PICK x : x = Item(wf.trigger, <<Trigger>>) /\ x.calls = <<>>
  BY <1>2
<1>4. Len(stack) = 1 /\ stack[1] = x /\ Len(<<>>) = 0
  BY <1>1, <1>3
<1> QED
  BY <1>1, <1>3, <1>4 DEF WaiterOnTop, Answers

(* The executed item has its answers.                                      *)
LEMMA AnswersAreFound ==
  ASSUME Typed, Answers(stack, current, runData)
  PROVE  AnswersAreThere
<1> SUFFICES ASSUME current # Null, NEW i \in DOMAIN current.calls, current.calls[i].node \notin wf.ends
             PROVE  runData[current.calls[i].node][current.calls[i].run + 1].state = "success"
  BY DEF AnswersAreThere
<1>1. i \in 1..Len(current.calls)
  BY CallsKnown DEF Typed
<1> QED
  BY <1>1 DEF Answers, Answered

(* AnswersAreThere holds in every state if the whole workflow is           *)
(* executed and no tool puts it to wait: when handleRequest's agent        *)
(* resumes, each call has its answer in runData at the run that was        *)
(* recorded for it. Resuming removes the last run of a tool that waits,    *)
(* which may be the answer to another call, and with a destination the     *)
(* filter leaves tools out.                                                *)
THEOREM ToolsAnswer == Spec => [](ToolsReturn => AnswersAreThere)
<1> DEFINE A == Answers(stack, current, runData)
           I == /\ Typed /\ Stops /\ Given(stack, current) /\ Looked /\ WaiterOnTop
                /\ ToolsReturn => A
<1>1. Init => I
  BY InitTyped, InitGiven, InitLooked, InitAnswers
<1>2. I /\ [Next]_vars => I'
  <2> SUFFICES ASSUME Typed, Stops, Given(stack, current), Looked, WaiterOnTop, ToolsReturn => A, [Next]_vars
               PROVE  I'
    OBVIOUS
  <2>1. Given(stack, current)'
    BY StepGiven DEF Given
  <2>2. ToolsReturn' => ToolsReturn
    <3>1. UNCHANGED <<wf, destination>>
      BY StepKeepsWorkflow
    <3> QED
      BY <3>1, SameWorkflow DEF ToolsReturn
  <2>3. ToolsReturn => A'
    BY StepAnswers
  <2> QED
    BY <2>1, <2>2, <2>3, StepTyped, StepLooked, StepWaiterOnTop
<1>3. I => (ToolsReturn => AnswersAreThere)
  BY AnswersAreFound
<1> HIDE DEF I
<1> QED
  BY <1>1, <1>2, <1>3, PTL DEF Spec
=============================================================================
